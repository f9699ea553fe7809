CONSTANTS
  SERIAL1_TX_BUFFER_SIZE = 3
  SERIAL1_RX_BUFFER_SIZE = 3
  Bytes = {x, y}
  Programs = {{"putchar", "flush", "end", "begin"}, {"getchar", "clear", "end", "begin"}}
SPECIFICATION Spec
INVARIANT TypeOK
PROPERTIES FallOnlyWhenSent CallsReturn BytesInOrder
CHECK_DEADLOCK FALSE
