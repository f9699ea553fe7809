CONSTANTS
  None = None
  NUM_USB_BUFFERS = 3
  CDC_RX_SIZE = 1
  CDC_TX_SIZE = 2
  MaxConfigs = 1
  MaxSize = 2
  TX_PACKET_LIMIT = 1
  TX_TIMEOUT = 1
  TRANSMIT_FLUSH_TIMEOUT = 2
  Programs = {{"write","flush_output"}, {"write","write_buffer_free"},
              {"getchar","peekchar","flush_output"}}
SPECIFICATION ReaderSpec
PROPERTIES PartialPacketSentUnlessSwallowed StarvingEndsUnlessForgotten
\* a host may leave the device unconfigured for good
CHECK_DEADLOCK FALSE
