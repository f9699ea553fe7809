CONSTANTS
  None = None
  NUM_USB_BUFFERS = 3
  CDC_RX_SIZE = 1
  CDC_TX_SIZE = 2
  MaxConfigs = 1
  MaxSize = 1
  TX_PACKET_LIMIT = 1
  TX_TIMEOUT = 1
  TRANSMIT_FLUSH_TIMEOUT = 2
  Programs = {{"getchar","write","write_buffer_free"}}
SPECIFICATION Spec
INVARIANTS TypeOK ExclusiveOwner MainThreadHolds
PROPERTY CountBrokenOnlyAtMiss
