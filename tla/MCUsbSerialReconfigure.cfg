CONSTANTS
  None = None
  NUM_USB_BUFFERS = 3
  CDC_RX_SIZE = 2
  CDC_TX_SIZE = 2
  MaxConfigs = 2
  MaxSize = 1
  TX_PACKET_LIMIT = 1
  TX_TIMEOUT = 1
  TRANSMIT_FLUSH_TIMEOUT = 2
  Programs = {{"read","flush_output"},{"flush_input"}}
SPECIFICATION Spec
INVARIANTS TxStateMatchesBanks TokensNameArmedBanks ByteCountIsQueued ClosedFormMatchesLoops
PROPERTIES FifoPipes LostOnlyByStarvedConfiguration PhaseLostOnlyWhenCutOff
\* a host may leave the device unconfigured for good
CHECK_DEADLOCK FALSE
