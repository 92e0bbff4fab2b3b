SPECIFICATION Spec
CONSTANTS
  NULL = NULL
  BUF_SIZE = 14
  TX_DEPTH = 2
  RX_DEPTH = 2
  MAX_TYPED = 2
  Keys = {"\r", "k"}
  Boots <- MCBoots
  InitUarts <- MCInitUarts
INVARIANTS
  TypeOK
  BufferFormatted
  WireFaithful
PROPERTIES
  OutputDelivered
  EchoDrains
\* kmain ends in hcf's hlt loop or in the echo loop waiting for a key.
CHECK_DEADLOCK FALSE
