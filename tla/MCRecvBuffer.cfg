SPECIFICATION FairSpec
CONSTANTS
  HeaderSize = 2
  BufferSize = 6
  BufferCount = 3
  StreamBound = 24
  Streams <- MCStreams
INVARIANTS IndInv
PROPERTIES FramesPackets AllArrive
CHECK_DEADLOCK FALSE
