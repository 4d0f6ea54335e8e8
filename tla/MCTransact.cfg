SPECIFICATION Spec
CONSTANTS
  Bytes = {0, 1, 2}
  NoByte = NoByte
  Modulus = 3
  HeadUp = 2
  Code = 1
  MaxFrame = 5
  ScanFrames = 3
  DataLens = {1, 2}
  PayloadLens = {0, 1, 2}
  MaxReceived = 11
INVARIANTS TypeOK WithinBuffer BufferHoldsLine FirstReply NoReplyMissed
