SPECIFICATION SSpec
CONSTANTS
  Sectors = {0}
  Vals = {0, 1}
  Noise = Noise
  NoVal = NoVal
  NoReq = NoReq
  NoReply = NoReply
INVARIANTS OkIsDurable OkIsQuiet
