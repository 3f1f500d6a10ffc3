CONSTANTS
  Callers = {c1}
  Main = main
  NoThread = none
  ImageLen = 4
  DataOffset = 1
  DataLen = 2
  MaxTransfer = 2
  Lbas = {0, 1, 2}
  Counts = {1, 2}
  Vals = {v1, v2}
  Noise = noise
  Raw = raw
  Torn = torn
SPECIFICATION Spec
PROPERTIES FailedWriteFaults
