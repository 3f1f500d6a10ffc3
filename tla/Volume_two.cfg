CONSTANTS
  Callers = {c1, c2}
  Main = main
  NoThread = none
  ImageLen = 4
  DataOffset = 1
  DataLen = 2
  MaxTransfer = 2
  Lbas = {0, 1}
  Counts = {1}
  Vals = {v1, v2}
  Noise = noise
  Raw = raw
  Torn = torn
SPECIFICATION Spec
SYMMETRY Symmetry
PROPERTIES NoIoAfterFailure ImplementsDisk
