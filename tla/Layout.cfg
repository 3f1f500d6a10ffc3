CONSTANTS
  Word = 1073741824
  ImageLens = {296448, 1345536}
  HdrSizes = {16384}
  Numbers = {0, 511, 512, 32768, 131072, 163840, 262144, 294912, 1049600, 1073737728}
  Offsets = {0, 511, 512, 1536, 1049600, 1073741823}
  Lengths = {0, 1, 512, 513, 1048576, 1073741823}
  Lbas = {0, 2, 2050, 2097152}
  Counts = {0, 1, 2048, 2049}
SPECIFICATION Spec
INVARIANTS PayloadOnly KeysApart SectorsMatch NothingRefused LInv
CHECK_DEADLOCK FALSE
