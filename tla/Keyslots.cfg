SPECIFICATION MCSpec
CONSTANTS
  Ids = {0, 1, 32}
  MaxListed = 2
  MaxDigests = 2
  KeySizes = {16, 32, 64}
  Memories = {63, 64, 1048576, 1048577}
  Times = {0, 10, 11}
  Cpus = {0, 8, 9}
  Iterations = {0, 1, 10000000, 10000001}
  Salts = {31, 32}
  DigestSizes = {0, 20, 32, 64, 65}
INVARIANTS TypeOK OneDigestEach WellBoundIsAccepted NoLateRefusal
CHECK_DEADLOCK FALSE
