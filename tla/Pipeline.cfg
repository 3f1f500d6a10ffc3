SPECIFICATION Spec
CONSTANTS
  MaxVersion = 3
  NoSlot = {1}
INVARIANTS OneMetadata AskedLast SoleUser
PROPERTY FileIsStable
