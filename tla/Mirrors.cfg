SPECIFICATION Spec
CONSTANTS
  Lengths = {135, 131079, 131080, 536870920}
  Profiles = {"allowed", "features"}
  MaxGen = 2
INVARIANTS MountsTheChecked MirrorsAgree RecoveryIsReal CleanIsAccepted
