SPECIFICATION LiveSpec
CONSTANT Proc = {p1, p2, p3}
INVARIANTS OneUnit UnitIsGuarded
PROPERTY GuardReturns
