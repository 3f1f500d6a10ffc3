------------------------ MODULE PublishGuardProofs ------------------------
(***************************************************************************)
(* Proofs about PublishGuard: one unit at a time, for any number of        *)
(* processes, whatever fails and whoever is killed.                        *)
(***************************************************************************)
EXTENDS PublishGuard, TLAPS

(* The guard is with the process that may publish, and it is alone.  That  *)
(* it is alone is what MakeGuard's condition, no handle anywhere, gives:   *)
(* every process that may publish has one.                                 *)
HoldsGuard == \A p \in Proc : step[p] \in Owning => p \in handles
OneOwner   == \A p, q \in Proc : step[p] \in Owning /\ step[q] \in Owning => p = q
UnitOwned  == \A p \in units : step[p] \in {"start", "serving", "delete", "killed"}

GInv == TypeOK /\ HoldsGuard /\ OneOwner /\ UnitOwned

(* At the start nobody has a handle or a unit. *)
LEMMA InitG == Init => GInv
  BY DEF Init, GInv, TypeOK, HoldsGuard, OneOwner, UnitOwned, Owning

(* A step that only moves one process, within its right to publish or out  *)
(* of it, and takes nothing from anybody.                                  *)
LEMMA MoveG ==
  ASSUME GInv, NEW p \in Proc, NEW to \in {"new", "killed"} \cup Owning,
         step' = [step EXCEPT ![p] = to], UNCHANGED <<handles, units>>,
         to \in Owning => step[p] \in Owning,
         to = "new" => p \notin handles \cup units,
         p \in units => to \in {"start", "serving", "delete", "killed"}
  PROVE  GInv'
<1>1. TypeOK'
  BY DEF GInv, TypeOK, Owning
<1>2. HoldsGuard'
  BY DEF GInv, TypeOK, HoldsGuard, Owning
<1>3. OneOwner'
  BY DEF GInv, TypeOK, OneOwner, Owning
<1>4. UnitOwned'
  BY DEF GInv, TypeOK, UnitOwned
<1> QED
  BY <1>1, <1>2, <1>3, <1>4 DEF GInv

(* A process without a unit ends and closes its handle. *)
LEMMA CloseG ==
  ASSUME GInv, NEW p \in Proc, p \notin units,
         step' = [step EXCEPT ![p] = "exit"], CloseHandle(p)
  PROVE  GInv'
<1>1. TypeOK'
  BY DEF GInv, TypeOK, CloseHandle, Owning
<1>2. HoldsGuard' /\ OneOwner' /\ UnitOwned'
  BY DEF GInv, TypeOK, HoldsGuard, OneOwner, UnitOwned, CloseHandle, Owning
<1> QED
  BY <1>1, <1>2 DEF GInv

(* Every step keeps the invariant. *)
LEMMA NextG == GInv /\ [Next]_vars => GInv'
<1> SUFFICES ASSUME GInv, [Next]_vars PROVE GInv'
  OBVIOUS
<1>1. CASE UNCHANGED vars
  BY <1>1 DEF vars, GInv, TypeOK, HoldsGuard, OneOwner, UnitOwned
<1>2. CASE Next
  <2> PICK p \in Proc : Go(p) \/ BeginClose(p) \/ Kill(p) \/ Again(p)
    BY <1>2 DEF Next
  <2>1. CASE NoGuard(p)
    BY <2>1 DEF NoGuard, Goto, GInv, TypeOK, HoldsGuard, OneOwner, UnitOwned, Owning
  <2>2. CASE MakeGuard(p)
    <3>1. \A q \in Proc : step[q] \notin Owning
      BY <2>2 DEF MakeGuard, GInv, HoldsGuard
    <3>2. /\ step' = [step EXCEPT ![p] = "owner"] /\ step[p] = "new"
          /\ handles' = {p} /\ units' = units
      BY <2>2 DEF MakeGuard, Goto
    <3>3. TypeOK' /\ HoldsGuard' /\ UnitOwned'
      BY <3>1, <3>2 DEF GInv, TypeOK, HoldsGuard, UnitOwned, Owning
    <3>4. OneOwner'
      BY <3>1, <3>2 DEF GInv, TypeOK, OneOwner, Owning
    <3> QED
      BY <3>3, <3>4 DEF GInv
  <2>3. CASE FindGuard(p)
    BY <2>3 DEF FindGuard, Goto, GInv, TypeOK, HoldsGuard, OneOwner, UnitOwned, Owning
  <2>4. CASE DropHandle(p)
    BY <2>4, CloseG DEF DropHandle, Goto, GInv, UnitOwned
  <2>5. CASE NoUnit(p)
    BY <2>5, CloseG DEF NoUnit, Goto, GInv, UnitOwned
  <2>6. CASE CreateUnit(p)
    BY <2>6 DEF CreateUnit, Goto, GInv, TypeOK, HoldsGuard, OneOwner, UnitOwned, Owning
  <2>7. CASE StartDispatcher(p)
    BY <2>7, MoveG DEF StartDispatcher, Goto, Owning
  <2>8. CASE StartFails(p)
    BY <2>8, MoveG DEF StartFails, Goto, Owning
  <2>9. CASE BeginClose(p)
    BY <2>9, MoveG DEF BeginClose, Goto, Owning
  <2>10. CASE DeleteUnit(p)
    BY <2>10 DEF DeleteUnit, Goto, GInv, TypeOK, HoldsGuard, OneOwner, UnitOwned, Owning
  <2>11. CASE Release(p)
    BY <2>11, CloseG DEF Release, Goto, GInv, UnitOwned
  <2>12. CASE Kill(p)
    BY <2>12, MoveG DEF Kill, Owning
  <2>13. CASE Rundown(p)
    BY <2>13 DEF Rundown, CloseHandle, GInv, TypeOK, HoldsGuard, OneOwner, UnitOwned, Owning
  <2>14. CASE Again(p)
    BY <2>14, MoveG DEF Again, Owning
  <2> QED
    BY <2>1, <2>2, <2>3, <2>4, <2>5, <2>6, <2>7, <2>8, <2>9, <2>10, <2>11, <2>12, <2>13,
       <2>14 DEF Go
<1> QED
  BY <1>1, <1>2

(* The invariant holds for ever. *)
THEOREM GuardInvariant == Spec => []GInv
  BY InitG, NextG, PTL DEF Spec

(* A process that has not begun, or has ended by itself, holds nothing:    *)
(* every way out of wl_create and wl_close gives back what it took.        *)
THEOREM NothingKept == Spec => []TypeOK
<1>1. GInv => TypeOK
  BY DEF GInv
<1> QED
  BY <1>1, GuardInvariant, PTL

(* wl_create: of the processes that run at most one has a unit. *)
THEOREM OnePublisher == Spec => []OneUnit
<1>1. GInv => OneUnit
  BY DEF GInv, TypeOK, OneOwner, UnitOwned, OneUnit, Owning
<1> QED
  BY <1>1, GuardInvariant, PTL

(* wl_create and wl_close: a unit is never without its guard. *)
THEOREM UnitsGuarded == Spec => []UnitIsGuarded
<1>1. GInv => UnitIsGuarded
  BY DEF GInv, TypeOK, HoldsGuard, UnitOwned, UnitIsGuarded, Owning
<1> QED
  BY <1>1, GuardInvariant, PTL
=============================================================================
