---------------------------- MODULE PublishGuard ----------------------------
(***************************************************************************)
(* The publication guard between processes: wl_create and wl_close of      *)
(* native/winspd_shim.c as far as the named mutex and the storage unit go. *)
(*                                                                         *)
(* Nobody ever waits for the mutex or owns it.  What guards is that the    *)
(* named object exists: CreateMutexW makes it when no process has a handle *)
(* and otherwise opens it, answering ERROR_ALREADY_EXISTS; it is gone with *)
(* the last handle.  Who made it may publish.                              *)
(***************************************************************************)
EXTENDS Naturals, FiniteSets

CONSTANT Proc    \* processes that may run winluks open

VARIABLES
  step,     \* where each process is between wl_create and the end of wl_close
  handles,  \* processes with an open handle of Global\winluks-publication-v1
  units     \* processes whose storage unit exists

vars == <<step, handles, units>>

Owning == {"owner", "start", "serving", "delete", "release"}

TypeOK == /\ step \in [Proc -> Owning \cup {"new", "refused", "exit", "killed"}]
          /\ handles \subseteq Proc
          /\ units \subseteq Proc
          /\ \A p \in Proc : step[p] \in {"new", "exit"} => p \notin handles \cup units

Init == step = [p \in Proc |-> "new"] /\ handles = {} /\ units = {}

Goto(p, from, to) == step[p] = from /\ step' = [step EXCEPT ![p] = to]

----------------------------------------------------------------------------
(* CreateMutexW fails outright. *)
NoGuard(p) == Goto(p, "new", "exit") /\ UNCHANGED <<handles, units>>

\* MUTANT the answer ERROR_ALREADY_EXISTS is not looked at
MakeGuard_AnyHandle(p) ==
  /\ Goto(p, "new", "owner")
  /\ handles' = handles \cup {p}
  /\ UNCHANGED units
(* CreateMutexW, no process having a handle. *)
MakeGuard(p) ==
  /\ Goto(p, "new", "owner")
  /\ handles = {}
  /\ handles' = {p}
  /\ UNCHANGED units

(* CreateMutexW, some process having one: this one has a handle too, until *)
(* DropHandle, and holds up others meanwhile.                              *)
FindGuard(p) ==
  /\ Goto(p, "new", "refused")
  /\ handles # {}
  /\ handles' = handles \cup {p}
  /\ UNCHANGED units

CloseHandle(p) == handles' = handles \ {p} /\ UNCHANGED units

DropHandle(p) == Goto(p, "refused", "exit") /\ CloseHandle(p)

\* MUTANT the guard is kept when there is no unit
NoUnit_KeepsGuard(p) == Goto(p, "owner", "exit") /\ UNCHANGED <<handles, units>>
(* CoCreateGuid or SpdStorageUnitCreate fails. *)
NoUnit(p) == Goto(p, "owner", "exit") /\ CloseHandle(p)

CreateUnit(p) ==
  /\ Goto(p, "owner", "start")
  /\ units' = units \cup {p}
  /\ UNCHANGED handles

StartDispatcher(p) == Goto(p, "start", "serving") /\ UNCHANGED <<handles, units>>
StartFails(p)      == Goto(p, "start", "delete")  /\ UNCHANGED <<handles, units>>

\* MUTANT the guard is closed before the unit is deleted
BeginClose_GuardFirst(p) == Goto(p, "serving", "delete") /\ CloseHandle(p)
(* serve has come to wl_close. *)
BeginClose(p) == Goto(p, "serving", "delete") /\ UNCHANGED <<handles, units>>

DeleteUnit(p) ==
  /\ Goto(p, "delete", "release")
  /\ units' = units \ {p}
  /\ UNCHANGED handles

Release(p) == Goto(p, "release", "exit") /\ CloseHandle(p)

(* The process is killed: the system closes its handle and WinSpd removes  *)
(* its unit, in an order the code has no say in.                           *)
Kill(p) ==
  /\ step[p] \notin {"exit", "killed"}
  /\ step' = [step EXCEPT ![p] = "killed"]
  /\ UNCHANGED <<handles, units>>

Rundown(p) ==
  /\ step[p] = "killed"
  /\ \/ p \in handles /\ CloseHandle(p)
     \/ p \in units /\ units' = units \ {p} /\ UNCHANGED handles
  /\ UNCHANGED step

(* winluks open again, as another process of the same place. *)
Again(p) ==
  /\ step[p] \in {"exit", "killed"} /\ p \notin handles \cup units
  /\ step' = [step EXCEPT ![p] = "new"]
  /\ UNCHANGED <<handles, units>>

----------------------------------------------------------------------------
Go(p) == \/ NoGuard(p) \/ MakeGuard(p) \/ FindGuard(p) \/ DropHandle(p)
         \/ NoUnit(p) \/ CreateUnit(p) \/ StartDispatcher(p) \/ StartFails(p)
         \/ DeleteUnit(p) \/ Release(p) \/ Rundown(p)

Next == \E p \in Proc : Go(p) \/ BeginClose(p) \/ Kill(p) \/ Again(p)

Spec == Init /\ [][Next]_vars

(* A process that runs goes on, one that was killed is cleaned up; a       *)
(* serving one may go on serving.                                          *)
LiveSpec == Spec /\ \A p \in Proc : WF_vars(Go(p))

----------------------------------------------------------------------------
(* winspd_shim.c:123: image copies are not published concurrently.  Of all *)
(* processes that have not been killed at most one has a unit, however     *)
(* their calls interleave and whatever fails.                              *)
OneUnit ==
  \A p, q \in units : step[p] # "killed" /\ step[q] # "killed" => p = q

(* A unit whose process runs is under the guard: no other process can      *)
(* begin to publish beside it.                                             *)
UnitIsGuarded == \A p \in units : step[p] # "killed" => p \in handles

(* A process does not keep the guard: it comes to serve, or the handle is  *)
(* closed again, whichever call fails and even when it is killed.          *)
GuardReturns ==
  \A p \in Proc : (p \in handles /\ step[p] # "serving")
                    ~> (step[p] = "serving" \/ p \notin handles)
=============================================================================
