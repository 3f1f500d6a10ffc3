--------------------------- MODULE SessionProofs ---------------------------
(***************************************************************************)
(* Proofs about Publisher: what exists between which steps of serve, and   *)
(* what its result says.  Then about Session: what was written in a        *)
(* session that ended with Ok is on the disk, for any disk and contents.   *)
(***************************************************************************)
EXTENDS Session, TLAPS

Attempting == {"find", "lock", "flushvol", "dismount"}
Flushing   == {"flush", "before", "shutdown"}
UnitUp     == {"start", "discover", "running"} \cup Attempting \cup Flushing
Waiting    == {"wait", "delete"}
Cleaning   == {"closevol", "closeguard", "free"}

(* Unit, dispatcher and guard, step by step. *)
Stages ==
  /\ pc \in UnitUp => unit = "up"
  /\ pc \in Waiting => unit = "shut"
  /\ pc \in {"create", "exit"} \cup Cleaning => unit = "none"
  /\ pc \in {"create", "start"} => disp = "none" /\ fs = "none"
  /\ pc \in {"delete"} \cup Cleaning => disp = "stopped"
  /\ pc = "exit" => disp \in {"none", "stopped"}
  /\ guard <=> pc \notin {"create", "free", "exit"}

(* A handle keeps the volume locked while an attempt is under way, and     *)
(* from the dismount until wl_close closes it; then nothing is open on the *)
(* volume, and it holds no change.                                         *)
Locks ==
  /\ pc \in Attempting => RW
  /\ fsLocked <=> lockedVolume \/ pc \in {"flushvol", "dismount"}
  /\ lockedVolume => pc \in Flushing \cup Waiting \cup {"closevol"}
  /\ fsLocked => ~files /\ ~dirty

(* Changes are lost only when a volume became read-only, or with the unit; *)
(* after a dismount there were none.                                       *)
Changes ==
  /\ dirty => fs = "rw"
  /\ pc \in {"create", "start"} => ~lost
  /\ lost /\ unit # "none" => fs = "ro"
  /\ pc = "dismount" => fs = "rw"
  /\ RW /\ clean => /\ pc \in Flushing \cup Waiting \cup Cleaning \cup {"exit"}
                    /\ pc \in Flushing \cup Waiting => lockedVolume
                    /\ fs = "none" /\ ~lost

(* What wl_close answers and serve returns. *)
Verdict ==
  /\ pc \in Cleaning => (before # "no" \/ dispErr = "failed" => transport)
  /\ pc # "exit" => result = "none"
  /\ result = "Ok" => /\ ~faulted /\ ~syncFailed /\ before = "no" /\ dispErr # "failed"
                      /\ RW => clean

PubInv == TypeOK /\ Stages /\ Locks /\ Changes /\ Verdict

----------------------------------------------------------------------------
(* At the start there is nothing. *)
LEMMA InitPub == Init => PubInv
<1> USE DEF Init, Attempting, Flushing, UnitUp, Waiting, Cleaning, RW
<1>1. Init => TypeOK
  BY DEF TypeOK
<1>2. Init => Stages /\ Locks /\ Changes /\ Verdict
  BY DEF Stages, Locks, Changes, Verdict
<1> QED
  BY <1>1, <1>2 DEF PubInv

(* wl_create. *)
LEMMA CreatePub ==
  ASSUME PubInv, Create
  PROVE  PubInv'
<1> USE DEF PubInv, Goto, RW, Attempting, Flushing, UnitUp, Waiting, Cleaning,
            serveVars, faultVars, shimVars, unitVars, fsVars, userVars,
            UnitGone
<1>1. CASE CreateFails
  <2>1. TypeOK'
    BY <1>1 DEF CreateFails, TypeOK, Stages
  <2>2. Stages' /\ Locks'
    BY <1>1 DEF CreateFails, TypeOK, Stages, Locks, Changes
  <2>3. Changes'
    BY <1>1 DEF CreateFails, TypeOK, Stages, Locks, Changes
  <2>4. Verdict'
    BY <1>1 DEF CreateFails, TypeOK, Stages, Changes, Verdict
  <2> QED
    BY <2>1, <2>2, <2>3, <2>4
<1>2. CASE CreateUnit
  <2>1. TypeOK'
    BY <1>2 DEF CreateUnit, TypeOK, Stages
  <2>2. Stages' /\ Locks'
    BY <1>2 DEF CreateUnit, TypeOK, Stages, Locks, Changes
  <2>3. Changes'
    BY <1>2 DEF CreateUnit, TypeOK, Stages, Locks, Changes
  <2>4. Verdict'
    BY <1>2 DEF CreateUnit, TypeOK, Stages, Changes, Verdict
  <2> QED
    BY <2>1, <2>2, <2>3, <2>4
<1>3. CASE StartFails
  <2>1. TypeOK'
    <3>1. files' \in BOOLEAN
      BY <1>3, Zenon DEF StartFails, TypeOK
    <3>2. dirty' \in BOOLEAN
      BY <1>3, Zenon DEF StartFails, TypeOK
    <3>3. guard' \in BOOLEAN
      BY <1>3, Zenon DEF StartFails, TypeOK
    <3> QED
      BY <1>3, <3>1, <3>2, <3>3 DEF StartFails, TypeOK, Stages
  <2>2. Stages' /\ Locks'
    BY <1>3 DEF StartFails, TypeOK, Stages, Locks, Changes
  <2>3. Changes'
    BY <1>3 DEF StartFails, TypeOK, Stages, Locks, Changes
  <2>4. Verdict'
    BY <1>3 DEF StartFails, TypeOK, Stages, Changes, Verdict
  <2> QED
    BY <2>1, <2>2, <2>3, <2>4
<1>4. CASE StartDispatcher
  <2>1. TypeOK'
    BY <1>4 DEF StartDispatcher, TypeOK, Stages
  <2>2. Stages' /\ Locks'
    BY <1>4 DEF StartDispatcher, TypeOK, Stages, Locks, Changes
  <2>3. Changes'
    BY <1>4 DEF StartDispatcher, TypeOK, Stages, Locks, Changes
  <2>4. Verdict'
    BY <1>4 DEF StartDispatcher, TypeOK, Stages, Changes, Verdict
  <2> QED
    BY <2>1, <2>2, <2>3, <2>4
<1> QED
  BY <1>1, <1>2, <1>3, <1>4 DEF Create

(* serve: discovery and the main loop. *)
LEMMA LoopPub ==
  ASSUME PubInv, Loop
  PROVE  PubInv'
<1> USE DEF PubInv, Goto, RW, Attempting, Flushing, UnitUp, Waiting, Cleaning,
            serveVars, faultVars, shimVars, unitVars, fsVars, userVars,
            Broken
<1>1. CASE Discovered
  <2>1. TypeOK'
    BY <1>1 DEF Discovered, TypeOK, Stages
  <2>2. Stages' /\ Locks'
    BY <1>1 DEF Discovered, TypeOK, Stages, Locks, Changes
  <2>3. Changes'
    BY <1>1 DEF Discovered, TypeOK, Stages, Locks, Changes
  <2>4. Verdict'
    BY <1>1 DEF Discovered, TypeOK, Stages, Changes, Verdict
  <2> QED
    BY <2>1, <2>2, <2>3, <2>4
<1>2. CASE DiscoveryEnds
  <2>1. TypeOK'
    <3>1. pressed' \in BOOLEAN
      BY <1>2, Zenon DEF DiscoveryEnds, TypeOK
    <3> QED
      BY <1>2, <3>1 DEF DiscoveryEnds, TypeOK, Stages
  <2>2. Stages' /\ Locks'
    BY <1>2 DEF DiscoveryEnds, TypeOK, Stages, Locks, Changes
  <2>3. Changes'
    BY <1>2 DEF DiscoveryEnds, TypeOK, Stages, Locks, Changes
  <2>4. Verdict'
    BY <1>2 DEF DiscoveryEnds, TypeOK, Stages, Changes, Verdict
  <2> QED
    BY <2>1, <2>2, <2>3, <2>4
<1>3. CASE LeaveLoop
  <2>1. TypeOK'
    <3>1. pressed' \in BOOLEAN
      BY <1>3, Zenon DEF LeaveLoop, TypeOK
    <3> QED
      BY <1>3, <3>1 DEF LeaveLoop, TypeOK, Stages
  <2>2. Stages' /\ Locks'
    BY <1>3 DEF LeaveLoop, TypeOK, Stages, Locks, Changes
  <2>3. Changes'
    BY <1>3 DEF LeaveLoop, TypeOK, Stages, Locks, Changes
  <2>4. Verdict'
    BY <1>3 DEF LeaveLoop, TypeOK, Stages, Changes, Verdict
  <2> QED
    BY <2>1, <2>2, <2>3, <2>4
<1>4. CASE TakeQuit
  <2>1. TypeOK'
    <3>1. quit' \in BOOLEAN
      BY <1>4, Zenon DEF TakeQuit, TypeOK
    <3>2. pressed' \in BOOLEAN
      BY <1>4, Zenon DEF TakeQuit, TypeOK
    <3> QED
      BY <1>4, <3>1, <3>2 DEF TakeQuit, TypeOK, Stages
  <2>2. Stages' /\ Locks'
    BY <1>4 DEF TakeQuit, TypeOK, Stages, Locks, Changes
  <2>3. Changes'
    BY <1>4 DEF TakeQuit, TypeOK, Stages, Locks, Changes
  <2>4. Verdict'
    BY <1>4 DEF TakeQuit, TypeOK, Stages, Changes, Verdict
  <2> QED
    BY <2>1, <2>2, <2>3, <2>4
<1> QED
  BY <1>1, <1>2, <1>3, <1>4 DEF Loop

(* wl_lock_and_dismount. *)
LEMMA AttemptPub ==
  ASSUME PubInv, Attempt
  PROVE  PubInv'
<1> USE DEF PubInv, Goto, RW, Attempting, Flushing, UnitUp, Waiting, Cleaning,
            serveVars, faultVars, shimVars, unitVars, fsVars, userVars,
            AttemptRest, GiveUpAttempt, CommitFailsOn, CanCommit
<1>1. CASE FindVolume
  <2>1. TypeOK'
    BY <1>1 DEF FindVolume, TypeOK, Stages
  <2>2. Stages' /\ Locks'
    BY <1>1 DEF FindVolume, TypeOK, Stages, Locks, Changes
  <2>3. Changes'
    BY <1>1 DEF FindVolume, TypeOK, Stages, Locks, Changes
  <2>4. Verdict'
    BY <1>1 DEF FindVolume, TypeOK, Stages, Changes, Verdict
  <2> QED
    BY <2>1, <2>2, <2>3, <2>4
<1>2. CASE FindFails
  <2>1. TypeOK'
    <3>1. pressed' \in BOOLEAN
      BY <1>2, Zenon DEF FindFails, TypeOK
    <3> QED
      BY <1>2, <3>1 DEF FindFails, TypeOK, Stages
  <2>2. Stages' /\ Locks'
    BY <1>2 DEF FindFails, TypeOK, Stages, Locks, Changes
  <2>3. Changes'
    BY <1>2 DEF FindFails, TypeOK, Stages, Locks, Changes
  <2>4. Verdict'
    BY <1>2 DEF FindFails, TypeOK, Stages, Changes, Verdict
  <2> QED
    BY <2>1, <2>2, <2>3, <2>4
<1>3. CASE LockVolume
  <2>1. TypeOK'
    <3>1. dirty' \in BOOLEAN
      BY <1>3, Zenon DEF LockVolume, TypeOK
    <3> QED
      BY <1>3, <3>1 DEF LockVolume, TypeOK, Stages
  <2>2. Stages' /\ Locks'
    BY <1>3 DEF LockVolume, TypeOK, Stages, Locks, Changes
  <2>3. Changes'
    BY <1>3 DEF LockVolume, TypeOK, Stages, Locks, Changes
  <2>4. Verdict'
    BY <1>3 DEF LockVolume, TypeOK, Stages, Changes, Verdict
  <2> QED
    BY <2>1, <2>2, <2>3, <2>4
<1>4. CASE \E busy \in BOOLEAN : LockFails(busy)
  <2>1. TypeOK'
    <3>1. dirty' \in BOOLEAN
      BY <1>4, Zenon DEF LockFails, TypeOK
    <3>2. pressed' \in BOOLEAN
      BY <1>4, Zenon DEF LockFails, TypeOK
    <3>3. lost' \in BOOLEAN
      BY <1>4, Zenon DEF LockFails, TypeOK
    <3>4. faulted' \in BOOLEAN
      BY <1>4, Zenon DEF LockFails, TypeOK
    <3>5. fs' \in {"rw", "ro"} \cup {fs} /\ pc = "lock" /\ pc' \in {"running", "flush"}
      BY <1>4 DEF LockFails
    <3>6. UNCHANGED <<mode, expired, ready, clean, result, stopping, syncFailed, session, guard, before,
                      transport, unit, disp, dispErr, lockedVolume, files, fsLocked, quit>>
      BY <1>4 DEF LockFails
    <3> QED
      BY <3>1, <3>2, <3>3, <3>4, <3>5, <3>6 DEF TypeOK, Stages
  <2>2. Stages' /\ Locks'
    BY <1>4 DEF LockFails, TypeOK, Stages, Locks, Changes
  <2>3. Changes'
    BY <1>4 DEF LockFails, TypeOK, Stages, Locks, Changes
  <2>4. Verdict'
    BY <1>4 DEF LockFails, TypeOK, Stages, Changes, Verdict
  <2> QED
    BY <2>1, <2>2, <2>3, <2>4
<1>5. CASE FlushVolume
  <2>1. TypeOK'
    BY <1>5 DEF FlushVolume, TypeOK, Stages
  <2>2. Stages' /\ Locks'
    BY <1>5 DEF FlushVolume, TypeOK, Stages, Locks, Changes
  <2>3. Changes'
    BY <1>5 DEF FlushVolume, TypeOK, Stages, Locks, Changes
  <2>4. Verdict'
    BY <1>5 DEF FlushVolume, TypeOK, Stages, Changes, Verdict
  <2> QED
    BY <2>1, <2>2, <2>3, <2>4
<1>6. CASE Dismount
  <2>1. TypeOK'
    <3>1. pressed' \in BOOLEAN
      BY <1>6, Zenon DEF Dismount, TypeOK
    <3> QED
      BY <1>6, <3>1 DEF Dismount, TypeOK, Stages
  <2>2. Stages' /\ Locks'
    BY <1>6 DEF Dismount, TypeOK, Stages, Locks, Changes
  <2>3. Changes'
    BY <1>6 DEF Dismount, TypeOK, Stages, Locks, Changes
  <2>4. Verdict'
    BY <1>6 DEF Dismount, TypeOK, Stages, Changes, Verdict
  <2> QED
    BY <2>1, <2>2, <2>3, <2>4
<1>7. CASE DismountFails
  <2>1. TypeOK'
    <3>1. fsLocked' \in BOOLEAN
      BY <1>7, Zenon DEF DismountFails, TypeOK
    <3>2. pressed' \in BOOLEAN
      BY <1>7, Zenon DEF DismountFails, TypeOK
    <3> QED
      BY <1>7, <3>1, <3>2 DEF DismountFails, TypeOK, Stages
  <2>2. Stages' /\ Locks'
    BY <1>7 DEF DismountFails, TypeOK, Stages, Locks, Changes
  <2>3. Changes'
    BY <1>7 DEF DismountFails, TypeOK, Stages, Locks, Changes
  <2>4. Verdict'
    BY <1>7 DEF DismountFails, TypeOK, Stages, Changes, Verdict
  <2> QED
    BY <2>1, <2>2, <2>3, <2>4
<1> QED
  BY <1>1, <1>2, <1>3, <1>4, <1>5, <1>6, <1>7 DEF Attempt

(* BlockAdapter::shutdown and wl_close. *)
LEMMA ClosePub ==
  ASSUME PubInv, Close
  PROVE  PubInv'
<1> USE DEF PubInv, Goto, RW, Attempting, Flushing, UnitUp, Waiting, Cleaning,
            serveVars, faultVars, shimVars, unitVars, fsVars, userVars,
            CloseRest, UnitGone, Result, Failed
<1>1. CASE \E fails \in BOOLEAN : FinalFlush(fails)
  <2>1. TypeOK'
    BY <1>1 DEF FinalFlush, TypeOK, Stages
  <2>2. Stages' /\ Locks'
    BY <1>1 DEF FinalFlush, TypeOK, Stages, Locks, Changes
  <2>3. Changes'
    BY <1>1 DEF FinalFlush, TypeOK, Stages, Locks, Changes
  <2>4. Verdict'
    BY <1>1 DEF FinalFlush, TypeOK, Stages, Changes, Verdict
  <2> QED
    BY <2>1, <2>2, <2>3, <2>4
<1>2. CASE SampleBefore
  <2>1. TypeOK'
    BY <1>2 DEF SampleBefore, TypeOK, Stages
  <2>2. Stages' /\ Locks'
    BY <1>2 DEF SampleBefore, TypeOK, Stages, Locks, Changes
  <2>3. Changes'
    BY <1>2 DEF SampleBefore, TypeOK, Stages, Locks, Changes
  <2>4. Verdict'
    BY <1>2 DEF SampleBefore, TypeOK, Stages, Changes, Verdict
  <2> QED
    BY <2>1, <2>2, <2>3, <2>4
<1>3. CASE ShutdownUnit
  <2>1. TypeOK'
    BY <1>3 DEF ShutdownUnit, TypeOK, Stages
  <2>2. Stages' /\ Locks'
    BY <1>3 DEF ShutdownUnit, TypeOK, Stages, Locks, Changes
  <2>3. Changes'
    BY <1>3 DEF ShutdownUnit, TypeOK, Stages, Locks, Changes
  <2>4. Verdict'
    BY <1>3 DEF ShutdownUnit, TypeOK, Stages, Changes, Verdict
  <2> QED
    BY <2>1, <2>2, <2>3, <2>4
<1>4. CASE WaitDispatcher
  <2>1. TypeOK'
    BY <1>4 DEF WaitDispatcher, TypeOK, Stages
  <2>2. Stages' /\ Locks'
    BY <1>4 DEF WaitDispatcher, TypeOK, Stages, Locks, Changes
  <2>3. Changes'
    BY <1>4 DEF WaitDispatcher, TypeOK, Stages, Locks, Changes
  <2>4. Verdict'
    BY <1>4 DEF WaitDispatcher, TypeOK, Stages, Changes, Verdict
  <2> QED
    BY <2>1, <2>2, <2>3, <2>4
<1>5. CASE DeleteUnit
  <2>1. TypeOK'
    <3>1. files' \in BOOLEAN
      BY <1>5, Zenon DEF DeleteUnit, TypeOK
    <3>2. dirty' \in BOOLEAN
      BY <1>5, Zenon DEF DeleteUnit, TypeOK
    <3> QED
      BY <1>5, <3>1, <3>2 DEF DeleteUnit, TypeOK, Stages
  <2>2. Stages' /\ Locks'
    BY <1>5 DEF DeleteUnit, TypeOK, Stages, Locks, Changes
  <2>3. Changes'
    BY <1>5 DEF DeleteUnit, TypeOK, Stages, Locks, Changes
  <2>4. Verdict'
    BY <1>5 DEF DeleteUnit, TypeOK, Stages, Changes, Verdict
  <2> QED
    BY <2>1, <2>2, <2>3, <2>4
<1>6. CASE CloseVolume
  <2>1. TypeOK'
    <3>1. lockedVolume' \in BOOLEAN
      BY <1>6, Zenon DEF CloseVolume, TypeOK
    <3>2. fsLocked' \in BOOLEAN
      BY <1>6, Zenon DEF CloseVolume, TypeOK
    <3> QED
      BY <1>6, <3>1, <3>2 DEF CloseVolume, TypeOK, Stages
  <2>2. Stages' /\ Locks'
    BY <1>6 DEF CloseVolume, TypeOK, Stages, Locks, Changes
  <2>3. Changes'
    BY <1>6 DEF CloseVolume, TypeOK, Stages, Locks, Changes
  <2>4. Verdict'
    BY <1>6 DEF CloseVolume, TypeOK, Stages, Changes, Verdict
  <2> QED
    BY <2>1, <2>2, <2>3, <2>4
<1>7. CASE CloseGuard
  <2>1. TypeOK'
    <3>1. guard' \in BOOLEAN
      BY <1>7, Zenon DEF CloseGuard, TypeOK
    <3> QED
      BY <1>7, <3>1 DEF CloseGuard, TypeOK, Stages
  <2>2. Stages' /\ Locks'
    BY <1>7 DEF CloseGuard, TypeOK, Stages, Locks, Changes
  <2>3. Changes'
    BY <1>7 DEF CloseGuard, TypeOK, Stages, Locks, Changes
  <2>4. Verdict'
    BY <1>7 DEF CloseGuard, TypeOK, Stages, Changes, Verdict
  <2> QED
    BY <2>1, <2>2, <2>3, <2>4
<1>8. CASE FreeSession
  <2>1. TypeOK'
    BY <1>8 DEF FreeSession, TypeOK, Stages
  <2>2. Stages' /\ Locks'
    BY <1>8 DEF FreeSession, TypeOK, Stages, Locks, Changes
  <2>3. Changes'
    BY <1>8 DEF FreeSession, TypeOK, Stages, Locks, Changes
  <2>4. Verdict'
    BY <1>8 DEF FreeSession, TypeOK, Stages, Changes, Verdict
  <2> QED
    BY <2>1, <2>2, <2>3, <2>4
<1> QED
  BY <1>1, <1>2, <1>3, <1>4, <1>5, <1>6, <1>7, <1>8 DEF Close

(* The dispatcher thread. *)
LEMMA DispatcherPub ==
  ASSUME PubInv, Dispatcher
  PROVE  PubInv'
<1> USE DEF PubInv, Goto, RW, Attempting, Flushing, UnitUp, Waiting, Cleaning,
            serveVars, faultVars, shimVars, unitVars, fsVars, userVars,
            Others
<1>1. CASE \E fault \in BOOLEAN : CallbackEnds(fault)
  <2>1. TypeOK'
    BY <1>1 DEF CallbackEnds, TypeOK, Stages
  <2>2. Stages' /\ Locks'
    BY <1>1 DEF CallbackEnds, TypeOK, Stages, Locks, Changes
  <2>3. Changes'
    BY <1>1 DEF CallbackEnds, TypeOK, Stages, Locks, Changes
  <2>4. Verdict'
    BY <1>1 DEF CallbackEnds, TypeOK, Stages, Changes, Verdict
  <2> QED
    BY <2>1, <2>2, <2>3, <2>4
<1>2. CASE DispatcherStops
  <2>1. TypeOK'
    BY <1>2 DEF DispatcherStops, TypeOK, Stages
  <2>2. Stages' /\ Locks'
    BY <1>2 DEF DispatcherStops, TypeOK, Stages, Locks, Changes
  <2>3. Changes'
    BY <1>2 DEF DispatcherStops, TypeOK, Stages, Locks, Changes
  <2>4. Verdict'
    BY <1>2 DEF DispatcherStops, TypeOK, Stages, Changes, Verdict
  <2> QED
    BY <2>1, <2>2, <2>3, <2>4
<1> QED
  BY <1>1, <1>2 DEF Dispatcher

(* The dispatcher, the file system, its users, the user of winluks and the system. *)
LEMMA EnvironmentPub ==
  ASSUME PubInv, Environment
  PROVE  PubInv'
<1> USE DEF PubInv, Goto, RW, Attempting, Flushing, UnitUp, Waiting, Cleaning,
            serveVars, faultVars, shimVars, unitVars, fsVars, userVars,
            Others, CommitFailsOn, UnitGone
<1>1. CASE CallbackBegins
  <2>1. TypeOK'
    BY <1>1 DEF CallbackBegins, TypeOK, Stages
  <2>2. Stages' /\ Locks'
    BY <1>1 DEF CallbackBegins, TypeOK, Stages, Locks, Changes
  <2>3. Changes'
    BY <1>1 DEF CallbackBegins, TypeOK, Stages, Locks, Changes
  <2>4. Verdict'
    BY <1>1 DEF CallbackBegins, TypeOK, Stages, Changes, Verdict
  <2> QED
    BY <2>1, <2>2, <2>3, <2>4
<1>2. CASE DispatcherStops
  <2>1. TypeOK'
    BY <1>2 DEF DispatcherStops, TypeOK, Stages
  <2>2. Stages' /\ Locks'
    BY <1>2 DEF DispatcherStops, TypeOK, Stages, Locks, Changes
  <2>3. Changes'
    BY <1>2 DEF DispatcherStops, TypeOK, Stages, Locks, Changes
  <2>4. Verdict'
    BY <1>2 DEF DispatcherStops, TypeOK, Stages, Changes, Verdict
  <2> QED
    BY <2>1, <2>2, <2>3, <2>4
<1>3. CASE Mount
  <2>1. TypeOK'
    BY <1>3 DEF Mount, TypeOK, Stages
  <2>2. Stages' /\ Locks'
    BY <1>3 DEF Mount, TypeOK, Stages, Locks, Changes
  <2>3. Changes'
    BY <1>3 DEF Mount, TypeOK, Stages, Locks, Changes
  <2>4. Verdict'
    BY <1>3 DEF Mount, TypeOK, Stages, Changes, Verdict
  <2> QED
    BY <2>1, <2>2, <2>3, <2>4
<1>4. CASE \E open \in BOOLEAN : Files(open)
  <2>1. TypeOK'
    BY <1>4 DEF Files, TypeOK, Stages
  <2>2. Stages' /\ Locks'
    BY <1>4 DEF Files, TypeOK, Stages, Locks, Changes
  <2>3. Changes'
    BY <1>4 DEF Files, TypeOK, Stages, Locks, Changes
  <2>4. Verdict'
    BY <1>4 DEF Files, TypeOK, Stages, Changes, Verdict
  <2> QED
    BY <2>1, <2>2, <2>3, <2>4
<1>5. CASE Modify
  <2>1. TypeOK'
    BY <1>5 DEF Modify, TypeOK, Stages
  <2>2. Stages' /\ Locks'
    BY <1>5 DEF Modify, TypeOK, Stages, Locks, Changes
  <2>3. Changes'
    BY <1>5 DEF Modify, TypeOK, Stages, Locks, Changes
  <2>4. Verdict'
    BY <1>5 DEF Modify, TypeOK, Stages, Changes, Verdict
  <2> QED
    BY <2>1, <2>2, <2>3, <2>4
<1>6. CASE Commit
  <2>1. TypeOK'
    <3>1. dirty' \in BOOLEAN
      BY <1>6, Zenon DEF Commit, TypeOK
    <3> QED
      BY <1>6, <3>1 DEF Commit, TypeOK, Stages
  <2>2. Stages' /\ Locks'
    BY <1>6 DEF Commit, TypeOK, Stages, Locks, Changes
  <2>3. Changes'
    BY <1>6 DEF Commit, TypeOK, Stages, Locks, Changes
  <2>4. Verdict'
    BY <1>6 DEF Commit, TypeOK, Stages, Changes, Verdict
  <2> QED
    BY <2>1, <2>2, <2>3, <2>4
<1>7. CASE CommitFails
  <2>1. TypeOK'
    <3>1. dirty' \in BOOLEAN
      BY <1>7, Zenon DEF CommitFails, TypeOK
    <3> QED
      BY <1>7, <3>1 DEF CommitFails, TypeOK, Stages
  <2>2. Stages' /\ Locks'
    BY <1>7 DEF CommitFails, TypeOK, Stages, Locks, Changes
  <2>3. Changes'
    BY <1>7 DEF CommitFails, TypeOK, Stages, Locks, Changes
  <2>4. Verdict'
    BY <1>7 DEF CommitFails, TypeOK, Stages, Changes, Verdict
  <2> QED
    BY <2>1, <2>2, <2>3, <2>4
<1>8. CASE CtrlC
  <2>1. TypeOK'
    <3>1. pressed' \in BOOLEAN
      <4> DEFINE early == pc \in {"create", "start", "discover", "running",
                                 "find", "lock", "flushvol", "dismount"}
      <4>1. pressed' = early
        BY <1>8 DEF CtrlC
      <4> HIDE DEF early
      <4>2. CASE early
        BY <4>1, <4>2
      <4>3. CASE ~early
        <5>1. (early = FALSE) => pressed' = FALSE
          BY <4>1, Zenon
        <5>2. pressed' = FALSE
          BY <4>3, <5>1
        <5> QED
          BY <5>2, Zenon
      <4> QED
        BY <4>2, <4>3
    <3> QED
      BY <1>8, <3>1 DEF CtrlC, TypeOK, Stages
  <2>2. Stages' /\ Locks'
    BY <1>8 DEF CtrlC, TypeOK, Stages, Locks, Changes
  <2>3. Changes'
    BY <1>8 DEF CtrlC, TypeOK, Stages, Locks, Changes
  <2>4. Verdict'
    BY <1>8 DEF CtrlC, TypeOK, Stages, Changes, Verdict
  <2> QED
    BY <2>1, <2>2, <2>3, <2>4
<1>9. CASE Crash
  <2>1. TypeOK'
    <3>1. files' \in BOOLEAN
      BY <1>9, Zenon DEF Crash, TypeOK
    <3>2. dirty' \in BOOLEAN
      BY <1>9, Zenon DEF Crash, TypeOK
    <3>3. fsLocked' \in BOOLEAN
      BY <1>9, Zenon DEF Crash, TypeOK
    <3>4. guard' \in BOOLEAN
      BY <1>9, Zenon DEF Crash, TypeOK
    <3>5. lockedVolume' \in BOOLEAN
      BY <1>9, Zenon DEF Crash, TypeOK
    <3>6. pressed' \in BOOLEAN
      BY <1>9, Zenon DEF Crash, TypeOK
    <3> QED
      BY <1>9, <3>1, <3>2, <3>3, <3>4, <3>5, <3>6 DEF Crash, TypeOK, Stages
  <2>2. Stages' /\ Locks'
    BY <1>9 DEF Crash, TypeOK, Stages, Locks, Changes
  <2>3. Changes'
    BY <1>9 DEF Crash, TypeOK, Stages, Locks, Changes
  <2>4. Verdict'
    BY <1>9 DEF Crash, TypeOK, Stages, Changes, Verdict
  <2> QED
    BY <2>1, <2>2, <2>3, <2>4
<1>10. CASE \E m \in {"ReadOnly", "ReadWrite"} : Restart(m)
  <2>1. TypeOK'
    <3>1. expired' \in BOOLEAN
      BY <1>10, Zenon DEF Restart, TypeOK
    <3>2. ready' \in BOOLEAN
      BY <1>10, Zenon DEF Restart, TypeOK
    <3>3. faulted' \in BOOLEAN
      BY <1>10, Zenon DEF Restart, TypeOK
    <3>4. stopping' \in BOOLEAN
      BY <1>10, Zenon DEF Restart, TypeOK
    <3>5. syncFailed' \in BOOLEAN
      BY <1>10, Zenon DEF Restart, TypeOK
    <3>6. transport' \in BOOLEAN
      BY <1>10, Zenon DEF Restart, TypeOK
    <3>7. lost' \in BOOLEAN
      BY <1>10, Zenon DEF Restart, TypeOK
    <3>8. quit' \in BOOLEAN
      BY <1>10, Zenon DEF Restart, TypeOK
    <3>9. pressed' \in BOOLEAN
      BY <1>10, Zenon DEF Restart, TypeOK
    <3> QED
      BY <1>10, <3>1, <3>2, <3>3, <3>4, <3>5, <3>6, <3>7, <3>8, <3>9 DEF Restart, TypeOK, Stages
  <2>2. Stages' /\ Locks'
    BY <1>10 DEF Restart, TypeOK, Stages, Locks, Changes
  <2>3. Changes'
    BY <1>10 DEF Restart, TypeOK, Stages, Locks, Changes
  <2>4. Verdict'
    BY <1>10 DEF Restart, TypeOK, Stages, Changes, Verdict
  <2> QED
    BY <2>1, <2>2, <2>3, <2>4
<1> QED
  BY <1>1, <1>2, <1>3, <1>4, <1>5, <1>6, <1>7, <1>8, <1>9, <1>10 DEF Environment

(* The clock of the discovery. *)
LEMMA ExpirePub ==
  ASSUME PubInv, Expire
  PROVE  PubInv'
<1> USE DEF Expire, PubInv, RW, faultVars, shimVars, unitVars, fsVars, userVars
<1>1. TypeOK'
  BY DEF TypeOK
<1>2. Stages' /\ Locks' /\ Changes' /\ Verdict'
  BY DEF Stages, Locks, Changes, Verdict
<1> QED
  BY <1>1, <1>2

(* Every step keeps the invariant. *)
LEMMA NextPub == PubInv /\ [Next]_vars => PubInv'
<1> SUFFICES ASSUME PubInv, [Next]_vars PROVE PubInv'
  OBVIOUS
<1>1. CASE UNCHANGED vars
  BY <1>1 DEF vars, serveVars, faultVars, shimVars, unitVars, fsVars, userVars, RW,
              PubInv, TypeOK, Stages, Locks, Changes, Verdict
<1>2. CASE Next
  BY <1>2, CreatePub, LoopPub, AttemptPub, ClosePub, DispatcherPub, EnvironmentPub, ExpirePub
     DEF Next, Serve
<1> QED
  BY <1>1, <1>2

(* The invariant holds for ever. *)
THEOREM PublisherInvariant == Spec => []PubInv
  BY InitPub, NextPub, PTL DEF Spec

----------------------------------------------------------------------------
(* Every variable keeps its type, and what serve makes exists only between *)
(* the steps that make and undo it.                                        *)
THEOREM TypeCorrect == Spec => []TypeOK
<1>1. PubInv => TypeOK
  BY DEF PubInv
<1> QED
  BY <1>1, PublisherInvariant, PTL

(* serve: a read-write session that ends with Ok has lost nothing. *)
THEOREM OkIsCommitted == Spec => []OkMeansCommitted
<1>1. PubInv => OkMeansCommitted
  BY DEF PubInv, Changes, Verdict, OkMeansCommitted
<1> QED
  BY <1>1, PublisherInvariant, PTL

(* serve and wl_close: Ok hides no fault and no error of the transport. *)
THEOREM NoFaultHidden == Spec => []FaultIsReported
<1>1. PubInv => FaultIsReported
  BY DEF PubInv, Verdict, FaultIsReported
<1> QED
  BY <1>1, PublisherInvariant, PTL

(* wl_lock_and_dismount: the handle it keeps prevents a new mount. *)
THEOREM NoNewMount == Spec => []StaysDismounted
<1>1. PubInv => StaysDismounted
  BY DEF PubInv, Changes, StaysDismounted
<1> QED
  BY <1>1, PublisherInvariant, PTL

(* wl_close waits: no callback outlives its unit or its session. *)
THEOREM NoStrayCallback == Spec => []ContextAlive
<1>1. PubInv => ContextAlive
  BY DEF PubInv, TypeOK, Stages, UnitUp, Waiting, Cleaning, Flushing, Attempting, ContextAlive
<1> QED
  BY <1>1, PublisherInvariant, PTL

(* serve, wl_create and wl_close: every exit leaves nothing behind. *)
THEOREM EverythingReleased == Spec => []NothingLeft
<1>1. PubInv => NothingLeft
  BY DEF PubInv, TypeOK, Stages, Locks, UnitUp, Waiting, Cleaning, Flushing, Attempting, NothingLeft
<1> QED
  BY <1>1, PublisherInvariant, PTL

----------------------------------------------------------------------------
(* Session: the publisher together with an abstract disk.                  *)

WriteTo(s, v) == [op |-> "write", lba |-> s, count |-> 1, val |-> v]
WriteReqs     == {WriteTo(s, v) : s \in Sectors, v \in Vals}

Typed ==
  /\ wanted \in [Sectors -> Vals \cup {NoVal}] /\ promise \in [Sectors -> Vals \cup {NoVal}]
  /\ pending \subseteq Sectors
  /\ active \in [Clients -> WriteReqs \cup {Flush, NoReq}]

(* One request at a time; a write has unsettled its sector; a callback has *)
(* its thread, the last flush its step of shutdown.                        *)
InProgress ==
  /\ \A c, d \in Clients : active[c] # NoReq /\ active[d] # NoReq => c = d
  /\ \A c \in Clients : active[c] # NoReq /\ active[c].op = "write" => active[c].lba \in unsettled
  /\ active["dispatcher"] # NoReq => disp = "busy"
  /\ active["main"] # NoReq => pc = "flush"
  /\ failed => faulted

(* A change that nobody acknowledged keeps the file system dirty.  As long *)
(* as none was lost, every other change of the session is on the disk.     *)
OnDisk ==
  /\ ~dirty => pending = {}
  /\ \A s \in pending : wanted[s] # NoVal
  /\ ~lost => \A s \in Sectors : wanted[s] # NoVal /\ s \notin pending =>
                                   s \notin unsettled /\ content[s] = wanted[s]

(* What was promised is settled, and nobody is about to write there. *)
Promised == \A s \in Sectors : promise[s] # NoVal =>
              s \notin unsettled /\ s \notin pending /\ content[s] = promise[s]

SInv == PubInv /\ Typed /\ InProgress /\ OnDisk /\ Promised

----------------------------------------------------------------------------
LEMMA FlushIsNoWrite == Flush \notin WriteReqs
<1> SUFFICES ASSUME NEW s \in Sectors, NEW v \in Vals, Flush = WriteTo(s, v) PROVE FALSE
  BY DEF WriteReqs
<1>1. Flush.op = "flush" /\ WriteTo(s, v).op = "write"
  BY DEF Flush, WriteTo
<1> QED
  BY <1>1

(* Every step of a session is one of the publisher, or none. *)
LEMMA PublisherStep == SNext => [Next]_vars
<1> SUFFICES ASSUME SNext PROVE Next \/ UNCHANGED vars
  OBVIOUS
<1> USE DEF Next, Serve, Create, Loop, Attempt, Close, Dispatcher, Environment
<1>1. CASE Alone
  BY <1>1 DEF Alone
<1>2. CASE (\E s \in pending : fs = "rw" /\ Admit(Request(s))) \/ Admit(Flush)
  BY <1>2 DEF Admit
<1>3. CASE Refused
  BY <1>3 DEF Refused
<1>4. CASE \E code \in {"Ok", "WritebackFailed"} : Finish(code)
  BY <1>4 DEF Finish
<1>5. CASE \E s \in Sectors, v \in Vals : Change(s, v)
  BY <1>5 DEF Change
<1>6. CASE SCommit \/ SCommitFails \/ SLock \/ SAttemptFails
  BY <1>6 DEF SCommit, SCommitFails, SLock, SAttemptFails
<1>7. CASE AdmitFlush \/ SFinalFlush
  BY <1>7 DEF AdmitFlush, SFinalFlush
<1>8. CASE SUnitGone \/ SFree \/ SCrash \/ SRestart
  BY <1>8 DEF SUnitGone, SFree, SCrash, SRestart
<1>9. CASE D!Settle /\ UNCHANGED vars /\ UNCHANGED avars
  BY <1>9
<1> QED
  BY <1>1, <1>2, <1>3, <1>4, <1>5, <1>6, <1>7, <1>8, <1>9 DEF SNext

(* And one of the disk, or none. *)
LEMMA DiskStep == SNext => [D!Next]_dvars
<1> SUFFICES ASSUME SNext PROVE D!Next \/ UNCHANGED dvars
  OBVIOUS
<1> USE DEF D!Next, Clients
<1>1. CASE Alone /\ Still
  BY <1>1 DEF Still
<1>2. CASE (\E s \in pending : fs = "rw" /\ Admit(Request(s))) \/ Admit(Flush)
  BY <1>2 DEF Admit
<1>3. CASE Refused
  BY <1>3 DEF Refused
<1>4. CASE \E code \in {"Ok", "WritebackFailed"} : Finish(code)
  BY <1>4 DEF Finish
<1>5. CASE \E s \in Sectors, v \in Vals : Change(s, v)
  BY <1>5 DEF Change
<1>6. CASE SCommit \/ SCommitFails \/ SLock \/ SAttemptFails
  BY <1>6 DEF SCommit, SCommitFails, SLock, SAttemptFails, Still, Condemned
<1>7. CASE AdmitFlush \/ SFinalFlush
  BY <1>7 DEF AdmitFlush, SFinalFlush
<1>8. CASE SUnitGone \/ SFree \/ SCrash \/ SRestart
  BY <1>8 DEF SUnitGone, SFree, SCrash, SRestart
<1>9. CASE D!Settle /\ UNCHANGED vars /\ UNCHANGED avars
  BY <1>9
<1> QED
  BY <1>1, <1>2, <1>3, <1>4, <1>5, <1>6, <1>7, <1>8, <1>9 DEF SNext

LEMMA PubStays == SInv /\ [SNext]_svars => PubInv'
  BY PublisherStep, NextPub DEF SInv, svars

(* At the start nothing is written, wanted or promised. *)
LEMMA InitS == SInit => SInv
<1> SUFFICES ASSUME SInit PROVE SInv
  OBVIOUS
<1>1. PubInv
  BY InitPub DEF SInit
<1>2. Typed
  BY DEF SInit, D!Init, Typed, Nothing
<1>3. InProgress
  BY DEF SInit, D!Init, InProgress, Clients
<1>4. OnDisk /\ Promised
  BY DEF SInit, OnDisk, Promised, Nothing
<1> QED
  BY <1>1, <1>2, <1>3, <1>4 DEF SInv

----------------------------------------------------------------------------
(* Steps of the publisher that the disk and the applications do not see. *)
LEMMA StillS ==
  ASSUME SInv, Still, Alone \/ SCommit \/ SLock
  PROVE  SInv'
<1>1. PubInv'
  BY PubStays DEF SNext, SCommit, SLock
<1>2. UNCHANGED <<content, unsettled, active, answer, failed, writable, wanted, pending, promise>>
  BY DEF Still, dvars, avars
<1>3. faulted' = faulted /\ lost' = lost /\ (disp = "busy" => disp' = "busy")
      /\ (pc = "flush" => pc' = "flush")
  BY DEF Alone, SCommit, SLock, CreateFails, CreateUnit, StartDispatcher, Loop, Discovered,
         DiscoveryEnds, LeaveLoop, TakeQuit, FindVolume, FlushVolume, Dismount, SampleBefore,
         ShutdownUnit, WaitDispatcher, CloseVolume, CloseGuard, CallbackBegins, DispatcherStops,
         Mount, CtrlC, Expire, Files, Commit, LockVolume, AttemptRest, CloseRest, Others, Goto,
         serveVars, faultVars, shimVars, unitVars, fsVars, userVars, SInv, PubInv, Stages
<1>4. dirty' = dirty \/ pending = {}
  BY DEF Alone, SCommit, SLock, Committed, CreateFails, CreateUnit, StartDispatcher, Loop,
         Discovered, DiscoveryEnds, LeaveLoop, TakeQuit, FindVolume, FlushVolume, Dismount,
         SampleBefore, ShutdownUnit, WaitDispatcher, CloseVolume, CloseGuard, CallbackBegins,
         DispatcherStops, Mount, CtrlC, Expire, Files, AttemptRest, CloseRest, Others,
         serveVars, faultVars, shimVars, unitVars, fsVars, userVars
<1>5. Typed' /\ Promised'
  BY <1>2 DEF SInv, Typed, Promised
<1>6. InProgress' /\ OnDisk'
  BY <1>2, <1>3, <1>4 DEF SInv, InProgress, OnDisk
<1> QED
  BY <1>1, <1>5, <1>6 DEF SInv

(* A request is admitted: a write is of a pending change. *)
LEMMA AdmitS ==
  ASSUME SInv, NEW c \in Clients, NEW r \in WriteReqs \cup {Flush}, D!Accept(c),
         active' = [active EXCEPT ![c] = r], UNCHANGED vars, UNCHANGED avars,
         c = "dispatcher" => disp = "busy", c = "main" => pc = "flush",
         r \in WriteReqs => r.lba \in pending
  PROVE  SInv'
<1>1. PubInv'
  BY NextPub DEF SInv
<1>2. UNCHANGED <<disp, pc, faulted, dirty, lost, wanted, pending, promise>>
  BY DEF vars, serveVars, faultVars, unitVars, fsVars, avars
<1>3. /\ \A d \in Clients : active[d] = NoReq
      /\ active \in [Clients -> WriteReqs \cup {Flush, NoReq}]
      /\ active'[c] = r /\ \A d \in Clients \ {c} : active'[d] = NoReq
      /\ UNCHANGED <<content, failed>>
  BY DEF D!Accept, D!Same, SInv, Typed
<1>4. Typed'
  BY <1>2 DEF SInv, Typed
<1>5. CASE r = Flush
  <2>1. r.op = "flush" /\ unsettled' = unsettled
    BY <1>3, <1>5 DEF D!Accept, D!Same, Flush
  <2>2. InProgress'
    BY <1>2, <1>3, <2>1 DEF SInv, InProgress, Clients
  <2>3. OnDisk' /\ Promised'
    BY <1>2, <1>3, <2>1 DEF SInv, OnDisk, Promised
  <2> QED
    BY <1>1, <1>4, <2>2, <2>3 DEF SInv
<1>6. CASE r \in WriteReqs
  <2>1. PICK s \in Sectors, v \in Vals : r = WriteTo(s, v)
    BY <1>6 DEF WriteReqs
  <2>2. D!Span(r) = {s}
    BY <2>1, SessionAssumption DEF D!Span, WriteTo
  <2>3. unsettled' = unsettled \cup {s} /\ s \in pending /\ r.op = "write" /\ r.lba = s
    BY <1>3, <1>6, <2>1, <2>2 DEF D!Accept, WriteTo
  <2>4. InProgress'
    BY <1>2, <1>3, <2>3 DEF SInv, InProgress, Clients
  <2>5. OnDisk' /\ Promised'
    BY <1>2, <1>3, <2>3 DEF SInv, OnDisk, Promised
  <2> QED
    BY <1>1, <1>4, <2>4, <2>5 DEF SInv
<1> QED
  BY <1>5, <1>6

(* What an answered request leaves: nothing but unsettled sectors changed, *)
(* unless it is a write that succeeded, whose sector is settled with it.   *)
LEMMA CompleteD ==
  ASSUME Typed, InProgress, NEW c \in Clients, D!Complete(c)
  PROVE  /\ active[c] # NoReq /\ active' = [active EXCEPT ![c] = NoReq] /\ failed' = failed
         /\ \/ /\ active[c].op = "flush" /\ unsettled' = unsettled
               /\ \A s \in Sectors \ unsettled : content'[s] = content[s]
            \/ \E s \in Sectors, v \in Vals :
                 /\ active[c] = WriteTo(s, v) /\ s \in unsettled /\ unsettled' = unsettled \ {s}
                 /\ content'[s] = v /\ \A t \in Sectors \ unsettled : content'[t] = content[t]
<1>1. active[c] # NoReq /\ active' = [active EXCEPT ![c] = NoReq] /\ failed' = failed
  BY DEF D!Complete, D!Same
<1>2. active[c] \in WriteReqs \cup {Flush}
  BY <1>1 DEF Typed
<1>3. CASE active[c] = Flush
  <2>1. active[c].op = "flush"
    BY <1>3 DEF Flush
  <2> QED
    BY <1>1, <2>1 DEF D!Complete, D!KeepsAllBut, D!Same
<1>4. CASE active[c] \in WriteReqs
  <2>1. PICK s \in Sectors, v \in Vals : active[c] = WriteTo(s, v)
    BY <1>4 DEF WriteReqs
  <2>2. active[c].op = "write" /\ active[c].lba = s /\ active[c].val = v /\ active[c].count = 1
    BY <2>1 DEF WriteTo
  <2>3. D!Span(active[c]) = {s}
    BY <2>2, SessionAssumption DEF D!Span
  <2>4. s \in unsettled
    BY <1>1, <2>2 DEF InProgress
  <2>5. unsettled' = unsettled \ {s} /\ content'[s] = v
        /\ \A t \in Sectors \ unsettled : content'[t] = content[t]
    BY <2>2, <2>3 DEF D!Complete, D!KeepsAllBut
  <2> QED
    BY <1>1, <2>1, <2>4, <2>5
<1> QED
  BY <1>2, <1>3, <1>4

(* A write or a flush that fails settles nothing. *)
LEMMA BreakD ==
  ASSUME NEW c \in Clients, D!Break(c)
  PROVE  /\ active[c] # NoReq /\ active' = [active EXCEPT ![c] = NoReq] /\ failed'
         /\ UNCHANGED <<content, unsettled>>
  BY DEF D!Break, D!Same

(* A request is answered, and what the publisher makes of it. *)
LEMMA AnsweredS ==
  ASSUME SInv, NEW c \in Clients, PubInv',
         D!Complete(c) \/ (D!Break(c) /\ faulted'),
         faulted => faulted', UNCHANGED <<dirty, lost, wanted, promise>>,
         c = "main" => (disp = "busy" => disp' = "busy"),
         c = "dispatcher" => pc' = pc,
         pending' = pending \/ \E s \in Sectors : /\ D!Complete(c) /\ pending' = pending \ {s}
                                                  /\ active[c] = WriteTo(s, wanted[s])
  PROVE  SInv'
<1>1. active[c] # NoReq /\ active' = [active EXCEPT ![c] = NoReq]
  BY CompleteD, BreakD DEF SInv
<1>2. \A d \in Clients : active'[d] = NoReq
  BY <1>1 DEF SInv, Typed, InProgress
<1>3. Typed'
  BY <1>1 DEF SInv, Typed
<1>4. failed' => faulted'
  BY CompleteD, BreakD DEF SInv, InProgress
<1>5. InProgress'
  BY <1>2, <1>4 DEF InProgress, Clients
<1>6. CASE pending' = pending /\ UNCHANGED unsettled
           /\ \A s \in Sectors \ unsettled : content'[s] = content[s]
  BY <1>3, <1>5, <1>6 DEF SInv, OnDisk, Promised
<1>7. CASE \E s \in Sectors, v \in Vals :
             /\ active[c] = WriteTo(s, v) /\ s \in unsettled /\ unsettled' = unsettled \ {s}
             /\ content'[s] = v /\ \A t \in Sectors \ unsettled : content'[t] = content[t]
             /\ pending' = pending \/ (pending' = pending \ {s} /\ v = wanted[s])
  <2> PICK s \in Sectors, v \in Vals :
             /\ active[c] = WriteTo(s, v) /\ s \in unsettled /\ unsettled' = unsettled \ {s}
             /\ content'[s] = v /\ \A t \in Sectors \ unsettled : content'[t] = content[t]
             /\ pending' = pending \/ (pending' = pending \ {s} /\ v = wanted[s])
    BY <1>7
  <2>1. ~lost' => \A t \in Sectors : wanted'[t] # NoVal /\ t \notin pending' =>
                                       t \notin unsettled' /\ content'[t] = wanted'[t]
    <3> SUFFICES ASSUME ~lost, NEW t \in Sectors, wanted[t] # NoVal, t \notin pending'
                 PROVE  t \notin unsettled' /\ content'[t] = wanted[t]
      OBVIOUS
    <3>1. CASE t = s
      <4>1. s \in pending
        BY <3>1 DEF SInv, OnDisk
      <4> QED
        BY <4>1, <3>1
    <3>2. CASE t # s
      BY <3>2 DEF SInv, OnDisk
    <3> QED
      BY <3>1, <3>2
  <2>2. OnDisk'
    BY <2>1 DEF SInv, OnDisk
  <2>3. Promised'
    BY DEF SInv, Promised
  <2> QED
    BY <1>3, <1>5, <2>2, <2>3 DEF SInv
<1>8. CASE D!Break(c) /\ ~D!Complete(c)
  BY <1>8, <1>6, BreakD
<1>9. CASE D!Complete(c)
  <2>1. CASE active[c].op = "flush" /\ unsettled' = unsettled
             /\ \A s \in Sectors \ unsettled : content'[s] = content[s]
    <3>1. \A s \in Sectors : active[c] # WriteTo(s, wanted[s])
      BY <2>1 DEF WriteTo
    <3> QED
      BY <2>1, <3>1, <1>6
  <2>2. CASE \E s \in Sectors, v \in Vals :
               /\ active[c] = WriteTo(s, v) /\ s \in unsettled /\ unsettled' = unsettled \ {s}
               /\ content'[s] = v /\ \A t \in Sectors \ unsettled : content'[t] = content[t]
    <3> PICK s \in Sectors, v \in Vals :
               /\ active[c] = WriteTo(s, v) /\ s \in unsettled /\ unsettled' = unsettled \ {s}
               /\ content'[s] = v /\ \A t \in Sectors \ unsettled : content'[t] = content[t]
      BY <2>2
    <3>1. \A t \in Sectors : active[c] = WriteTo(t, wanted[t]) => t = s /\ v = wanted[s]
      BY DEF WriteTo
    <3>2. pending' = pending \/ (pending' = pending \ {s} /\ v = wanted[s])
      BY <3>1
    <3> QED
      BY <3>2, <1>7
  <2> QED
    BY <1>9, <2>1, <2>2, CompleteD DEF SInv
<1> QED
  BY <1>8, <1>9

LEMMA FinishS ==
  ASSUME SInv, NEW code \in {"Ok", "WritebackFailed"}, Finish(code)
  PROVE  SInv'
<1> DEFINE c == "dispatcher"
<1>1. PubInv' /\ c \in Clients
  BY PubStays DEF SNext, Clients
<1>2. active[c] # NoReq /\ active[c] \in WriteReqs \cup {Flush}
  BY <1>1 DEF Finish, SInv, Typed
<1>3. (code = "Ok" /\ D!Complete(c) /\ CallbackEnds(FALSE)) \/ (D!Break(c) /\ CallbackEnds(TRUE))
  BY DEF Finish
<1>4. /\ UNCHANGED <<dirty, lost, pc, wanted, promise>>
      /\ (faulted => faulted') /\ (CallbackEnds(TRUE) => faulted')
  BY DEF Finish, CallbackEnds, Others, serveVars, fsVars
<1>5. pending' = pending \/ \E s \in Sectors : /\ D!Complete(c) /\ pending' = pending \ {s}
                                               /\ active[c] = WriteTo(s, wanted[s])
  <2>1. CASE ~Acknowledged(active[c], code)
    BY <2>1 DEF Finish
  <2>2. CASE Acknowledged(active[c], code)
    <3>1. code = "Ok" /\ active[c].op = "write" /\ active[c].val = wanted[active[c].lba]
      BY <2>2 DEF Acknowledged
    <3>2. active[c] \in WriteReqs
      BY <3>1, <1>2 DEF Flush
    <3>3. PICK s \in Sectors, v \in Vals : active[c] = WriteTo(s, v)
      BY <3>2 DEF WriteReqs
    <3>4. active[c].lba = s /\ v = wanted[s]
      BY <3>1, <3>3 DEF WriteTo
    <3>5. pending' = pending \ {s} /\ D!Complete(c)
      BY <2>2, <3>1, <3>4 DEF Finish
    <3> QED
      BY <3>3, <3>4, <3>5
  <2> QED
    BY <2>1, <2>2
<1>6. c # "main"
  OBVIOUS
<1> QED
  BY <1>1, <1>3, <1>4, <1>5, <1>6, AnsweredS

(* shutdown: the last flush. *)
LEMMA FinalFlushS ==
  ASSUME SInv, SFinalFlush
  PROVE  SInv'
<1>1. PubInv' /\ "main" \in Clients
  BY PubStays DEF SNext, Clients
<1>2. /\ UNCHANGED <<dirty, lost, disp, wanted, pending, promise>>
      /\ (faulted => faulted') /\ (FinalFlush(TRUE) => faulted')
  BY DEF SFinalFlush, FinalFlush, unitVars, fsVars, avars
<1>3. CASE faulted /\ active["main"] = NoReq /\ UNCHANGED dvars
  BY <1>1, <1>2, <1>3 DEF dvars, SInv, Typed, InProgress, OnDisk, Promised
<1>4. CASE D!Complete("main") \/ (D!Break("main") /\ FinalFlush(TRUE))
  BY <1>1, <1>2, <1>4, AnsweredS
<1> QED
  BY <1>3, <1>4 DEF SFinalFlush

----------------------------------------------------------------------------
(* A step in which the session fails, or not, and gives changes up that    *)
(* cannot be committed any more.                                           *)
LEMMA ForgetS ==
  ASSUME SInv, PubInv', Forget, UNCHANGED <<wanted, promise, content, unsettled, active>>,
         dirty' => dirty, lost \/ (dirty /\ ~dirty') => lost',
         faulted => faulted', failed' => failed \/ faulted',
         active["dispatcher"] # NoReq => disp' = "busy", active["main"] # NoReq => pc' = "flush"
  PROVE  SInv'
<1>1. Typed' /\ Promised'
  BY DEF SInv, Typed, Promised, Forget
<1>2. InProgress'
  BY DEF SInv, InProgress
<1>3. OnDisk'
  BY DEF SInv, OnDisk, Forget
<1> QED
  BY <1>1, <1>2, <1>3 DEF SInv

LEMMA CommitFailsS ==
  ASSUME SInv, SCommitFails
  PROVE  SInv'
<1>1. PubInv'
  BY PubStays DEF SNext
<1>2. /\ Forget /\ UNCHANGED <<wanted, promise, content, unsettled, active, failed, faulted, disp, pc>>
      /\ ~dirty' /\ lost'
  BY DEF SCommitFails, CommitFails, CommitFailsOn, Others, dvars, serveVars
<1> QED
  BY <1>1, <1>2, ForgetS DEF SInv, InProgress

LEMMA AttemptFailsS ==
  ASSUME SInv, SAttemptFails
  PROVE  SInv'
<1>1. PubInv'
  BY PubStays DEF SNext
<1>2. /\ Forget /\ UNCHANGED <<wanted, promise, content, unsettled, active, disp>>
      /\ failed' => failed \/ faulted'
  BY DEF SAttemptFails, Condemned, D!Condemn, dvars, FindFails, DismountFails, LockFails,
         AttemptRest, unitVars
<1>3. pc # "flush" /\ (faulted => faulted')
  BY DEF SAttemptFails, FindFails, DismountFails, LockFails, GiveUpAttempt
<1>4. (dirty' => dirty) /\ (lost \/ (dirty /\ ~dirty') => lost')
  <2>1. CASE FindFails \/ DismountFails
    <3>1. dirty' = dirty /\ lost' = lost
      BY <2>1 DEF FindFails, DismountFails, fsVars
    <3> QED
      BY <3>1
  <2>2. CASE \E busy \in BOOLEAN : LockFails(busy)
    <3>1. (~dirty' /\ lost') \/ (dirty' = dirty /\ lost' = lost)
      BY <2>2 DEF LockFails, CommitFailsOn
    <3> QED
      BY <3>1
  <2> QED
    BY <2>1, <2>2 DEF SAttemptFails
<1> QED
  BY <1>1, <1>2, <1>3, <1>4, ForgetS DEF SInv, InProgress

LEMMA UnitGoneS ==
  ASSUME SInv, SUnitGone
  PROVE  SInv'
<1>1. PubInv'
  BY PubStays DEF SNext
<1>2. /\ Forget /\ UNCHANGED <<wanted, promise, content, unsettled, active, failed, faulted, disp>>
      /\ ~dirty' /\ (lost \/ dirty => lost') /\ pc # "flush"
  BY DEF SUnitGone, StartFails, DeleteUnit, UnitGone, CloseRest, dvars, faultVars, Goto
<1>3. active["main"] = NoReq /\ (active["dispatcher"] # NoReq => disp = "busy")
  BY <1>2 DEF SInv, InProgress
<1> QED
  BY <1>1, <1>2, <1>3, ForgetS

(* The dispatcher refuses a request, or its callback panics. *)
LEMMA RefusedS ==
  ASSUME SInv, Refused
  PROVE  SInv'
<1>1. PubInv'
  BY PubStays DEF SNext
<1>2. /\ UNCHANGED <<wanted, promise, pending, content, unsettled, active, pc, dirty, lost>>
      /\ active["dispatcher"] = NoReq /\ (faulted => faulted') /\ (failed' => failed \/ faulted')
  <2>1. CASE CallbackEnds(FALSE) /\ UNCHANGED dvars
    BY <2>1 DEF Refused, CallbackEnds, Others, dvars, avars, serveVars, fsVars
  <2>2. CASE CallbackEnds(TRUE) /\ D!Condemn
    BY <2>2 DEF Refused, CallbackEnds, Others, D!Condemn, avars, serveVars, fsVars
  <2> QED
    BY <2>1, <2>2 DEF Refused
<1>3. Typed' /\ InProgress' /\ OnDisk' /\ Promised'
  BY <1>2 DEF SInv, Typed, InProgress, OnDisk, Promised
<1> QED
  BY <1>1, <1>3 DEF SInv

(* An application changes a sector: what was promised of it is over. *)
LEMMA ChangeS ==
  ASSUME SInv, NEW s \in Sectors, NEW v \in Vals, Change(s, v)
  PROVE  SInv'
<1>1. PubInv'
  BY PubStays DEF SNext
<1>2. /\ wanted' = [wanted EXCEPT ![s] = v] /\ promise' = [promise EXCEPT ![s] = NoVal]
      /\ pending' = pending \cup {s} /\ dirty'
      /\ UNCHANGED <<content, unsettled, active, failed, faulted, pc, disp, lost>>
  BY DEF Change, Modify, Others, dvars, vars, serveVars, fsVars, faultVars, unitVars
<1>3. Typed'
  BY <1>2 DEF SInv, Typed
<1>4. InProgress'
  BY <1>2 DEF SInv, InProgress
<1>5. wanted'[s] = v /\ v # NoVal /\ promise'[s] = NoVal
      /\ \A t \in Sectors \ {s} : wanted'[t] = wanted[t] /\ promise'[t] = promise[t]
  BY <1>2, SessionAssumption DEF SInv, Typed
<1>6. OnDisk' /\ Promised'
  BY <1>2, <1>5 DEF SInv, Typed, OnDisk, Promised
<1> QED
  BY <1>1, <1>3, <1>4, <1>6 DEF SInv

(* serve answers: with Ok, what was written becomes a promise. *)
LEMMA FreeS ==
  ASSUME SInv, SFree
  PROVE  SInv'
<1>1. PubInv'
  BY PubStays DEF SNext
<1>2. UNCHANGED <<wanted, pending, content, unsettled, active, failed, faulted, disp, dirty, lost, mode, clean>>
      /\ pc = "free" /\ result' = Result
  BY DEF SFree, FreeSession, CloseRest, Goto, dvars, faultVars, unitVars, fsVars
<1>3. Typed'
  <2>1. promise' \in [Sectors -> Vals \cup {NoVal}]
    BY DEF SFree, SInv, Typed
  <2> QED
    BY <1>2, <2>1 DEF SInv, Typed
<1>4. InProgress' /\ OnDisk'
  BY <1>2 DEF SInv, InProgress, OnDisk
<1>5. Promised'
  <2>1. CASE ~(RW /\ result' = "Ok")
    <3>1. promise' = promise
      BY <2>1 DEF SFree
    <3> QED
      BY <3>1, <1>2 DEF SInv, Promised
  <2>2. CASE RW /\ result' = "Ok"
    <3>1. clean
      BY <2>2, <1>2 DEF Result
    <3>2. ~lost /\ fs = "none"
      BY <2>2, <3>1 DEF SInv, PubInv, Changes
    <3>3. pending = {}
      BY <3>2 DEF SInv, PubInv, Changes, OnDisk
    <3>4. promise' = [s \in Sectors |-> IF wanted[s] = NoVal THEN promise[s] ELSE wanted[s]]
      BY <2>2 DEF SFree
    <3> SUFFICES ASSUME NEW s \in Sectors, promise'[s] # NoVal
                 PROVE  s \notin unsettled /\ s \notin pending /\ content[s] = promise'[s]
      BY <1>2 DEF Promised
    <3>5. CASE wanted[s] = NoVal
      BY <3>4, <3>5 DEF SInv, Promised
    <3>6. CASE wanted[s] # NoVal
      BY <3>2, <3>3, <3>4, <3>6 DEF SInv, OnDisk
    <3> QED
      BY <3>5, <3>6
  <2> QED
    BY <2>1, <2>2
<1> QED
  BY <1>1, <1>3, <1>4, <1>5 DEF SInv

(* The process ends, or a new one starts: what is settled stays. *)
LEMMA TurnoverS ==
  ASSUME SInv, SCrash \/ SRestart
  PROVE  SInv'
<1>1. PubInv'
  BY PubStays DEF SNext
<1>2. /\ active' = [c \in Clients |-> NoReq] /\ ~failed' /\ unsettled' = unsettled
      /\ \A s \in Sectors \ unsettled : content'[s] = content[s]
      /\ promise' = promise
  BY DEF SCrash, SRestart, D!Turnover, D!KeepsAllBut
<1>3. InProgress'
  BY <1>2 DEF InProgress, Clients
<1>4. pending' \subseteq pending
  BY DEF SCrash, SRestart, Forget
<1>5. wanted' \in [Sectors -> Vals \cup {NoVal}]
  BY DEF SCrash, SRestart, Nothing, SInv, Typed
<1>6. Typed'
  BY <1>2, <1>4, <1>5 DEF SInv, Typed
<1>7. Promised'
  BY <1>2, <1>4 DEF SInv, Promised
<1>8. CASE SCrash
  <2>1. ~dirty' /\ pending' = {} /\ (lost \/ dirty => lost') /\ wanted' = wanted
    BY <1>8 DEF SCrash, Crash, UnitGone, Forget
  <2>2. OnDisk'
    BY <1>2, <2>1 DEF SInv, OnDisk
  <2> QED
    BY <1>1, <1>3, <1>6, <1>7, <2>2 DEF SInv
<1>9. CASE SRestart
  <2>1. pc = "exit" /\ wanted' = Nothing /\ pending' = pending /\ dirty' = dirty
    BY <1>9 DEF SRestart, Restart
  <2>2. ~dirty
    BY <2>1 DEF SInv, PubInv, TypeOK, Stages, Changes
  <2>3. pending = {}
    BY <2>2 DEF SInv, OnDisk
  <2>4. \A s \in Sectors : wanted'[s] = NoVal
    BY <2>1 DEF Nothing
  <2>5. OnDisk'
    BY <2>1, <2>3, <2>4 DEF OnDisk
  <2> QED
    BY <1>1, <1>3, <1>6, <1>7, <2>5 DEF SInv
<1> QED
  BY <1>8, <1>9

LEMMA SettleS ==
  ASSUME SInv, D!Settle, UNCHANGED vars, UNCHANGED avars
  PROVE  SInv'
<1>1. PubInv'
  BY NextPub DEF SInv
<1>2. /\ UNCHANGED <<wanted, pending, promise, unsettled, active, failed, faulted, disp, pc, dirty, lost>>
      /\ \A s \in Sectors \ unsettled : content'[s] = content[s]
  BY DEF D!Settle, D!KeepsAllBut, avars, vars, serveVars, faultVars, unitVars, fsVars
<1>3. Typed' /\ InProgress' /\ OnDisk' /\ Promised'
  BY <1>2 DEF SInv, Typed, InProgress, OnDisk, Promised
<1> QED
  BY <1>1, <1>3 DEF SInv

----------------------------------------------------------------------------
(* Every step keeps the invariant. *)
LEMMA NextS == SInv /\ [SNext]_svars => SInv'
<1> SUFFICES ASSUME SInv, [SNext]_svars PROVE SInv'
  OBVIOUS
<1>1. CASE UNCHANGED svars
  <2>1. PubInv'
    BY PubStays
  <2>2. Typed' /\ InProgress' /\ OnDisk' /\ Promised'
    BY <1>1 DEF svars, vars, serveVars, faultVars, unitVars, fsVars, dvars, avars,
                SInv, Typed, InProgress, OnDisk, Promised
  <2> QED
    BY <2>1, <2>2 DEF SInv
<1>2. CASE (Alone /\ Still) \/ SCommit \/ SLock
  BY <1>2, StillS DEF SCommit, SLock
<1>3. CASE \E s \in pending : fs = "rw" /\ Admit(Request(s))
  <2> PICK s \in pending : Admit(Request(s))
    BY <1>3
  <2>1. s \in Sectors /\ wanted[s] \in Vals
    BY DEF SInv, Typed, OnDisk
  <2>2. Request(s) = WriteTo(s, wanted[s])
    BY DEF Request, WriteTo
  <2>3. Request(s) \in WriteReqs /\ Request(s).lba = s
    BY <2>1, <2>2 DEF WriteReqs, WriteTo
  <2>4. "dispatcher" \in Clients
    BY DEF Clients
  <2> QED
    BY <2>3, <2>4, AdmitS DEF Admit
<1>4. CASE Admit(Flush)
  <2>1. "dispatcher" \in Clients
    BY DEF Clients
  <2>2. Flush \notin WriteReqs
    BY FlushIsNoWrite
  <2> QED
    BY <1>4, <2>1, <2>2, AdmitS DEF Admit
<1>5. CASE AdmitFlush
  <2>1. "main" \in Clients
    BY DEF Clients
  <2>2. Flush \notin WriteReqs
    BY FlushIsNoWrite
  <2> QED
    BY <1>5, <2>1, <2>2, AdmitS DEF AdmitFlush
<1>6. CASE D!Settle /\ UNCHANGED vars /\ UNCHANGED avars
  BY <1>6, SettleS
<1>7. CASE SCrash \/ SRestart
  BY <1>7, TurnoverS
<1> QED
  BY <1>1, <1>2, <1>3, <1>4, <1>5, <1>6, <1>7, RefusedS, FinishS, ChangeS, CommitFailsS,
     AttemptFailsS, FinalFlushS, UnitGoneS, FreeS DEF SNext

(* Composing serve with the disk adds no behaviour to serve: the theorems  *)
(* about Publisher hold of whole sessions.                                 *)
THEOREM SessionPublishes == SSpec => Spec
<1>1. SInit => Init
  BY DEF SInit
<1>2. [SNext]_svars => [Next]_vars
  BY PublisherStep DEF svars
<1> QED
  BY <1>1, <1>2, PTL DEF SSpec, Spec

(* Nor to the disk: serve, callbacks and driver use it as DurableDisk lets *)
(* its clients, one request at a time and none after a failure.            *)
THEOREM SessionUsesDisk == SSpec => D!Spec
<1>1. SInit => D!Init
  BY DEF SInit
<1>2. [SNext]_svars => [D!Next]_dvars
  BY DiskStep DEF svars
<1> QED
  BY <1>1, <1>2, PTL DEF SSpec, D!Spec, D!dvars, dvars

(* The invariant holds for ever. *)
THEOREM SessionInvariant == SSpec => []SInv
  BY InitS, NextS, PTL DEF SSpec

(* serve: after Ok everything applications wrote is on the disk, and stays *)
(* there until somebody changes it again.                                  *)
THEOREM OkOutlivesAll == SSpec => []OkIsDurable
<1>1. SInv => OkIsDurable
  BY DEF SInv, Promised, OkIsDurable
<1> QED
  BY <1>1, SessionInvariant, PTL

(* serve: a session that answers Ok has no request under way and nothing   *)
(* left to write.                                                          *)
THEOREM OkLeavesNothing == SSpec => []OkIsQuiet
<1>1. ASSUME SInv PROVE OkIsQuiet
  <2> SUFFICES ASSUME RW, result = "Ok"
               PROVE  (\A c \in Clients : active[c] = NoReq) /\ pending = {} /\ ~failed
    BY DEF OkIsQuiet
  <2>1. pc = "exit" /\ ~faulted /\ disp # "busy" /\ ~dirty
    BY <1>1 DEF SInv, PubInv, TypeOK, Stages, Changes, Verdict
  <2> QED
    BY <1>1, <2>1 DEF SInv, InProgress, OnDisk, Clients
<1> QED
  BY <1>1, SessionInvariant, PTL
=============================================================================
