----------------------------- MODULE Publisher -----------------------------
(***************************************************************************)
(* Publication and close of one disk: serve() of src/adapter/windows.rs    *)
(* and the native shim under it (native/winspd_shim.c), with what runs     *)
(* beside them: the dispatcher thread of the WinSpd storage unit, the file *)
(* system driver that mounts the disk, the applications that hold files    *)
(* open on it and the user's Ctrl+C.                                       *)
(*                                                                         *)
(* The callbacks themselves are Volume.tla's: here one is in progress or   *)
(* not, and may leave the adapter faulted.  The driver is modelled as the  *)
(* source relies on it: it collects changes and commits them, goes         *)
(* read-only when a commit fails, and then neither commits on lock nor on  *)
(* flush (docs/reviews/v0.3.1-storage-ai.md, S2).                          *)
(***************************************************************************)
EXTENDS Naturals

VARIABLES
  mode,         \* AccessMode of the session
  pc,           \* the next step of serve
  quit,         \* the flag of the Ctrl+C handler
  expired,      \* the 30 s of discovery are over
  ready,        \* wl_volume_ready has answered 0
  clean,        \* `clean` of serve
  faulted,      \* UnlockedVolume.faulted
  stopping,     \* BlockAdapter.stopping
  syncFailed,   \* sync_failed of shutdown
  before,       \* wl_close: the dispatcher's error before the shutdown
  transport,    \* wl_close answered an error
  session,      \* WL_SESSION and the adapter: "none", "live", "freed"
  guard,        \* publish_guard is held
  lockedVolume, \* locked_volume is held
  unit,         \* the storage unit: "none", "up", "shut"
  disp,         \* its dispatcher thread: "none", "idle", "busy", "stopped"
  dispErr,      \* its error: "no", "aborted", "failed"
  fs,           \* the mounted file system: "none", "rw", "ro"
  files,        \* applications have files open on it
  dirty,        \* it has uncommitted changes
  fsLocked,     \* FSCTL_LOCK_VOLUME is in force
  result,       \* what serve returned
  pressed,      \* history: a Ctrl+C that no close attempt followed yet
  lost          \* history: changes of an application were lost

serveVars == <<pc, expired, ready, clean, result>>
faultVars == <<faulted, stopping, syncFailed>>
shimVars  == <<session, guard, lockedVolume, before, transport>>
unitVars  == <<unit, disp, dispErr>>
fsVars    == <<fs, files, dirty, fsLocked, lost>>
userVars  == <<quit, pressed>>
vars == <<mode, serveVars, faultVars, shimVars, unitVars, fsVars, userVars>>

RW == mode = "ReadWrite"

(* The type of every variable; whatever exists outside serve exists only   *)
(* from the step that makes it to the step that undoes it.                 *)
TypeOK ==
  /\ mode \in {"ReadOnly", "ReadWrite"}
  /\ pc \in {"create", "start", "discover", "running", "find", "lock", "flushvol", "dismount",
             "flush", "before", "shutdown", "wait", "delete", "closevol", "closeguard", "free",
             "exit"}
  /\ result \in {"none", "Ok", "UncleanClose", "VolumeDiscoveryFailed", "DevicePublishFailed"}
  /\ expired \in BOOLEAN /\ ready \in BOOLEAN /\ clean \in BOOLEAN
  /\ faulted \in BOOLEAN /\ stopping \in BOOLEAN /\ syncFailed \in BOOLEAN
  /\ guard \in BOOLEAN /\ lockedVolume \in BOOLEAN /\ transport \in BOOLEAN
  /\ files \in BOOLEAN /\ dirty \in BOOLEAN /\ fsLocked \in BOOLEAN /\ lost \in BOOLEAN
  /\ quit \in BOOLEAN /\ pressed \in BOOLEAN
  /\ before \in {"no", "aborted", "failed"} /\ dispErr \in {"no", "aborted", "failed"}
  /\ session \in {"none", "live", "freed"}
  /\ unit \in {"none", "up", "shut"} /\ disp \in {"none", "idle", "busy", "stopped"}
  /\ fs \in {"none", "rw", "ro"}
  /\ unit = "none" => disp \in {"none", "stopped"} /\ fs = "none"
  /\ session = "live" <=> pc \notin {"create", "exit"}

Init ==
  /\ mode \in {"ReadOnly", "ReadWrite"}
  /\ pc = "create" /\ expired = FALSE /\ ready = FALSE /\ clean = ~RW /\ result = "none"
  /\ faulted = FALSE /\ stopping = FALSE /\ syncFailed = FALSE
  /\ session = "none" /\ guard = FALSE /\ lockedVolume = FALSE
  /\ before = "no" /\ transport = FALSE
  /\ unit = "none" /\ disp = "none" /\ dispErr = "no"
  /\ fs = "none" /\ files = FALSE /\ dirty = FALSE /\ fsLocked = FALSE /\ lost = FALSE
  /\ quit = FALSE /\ pressed = FALSE

Goto(from, to) == pc = from /\ pc' = to

----------------------------------------------------------------------------
(* wl_create.                                                             *)

(* Another publisher, no memory, no GUID, or no unit: nothing is kept. *)
CreateFails ==
  /\ Goto("create", "exit")
  /\ result' = "DevicePublishFailed"
  /\ UNCHANGED <<mode, expired, ready, clean, faultVars, shimVars, unitVars, fsVars, userVars>>

CreateUnit ==
  /\ Goto("create", "start")
  /\ session' = "live" /\ guard' = TRUE
  /\ unit' = "up"
  /\ UNCHANGED <<mode, expired, ready, clean, result, faultVars, lockedVolume, before, transport,
                 disp, dispErr, fsVars, userVars>>

(* The volume disappears with the unit, and takes what it had not committed. *)
UnitGone ==
  /\ unit' = "none"
  /\ fs' = "none" /\ files' = FALSE /\ dirty' = FALSE
  /\ lost' = (lost \/ dirty)

\* MUTANT the failed start forgets the unit it created
StartFails_KeepsUnit ==
  /\ Goto("start", "exit")
  /\ UNCHANGED <<unit, fs, files, dirty, lost, fsLocked>>
  /\ guard' = FALSE /\ session' = "freed"
  /\ result' = "DevicePublishFailed"
  /\ UNCHANGED <<mode, expired, ready, clean, faultVars, lockedVolume, before, transport,
                 disp, dispErr, userVars>>
(* SpdStorageUnitStartDispatcher fails: the unit and the guard are undone. *)
StartFails ==
  /\ Goto("start", "exit")
  /\ UnitGone /\ UNCHANGED fsLocked
  /\ guard' = FALSE /\ session' = "freed"
  /\ result' = "DevicePublishFailed"
  /\ UNCHANGED <<mode, expired, ready, clean, faultVars, lockedVolume, before, transport,
                 disp, dispErr, userVars>>

StartDispatcher ==
  /\ Goto("start", "discover")
  /\ disp' = "idle"
  /\ UNCHANGED <<mode, expired, ready, clean, result, faultVars, shimVars, unit, dispErr,
                 fsVars, userVars>>

----------------------------------------------------------------------------
(* serve: discovery and the main loop.                                    *)

(* wl_volume_ready: the volume is found, with the mode of the session. *)
Discovered ==
  /\ Goto("discover", "running")
  /\ fs = IF RW THEN "rw" ELSE "ro"
  /\ ready' = TRUE
  /\ UNCHANGED <<mode, expired, clean, result, faultVars, shimVars, unitVars, fsVars, userVars>>

(* The discovery loop ends without the volume; a read-write session makes *)
(* one attempt to dismount what may be mounted.                           *)
DiscoveryEnds ==
  /\ Goto("discover", IF RW THEN "find" ELSE "flush")
  /\ expired \/ dispErr # "no" \/ faulted \/ quit
  /\ pressed' = FALSE
  /\ UNCHANGED <<mode, expired, ready, clean, result, faultVars, shimVars, unitVars, fsVars, quit>>

Broken == dispErr # "no" \/ faulted

\* MUTANT the loop looks at the dispatcher and not at the fault flag
LeaveLoop_DispatcherOnly ==
  /\ Goto("running", "flush")
  /\ dispErr # "no"
  /\ pressed' = FALSE
  /\ UNCHANGED <<mode, expired, ready, clean, result, faultVars, shimVars, unitVars, fsVars, quit>>
LeaveLoop ==
  /\ Goto("running", "flush")
  /\ Broken
  /\ pressed' = FALSE
  /\ UNCHANGED <<mode, expired, ready, clean, result, faultVars, shimVars, unitVars, fsVars, quit>>

(* quit.swap(false). *)
TakeQuit ==
  /\ Goto("running", IF RW THEN "find" ELSE "flush")
  /\ ~Broken /\ quit
  /\ quit' = FALSE /\ pressed' = FALSE
  /\ UNCHANGED <<mode, expired, ready, clean, result, faultVars, shimVars, unitVars, fsVars>>

----------------------------------------------------------------------------
(* wl_lock_and_dismount, and what serve makes of its answer.              *)

\* MUTANT the flag is cleared after the attempt and not taken before it
GiveUpAttempt_ClearsQuit(busy) ==
  /\ pc' = IF ready /\ busy THEN "running" ELSE "flush"
  /\ quit' = FALSE
  /\ faulted' = (faulted \/ (ready /\ ~busy))
  /\ pressed' = IF pc' = "flush" THEN FALSE ELSE pressed
(* Only a busy lock of a discovered volume is retried (CLOSE_BLOCKED); any *)
(* other failure of a discovered one faults the session (CLOSE_FAILED).    *)
GiveUpAttempt(busy) ==
  /\ pc' = IF ready /\ busy THEN "running" ELSE "flush"
  /\ faulted' = (faulted \/ (ready /\ ~busy))
  /\ pressed' = IF pc' = "flush" THEN FALSE ELSE pressed
  /\ UNCHANGED quit

AttemptRest == UNCHANGED <<mode, expired, ready, result, stopping, syncFailed, session, guard,
                           before, transport, unitVars>>

(* Phase 0: the volume is found by its serial, and must be read-write. *)
FindVolume ==
  /\ Goto("find", "lock")
  /\ fs = "rw"
  /\ AttemptRest /\ UNCHANGED <<clean, faulted, lockedVolume, fsVars, userVars>>

FindFails ==
  /\ pc = "find"
  /\ GiveUpAttempt(FALSE)
  /\ AttemptRest /\ UNCHANGED <<clean, lockedVolume, fsVars>>

CanCommit == disp \in {"idle", "busy"} /\ unit = "up" /\ ~faulted /\ ~stopping

(* Phase 1: FSCTL_LOCK_VOLUME, which commits unless the volume went        *)
(* read-only meanwhile.                                                    *)
LockVolume ==
  /\ Goto("lock", "flushvol")
  /\ fs # "none" /\ ~files
  /\ dirty => CanCommit
  /\ dirty' = FALSE
  /\ fsLocked' = TRUE
  /\ AttemptRest /\ UNCHANGED <<clean, faulted, lockedVolume, fs, files, lost, userVars>>

(* The commit of a volume fails: it is read-only from now on. *)
CommitFailsOn == fs = "rw" /\ dirty /\ fs' = "ro" /\ dirty' = FALSE /\ lost' = TRUE

(* A lock that fails is busy, or not; if the volume is read-only by now it *)
(* is not, whatever the error was.                                         *)
LockFails(busy) ==
  /\ pc = "lock"
  /\ CommitFailsOn \/ UNCHANGED <<fs, dirty, lost>>
  /\ busy => fs' = "rw"
  /\ GiveUpAttempt(busy)
  /\ AttemptRest /\ UNCHANGED <<clean, lockedVolume, files, fsLocked>>

\* MUTANT the mode of the locked volume is not checked before the flush
FlushVolume_NoModeCheck ==
  /\ Goto("flushvol", "dismount")
  /\ AttemptRest /\ UNCHANGED <<clean, faulted, lockedVolume, fsVars, userVars>>
(* Phase 2: the volume is still read-write, and FlushFileBuffers succeeds. *)
FlushVolume ==
  /\ Goto("flushvol", "dismount")
  /\ fs = "rw"
  /\ AttemptRest /\ UNCHANGED <<clean, faulted, lockedVolume, fsVars, userVars>>

\* MUTANT the handle that keeps the volume locked is closed on success
Dismount_ClosesHandle ==
  /\ Goto("dismount", "flush")
  /\ fs' = "none"
  /\ fsLocked' = FALSE /\ lockedVolume' = TRUE
  /\ clean' = TRUE
  /\ pressed' = FALSE
  /\ AttemptRest /\ UNCHANGED <<faulted, files, dirty, lost, quit>>
(* Phases 3 and 4: the volume is dismounted, and stays locked. *)
Dismount ==
  /\ Goto("dismount", "flush")
  /\ fs' = "none"
  /\ lockedVolume' = TRUE
  /\ clean' = TRUE
  /\ pressed' = FALSE
  /\ AttemptRest /\ UNCHANGED <<faulted, files, dirty, lost, fsLocked, quit>>

(* Phase 2 or 3 fails: unlock. *)
DismountFails ==
  /\ pc \in {"flushvol", "dismount"}
  /\ fsLocked' = FALSE
  /\ GiveUpAttempt(FALSE)
  /\ AttemptRest /\ UNCHANGED <<clean, lockedVolume, fs, files, dirty, lost>>

----------------------------------------------------------------------------
(* BlockAdapter::shutdown around wl_close.                                *)

FinalFlush(fails) ==
  /\ Goto("flush", "before")
  /\ syncFailed' = (faulted \/ fails)
  /\ faulted' = (faulted \/ fails)
  /\ stopping' = TRUE
  /\ UNCHANGED <<mode, expired, ready, clean, result, shimVars, unitVars, fsVars, userVars>>

CloseRest == UNCHANGED <<mode, expired, ready, clean, faultVars, userVars>>

SampleBefore ==
  /\ Goto("before", "shutdown")
  /\ before' = dispErr
  /\ CloseRest /\ UNCHANGED <<result, session, guard, lockedVolume, transport, unitVars, fsVars>>

ShutdownUnit ==
  /\ Goto("shutdown", "wait")
  /\ unit' = "shut"
  /\ CloseRest /\ UNCHANGED <<result, shimVars, disp, dispErr, fsVars>>

\* MUTANT the dispatcher is not waited for
WaitDispatcher_NoWait ==
  /\ Goto("wait", "delete")
  /\ CloseRest /\ UNCHANGED <<result, shimVars, unitVars, fsVars>>
WaitDispatcher ==
  /\ Goto("wait", "delete")
  /\ disp = "stopped"
  /\ CloseRest /\ UNCHANGED <<result, shimVars, unitVars, fsVars>>

(* The error after: only the abort that the shutdown caused is none. *)
DeleteUnit ==
  /\ Goto("delete", "closevol")
  /\ transport' = (before # "no" \/ dispErr \notin {"no", "aborted"})
  /\ UnitGone /\ UNCHANGED fsLocked
  /\ CloseRest /\ UNCHANGED <<result, session, guard, lockedVolume, before, disp, dispErr>>

CloseVolume ==
  /\ Goto("closevol", "closeguard")
  /\ lockedVolume' = FALSE
  /\ fsLocked' = (fsLocked /\ ~lockedVolume)
  /\ CloseRest /\ UNCHANGED <<result, session, guard, before, transport, unitVars,
                              fs, files, dirty, lost>>

CloseGuard ==
  /\ Goto("closeguard", "free")
  /\ guard' = FALSE
  /\ CloseRest /\ UNCHANGED <<result, session, lockedVolume, before, transport, unitVars, fsVars>>

Failed == syncFailed \/ transport \/ faulted
\* MUTANT the fault flag is not read after the drain
Result_SampledEarly ==
  IF RW /\ (~clean \/ syncFailed \/ transport) THEN "UncleanClose"
  ELSE IF ~ready THEN "VolumeDiscoveryFailed"
  ELSE IF syncFailed \/ transport THEN "DevicePublishFailed" ELSE "Ok"
Result ==
  IF RW /\ (~clean \/ Failed) THEN "UncleanClose"
  ELSE IF ~ready THEN "VolumeDiscoveryFailed"
  ELSE IF Failed THEN "DevicePublishFailed" ELSE "Ok"

FreeSession ==
  /\ Goto("free", "exit")
  /\ session' = "freed"
  /\ result' = Result
  /\ CloseRest /\ UNCHANGED <<guard, lockedVolume, before, transport, unitVars, fsVars>>

----------------------------------------------------------------------------
(* The dispatcher thread.                                                 *)

Others == UNCHANGED <<mode, serveVars, stopping, syncFailed, shimVars, unit, userVars>>

CallbackBegins ==
  /\ disp = "idle" /\ unit = "up"
  /\ disp' = "busy"
  /\ Others /\ UNCHANGED <<faulted, dispErr, fsVars>>

CallbackEnds(fault) ==
  /\ disp = "busy"
  /\ disp' = "idle"
  /\ faulted' = (faulted \/ fault)
  /\ Others /\ UNCHANGED <<dispErr, fsVars>>

(* The transport fails, or is aborted by the shutdown. *)
DispatcherStops ==
  /\ disp = "idle"
  /\ disp' = "stopped"
  /\ dispErr' \in IF unit = "shut" THEN {"aborted", "failed"} ELSE {"failed"}
  /\ Others /\ UNCHANGED <<faulted, fsVars>>

(* The file system, its users, the user of winluks, and the clock.        *)

Mount ==
  /\ unit = "up" /\ disp \in {"idle", "busy"}
  /\ fs = "none" /\ ~fsLocked
  /\ fs' \in IF RW THEN {"rw", "ro"} ELSE {"ro"}
  /\ Others /\ UNCHANGED <<faulted, disp, dispErr, files, dirty, fsLocked, lost>>

Files(open) ==
  /\ fs # "none" /\ ~fsLocked /\ files # open
  /\ files' = open
  /\ Others /\ UNCHANGED <<faulted, disp, dispErr, fs, dirty, fsLocked, lost>>

Modify ==
  /\ fs = "rw" /\ files /\ ~dirty
  /\ dirty' = TRUE
  /\ Others /\ UNCHANGED <<faulted, disp, dispErr, fs, files, fsLocked, lost>>

Commit ==
  /\ fs = "rw" /\ dirty
  /\ CanCommit
  /\ dirty' = FALSE
  /\ Others /\ UNCHANGED <<faulted, disp, dispErr, fs, files, fsLocked, lost>>

CommitFails ==
  /\ CommitFailsOn
  /\ Others /\ UNCHANGED <<faulted, disp, dispErr, files, fsLocked>>

CtrlC ==
  /\ pc # "exit" /\ ~quit
  /\ quit' = TRUE
  /\ pressed' = (pc \in {"create", "start", "discover", "running",
                         "find", "lock", "flushvol", "dismount"})
  /\ UNCHANGED <<mode, serveVars, faultVars, shimVars, unitVars, fsVars>>

Expire ==
  /\ pc = "discover" /\ ~expired
  /\ expired' = TRUE
  /\ UNCHANGED <<mode, pc, ready, clean, result, faultVars, shimVars, unitVars, fsVars, userVars>>

(* The process is killed, or the machine is: the system closes its handles *)
(* and WinSpd removes its unit (one by one: PublishGuard).                 *)
Crash ==
  /\ pc # "exit" /\ pc' = "exit"
  /\ UnitGone /\ fsLocked' = FALSE
  /\ session' = "freed" /\ guard' = FALSE /\ lockedVolume' = FALSE
  /\ disp' = "stopped" /\ pressed' = FALSE
  /\ UNCHANGED <<mode, expired, ready, clean, result, faultVars, before, transport, dispErr, quit>>

(* Another process serves the image, or the same image again. *)
Restart(m) ==
  /\ pc = "exit" /\ pc' = "create"
  /\ mode' = m /\ clean' = (m = "ReadOnly")
  /\ expired' = FALSE /\ ready' = FALSE /\ result' = "none"
  /\ faulted' = FALSE /\ stopping' = FALSE /\ syncFailed' = FALSE
  /\ session' = "none" /\ before' = "no" /\ transport' = FALSE
  /\ disp' = "none" /\ dispErr' = "no"
  /\ lost' = FALSE /\ quit' = FALSE /\ pressed' = FALSE
  /\ UNCHANGED <<guard, lockedVolume, unit, fs, files, dirty, fsLocked>>

----------------------------------------------------------------------------
Create == CreateFails \/ CreateUnit \/ StartFails \/ StartDispatcher
Loop   == Discovered \/ DiscoveryEnds \/ LeaveLoop \/ TakeQuit
Attempt == \/ FindVolume \/ FindFails \/ LockVolume
           \/ \E busy \in BOOLEAN : LockFails(busy)
           \/ FlushVolume \/ Dismount \/ DismountFails
Close  == \/ \E fails \in BOOLEAN : FinalFlush(fails)
          \/ SampleBefore \/ ShutdownUnit \/ WaitDispatcher \/ DeleteUnit
          \/ CloseVolume \/ CloseGuard \/ FreeSession
Serve  == Create \/ Loop \/ Attempt \/ Close

Dispatcher == \/ \E fault \in BOOLEAN : CallbackEnds(fault)
              \/ unit = "shut" /\ DispatcherStops

Environment == \/ CallbackBegins \/ DispatcherStops
               \/ Mount \/ \E open \in BOOLEAN : Files(open)
               \/ Modify \/ Commit \/ CommitFails \/ CtrlC \/ Crash
               \/ \E m \in {"ReadOnly", "ReadWrite"} : Restart(m)

Next == Serve \/ Dispatcher \/ Environment \/ Expire

Spec == Init /\ [][Next]_vars

(* serve polls and goes on; a callback returns; the dispatcher of a unit   *)
(* that is shut down stops; 30 seconds pass.  The user, the applications   *)
(* and the file system need do nothing.                                    *)
LiveSpec == Spec /\ WF_vars(Serve) /\ WF_vars(Dispatcher) /\ WF_vars(Expire)

----------------------------------------------------------------------------
(* Properties.                                                            *)

(* A read-write session that ends with Ok has lost nothing an application  *)
(* wrote: not in a commit that failed at any moment of the session, nor    *)
(* through a volume mounted again after the dismount.                      *)
OkMeansCommitted == RW /\ result = "Ok" => ~lost /\ ~dirty

(* serve returns Ok only if the adapter is not faulted and the transport   *)
(* had no error, up to the end of the dispatcher.                          *)
FaultIsReported ==
  result = "Ok" => ~faulted /\ ~syncFailed /\ before = "no" /\ dispErr # "failed"

(* Once winluks has dismounted the volume, nothing mounts it again for as  *)
(* long as the unit is there.                                              *)
StaysDismounted == clean /\ RW /\ unit # "none" => fs = "none"

(* A callback always finds its unit, its WL_SESSION and its BlockAdapter. *)
ContextAlive == disp = "busy" => unit # "none" /\ session = "live"

(* A unit exists only under the publication guard, and serve returns with  *)
(* the unit, the dispatcher, the volume handle and the guard gone.         *)
NothingLeft ==
  /\ unit # "none" => guard
  /\ pc = "exit" => /\ unit = "none" /\ ~guard /\ ~lockedVolume /\ ~fsLocked
                    /\ disp \in {"none", "stopped"}

(* docs/RW-v0.3.ko.md:40: a lock that fails because the volume is in use   *)
(* leaves the session running.                                             *)
BusyKeepsSession ==
  [][pc = "lock" /\ fs = "rw" /\ fs' = "rw" /\ files /\ ~faulted' => pc' # "flush"]_vars

(* A session whose adapter faults ends without anybody's help, and so      *)
(* does every close that has begun.                                        *)
FaultEndsSession == faulted ~> pc = "exit"

(* Every Ctrl+C is followed by an attempt or by the end of the session,    *)
(* one that is pressed while another attempt runs included, and by no more *)
(* attempts than that: the flag is clear in the end.                       *)
PressIsAnswered == (pressed ~> (~pressed \/ pc = "exit")) /\ (quit ~> (~quit \/ pc = "exit"))
=============================================================================
