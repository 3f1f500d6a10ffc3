------------------------------- MODULE Session -------------------------------
(***************************************************************************)
(* Whole sessions: the publisher over the disk it publishes.               *)
(*                                                                         *)
(* Publisher knows callbacks, commits and faults, but no data; DurableDisk,*)
(* which Volume implements, knows data, but not who writes it or what the  *)
(* end of a session says.  Here every step of the one goes with the step   *)
(* of the other that the same code takes, and in between stands the file   *)
(* system: a change of an application is committed once the disk has       *)
(* acknowledged a write of it.  The question is what a user who was told   *)
(* Ok finds on the disk later.                                             *)
(***************************************************************************)
EXTENDS Publisher, Integers, Sequences

CONSTANTS Sectors, Vals, Noise, NoVal, NoReq, NoReply

ASSUME SessionAssumption ==
  /\ Sectors \subseteq Int /\ NoVal \notin Vals
  /\ \A s \in Sectors \cup {0}, v \in Vals \cup {NoVal} :
       /\ NoReq # [op |-> "write", lba |-> s, count |-> 1, val |-> v]
       /\ NoReq # [op |-> "flush", lba |-> s, count |-> 0, val |-> v]

VARIABLES
  content, unsettled, active, answer, failed, writable,  \* of DurableDisk
  wanted,   \* what applications last wrote in this session, by sector
  pending,  \* sectors whose last change the disk has not acknowledged
  promise   \* history: the content of the last read-write session that ended with Ok

dvars == <<content, unsettled, active, answer, failed, writable>>
avars == <<wanted, pending, promise>>
svars == <<vars, dvars, avars>>

Clients == {"dispatcher", "main"}
D == INSTANCE DurableDisk

Nothing == [s \in Sectors |-> NoVal]

SInit == /\ Init /\ D!Init /\ writable = RW
         /\ wanted = Nothing /\ pending = {} /\ promise = Nothing

----------------------------------------------------------------------------
Still == UNCHANGED dvars /\ UNCHANGED avars
Reply(code) == [code |-> code, data |-> <<>>]

(* The dispatcher: a callback is admitted to the volume, with a write of   *)
(* the file system or a flush, unless it is refused.                       *)
Request(s) == [op |-> "write", lba |-> s, count |-> 1, val |-> wanted[s]]
Flush == [op |-> "flush", lba |-> 0, count |-> 0, val |-> NoVal]

Admit(r) ==
  /\ disp = "busy" /\ ~faulted /\ ~stopping
  /\ active' = [active EXCEPT !["dispatcher"] = r]
  /\ D!Accept("dispatcher")
  /\ UNCHANGED vars /\ UNCHANGED avars

Refused ==
  /\ active["dispatcher"] = NoReq
  /\ \/ CallbackEnds(FALSE) /\ UNCHANGED dvars
     \/ CallbackEnds(TRUE) /\ D!Condemn
  /\ UNCHANGED avars

(* External: a write of the last change was answered with success. *)
Acknowledged(r, code) == code = "Ok" /\ r.op = "write" /\ r.val = wanted[r.lba]

Finish(code) ==
  LET r == active["dispatcher"] IN
  /\ r # NoReq
  /\ answer' = [answer EXCEPT !["dispatcher"] = Reply(code)]
  /\ IF code = "Ok" THEN D!Complete("dispatcher") /\ CallbackEnds(FALSE)
                    ELSE D!Break("dispatcher") /\ CallbackEnds(TRUE)
  /\ pending' = IF Acknowledged(r, code) THEN pending \ {r.lba} ELSE pending
  /\ UNCHANGED <<wanted, promise>>

(* Applications and their file system. *)
Change(s, v) ==
  /\ Modify \/ (fs = "rw" /\ files /\ dirty /\ UNCHANGED vars)
  /\ wanted' = [wanted EXCEPT ![s] = v]
  /\ pending' = pending \cup {s}
  /\ promise' = [promise EXCEPT ![s] = NoVal]
  /\ UNCHANGED dvars

Committed == pending = {}

SCommit == Commit /\ Committed /\ Still

(* Changes that are not committed and cannot be any more are given up. *)
Forget == pending' = IF dirty' THEN pending ELSE {}
SCommitFails == CommitFails /\ Forget /\ UNCHANGED <<wanted, promise>> /\ UNCHANGED dvars

(* wl_lock_and_dismount: the lock commits; a failure condemns the volume.  *)
SLock == LockVolume /\ Committed /\ Still

Condemned == IF faulted' /\ ~faulted THEN D!Condemn ELSE UNCHANGED dvars
SAttemptFails ==
  /\ FindFails \/ DismountFails \/ \E busy \in BOOLEAN : LockFails(busy)
  /\ Condemned
  /\ Forget /\ UNCHANGED <<wanted, promise>>

(* shutdown: the last flush waits for its turn in the volume. *)
AdmitFlush ==
  /\ pc = "flush" /\ ~faulted
  /\ active' = [active EXCEPT !["main"] = Flush]
  /\ D!Accept("main")
  /\ UNCHANGED vars /\ UNCHANGED avars

SFinalFlush ==
  /\ \/ faulted /\ active["main"] = NoReq /\ FinalFlush(TRUE) /\ UNCHANGED dvars
     \/ /\ answer' = [answer EXCEPT !["main"] = Reply("Ok")]
        /\ FinalFlush(FALSE) /\ D!Complete("main")
     \/ /\ answer' = [answer EXCEPT !["main"] = Reply("WritebackFailed")]
        /\ FinalFlush(TRUE) /\ D!Break("main")
  /\ UNCHANGED avars

(* The unit goes, and the file system with it. *)
SUnitGone == (StartFails \/ DeleteUnit) /\ Forget /\ UNCHANGED <<wanted, promise>> /\ UNCHANGED dvars

SFree ==
  /\ FreeSession
  /\ promise' = IF RW /\ result' = "Ok"
                THEN [s \in Sectors |-> IF wanted[s] = NoVal THEN promise[s] ELSE wanted[s]]
                ELSE promise
  /\ UNCHANGED <<wanted, pending>> /\ UNCHANGED dvars

SCrash   == Crash /\ D!Turnover /\ Forget /\ UNCHANGED <<wanted, promise>>
SRestart == /\ \E m \in {"ReadOnly", "ReadWrite"} : Restart(m)
            /\ D!Turnover /\ writable' = (mode' = "ReadWrite")
            /\ wanted' = Nothing /\ UNCHANGED <<pending, promise>>

----------------------------------------------------------------------------
Alone == CreateFails \/ CreateUnit \/ StartDispatcher \/ Loop \/ FindVolume \/ FlushVolume
         \/ Dismount \/ SampleBefore \/ ShutdownUnit \/ WaitDispatcher \/ CloseVolume
         \/ CloseGuard \/ CallbackBegins \/ DispatcherStops \/ Mount \/ CtrlC \/ Expire
         \/ \E open \in BOOLEAN : Files(open)

SNext ==
  \/ Alone /\ Still
  \/ \E s \in pending : fs = "rw" /\ Admit(Request(s))
  \/ Admit(Flush) \/ Refused \/ \E code \in {"Ok", "WritebackFailed"} : Finish(code)
  \/ \E s \in Sectors, v \in Vals : Change(s, v)
  \/ SCommit \/ SCommitFails \/ SLock \/ SAttemptFails
  \/ AdmitFlush \/ SFinalFlush \/ SUnitGone \/ SFree \/ SCrash \/ SRestart
  \/ D!Settle /\ UNCHANGED vars /\ UNCHANGED avars

SSpec == SInit /\ [][SNext]_svars

----------------------------------------------------------------------------
(* Once a read-write session has answered Ok, everything applications      *)
(* wrote in it is on the disk and stays there, through crashes and other   *)
(* sessions, until somebody changes it again.                              *)
OkIsDurable == \A s \in Sectors : promise[s] # NoVal => content[s] = promise[s]

(* A session that answers Ok leaves no request behind and nothing pending. *)
OkIsQuiet ==
  RW /\ result = "Ok" => /\ \A c \in Clients : active[c] = NoReq
                         /\ pending = {} /\ ~failed
=============================================================================
