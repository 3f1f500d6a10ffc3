---------------------------- MODULE DurableDisk ----------------------------
(***************************************************************************)
(* What winluks promises the file system mounted on the published disk.    *)
(*                                                                         *)
(* A session accepts one request at a time.  A sector is "unsettled" from  *)
(* the moment a write that covers it is accepted until a write that covers *)
(* it is answered with success; while it is unsettled its durable content  *)
(* is anything.  The content of every other sector only changes when a     *)
(* write completes, whatever fails, is killed or loses power, and a read   *)
(* that succeeds returns it.  After a failure the session accepts nothing  *)
(* more.  Volume.tla is shown to implement this specification.             *)
(***************************************************************************)
EXTENDS Integers, Sequences

CONSTANTS Clients,    \* who issues requests
          Sectors,    \* the sectors of the published disk
          Vals,       \* what a file system may write to a sector
          Noise,      \* plaintext that no file system wrote
          NoReq,      \* no request in flight
          NoReply     \* no answer yet

VARIABLES content,    \* durable plaintext of every sector
          unsettled,  \* sectors whose last write was never acknowledged
          active,     \* the accepted request of every client
          answer,     \* the last answer given to every client
          failed,     \* the session has failed
          writable    \* the session accepts writes

dvars == <<content, unsettled, active, answer, failed, writable>>

Span(r) == {r.lba + k : k \in 0..(r.count - 1)}

(* Sectors outside S keep their content; those in S may hold anything. *)
KeepsAllBut(S) == /\ content' \in [Sectors -> Vals \cup {Noise}]
                  /\ \A s \in Sectors \ S : content'[s] = content[s]

Same(v) == v' = v

Init == /\ content \in [Sectors -> Vals]
        /\ unsettled = {}
        /\ active = [c \in Clients |-> NoReq]
        /\ answer = [c \in Clients |-> NoReply]
        /\ failed = FALSE
        /\ writable \in BOOLEAN

----------------------------------------------------------------------------
(* An accepted request: only in a session that has not failed, alone, and *)
(* within the disk.                                                        *)
Accept(c) ==
  /\ ~failed
  /\ \A d \in Clients : active[d] = NoReq
  /\ active'[c] # NoReq
  /\ active' = [active EXCEPT ![c] = active'[c]]
  /\ active'[c].op \in {"read", "write"} => Span(active'[c]) \subseteq Sectors
  /\ IF active'[c].op = "write"
     THEN writable /\ unsettled' = unsettled \cup Span(active'[c])
     ELSE Same(unsettled)
  /\ Same(content) /\ Same(answer) /\ Same(failed) /\ Same(writable)

(* Any answer, to a request that was not accepted, and no other effect. *)
Answer(c) ==
  /\ active[c] = NoReq
  /\ answer' = [answer EXCEPT ![c] = answer'[c]]
  /\ Same(content) /\ Same(unsettled) /\ Same(active) /\ Same(failed) /\ Same(writable)

(* The request of c succeeds. *)
Complete(c) ==
  /\ active[c] # NoReq
  /\ active' = [active EXCEPT ![c] = NoReq]
  /\ answer' = [answer EXCEPT ![c] = answer'[c]]
  /\ answer'[c].code = "Ok"
  /\ CASE active[c].op = "read" ->
            /\ \A k \in 0..(active[c].count - 1) :
                 active[c].lba + k \notin unsettled =>
                   answer'[c].data[k + 1] = content[active[c].lba + k]
            /\ Same(content) /\ Same(unsettled)
       [] active[c].op = "write" ->
            /\ KeepsAllBut(unsettled)
            /\ \A s \in Span(active[c]) : content'[s] = active[c].val
            /\ unsettled' = unsettled \ Span(active[c])
       [] active[c].op = "flush" -> KeepsAllBut(unsettled) /\ Same(unsettled)
  /\ Same(failed) /\ Same(writable)

(* A read is given up with an error, and the session goes on. *)
GiveUp(c) ==
  /\ active[c] # NoReq
  /\ active[c].op = "read"
  /\ active' = [active EXCEPT ![c] = NoReq]
  /\ answer' = [answer EXCEPT ![c] = answer'[c]]
  /\ answer'[c].code # "Ok"
  /\ Same(content) /\ Same(unsettled) /\ Same(failed) /\ Same(writable)

(* The request of c fails, and the session with it. *)
Break(c) ==
  /\ active[c] # NoReq
  /\ active' = [active EXCEPT ![c] = NoReq]
  /\ answer' = [answer EXCEPT ![c] = answer'[c]]
  /\ answer'[c] = NoReply \/ answer'[c].code # "Ok"
  /\ failed' = TRUE
  /\ Same(content) /\ Same(unsettled) /\ Same(writable)

(* The owner of the session declares it failed. *)
Condemn == /\ failed' = TRUE
           /\ UNCHANGED <<content, unsettled, active, answer, writable>>

(* Unsettled sectors change at any time. *)
Settle == /\ KeepsAllBut(unsettled)
          /\ UNCHANGED <<unsettled, active, answer, failed, writable>>

(* The session ends, by itself, by a kill or by a power cut, or a new one *)
(* starts.                                                                *)
Turnover == /\ KeepsAllBut(unsettled)
            /\ active' = [c \in Clients |-> NoReq]
            /\ answer' = [c \in Clients |-> NoReply]
            /\ failed' = FALSE
            /\ writable' \in BOOLEAN
            /\ UNCHANGED unsettled

Next == \/ \E c \in Clients : \/ Accept(c) \/ Answer(c) \/ Complete(c)
                              \/ GiveUp(c) \/ Break(c)
        \/ Condemn \/ Settle \/ Turnover

Spec == Init /\ [][Next]_dvars
=============================================================================
