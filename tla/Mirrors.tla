------------------------------- MODULE Mirrors -------------------------------
(***************************************************************************)
(* The Btrfs superblocks of a payload and the check before publication:    *)
(* check() and btrfs_at() of src/probe.rs.                                 *)
(*                                                                         *)
(* The driver mounts the newest valid superblock among those in range      *)
(* (docs/reviews/v0.3.1-core-ai.md, CORE-01), which need not be the        *)
(* primary.  Superblocks are written one after another, by WinBtrfs or     *)
(* Linux, and the writer may be interrupted; an fsync on Linux rewrites    *)
(* only the primary.  The image does not change while winluks has it open  *)
(* and has not published it (Pipeline).  Lengths are in sectors.           *)
(***************************************************************************)
EXTENDS Integers, FiniteSets

CONSTANTS
  Lengths,   \* lengths a payload may have
  Profiles,  \* what commits are like: "allowed", or which check refuses them,
             \* "checksum" type, number of "devices", any other ("features")
  MaxGen     \* bound: commits in a behaviour

ASSUME MirrorsAssumption ==
  Lengths \subseteq Nat /\ "allowed" \in Profiles /\ MaxGen \in Nat

Address == <<128, 131072, 536870912>>   \* 64 KiB, 64 MiB, 256 GiB
Size    == 8                            \* 4096 bytes
Mirror  == 1..3

VARIABLES
  length,  \* of the payload
  sb,      \* the superblock at each address
  commit,  \* external: what the last commit writes to every mirror
  todo,    \* external: mirrors it has still to write
  pc,      \* of check
  next,    \* the mirror it reads next
  error    \* what a refusal answers

worldVars == <<length, sb, commit, todo>>
vars == <<worldVars, pc, next, error>>

(* gen 0: nothing was ever written there.  ok: its checksum fits.  at: the *)
(* recorded address, as the number of a mirror.  state: of the commit, its *)
(* log tree and its error flag.  total: what the file system claims of the *)
(* payload.                                                                *)
Superblock == [ok : BOOLEAN, at : Mirror, gen : 0..MaxGen, state : {"clean", "log", "error"},
               profile : Profiles, total : Lengths]

TypeOK ==
  /\ length \in Lengths
  /\ sb \in [Mirror -> Superblock]
  /\ commit \in Superblock
  /\ todo \subseteq Mirror
  /\ pc \in {"idle", "reading", "accepted", "refused"} /\ next \in Mirror
  /\ error \in {"none", "InvalidRange", "BackendIo", "FsTypeMismatch", "FsInvalid",
                "FsUnsupportedFeature", "FsRecoveryRequired"}
  /\ (error # "none") = (pc = "refused")
  /\ pc = "accepted" => Address[1] + Size <= length

Blank(l) == [ok |-> FALSE, at |-> 1, gen |-> 0, state |-> "clean", profile |-> "allowed", total |-> l]

Init ==
  /\ length \in Lengths
  /\ sb = [i \in Mirror |-> Blank(length)]
  /\ commit = Blank(length) /\ todo = {}
  /\ pc = "idle" /\ next = 1 /\ error = "none"

(* External: the addresses a driver uses on l sectors. *)
Fits(i, l) == Address[i] + Size <= l

\* MUTANT off by one: a mirror that ends the payload is not looked at
InRange_Strict(i, l) == Address[i] + Size < l
InRange(i, l) == Address[i] + Size <= l

----------------------------------------------------------------------------
(* What may have happened to the image before it is opened.               *)

(* A commit begins: new content for every superblock the file system has.  *)
BeginCommit(state, profile, total) ==
  /\ pc = "idle" /\ commit.gen < MaxGen
  /\ total <= length /\ Fits(1, total)
  /\ commit' = [ok |-> TRUE, at |-> 1, gen |-> commit.gen + 1, state |-> state,
                profile |-> profile, total |-> total]
  /\ todo' = {i \in Mirror : Fits(i, total)}
  /\ UNCHANGED <<length, sb, pc, next, error>>

(* One superblock of it is written, whole or torn; only the address and    *)
(* the checksum differ between mirrors.  Torn, the writer has crashed.     *)
WriteMirror(i, torn) ==
  /\ pc = "idle" /\ i \in todo
  /\ sb' = [sb EXCEPT ![i] = [commit EXCEPT !.at = i, !.ok = ~torn]]
  /\ todo' = IF torn THEN {} ELSE todo \ {i}
  /\ UNCHANGED <<length, commit, pc, next, error>>

(* fsync on Linux: a log tree, in the primary alone. *)
LogTree ==
  /\ pc = "idle" /\ sb[1].ok /\ sb[1].state = "clean"
  /\ sb' = [sb EXCEPT ![1].state = "log"]
  /\ UNCHANGED <<length, commit, todo, pc, next, error>>

(* A copy of the image lost its alignment: a superblock of another place. *)
Misplace(i, j) ==
  /\ pc = "idle" /\ i # j /\ sb[i].ok
  /\ sb' = [sb EXCEPT ![j] = sb[i]]
  /\ UNCHANGED <<length, commit, todo, pc, next, error>>

(* The image, or its segment, gets another length. *)
Resize(l) ==
  /\ pc = "idle" /\ l # length
  /\ length' = l
  /\ UNCHANGED <<sb, commit, todo, pc, next, error>>

World == \/ \E state \in {"clean", "error"}, profile \in Profiles, total \in Lengths :
              BeginCommit(state, profile, total)
         \/ \E i \in Mirror, torn \in BOOLEAN : WriteMirror(i, torn)
         \/ LogTree
         \/ \E i, j \in Mirror : Misplace(i, j)
         \/ \E l \in Lengths : Resize(l)

----------------------------------------------------------------------------
(* probe::check.                                                          *)

\* MUTANT a checksum that does not fit is taken for an interrupted commit
Verdict_TornIsRecovery(s, i) ==
  IF s.gen = 0 THEN "FsTypeMismatch"
  ELSE IF s.profile = "checksum" THEN "FsUnsupportedFeature"
  ELSE IF s.at # i \/ s.total > length THEN "FsInvalid"
  ELSE IF s.profile = "devices" THEN "FsUnsupportedFeature"
  ELSE IF ~s.ok \/ s.state # "clean" THEN "FsRecoveryRequired"
  ELSE IF s.profile # "allowed" THEN "FsUnsupportedFeature" ELSE "none"
(* btrfs_at, in the order of its checks. *)
Verdict(s, i) ==
  IF s.gen = 0 THEN "FsTypeMismatch"
  ELSE IF s.profile = "checksum" THEN "FsUnsupportedFeature"
  ELSE IF ~s.ok \/ s.at # i \/ s.total > length THEN "FsInvalid"
  ELSE IF s.profile = "devices" THEN "FsUnsupportedFeature"
  ELSE IF s.state # "clean" THEN "FsRecoveryRequired"
  ELSE IF s.profile # "allowed" THEN "FsUnsupportedFeature" ELSE "none"

\* MUTANT the mirrors are not compared with the primary
SameCommit_Unchecked(i) == TRUE
\* MUTANT the comparison takes in the address a superblock records
SameCommit_WithAddress(i) == sb[i] = sb[1]
(* All but the checksum and the address (bytes 0..32 and 48..56). *)
SameCommit(i) == [sb[i] EXCEPT !.at = 1] = [sb[1] EXCEPT !.at = 1]

Refuse(e) == pc' = "refused" /\ error' = e /\ UNCHANGED <<worldVars, next>>

Open ==
  /\ pc = "idle" /\ pc' = "reading" /\ next' = 1
  /\ UNCHANGED <<worldVars, error>>

(* read_at refuses the range of the primary, or the image cannot be read   *)
(* (in a read-write session the answer is then WritebackFailed).           *)
ReadFails ==
  /\ pc = "reading"
  /\ IF InRange(next, length) THEN Refuse("BackendIo") ELSE next = 1 /\ Refuse("InvalidRange")

RefuseMirror ==
  /\ pc = "reading" /\ InRange(next, length)
  /\ LET v == Verdict(sb[next], next) IN
       \/ v # "none" /\ Refuse(v)
       \/ v = "none" /\ ~SameCommit(next) /\ Refuse("FsRecoveryRequired")

PassMirror ==
  /\ pc = "reading" /\ InRange(next, length)
  /\ Verdict(sb[next], next) = "none" /\ SameCommit(next)
  /\ IF next + 1 \in Mirror THEN next' = next + 1 /\ UNCHANGED pc
                            ELSE pc' = "accepted" /\ UNCHANGED next
  /\ UNCHANGED <<worldVars, error>>

(* The next mirror is beyond the payload: break. *)
EndOfMirrors ==
  /\ pc = "reading" /\ next # 1 /\ ~InRange(next, length)
  /\ pc' = "accepted"
  /\ UNCHANGED <<worldVars, next, error>>

Leave ==
  /\ pc \in {"accepted", "refused"}
  /\ pc' = "idle" /\ next' = 1 /\ error' = "none"
  /\ UNCHANGED worldVars

Check == Open \/ ReadFails \/ RefuseMirror \/ PassMirror \/ EndOfMirrors \/ Leave

Next == World \/ Check

Spec == Init /\ [][Next]_vars

----------------------------------------------------------------------------
(* External: the superblocks the driver considers, and those it may mount. *)
Valid(i) == Fits(i, length) /\ sb[i].gen # 0 /\ sb[i].ok
Mounted(i) == Valid(i) /\ \A j \in Mirror : Valid(j) => sb[j].gen <= sb[i].gen

(* What is accepted is what is mounted: whichever superblock the driver    *)
(* takes, it is where it says, and holds the commit that was checked,      *)
(* without log or error, of the profile, inside the payload.               *)
MountsTheChecked ==
  pc = "accepted" =>
    /\ \E i \in Mirror : Mounted(i)
    /\ \A i \in Mirror : Mounted(i) =>
         /\ sb[i].at = i
         /\ sb[i].state = "clean" /\ sb[i].profile = "allowed" /\ sb[i].total <= length
         /\ [sb[i] EXCEPT !.at = 1] = sb[1]

(* A driver that cannot read some of the mirrors, and so chooses among     *)
(* others, mounts the same commit.                                         *)
MirrorsAgree ==
  pc = "accepted" => \A i, j \in Mirror : Valid(i) /\ Valid(j) => sb[i].gen = sb[j].gen

(* A file system that was left in order, and that fills its payload, is    *)
(* refused only if it cannot be read.                                      *)
InOrder ==
  /\ commit.ok /\ commit.state = "clean" /\ commit.profile = "allowed" /\ commit.total <= length
  /\ \A i \in Mirror : Fits(i, length) => sb[i] = [commit EXCEPT !.at = i]
CleanIsAccepted == pc = "refused" /\ InOrder => error = "BackendIo"

(* FsRecoveryRequired is said only of a file system that has something to  *)
(* recover: a log, its error flag, or a valid mirror of another commit.    *)
RecoveryIsReal ==
  error = "FsRecoveryRequired" =>
    \/ \E i \in Mirror : Valid(i) /\ sb[i].state # "clean"
    \/ \E i, j \in Mirror : Valid(i) /\ Valid(j) /\ sb[i].gen # sb[j].gen
=============================================================================
