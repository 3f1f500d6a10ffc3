--------------------------- MODULE MirrorsProofs ---------------------------
(***************************************************************************)
(* Proofs about Mirrors: what is accepted is what is mounted, for payloads *)
(* of any length and any number of commits.                                *)
(***************************************************************************)
EXTENDS Mirrors, TLAPS

Passed(i) == InRange(i, length) /\ Verdict(sb[i], i) = "none" /\ SameCommit(i)

(* The mirrors that check has read passed, and once it accepts there is no *)
(* other in range.                                                         *)
ReadPassed ==
  /\ pc = "reading" => \A i \in Mirror : i < next => Passed(i)
  /\ pc = "accepted" => Passed(1) /\ \A i \in Mirror : InRange(i, length) => Passed(i)

(* Superblocks of one generation come from one commit. *)
FromCommits ==
  /\ commit.ok => commit.gen # 0 /\ Fits(1, commit.total)
  /\ \A i \in Mirror :
       /\ sb[i].gen <= commit.gen
       /\ sb[i].gen = commit.gen /\ commit.gen # 0 =>
            sb[i].profile = commit.profile /\ sb[i].total = commit.total
       /\ \A j \in Mirror : sb[i].gen = sb[j].gen /\ sb[i].gen # 0 =>
            sb[i].profile = sb[j].profile /\ sb[i].total = sb[j].total

MInv == TypeOK /\ ReadPassed /\ FromCommits /\ RecoveryIsReal /\ CleanIsAccepted

----------------------------------------------------------------------------
(* The addresses grow: a mirror in range has every earlier one in range. *)
LEMMA Addresses ==
  /\ Address[1] = 128 /\ Address[2] = 131072 /\ Address[3] = 536870912
  /\ Mirror = {1, 2, 3}
  BY DEF Address, Mirror

LEMMA RangeDown ==
  ASSUME NEW l \in Nat, NEW i \in Mirror, NEW j \in Mirror, i <= j, InRange(j, l)
  PROVE  InRange(i, l)
  BY Addresses DEF InRange, Size

(* What btrfs_at lets pass. *)
LEMMA Passes ==
  ASSUME NEW s, NEW i, Verdict(s, i) = "none"
  PROVE  /\ s.gen # 0 /\ s.ok /\ s.at = i /\ ~(s.total > length)
         /\ s.state = "clean" /\ s.profile = "allowed"
  BY DEF Verdict

LEMMA VerdictType ==
  ASSUME NEW s, NEW i
  PROVE  Verdict(s, i) \in {"none", "FsTypeMismatch", "FsUnsupportedFeature", "FsInvalid",
                            "FsRecoveryRequired"}
  BY DEF Verdict

(* At the start nothing was written. *)
LEMMA InitM == Init => MInv
<1> SUFFICES ASSUME Init PROVE MInv
  OBVIOUS
<1>1. length \in Nat /\ Blank(length) \in Superblock /\ Blank(length).gen = 0
      /\ Blank(length).ok = FALSE
  BY MirrorsAssumption DEF Init, Blank, Superblock, Mirror
<1>2. TypeOK
  BY <1>1 DEF Init, TypeOK, Mirror
<1>3. ReadPassed /\ FromCommits
  BY <1>1 DEF Init, ReadPassed, FromCommits
<1>4. RecoveryIsReal /\ CleanIsAccepted
  BY DEF Init, RecoveryIsReal, CleanIsAccepted
<1> QED
  BY <1>2, <1>3, <1>4 DEF MInv

----------------------------------------------------------------------------
(* Steps of the world: winluks does not have the image open. *)
LEMMA WorldM ==
  ASSUME MInv, World
  PROVE  MInv'
<1>1. pc = "idle" /\ pc' = "idle" /\ next' = next /\ error' = error /\ error = "none"
  BY DEF MInv, World, BeginCommit, WriteMirror, LogTree, Misplace, Resize, TypeOK
<1>2. ReadPassed' /\ RecoveryIsReal' /\ CleanIsAccepted'
  BY <1>1 DEF ReadPassed, RecoveryIsReal, CleanIsAccepted
<1>3. CASE \E state \in {"clean", "error"}, profile \in Profiles, total \in Lengths :
             BeginCommit(state, profile, total)
  <2> PICK state \in {"clean", "error"}, profile \in Profiles, total \in Lengths :
        BeginCommit(state, profile, total)
    BY <1>3
  <2>1. /\ commit.gen \in 0..MaxGen /\ commit.gen < MaxGen
        /\ commit'.ok /\ commit'.gen = commit.gen + 1 /\ commit'.total = total
        /\ commit' \in Superblock
    BY MirrorsAssumption DEF BeginCommit, MInv, TypeOK, Superblock, Mirror
  <2>2. TypeOK'
    BY <1>1, <2>1 DEF BeginCommit, MInv, TypeOK
  <2>3. \A i \in Mirror : sb[i].gen \in Int
    BY DEF MInv, TypeOK, Superblock
  <2>4. FromCommits'
    BY <2>1, <2>3 DEF BeginCommit, MInv, FromCommits, Fits
  <2> QED
    BY <1>2, <2>2, <2>4 DEF MInv
<1>4. CASE \E i \in Mirror, torn \in BOOLEAN : WriteMirror(i, torn)
  <2> PICK k \in Mirror, torn \in BOOLEAN : WriteMirror(k, torn)
    BY <1>4
  <2>1. /\ sb \in [Mirror -> Superblock] /\ commit \in Superblock
        /\ [commit EXCEPT !.at = k, !.ok = ~torn] \in Superblock
        /\ sb' = [sb EXCEPT ![k] = [commit EXCEPT !.at = k, !.ok = ~torn]]
        /\ commit' = commit
    BY DEF WriteMirror, MInv, TypeOK, Superblock
  <2>2. TypeOK'
    BY <1>1, <2>1 DEF WriteMirror, MInv, TypeOK
  <2>3. /\ sb'[k].gen = commit.gen /\ sb'[k].profile = commit.profile /\ sb'[k].total = commit.total
        /\ \A j \in Mirror : j # k => sb'[j] = sb[j]
    BY <2>1 DEF Superblock
  <2>4. commit.gen \in Int /\ \A i \in Mirror : sb[i].gen \in Int
    BY <2>1 DEF Superblock
  <2>5. FromCommits'
    BY <2>1, <2>3, <2>4 DEF MInv, FromCommits, Fits
  <2> QED
    BY <1>2, <2>2, <2>5 DEF MInv
<1>5. CASE LogTree
  <2>1. /\ sb \in [Mirror -> Superblock] /\ 1 \in Mirror
        /\ sb' = [sb EXCEPT ![1].state = "log"] /\ commit' = commit
    BY <1>5, Addresses DEF LogTree, MInv, TypeOK
  <2>2. sb' \in [Mirror -> Superblock]
    BY <2>1 DEF Superblock
  <2>3. TypeOK'
    BY <1>1, <1>5, <2>2 DEF LogTree, MInv, TypeOK
  <2>4. \A j \in Mirror : sb'[j].gen = sb[j].gen /\ sb'[j].profile = sb[j].profile
                          /\ sb'[j].total = sb[j].total
    BY <2>1 DEF Superblock
  <2>5. FromCommits'
    BY <2>1, <2>4 DEF MInv, FromCommits, Fits
  <2> QED
    BY <1>2, <2>3, <2>5 DEF MInv
<1>6. CASE \E i, j \in Mirror : Misplace(i, j)
  <2> PICK a \in Mirror, b \in Mirror : Misplace(a, b)
    BY <1>6
  <2>1. /\ sb \in [Mirror -> Superblock] /\ commit' = commit
        /\ sb' = [sb EXCEPT ![b] = sb[a]]
    BY DEF Misplace, MInv, TypeOK
  <2>2. TypeOK'
    BY <1>1, <2>1 DEF Misplace, MInv, TypeOK
  <2>3. FromCommits'
    BY <2>1 DEF MInv, FromCommits, Fits
  <2> QED
    BY <1>2, <2>2, <2>3 DEF MInv
<1>7. CASE \E l \in Lengths : Resize(l)
  <2>1. TypeOK'
    BY <1>1, <1>7 DEF Resize, MInv, TypeOK
  <2>2. FromCommits'
    BY <1>7 DEF Resize, MInv, FromCommits, Fits
  <2> QED
    BY <1>2, <2>1, <2>2 DEF MInv
<1> QED
  BY <1>3, <1>4, <1>5, <1>6, <1>7 DEF World

----------------------------------------------------------------------------
(* Steps of check leave the image alone, and with it what was written. *)
LEMMA CheckWorld ==
  ASSUME MInv, Check
  PROVE  UNCHANGED worldVars /\ FromCommits'
<1>1. UNCHANGED worldVars
  BY DEF Check, Open, ReadFails, RefuseMirror, PassMirror, EndOfMirrors, Leave, Refuse
<1>2. FromCommits'
  BY <1>1 DEF worldVars, MInv, FromCommits, Fits
<1> QED
  BY <1>1, <1>2

(* A refusal is one of a mirror in range, or of a payload without any. *)
LEMMA RefuseM ==
  ASSUME MInv, ReadFails \/ RefuseMirror
  PROVE  MInv'
<1>1. UNCHANGED worldVars /\ FromCommits'
  BY CheckWorld DEF Check
<1>2. /\ pc = "reading" /\ pc' = "refused" /\ next' = next /\ next \in Mirror
      /\ length \in Nat /\ sb \in [Mirror -> Superblock] /\ commit \in Superblock
      /\ \A i \in Mirror : i < next => Passed(i)
  BY MirrorsAssumption DEF ReadFails, RefuseMirror, Refuse, MInv, TypeOK, ReadPassed
<1>3. error' \in {"InvalidRange", "BackendIo", "FsTypeMismatch", "FsInvalid",
                  "FsUnsupportedFeature", "FsRecoveryRequired"}
  BY VerdictType DEF ReadFails, RefuseMirror, Refuse
<1>4. TypeOK' /\ ReadPassed'
  BY <1>1, <1>2, <1>3 DEF worldVars, MInv, TypeOK, ReadPassed
<1>5. (RefuseMirror /\ next # 1) => Passed(1) /\ InRange(1, length)
  BY <1>2, Addresses DEF Passed
<1>6. RecoveryIsReal'
  <2> SUFFICES ASSUME error' = "FsRecoveryRequired"
               PROVE  \/ \E i \in Mirror : Valid(i) /\ sb[i].state # "clean"
                      \/ \E i, j \in Mirror : Valid(i) /\ Valid(j) /\ sb[i].gen # sb[j].gen
    BY <1>1 DEF RecoveryIsReal, Valid, Fits, worldVars
  <2>1. RefuseMirror /\ InRange(next, length)
    BY DEF ReadFails, RefuseMirror, Refuse
  <2>2. CASE Verdict(sb[next], next) = "FsRecoveryRequired"
    <3>1. sb[next].gen # 0 /\ sb[next].ok /\ sb[next].state # "clean"
      BY <2>2 DEF Verdict
    <3> QED
      BY <3>1, <2>1, <1>2 DEF Valid, Fits, InRange
  <2>3. CASE Verdict(sb[next], next) = "none" /\ ~SameCommit(next)
    <3>1. next # 1
      BY <2>3 DEF SameCommit
    <3>2. Valid(next) /\ Valid(1)
      BY <3>1, <1>5, <2>1, <2>3, Passes DEF Valid, Fits, InRange, Passed
    <3>3. sb[next].gen # sb[1].gen
      <4> SUFFICES ASSUME sb[next].gen = sb[1].gen PROVE FALSE
        OBVIOUS
      <4>1. Verdict(sb[1], 1) = "none"
        BY <3>1, <1>5, <2>1 DEF Passed
      <4>2. /\ sb[next].ok = TRUE /\ sb[1].ok = TRUE
            /\ sb[next].state = sb[1].state /\ sb[next].profile = sb[1].profile
        BY <4>1, <2>3, <1>2, Passes, Addresses DEF Superblock
      <4>3. sb[next].total = sb[1].total
        BY <3>2, <1>2, Addresses DEF MInv, FromCommits, Valid
      <4>4. [sb[next] EXCEPT !.at = 1] = [sb[1] EXCEPT !.at = 1]
        BY <4>2, <4>3, <1>2, Addresses DEF Superblock
      <4> QED
        BY <4>4, <2>3 DEF SameCommit
    <3> QED
      BY <3>2, <3>3, <1>2, Addresses
  <2> QED
    BY <2>1, <2>2, <2>3 DEF RefuseMirror, Refuse
<1>7. CleanIsAccepted'
  <2> SUFFICES ASSUME InOrder, error' # "BackendIo" PROVE FALSE
    BY <1>1 DEF CleanIsAccepted, InOrder, Fits, worldVars
  <2>1. commit.gen # 0 /\ Fits(1, commit.total) /\ commit.total <= length
    BY DEF MInv, FromCommits, InOrder
  <2>2. InRange(1, length)
    <3>1. commit.total \in Nat
      BY <1>2, MirrorsAssumption DEF Superblock
    <3> QED
      BY <3>1, <2>1, <1>2, Addresses DEF Fits, InRange, Size
  <2>3. RefuseMirror /\ InRange(next, length)
    BY <2>2 DEF ReadFails, RefuseMirror, Refuse
  <2>4. sb[next] = [commit EXCEPT !.at = next] /\ sb[1] = [commit EXCEPT !.at = 1]
    BY <2>2, <2>3, <1>2, Addresses DEF InOrder, Fits, InRange
  <2>5. /\ sb[next].gen = commit.gen /\ sb[next].ok = commit.ok /\ sb[next].at = next
        /\ sb[next].state = commit.state /\ sb[next].profile = commit.profile
        /\ sb[next].total = commit.total
    BY <2>4, <1>2 DEF Superblock
  <2>6. commit.total \in Nat
    BY <1>2, MirrorsAssumption DEF Superblock
  <2>7. Verdict(sb[next], next) = "none"
    BY <2>1, <2>5, <2>6, <1>2 DEF Verdict, InOrder
  <2>8. SameCommit(next)
    BY <2>4, <1>2 DEF SameCommit, Superblock
  <2> QED
    BY <2>3, <2>7, <2>8 DEF RefuseMirror
<1> QED
  BY <1>1, <1>4, <1>6, <1>7 DEF MInv

(* check goes on, or accepts: the mirrors that it did not read are out of  *)
(* range.                                                                  *)
LEMMA PassM ==
  ASSUME MInv, PassMirror \/ EndOfMirrors
  PROVE  MInv'
<1>1. UNCHANGED worldVars /\ FromCommits'
  BY CheckWorld DEF Check
<1>2. /\ pc = "reading" /\ next \in Mirror /\ length \in Nat
      /\ error' = error /\ error = "none"
      /\ \A i \in Mirror : i < next => Passed(i)
  BY MirrorsAssumption DEF PassMirror, EndOfMirrors, MInv, TypeOK, ReadPassed
<1>3. RecoveryIsReal' /\ CleanIsAccepted'
  BY <1>2 DEF RecoveryIsReal, CleanIsAccepted, PassMirror, EndOfMirrors
<1>4. \A i \in Mirror : Passed(i)' <=> Passed(i)
  BY <1>1 DEF worldVars, Passed, InRange, Verdict, SameCommit
<1>5. CASE PassMirror
  <2>1. Passed(next)
    BY <1>5 DEF PassMirror, Passed
  <2>2. \A i \in Mirror : i <= next => Passed(i)
    BY <2>1, <1>2, Addresses
  <2>3. CASE next + 1 \in Mirror
    <3>1. pc' = "reading" /\ next' = next + 1
      BY <2>3, <1>5, <1>2 DEF PassMirror
    <3>2. \A i \in Mirror : i < next' => Passed(i)
      BY <3>1, <2>2, <1>2, Addresses
    <3>3. ReadPassed'
      BY <3>1, <3>2, <1>4 DEF ReadPassed
    <3>4. TypeOK'
      BY <3>1, <2>3, <1>1, <1>2 DEF worldVars, MInv, TypeOK
    <3> QED
      BY <1>1, <1>3, <3>3, <3>4 DEF MInv
  <2>4. CASE next + 1 \notin Mirror
    <3>1. pc' = "accepted" /\ next' = next /\ next = 3
      BY <2>4, <1>5, <1>2, Addresses DEF PassMirror
    <3>2. \A i \in Mirror : Passed(i)
      BY <3>1, <2>2, Addresses
    <3>3. ReadPassed'
      BY <3>1, <3>2, <1>4, Addresses DEF ReadPassed
    <3>4. InRange(1, length)
      BY <3>2, Addresses DEF Passed
    <3>5. TypeOK'
      BY <3>1, <3>4, <1>1, <1>2 DEF worldVars, MInv, TypeOK, InRange
    <3> QED
      BY <1>1, <1>3, <3>3, <3>5 DEF MInv
  <2> QED
    BY <2>3, <2>4
<1>6. CASE EndOfMirrors
  <2>1. next # 1 /\ ~InRange(next, length) /\ pc' = "accepted" /\ next' = next
    BY <1>6 DEF EndOfMirrors
  <2>2. Passed(1) /\ InRange(1, length)
    BY <2>1, <1>2, Addresses DEF Passed
  <2>3. \A i \in Mirror : InRange(i, length) => i < next
    BY <2>1, <1>2, RangeDown, Addresses
  <2>4. \A i \in Mirror : InRange(i, length)' <=> InRange(i, length)
    BY <1>1 DEF worldVars, InRange
  <2>5. ReadPassed'
    BY <2>1, <2>2, <2>3, <2>4, <1>2, <1>4, Addresses DEF ReadPassed
  <2>6. TypeOK'
    BY <2>1, <2>2, <1>1, <1>2 DEF worldVars, MInv, TypeOK, InRange
  <2> QED
    BY <1>1, <1>3, <2>5, <2>6 DEF MInv
<1> QED
  BY <1>5, <1>6

(* The image is opened, or the session is over. *)
LEMMA OpenLeaveM ==
  ASSUME MInv, Open \/ Leave
  PROVE  MInv'
<1>1. UNCHANGED worldVars /\ FromCommits'
  BY CheckWorld DEF Check
<1>2. pc' \in {"reading", "idle"} /\ next' = 1 /\ error' = "none"
  BY DEF Open, Leave, MInv, TypeOK
<1>3. TypeOK'
  BY <1>1, <1>2, Addresses DEF worldVars, MInv, TypeOK
<1>4. ReadPassed'
  BY <1>2, Addresses DEF ReadPassed
<1>5. RecoveryIsReal' /\ CleanIsAccepted'
  BY <1>2 DEF RecoveryIsReal, CleanIsAccepted
<1> QED
  BY <1>1, <1>3, <1>4, <1>5 DEF MInv

(* Every step keeps the invariant. *)
LEMMA NextM == MInv /\ [Next]_vars => MInv'
<1> SUFFICES ASSUME MInv, [Next]_vars PROVE MInv'
  OBVIOUS
<1>1. CASE UNCHANGED vars
  <2>1. \A i \in Mirror : Passed(i)' <=> Passed(i)
    BY <1>1 DEF vars, worldVars, Passed, InRange, Verdict, SameCommit
  <2>2. TypeOK' /\ ReadPassed' /\ FromCommits'
    BY <1>1, <2>1, Addresses DEF vars, worldVars, MInv, TypeOK, ReadPassed, FromCommits, InRange, Fits
  <2>3. RecoveryIsReal' /\ CleanIsAccepted'
    BY <1>1 DEF vars, worldVars, MInv, RecoveryIsReal, CleanIsAccepted, InOrder, Valid, Fits
  <2> QED
    BY <2>2, <2>3 DEF MInv
<1>2. CASE World
  BY <1>2, WorldM
<1>3. CASE Check
  BY <1>3, RefuseM, PassM, OpenLeaveM DEF Check
<1> QED
  BY <1>1, <1>2, <1>3 DEF Next

(* The invariant holds for ever. *)
THEOREM MirrorsInvariant == Spec => []MInv
  BY InitM, NextM, PTL DEF Spec

----------------------------------------------------------------------------
(* Accepted mirrors are of the primary's commit. *)
LEMMA Accepted ==
  ASSUME MInv, pc = "accepted", NEW i \in Mirror, Valid(i)
  PROVE  /\ Passed(i) /\ Passed(1) /\ Verdict(sb[1], 1) = "none"
         /\ sb[i].gen = sb[1].gen
<1>1. Passed(i) /\ Passed(1)
  BY DEF MInv, ReadPassed, Valid, Fits, InRange
<1>2. [sb[i] EXCEPT !.at = 1] = [sb[1] EXCEPT !.at = 1]
  BY <1>1 DEF Passed, SameCommit
<1>3. [sb[i] EXCEPT !.at = 1].gen = sb[i].gen /\ [sb[1] EXCEPT !.at = 1].gen = sb[1].gen
  BY Addresses DEF MInv, TypeOK, Superblock
<1> QED
  BY <1>1, <1>2, <1>3 DEF Passed

(* probe::check: whichever superblock a driver takes, it holds what was    *)
(* checked.                                                                *)
THEOREM WhatIsMounted == Spec => []MountsTheChecked
<1>1. ASSUME MInv PROVE MountsTheChecked
  <2> SUFFICES ASSUME pc = "accepted" PROVE
        /\ \E i \in Mirror : Mounted(i)
        /\ \A i \in Mirror : Mounted(i) =>
             /\ sb[i].at = i
             /\ sb[i].state = "clean" /\ sb[i].profile = "allowed" /\ sb[i].total <= length
             /\ [sb[i] EXCEPT !.at = 1] = sb[1]
    BY DEF MountsTheChecked
  <2>1. Passed(1) /\ 1 \in Mirror /\ sb \in [Mirror -> Superblock] /\ length \in Nat
    BY <1>1, MirrorsAssumption, Addresses DEF MInv, TypeOK, ReadPassed
  <2>2. Valid(1)
    BY <2>1, Passes DEF Passed, Valid, Fits, InRange
  <2>3. \A i \in Mirror : Valid(i) => sb[i].gen = sb[1].gen /\ Passed(i)
    BY <1>1, Accepted
  <2>4. Mounted(1)
    BY <2>1, <2>2, <2>3 DEF Mounted, Superblock
  <2>5. ASSUME NEW i \in Mirror, Mounted(i)
        PROVE  /\ sb[i].at = i
               /\ sb[i].state = "clean" /\ sb[i].profile = "allowed" /\ sb[i].total <= length
               /\ [sb[i] EXCEPT !.at = 1] = sb[1]
    <3>1. Passed(i)
      BY <2>3, <2>5 DEF Mounted
    <3>2. sb[1].at = 1
      BY <2>1, Passes DEF Passed
    <3>3. [sb[1] EXCEPT !.at = 1] = sb[1]
      BY <3>2, <2>1 DEF Superblock
    <3>4. sb[i].total \in Nat
      BY <2>1, MirrorsAssumption DEF Superblock
    <3>5. ~(sb[i].total > length)
      BY <3>1, Passes DEF Passed
    <3>6. sb[i].total <= length
      BY <3>4, <3>5, <2>1
    <3> QED
      BY <3>1, <3>3, <3>6, Passes DEF Passed, SameCommit
  <2> QED
    BY <2>1, <2>4, <2>5
<1> QED
  BY <1>1, MirrorsInvariant, PTL

(* probe::check: the valid mirrors in range are of one commit. *)
THEOREM OneCommit == Spec => []MirrorsAgree
<1>1. ASSUME MInv PROVE MirrorsAgree
  BY <1>1, Accepted DEF MirrorsAgree
<1> QED
  BY <1>1, MirrorsInvariant, PTL

(* btrfs_at: FsRecoveryRequired has something to recover. *)
THEOREM RecoveryHasReason == Spec => []RecoveryIsReal
<1>1. MInv => RecoveryIsReal
  BY DEF MInv
<1> QED
  BY <1>1, MirrorsInvariant, PTL

(* probe::check: a file system in order is refused only if it cannot be    *)
(* read.                                                                   *)
THEOREM OrderIsAccepted == Spec => []CleanIsAccepted
<1>1. MInv => CleanIsAccepted
  BY DEF MInv
<1> QED
  BY <1>1, MirrorsInvariant, PTL
=============================================================================
