------------------------------ MODULE Pipeline ------------------------------
(***************************************************************************)
(* winluks inspect and winluks open up to the publication: run() of        *)
(* src/main.rs, Image::open_with_mode, Metadata::read with header(),       *)
(* UnlockedVolume::unlock and validate, both calls of check_consumer.      *)
(*                                                                         *)
(* Beside it another program opens the same image whenever the system lets *)
(* it and may rewrite its headers; and the consumer is reconfigured.  The  *)
(* metadata is read twice, each header copy in two reads: what ties them   *)
(* together is the share mode of the handle, as Windows enforces it.       *)
(*                                                                         *)
(* A header is the version it holds.  Its first block and the rest are     *)
(* read and written apart; the checksum fits if both are of one version.   *)
(***************************************************************************)
EXTENDS Naturals

CONSTANTS
  MaxVersion,  \* bound: updates of the header
  NoSlot       \* versions in which the keyslot asked for is not offered

ASSUME VersionAssumption == MaxVersion \in Nat

Version == 0..MaxVersion
Copy    == 1..2

VARIABLES
  hdr,      \* the two header copies on the disk
  driver,   \* the consumer: "rw", "ro" by its registry setting, "down" otherwise
  other,    \* the handle of another program, or NoHandle
  update,   \* the next write of its header update, 0 if none
  command,  \* "inspect" or "open"
  mode,     \* AccessMode of the image
  fs,       \* --filesystem
  pc,       \* the next step of run
  unlocking,\* the metadata is read by unlock, not by run
  seen,     \* the header copies as read: first block and rest
  plan,     \* the version from_json accepted in run, and in unlock
  result

worldVars == <<hdr, driver, other, update>>
argVars   == <<command, mode, fs>>
vars == <<worldVars, argVars, pc, unlocking, seen, plan, result>>

Half   == [fixed : Version, rest : Version]
Rights == SUBSET {"read", "write"}
Handle == [access : Rights, share : Rights]
NoHandle == [access |-> {}, share |-> {"read", "write"}]

Reading == {"fixed1", "rest1", "fixed2", "rest2", "compare"}
Opened  == Reading \cup {"slot", "consumer", "terminal", "password", "lookup", "digest",
                         "probe", "serve", "published"}

TypeOK ==
  /\ hdr \in [Copy -> Half] /\ seen \in [Copy -> Half]
  /\ driver \in {"rw", "ro", "down"}
  /\ other \in Handle /\ update \in 0..4
  /\ command \in {"inspect", "open"} /\ mode \in {"ReadOnly", "ReadWrite"}
  /\ fs \in {"btrfs", "ext4"}
  /\ pc \in Opened \cup {"open", "exit"}
  /\ unlocking \in BOOLEAN
  /\ plan \in [{"run", "unlock"} -> Version]
  /\ result \in {"none", "Ok", "BackendIo", "UnsupportedProfile", "MetadataRecoveryRequired", "MetadataInvalid",
                 "FsGateUnpassed", "FsDriverUnavailable", "ConsoleRequired", "UnlockFailed",
                 "ResourceLimit", "FsRecoveryRequired"}
  /\ pc \in Opened \ Reading => command = "open"

Args ==
  /\ command' \in {"inspect", "open"}
  /\ fs' \in {"btrfs", "ext4"}
  /\ mode' \in IF command' = "open" THEN {"ReadOnly", "ReadWrite"} ELSE {"ReadOnly"}

Old == [c \in Copy |-> [fixed |-> 0, rest |-> 0]]

Init ==
  /\ hdr = Old /\ driver = "rw"
  /\ other = NoHandle /\ update = 0
  /\ command = "inspect" /\ mode = "ReadOnly" /\ fs = "btrfs"
  /\ pc = "open" /\ unlocking = FALSE
  /\ seen = Old /\ plan = [x \in {"run", "unlock"} |-> 0]
  /\ result = "none"

----------------------------------------------------------------------------
(* Windows: a handle is given if what it wants every other allows, and it  *)
(* allows what every other has.                                            *)
Compatible(h, g) == h.access \subseteq g.share /\ g.access \subseteq h.share

\* MUTANT the other program may write
Own_SharesWrite ==
  [access |-> IF mode = "ReadWrite" THEN {"read", "write"} ELSE {"read"},
   share  |-> IF mode = "ReadWrite" THEN {} ELSE {"read", "write"}]
\* MUTANT a read-write session shares as a read-only one does
Own_SharesRead ==
  [access |-> IF mode = "ReadWrite" THEN {"read", "write"} ELSE {"read"},
   share  |-> {"read"}]
(* The handle that open_with_mode asks for. *)
Own == [access |-> IF mode = "ReadWrite" THEN {"read", "write"} ELSE {"read"},
        share  |-> IF mode = "ReadWrite" THEN {} ELSE {"read"}]

World == UNCHANGED <<argVars, pc, unlocking, seen, plan, result>>

(* External: another program opens, updates the headers, and may stop      *)
(* anywhere; the administrator or the system changes the consumer.         *)
OtherOpens(h) ==
  /\ other = NoHandle /\ h.access # {}
  /\ pc \in Opened => Compatible(h, Own)
  /\ other' = h
  /\ World /\ UNCHANGED <<hdr, driver, update>>

OtherCloses ==
  /\ other # NoHandle /\ other' = NoHandle /\ update' = 0
  /\ World /\ UNCHANGED <<hdr, driver>>

BeginUpdate ==
  /\ "write" \in other.access /\ update = 0 /\ hdr[1].fixed < MaxVersion
  /\ update' = 1
  /\ World /\ UNCHANGED <<hdr, driver, other>>

(* cryptsetup: the primary copy, then the secondary. *)
UpdateHeader ==
  /\ update # 0 /\ update' = (update + 1) % 5
  /\ hdr' = CASE update = 1 -> [hdr EXCEPT ![1].fixed = @ + 1]
              [] update = 2 -> [hdr EXCEPT ![1].rest = hdr[1].fixed]
              [] update = 3 -> [hdr EXCEPT ![2].fixed = hdr[1].fixed]
              [] update = 4 -> [hdr EXCEPT ![2].rest = hdr[1].fixed]
  /\ World /\ UNCHANGED <<driver, other>>

Reconfigure(d) ==
  /\ d # driver /\ driver' = d
  /\ World /\ UNCHANGED <<hdr, other, update>>

----------------------------------------------------------------------------
Goto(from, to) == pc = from /\ pc' = to
Fail(from, e) == /\ Goto(from, "exit") /\ result' = e
                 /\ UNCHANGED <<worldVars, argVars, unlocking, seen, plan>>
Keep == UNCHANGED <<worldVars, argVars, result>>

Open ==
  /\ pc = "open" /\ Args
  /\ UNCHANGED <<worldVars, unlocking, seen, plan>>
  /\ \/ Compatible(Own', other) /\ pc' = "fixed1" /\ UNCHANGED result
     \/ pc' = "exit" /\ result' \in {"BackendIo", "UnsupportedProfile"}

(* header(): the first block of a copy, then all of it with its checksum.  *)
ReadFixed(c) ==
  /\ \/ c = 1 /\ Goto("fixed1", "rest1")
     \/ c = 2 /\ Goto("fixed2", "rest2")
  /\ seen' = [seen EXCEPT ![c].fixed = hdr[c].fixed]
  /\ Keep /\ UNCHANGED <<unlocking, plan>>

ReadRest(c) ==
  /\ \/ c = 1 /\ Goto("rest1", "fixed2")
     \/ c = 2 /\ Goto("rest2", "compare")
  /\ hdr[c].fixed = hdr[c].rest
  /\ seen' = [seen EXCEPT ![c].rest = hdr[c].rest]
  /\ Keep /\ UNCHANGED <<unlocking, plan>>

\* MUTANT the second copy is not compared with the first
Same_Unchecked == TRUE
(* a.seq = b.seq and so on, from the first blocks, and a.json = b.json. *)
Same == seen[1] = seen[2]

Whose == IF unlocking THEN "unlock" ELSE "run"

Parse ==
  /\ Goto("compare", IF command = "inspect" THEN "exit" ELSE IF unlocking THEN "lookup" ELSE "slot")
  /\ Same
  /\ plan' = [plan EXCEPT ![Whose] = seen[1].rest]
  /\ result' = IF command = "inspect" THEN "Ok" ELSE result
  /\ UNCHANGED <<worldVars, argVars, unlocking, seen>>

(* A copy cannot be read, its checksum does not fit or its content is not  *)
(* supported; the copies differ; from_json refuses (Layout, Keyslots).     *)
Refusals == {"MetadataInvalid", "UnsupportedProfile", "ResourceLimit"}

ReadHeadersFails ==
  \/ \E p \in Reading \ {"compare"}, e \in Refusals \cup {"MetadataRecoveryRequired"} : Fail(p, e)
  \/ ~Same /\ Fail("compare", "MetadataRecoveryRequired")
  \/ Same /\ \E e \in Refusals : Fail("compare", e)

Step(from, to) == Goto(from, to) /\ Keep /\ UNCHANGED <<unlocking, seen, plan>>

Offered(v) == v \notin NoSlot

\* MUTANT the keyslot is looked for only when it is unlocked
FindSlot_Later == Step("slot", "consumer")
FindSlot == Offered(plan["run"]) /\ Step("slot", "consumer")
NoSuchSlot == ~Offered(plan["run"]) /\ Fail("slot", "UnsupportedProfile")

(* check_consumer; the other pinned values are those of "rw" and "ro". *)
Suits == fs = "btrfs" /\ driver \in IF mode = "ReadOnly" THEN {"rw", "ro"} ELSE {"rw"}
CheckConsumer(from, to) == Suits /\ Step(from, to)
ConsumerFails(from) ==
  IF fs = "ext4" THEN Fail(from, "FsGateUnpassed") ELSE ~Suits /\ Fail(from, "FsDriverUnavailable")

Terminal == Step("terminal", "password") \/ Fail("terminal", "ConsoleRequired")

NoPassword == Fail("password", "ConsoleRequired")

(* The user has answered: unlock reads the metadata of its own handle. *)
Unlock ==
  /\ Goto("password", "fixed1") /\ unlocking' = TRUE
  /\ Keep /\ UNCHANGED <<seen, plan>>

(* A password is too long, or not UTF-8, before the keyslot is looked up.  *)
Lookup == \/ \E e \in {"ResourceLimit", "UnlockFailed"} : Fail("lookup", e)
          \/ IF Offered(plan["unlock"]) THEN Step("lookup", "digest")
             ELSE Fail("lookup", "UnsupportedProfile")

(* KDF, anti-forensic merge and digest (Keyslots), then the file system    *)
(* (Mirrors), with one error for all of theirs.                            *)
Digest == Step("digest", "probe") \/ Fail("digest", "UnlockFailed")
Probe  == Step("probe", "serve") \/ Fail("probe", "FsRecoveryRequired")

(* serve and its exit are Publisher's. *)
Serve == Fail("published", "Ok")

Again ==
  /\ Goto("exit", "open") /\ result' = "none" /\ unlocking' = FALSE
  /\ seen' = Old /\ plan' = [x \in {"run", "unlock"} |-> 0]
  /\ UNCHANGED <<worldVars, argVars>>

----------------------------------------------------------------------------
Run == \/ Open \/ \E c \in Copy : ReadFixed(c) \/ ReadRest(c)
       \/ Parse \/ ReadHeadersFails \/ FindSlot \/ NoSuchSlot
       \/ CheckConsumer("consumer", "terminal") \/ ConsumerFails("consumer")
       \/ Terminal \/ NoPassword \/ Unlock \/ Lookup \/ Digest \/ Probe
       \/ CheckConsumer("serve", "published") \/ ConsumerFails("serve")
       \/ Serve \/ Again

Environment == \/ \E h \in Handle : OtherOpens(h)
               \/ OtherCloses \/ BeginUpdate \/ UpdateHeader
               \/ \E d \in {"rw", "ro", "down"} : Reconfigure(d)

Next == Run \/ Environment

Spec == Init /\ [][Next]_vars

----------------------------------------------------------------------------
Whole(v) == \A c \in Copy : hdr[c] = [fixed |-> v, rest |-> v]

(* Nobody changes the headers under an open session, whoever opened the    *)
(* image first, and in whatever mode.                                      *)
FileIsStable == [][(pc \in Opened) => (hdr' = hdr)]_vars

(* What is published is described by metadata that both copies hold, that  *)
(* the keyslot check saw and that gave the key.                            *)
OneMetadata ==
  pc = "published" => Whole(plan["unlock"]) /\ plan["run"] = plan["unlock"] /\ fs = "btrfs"

(* The password is asked for once both copies agree on the disk and offer  *)
(* the keyslot (README.md:62).                                             *)
AskedLast == pc = "password" => fs = "btrfs" /\ \E v \in Version : Whole(v) /\ Offered(v)

(* A read-write session has the image for itself, from the open on: no     *)
(* other program reads a file system that changes under it.                *)
SoleUser == mode = "ReadWrite" /\ pc \in Opened => other = NoHandle
=============================================================================
