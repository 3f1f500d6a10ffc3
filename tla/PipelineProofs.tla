--------------------------- MODULE PipelineProofs ---------------------------
(***************************************************************************)
(* Proofs about Pipeline: the headers stay put under an open session, and  *)
(* what is published is what was checked, for any number of versions of    *)
(* the headers and whichever of them offer the keyslot.                    *)
(***************************************************************************)
EXTENDS Pipeline, TLAPS

(* The handles that are open allow each other, an update is under way only *)
(* with a handle that may write, and it has a version to write.            *)
Sharing ==
  /\ pc \in Opened => Compatible(Own, other)
  /\ other = NoHandle \/ other.access # {}
  /\ update # 0 => "write" \in other.access
  /\ update = 1 => hdr[1].fixed < MaxVersion

(* What was read of the headers is what they hold. *)
SeenIsThere ==
  /\ pc \in {"rest1", "fixed2", "rest2", "compare"} => seen[1].fixed = hdr[1].fixed
  /\ pc \in {"fixed2", "rest2", "compare"} =>
       seen[1].rest = hdr[1].rest /\ hdr[1].fixed = hdr[1].rest
  /\ pc \in {"rest2", "compare"} => seen[2].fixed = hdr[2].fixed
  /\ pc = "compare" => seen[2].rest = hdr[2].rest /\ hdr[2].fixed = hdr[2].rest

Unlocked == {"lookup", "digest", "probe", "serve", "published"}

(* The metadata was read once before unlock, and twice after. *)
ReadOnce  == pc \in Opened \ Reading \/ (unlocking /\ pc \in Reading)
Confirmed == ReadOnce /\ pc # "slot"
Asked     == Confirmed /\ pc # "consumer"
PlanHolds ==
  /\ pc \in {"open", "slot", "consumer", "terminal", "password"} => ~unlocking
  /\ pc \in Unlocked => unlocking
  /\ ReadOnce => Whole(plan["run"])
  /\ Confirmed => Offered(plan["run"])
  /\ Asked => fs = "btrfs" /\ command = "open"
  /\ pc \in Unlocked => Whole(plan["unlock"])

PInv == TypeOK /\ Sharing /\ SeenIsThere /\ PlanHolds

Answers == {"none", "Ok", "BackendIo", "UnsupportedProfile", "MetadataRecoveryRequired", "MetadataInvalid",
            "FsGateUnpassed", "FsDriverUnavailable", "ConsoleRequired", "UnlockFailed",
            "ResourceLimit", "FsRecoveryRequired"}

----------------------------------------------------------------------------
(* Under an open session no other program may write. *)
LEMMA NobodyWrites ==
  ASSUME PInv, pc \in Opened
  PROVE  /\ "write" \notin other.access /\ update = 0
         /\ mode = "ReadWrite" => other = NoHandle
  BY DEF PInv, Sharing, Compatible, Own, TypeOK

(* At the start nothing is open. *)
LEMMA InitP == Init => PInv
<1> SUFFICES ASSUME Init PROVE PInv
  OBVIOUS
<1>1. 0 \in Version /\ NoHandle \in Handle /\ Old \in [Copy -> Half]
  BY VersionAssumption DEF Version, NoHandle, Handle, Rights, Old, Half
<1>2. TypeOK
  <2>1. hdr \in [Copy -> Half] /\ seen \in [Copy -> Half] /\ other \in Handle
    BY <1>1 DEF Init
  <2>2. plan \in [{"run", "unlock"} -> Version]
    BY <1>1 DEF Init
  <2>3. /\ driver = "rw" /\ command = "inspect" /\ mode = "ReadOnly"
        /\ fs = "btrfs" /\ pc = "open" /\ result = "none"
    BY DEF Init
  <2>4. update \in 0..4
    BY DEF Init
  <2>5. unlocking \in BOOLEAN
    BY Zenon DEF Init
  <2> QED
    BY <2>1, <2>2, <2>3, <2>4, <2>5 DEF TypeOK, Opened, Reading
<1>3. Sharing /\ SeenIsThere /\ PlanHolds
  BY DEF Init, Sharing, SeenIsThere, PlanHolds, ReadOnce, Confirmed, Asked, Unlocked, Opened,
         Reading
<1> QED
  BY <1>2, <1>3 DEF PInv

(* The environment: under an open session it leaves the headers alone. *)
LEMMA EnvironmentP ==
  ASSUME PInv, Environment
  PROVE  PInv' /\ (pc \in Opened => hdr' = hdr)
<1>1. UNCHANGED <<command, mode, fs, pc, unlocking, seen, plan, result>>
  BY DEF Environment, OtherOpens, OtherCloses, BeginUpdate, UpdateHeader, Reconfigure, World, argVars
<1>2. pc \in Opened => hdr' = hdr
  BY NobodyWrites DEF Environment, OtherOpens, OtherCloses, BeginUpdate, UpdateHeader, Reconfigure
<1>3. SeenIsThere' /\ PlanHolds'
  BY <1>1, <1>2 DEF PInv, SeenIsThere, PlanHolds, ReadOnce, Confirmed, Asked, Unlocked, Whole,
                    Offered, Opened, Reading
<1>4. CASE \E h \in Handle : OtherOpens(h)
  <2> PICK h \in Handle : OtherOpens(h)
    BY <1>4
  <2>1. TypeOK'
    BY <1>1 DEF OtherOpens, PInv, TypeOK
  <2>2. Sharing'
    BY <1>1 DEF OtherOpens, PInv, Sharing, Compatible, Own, NoHandle
  <2> QED
    BY <1>2, <1>3, <2>1, <2>2 DEF PInv
<1>5. CASE OtherCloses
  <2>1. TypeOK'
    BY <1>1, <1>5 DEF OtherCloses, PInv, TypeOK, NoHandle, Handle, Rights
  <2>2. Sharing'
    BY <1>1, <1>5 DEF OtherCloses, Sharing, Compatible, Own, NoHandle
  <2> QED
    BY <1>2, <1>3, <2>1, <2>2 DEF PInv
<1>6. CASE BeginUpdate
  <2>1. TypeOK' /\ Sharing'
    BY <1>1, <1>6 DEF BeginUpdate, PInv, TypeOK, Sharing, Compatible, Own
  <2> QED
    BY <1>2, <1>3, <2>1 DEF PInv
<1>7. CASE UpdateHeader
  <2>1. /\ hdr \in [Copy -> Half] /\ update \in 1..4 /\ 1 \in Copy /\ 2 \in Copy
        /\ update = 1 => hdr[1].fixed < MaxVersion
    BY <1>7 DEF UpdateHeader, PInv, TypeOK, Sharing, Copy
  <2>2. hdr' \in [Copy -> Half]
    <3>1. CASE update = 1
      <4>1. [hdr[1] EXCEPT !.fixed = @ + 1] \in Half
        BY <2>1, <3>1, VersionAssumption DEF Half, Version
      <4>2. hdr' = [hdr EXCEPT ![1] = [hdr[1] EXCEPT !.fixed = @ + 1]]
        BY <3>1, <1>7, <2>1 DEF UpdateHeader
      <4> QED
        BY <4>1, <4>2, <2>1
    <3>2. CASE update = 2
      BY <3>2, <1>7, <2>1 DEF UpdateHeader, Half
    <3>3. CASE update = 3
      BY <3>3, <1>7, <2>1 DEF UpdateHeader, Half
    <3>4. CASE update = 4
      BY <3>4, <1>7, <2>1 DEF UpdateHeader, Half
    <3> QED
      BY <3>1, <3>2, <3>3, <3>4, <2>1
  <2>3. update' \in 0..4 /\ update' # 1 /\ (update' # 0 => update # 0) /\ other' = other
    BY <1>7, <2>1 DEF UpdateHeader
  <2>4. TypeOK'
    BY <1>1, <1>7, <2>2, <2>3 DEF UpdateHeader, PInv, TypeOK
  <2>5. Sharing'
    BY <1>1, <2>3 DEF PInv, Sharing, Compatible, Own
  <2> QED
    BY <1>2, <1>3, <2>4, <2>5 DEF PInv
<1>8. CASE \E d \in {"rw", "ro", "down"} : Reconfigure(d)
  <2>1. TypeOK' /\ Sharing'
    BY <1>1, <1>8 DEF Reconfigure, PInv, TypeOK, Sharing, Compatible, Own
  <2> QED
    BY <1>2, <1>3, <2>1 DEF PInv
<1> QED
  BY <1>4, <1>5, <1>6, <1>7, <1>8 DEF Environment

----------------------------------------------------------------------------
(* Every way out of run closes the handle and leaves the image as it is. *)
LEMMA ExitP ==
  ASSUME PInv, pc' = "exit", result' \in Answers,
         UNCHANGED <<hdr, driver, other, update, mode, fs, unlocking, seen>>,
         command' \in {"inspect", "open"}, plan' \in [{"run", "unlock"} -> Version]
  PROVE  PInv'
<1>1. TypeOK'
  BY DEF PInv, TypeOK, Answers, Opened, Reading
<1>2. Sharing'
  BY DEF PInv, Sharing, Opened, Reading
<1>3. SeenIsThere' /\ PlanHolds'
  BY DEF SeenIsThere, PlanHolds, ReadOnce, Confirmed, Asked, Unlocked, Opened, Reading
<1> QED
  BY <1>1, <1>2, <1>3 DEF PInv

LEMMA FailP ==
  ASSUME PInv, NEW p, NEW e \in Answers, Fail(p, e)
  PROVE  PInv'
  BY ExitP DEF Fail, Goto, worldVars, argVars, PInv, TypeOK

(* A step that reads nothing, from what was checked to what was checked. *)
LEMMA StepP ==
  ASSUME PInv, NEW from \in Opened \ Reading, NEW to \in Opened \ Reading, Step(from, to),
         from = "slot" => to = "consumer" /\ Offered(plan["run"]),
         from = "consumer" => to = "terminal" /\ fs = "btrfs",
         from \in {"terminal", "password"} => to = "password",
         from \in Unlocked => to \in Unlocked
  PROVE  PInv'
<1>1. /\ pc = from /\ pc' = to
      /\ UNCHANGED <<hdr, driver, other, update, command, mode, fs, unlocking, seen, plan, result>>
  BY DEF Step, Goto, Keep, worldVars, argVars
<1>2. TypeOK' /\ SeenIsThere'
  BY <1>1 DEF PInv, TypeOK, SeenIsThere, Opened, Reading
<1>3. Sharing'
  BY <1>1 DEF PInv, Sharing, Compatible, Own
<1>4. PlanHolds'
  BY <1>1 DEF PInv, TypeOK, PlanHolds, ReadOnce, Confirmed, Asked, Unlocked, Whole, Offered, Opened,
              Reading
<1> QED
  BY <1>2, <1>3, <1>4 DEF PInv

(* The image is opened with what it allows others and what they allow. *)
LEMMA OpenP ==
  ASSUME PInv, Open
  PROVE  PInv'
<1>1. UNCHANGED <<hdr, driver, other, update, unlocking, seen, plan>> /\ ~unlocking
  BY DEF Open, worldVars, PInv, PlanHolds
<1>2. TypeOK'
  BY <1>1 DEF Open, Args, PInv, TypeOK, Opened, Reading
<1>3. Sharing'
  BY <1>1 DEF Open, PInv, Sharing, Compatible, Own, Opened, Reading
<1>4. SeenIsThere' /\ PlanHolds'
  BY <1>1 DEF Open, SeenIsThere, PlanHolds, ReadOnce, Confirmed, Asked, Unlocked, Opened, Reading
<1> QED
  BY <1>2, <1>3, <1>4 DEF PInv

(* A read of the headers. *)
LEMMA ReadP ==
  ASSUME PInv, NEW c \in Copy, ReadFixed(c) \/ ReadRest(c)
  PROVE  PInv'
<1>1. /\ UNCHANGED <<hdr, driver, other, update, command, mode, fs, result, unlocking, plan>>
      /\ pc \in Reading /\ pc' \in Reading
  BY DEF ReadFixed, ReadRest, Goto, Keep, worldVars, argVars, Reading
<1>2. seen \in [Copy -> Half] /\ hdr \in [Copy -> Half] /\ Copy = {1, 2}
  BY DEF PInv, TypeOK, Copy
<1>3. Sharing'
  BY <1>1 DEF PInv, Sharing, Compatible, Own, Opened
<1>4. PlanHolds'
  BY <1>1 DEF PInv, PlanHolds, ReadOnce, Confirmed, Asked, Unlocked, Whole, Offered, Opened, Reading
<1>5. CASE ReadFixed(c)
  <2>1. seen' = [seen EXCEPT ![c] = [seen[c] EXCEPT !.fixed = hdr[c].fixed]]
    BY <1>2, <1>5 DEF ReadFixed
  <2>2. /\ seen' \in [Copy -> Half]
        /\ seen'[c].fixed = hdr[c].fixed /\ seen'[c].rest = seen[c].rest
        /\ \A d \in Copy : d # c => seen'[d] = seen[d]
    BY <1>2, <2>1 DEF Half
  <2>3. TypeOK'
    BY <1>1, <2>2 DEF PInv, TypeOK, Opened
  <2>4. SeenIsThere'
    BY <1>1, <1>2, <1>5, <2>2 DEF ReadFixed, Goto, PInv, SeenIsThere
  <2> QED
    BY <1>3, <1>4, <2>3, <2>4 DEF PInv
<1>6. CASE ReadRest(c)
  <2>1. /\ seen' = [seen EXCEPT ![c] = [seen[c] EXCEPT !.rest = hdr[c].rest]]
        /\ hdr[c].fixed = hdr[c].rest
    BY <1>2, <1>6 DEF ReadRest
  <2>2. /\ seen' \in [Copy -> Half]
        /\ seen'[c].rest = hdr[c].rest /\ seen'[c].fixed = seen[c].fixed
        /\ \A d \in Copy : d # c => seen'[d] = seen[d]
    BY <1>2, <2>1 DEF Half
  <2>3. TypeOK'
    BY <1>1, <2>2 DEF PInv, TypeOK, Opened
  <2>4. SeenIsThere'
    BY <1>1, <1>2, <1>6, <2>1, <2>2 DEF ReadRest, Goto, PInv, SeenIsThere
  <2> QED
    BY <1>3, <1>4, <2>3, <2>4 DEF PInv
<1> QED
  BY <1>5, <1>6

(* What from_json accepts is what both copies hold. *)
LEMMA ParseP ==
  ASSUME PInv, Parse
  PROVE  PInv'
<1>1. /\ pc = "compare" /\ seen[1] = seen[2]
      /\ plan' = [plan EXCEPT ![Whose] = seen[1].rest]
      /\ UNCHANGED <<hdr, driver, other, update, command, mode, fs, unlocking, seen>>
      /\ pc' = IF command = "inspect" THEN "exit" ELSE IF unlocking THEN "lookup" ELSE "slot"
      /\ result' = IF command = "inspect" THEN "Ok" ELSE result
  BY DEF Parse, Same, Goto, worldVars, argVars
<1>2. /\ seen \in [Copy -> Half] /\ hdr \in [Copy -> Half] /\ Copy = {1, 2}
      /\ plan \in [{"run", "unlock"} -> Version] /\ Whose \in {"run", "unlock"}
      /\ command \in {"inspect", "open"} /\ unlocking \in BOOLEAN
  BY DEF PInv, TypeOK, Copy, Whose
<1>3. plan' \in [{"run", "unlock"} -> Version]
  BY <1>1, <1>2 DEF Half
<1>4. CASE command = "inspect"
  BY <1>1, <1>2, <1>3, <1>4, ExitP DEF Answers
<1>5. CASE command = "open"
  <2>1. Whole(seen[1].rest)
    BY <1>1, <1>2 DEF PInv, SeenIsThere, Whole, Half
  <2>2. pc' = IF unlocking THEN "lookup" ELSE "slot"
    BY <1>1, <1>5
  <2>3. TypeOK'
    BY <1>1, <1>2, <1>3, <1>5, <2>2 DEF PInv, TypeOK, Opened, Reading
  <2>4. Sharing' /\ SeenIsThere'
    BY <1>1, <1>2, <2>2 DEF PInv, Sharing, Compatible, Own, SeenIsThere, Opened, Reading
  <2>5. \A v : Whole(v)' <=> Whole(v)
    BY <1>1 DEF Whole
  <2>6. CASE unlocking
    <3>1. plan'["unlock"] = seen[1].rest /\ plan'["run"] = plan["run"]
      BY <1>1, <1>2, <2>6 DEF Whose
    <3>2. PlanHolds'
      BY <3>1, <2>1, <2>2, <2>5, <2>6, <1>1
         DEF PInv, PlanHolds, ReadOnce, Confirmed, Asked, Unlocked, Offered, Opened, Reading
    <3> QED
      BY <3>2, <2>3, <2>4 DEF PInv
  <2>7. CASE ~unlocking
    <3>1. plan'["run"] = seen[1].rest
      BY <1>1, <1>2, <2>7 DEF Whose
    <3>2. PlanHolds'
      BY <3>1, <2>1, <2>2, <2>5, <2>7, <1>1
         DEF PlanHolds, ReadOnce, Confirmed, Asked, Unlocked, Opened, Reading
    <3> QED
      BY <3>2, <2>3, <2>4 DEF PInv
  <2> QED
    BY <2>6, <2>7, <1>2
<1> QED
  BY <1>2, <1>4, <1>5

----------------------------------------------------------------------------
(* unlock starts over, with the handle that is open. *)
LEMMA UnlockP ==
  ASSUME PInv, Unlock
  PROVE  PInv'
<1>1. /\ pc = "password" /\ pc' = "fixed1" /\ unlocking'
      /\ UNCHANGED <<hdr, driver, other, update, command, mode, fs, result, seen, plan>>
  BY DEF Unlock, Goto, Keep, worldVars, argVars
<1>2. TypeOK' /\ Sharing'
  BY <1>1 DEF Unlock, PInv, TypeOK, Sharing, Compatible, Own, Opened, Reading
<1>3. SeenIsThere' /\ PlanHolds'
  BY <1>1 DEF PInv, SeenIsThere, PlanHolds, ReadOnce, Confirmed, Asked, Unlocked, Whole, Offered,
              Opened, Reading
<1> QED
  BY <1>2, <1>3 DEF PInv

LEMMA AgainP ==
  ASSUME PInv, Again
  PROVE  PInv'
<1>1. /\ pc' = "open" /\ ~unlocking'
      /\ UNCHANGED <<hdr, driver, other, update, command, mode, fs>>
  BY DEF Again, Goto, worldVars, argVars
<1>2. 0 \in Version /\ Old \in [Copy -> Half]
  BY VersionAssumption DEF Version, Old, Half
<1>3. TypeOK'
  BY <1>1, <1>2 DEF Again, Goto, PInv, TypeOK, Opened, Reading
<1>4. Sharing' /\ SeenIsThere' /\ PlanHolds'
  BY <1>1 DEF PInv, Sharing, SeenIsThere, PlanHolds, ReadOnce, Confirmed, Asked, Unlocked, Opened,
              Reading
<1> QED
  BY <1>3, <1>4 DEF PInv

(* Every step keeps the invariant. *)
LEMMA NextP == PInv /\ [Next]_vars => PInv'
<1> SUFFICES ASSUME PInv, [Next]_vars PROVE PInv'
  OBVIOUS
<1> USE DEF Answers, Opened, Reading, Unlocked
<1>1. CASE UNCHANGED vars
  BY <1>1 DEF vars, worldVars, argVars, PInv, TypeOK, Sharing, Compatible, Own, SeenIsThere, PlanHolds,
              ReadOnce, Confirmed, Asked, Whole, Offered
<1>2. CASE Environment
  BY <1>2, EnvironmentP
<1>3. CASE Open
  BY <1>3, OpenP
<1>4. CASE \E c \in Copy : ReadFixed(c) \/ ReadRest(c)
  BY <1>4, ReadP
<1>5. CASE Parse
  BY <1>5, ParseP
<1>6. CASE ReadHeadersFails
  BY <1>6, FailP DEF ReadHeadersFails, Refusals
<1>7. CASE FindSlot
  BY <1>7, StepP DEF FindSlot
<1>8. CASE NoSuchSlot
  BY <1>8, FailP DEF NoSuchSlot
<1>9. CASE CheckConsumer("consumer", "terminal")
  BY <1>9, StepP DEF CheckConsumer, Suits
<1>10. CASE ConsumerFails("consumer") \/ ConsumerFails("serve")
  BY <1>10, FailP DEF ConsumerFails
<1>11. CASE Terminal
  BY <1>11, StepP, FailP DEF Terminal
<1>12. CASE NoPassword
  BY <1>12, FailP DEF NoPassword
<1>13. CASE Unlock
  BY <1>13, UnlockP
<1>14. CASE Lookup
  BY <1>14, StepP, FailP DEF Lookup
<1>15. CASE Digest
  BY <1>15, StepP, FailP DEF Digest
<1>16. CASE Probe
  BY <1>16, StepP, FailP DEF Probe
<1>17. CASE CheckConsumer("serve", "published")
  BY <1>17, StepP DEF CheckConsumer
<1>18. CASE Serve
  BY <1>18, FailP DEF Serve
<1>19. CASE Again
  BY <1>19, AgainP
<1> QED
  BY <1>1, <1>2, <1>3, <1>4, <1>5, <1>6, <1>7, <1>8, <1>9, <1>10, <1>11, <1>12, <1>13, <1>14,
     <1>15, <1>16, <1>17, <1>18, <1>19 DEF Next, Run

(* The invariant holds for ever. *)
THEOREM PipelineInvariant == Spec => []PInv
  BY InitP, NextP, PTL DEF Spec

----------------------------------------------------------------------------
(* open_with_mode: under an open session nobody changes the headers. *)
THEOREM HeadersStayPut == Spec => FileIsStable
<1>1. ASSUME PInv, [Next]_vars PROVE [(pc \in Opened) => (hdr' = hdr)]_vars
  <2>1. CASE UNCHANGED vars
    BY <2>1
  <2>2. CASE Environment
    BY <1>1, <2>2, EnvironmentP
  <2>3. CASE Run
    <3>1. hdr' = hdr
      BY <2>3 DEF Run, Open, ReadFixed, ReadRest, Parse, ReadHeadersFails, FindSlot, NoSuchSlot,
                  CheckConsumer, ConsumerFails, Terminal, NoPassword, Unlock, Lookup, Digest, Probe,
                  Serve, Again, Step, Fail, Keep, worldVars
    <3> QED
      BY <3>1
  <2> QED
    BY <1>1, <2>1, <2>2, <2>3 DEF Next
<1> QED
  BY <1>1, PipelineInvariant, PTL DEF Spec, FileIsStable

(* open_with_mode: a read-write session has the image for itself. *)
THEOREM ReadWriteIsAlone == Spec => []SoleUser
<1>1. PInv => SoleUser
  BY NobodyWrites DEF SoleUser
<1> QED
  BY <1>1, PipelineInvariant, PTL

(* run: the password is asked for once the metadata is known to be good.   *)
THEOREM PasswordLast == Spec => []AskedLast
<1>1. ASSUME PInv PROVE AskedLast
  <2> SUFFICES ASSUME pc = "password" PROVE fs = "btrfs" /\ \E v \in Version : Whole(v) /\ Offered(v)
    BY DEF AskedLast
  <2>1. fs = "btrfs" /\ Whole(plan["run"]) /\ Offered(plan["run"]) /\ plan["run"] \in Version
    BY <1>1 DEF PInv, TypeOK, PlanHolds, ReadOnce, Confirmed, Asked, Opened, Reading
  <2> QED
    BY <2>1
<1> QED
  BY <1>1, PipelineInvariant, PTL

(* run and unlock: the two readings of the metadata are one. *)
THEOREM PublishedAsChecked == Spec => []OneMetadata
<1>1. ASSUME PInv PROVE OneMetadata
  <2> SUFFICES ASSUME pc = "published"
               PROVE  Whole(plan["unlock"]) /\ plan["run"] = plan["unlock"] /\ fs = "btrfs"
    BY DEF OneMetadata
  <2>1. fs = "btrfs" /\ Whole(plan["run"]) /\ Whole(plan["unlock"])
    BY <1>1 DEF PInv, PlanHolds, ReadOnce, Confirmed, Asked, Opened, Reading, Unlocked
  <2>2. hdr[1].fixed = plan["run"] /\ hdr[1].fixed = plan["unlock"]
    BY <2>1 DEF Whole, Copy
  <2> QED
    BY <2>1, <2>2
<1> QED
  BY <1>1, PipelineInvariant, PTL
=============================================================================
