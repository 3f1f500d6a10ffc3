--------------------------- MODULE KeyslotsProofs ---------------------------
(***************************************************************************)
(* Proofs about Keyslots, for any number of keyslots and digests, lists of *)
(* any length, and every key size, cost and digest size an image may hold. *)
(***************************************************************************)
EXTENDS Keyslots, FiniteSetTheorems, SequenceTheorems, TLAPS

(* Until something is rejected, the plan has the keyslots that a digest    *)
(* binds, each with its only digest.                                       *)
Bound ==
  pc # "rejected" =>
    /\ DOMAIN slots = {k \in Ids : \E d \in DOMAIN digests : Binds(d, k)}
    /\ \A k \in DOMAIN slots, d \in DOMAIN digests : Binds(d, k) => slots[k] = d

(* What was accepted so far has its numbers in order. *)
Numbers ==
  /\ pc \notin {"keyslots", "rejected"} => \A k \in keyslots : SlotError(k) = "none"
  /\ pc # "rejected" => \A d \in DOMAIN digests : KeyError(key[d]) = "none"

(* unlock works on a keyslot of the plan. *)
Chosen == pc \in {"kdf", "area", "merge", "verify", "key", "open"} => wanted \in DOMAIN slots

KInv == TypeOK /\ Bound /\ Numbers /\ Chosen /\ WellBoundIsAccepted /\ NoLateRefusal

Working   == {"kdf", "area", "merge", "verify", "key", "open"}
Costs     == {"TooSlow", "NoMemory", "BackendIo", "UnlockFailed"}
Unlocking == DeriveAreaKey \/ DecryptArea \/ Merge \/ Verify \/ TakeKey

----------------------------------------------------------------------------
(* The limits agree.                                                      *)

(* The numbers of a keyslot that from_json accepts pass every later check. *)
LEMMA SlotNumbers ==
  ASSUME NEW k \in Ids, slot \in [Ids -> Slot], SlotError(k) = "none"
  PROVE  /\ slot[k].key_size \in {32, 64} /\ slot[k].area_key_size \in {32, 64}
         /\ DeriveError(slot[k].kdf, slot[k].area_key_size) = "none"
<1> DEFINE kdf == slot[k].kdf
<1>1. slot[k].key_size \in {32, 64} /\ slot[k].area_key_size \in {32, 64} /\ KdfError(kdf) = "none"
  BY DEF SlotError
<1>2. kdf \in Kdf
  BY DEF Slot
<1> HIDE DEF kdf
<1>3. CASE kdf.type = "pbkdf2"
  <2>1. kdf.iterations \in Nat
    BY <1>2, <1>3, KeyslotsAssumption DEF Kdf
  <2>2. kdf.iterations # 0 /\ kdf.iterations <= 10000000
    BY SMT, <1>1, <1>3 DEF KdfError, Bounded
  <2> QED BY SMT, <1>1, <1>3, <2>1, <2>2 DEF DeriveError, kdf
<1>4. CASE kdf.type # "pbkdf2"
  <2>1. kdf.memory \in Nat /\ kdf.time \in Nat /\ kdf.cpus \in Nat
    BY <1>2, <1>4, KeyslotsAssumption DEF Kdf
  <2>2. /\ kdf.memory <= 1048576 /\ kdf.time # 0 /\ kdf.time <= 10 /\ kdf.cpus # 0 /\ kdf.cpus <= 8
        /\ ~(kdf.memory < 8 * kdf.cpus)
    BY SMT, <1>1, <1>4 DEF KdfError, Bounded
  <2>3. Argon2Params(kdf, slot[k].area_key_size)
    BY SMT, <1>1, <2>1, <2>2 DEF Argon2Params
  <2> QED BY SMT, <1>1, <1>4, <2>1, <2>2, <2>3 DEF DeriveError, kdf
<1> QED BY <1>1, <1>3, <1>4

(* So do those of a digest. *)
LEMMA DigestNumbers ==
  ASSUME NEW k \in Key, KeyError(k) = "none"
  PROVE  DeriveError([type |-> "pbkdf2", iterations |-> k.iterations], k.size) = "none"
<1>1. k.iterations \in Nat /\ k.hash \in {"sha256", "sha512"}
  BY KeyslotsAssumption DEF Key, HashSize
<1>2. HashSize[k.hash] \in {32, 64}
  BY <1>1 DEF HashSize
<1>3. k.size \in {20, 32, 64} /\ k.iterations # 0 /\ k.iterations <= 10000000
  BY SMT, <1>2 DEF KeyError, Bounded
<1> QED BY SMT, <1>1, <1>3 DEF DeriveError

(* Two digests that bind a keyslot are more than one. *)
LEMMA TwoAreMany ==
  ASSUME NEW m \in Nat, NEW S \in SUBSET (1..m), NEW a \in S, NEW b \in S, a # b
  PROVE  ~(Cardinality(S) <= 1)
<1>1. IsFiniteSet(S)
  <2>1. IsFiniteSet(1..m)
    BY FS_Interval
  <2> QED BY <2>1, FS_Subset
<1>2. IsFiniteSet({a}) /\ Cardinality({a}) = 1
  BY FS_Singleton
<1>3. Cardinality({a} \cup {b}) = 2
  BY <1>2, FS_AddElement
<1>4. Cardinality({a} \cup {b}) <= Cardinality(S)
  BY <1>1, FS_Subset
<1>5. Cardinality(S) \in Nat
  BY <1>1, FS_CardinalityType
<1> QED BY <1>3, <1>4, <1>5

----------------------------------------------------------------------------
(* unlock: every step leaves the plan alone, and fails for its cost only. *)

LEMMA UnlockStep ==
  ASSUME TypeOK, Bound, Numbers, Chosen, Unlocking
  PROVE  /\ UNCHANGED <<input, digests, slots, wanted>>
         /\ pc \in Working
         /\ \/ pc' \in Working /\ UNCHANGED error
            \/ pc' = "refused" /\ error' \in Costs
<1>1. pc \in Working
  BY DEF Unlocking, DeriveAreaKey, DecryptArea, Merge, Verify, TakeKey, Derive, Go, Refuse, Fail, Goto, Working
<1>2. wanted \in DOMAIN slots /\ wanted \in keyslots /\ wanted \in Ids /\ slot \in [Ids -> Slot]
  BY <1>1 DEF Chosen, TypeOK, Working
<1>3. slot[wanted].key_size \in {32, 64} /\ slot[wanted].area_key_size \in {32, 64}
      /\ DeriveError(slot[wanted].kdf, slot[wanted].area_key_size) = "none"
  BY <1>1, <1>2, SlotNumbers DEF Numbers, Working
<1>4. CASE DeriveAreaKey
  BY <1>3, <1>4 DEF DeriveAreaKey, Derive, Go, Refuse, Fail, Goto, Working, Costs
<1>5. CASE DecryptArea
  <2>1. /\ XtsKey(slot[wanted].area_key_size)
        /\ (slot[wanted].key_size * 4000) % 512 = 0 /\ ~(slot[wanted].key_size * 4000 > 1048576)
    BY SMT, <1>3 DEF XtsKey
  <2> QED BY SMT, <1>5, <2>1 DEF DecryptArea, Go, Refuse, Fail, Goto, Working, Costs
<1>6. CASE Merge
  BY <1>3, <1>6 DEF Merge, XtsKey, Go, Refuse, Fail, Goto, Working, Costs
<1>7. CASE Verify
  <2> DEFINE d == slots[wanted]
  <2>1. d \in DOMAIN digests
    BY <1>2 DEF TypeOK, Range
  <2>2. KeyError(key[d]) = "none"
    BY <1>1, <2>1 DEF Numbers, Working
  <2>3. d \in 1..MaxDigests
    <3>1. DOMAIN digests = 1..Len(digests) /\ Len(digests) \in Nat /\ Len(digests) <= MaxDigests
      BY DEF TypeOK
    <3> QED BY <2>1, <3>1, KeyslotsAssumption
  <2>4. key[d] \in Key
    BY <2>3 DEF TypeOK
  <2>5. DeriveError([type |-> "pbkdf2", iterations |-> key[d].iterations], key[d].size) = "none"
    BY <2>2, <2>4, DigestNumbers
  <2> QED BY <1>7, <2>5 DEF Verify, Derive, Go, Refuse, Fail, Goto, Working, Costs
<1>8. CASE TakeKey
  BY <1>3, <1>8 DEF TakeKey, XtsKey, Go, Refuse, Fail, Goto, Working, Costs
<1> QED BY <1>1, <1>4, <1>5, <1>6, <1>7, <1>8 DEF Unlocking

LEMMA UnlockKeeps ==
  ASSUME KInv, Unlocking
  PROVE  KInv'
<1> USE DEF KInv, Working, Costs
<1>1. /\ UNCHANGED <<input, digests, slots, wanted>>
      /\ pc \in Working
      /\ \/ pc' \in Working /\ UNCHANGED error
         \/ pc' = "refused" /\ error' \in Costs
  BY UnlockStep
<1>2. TypeOK'
  BY <1>1 DEF TypeOK, input
<1>3. Bound'
  BY <1>1 DEF Bound, Binds
<1>4. Numbers'
  BY <1>1 DEF Numbers, SlotError, input
<1>5. Chosen'
  BY <1>1 DEF Chosen
<1>6. WellBoundIsAccepted'
  BY <1>1 DEF WellBoundIsAccepted
<1>7. NoLateRefusal'
  BY <1>1 DEF NoLateRefusal
<1> QED BY <1>2, <1>3, <1>4, <1>5, <1>6, <1>7

----------------------------------------------------------------------------
(* from_json.                                                             *)

LEMMA InitK == Init => KInv
<1> SUFFICES ASSUME Init PROVE KInv
  OBVIOUS
<1>1. DOMAIN digests = {} /\ Len(digests) = 0 /\ digests \in Seq(Digest)
  BY DEF Init
<1>2. DOMAIN slots = {} /\ Range(slots) = {}
  BY DEF Init, Range
<1>3. TypeOK
  BY <1>1, <1>2, KeyslotsAssumption DEF Init, TypeOK, Segment
<1>4. Bound
  BY <1>1, <1>2 DEF Bound
<1> QED BY <1>3, <1>4 DEF KInv, Init, Numbers, Chosen, WellBoundIsAccepted, NoLateRefusal

Errors == {"none", "MetadataInvalid", "UnsupportedProfile", "ResourceLimit"}

LEMMA ErrorTypes ==
  /\ \A k \in Ids : SlotError(k) \in Errors
  /\ \A k \in Key : KeyError(k) \in Errors
<1>1. ASSUME NEW k \in Ids PROVE SlotError(k) \in Errors
  <2> DEFINE kdf == slot[k].kdf
  <2>1. KdfError(kdf) \in Errors
    BY SMT DEF KdfError, Errors
  <2> QED BY <2>1 DEF SlotError, Errors
<1>2. ASSUME NEW k \in Key PROVE KeyError(k) \in Errors
  BY SMT DEF KeyError, Errors
<1> QED BY <1>1, <1>2

LEMMA ParseKeeps ==
  ASSUME KInv, ParseKeyslots
  PROVE  KInv'
<1> USE DEF KInv
<1>1. /\ UNCHANGED <<keyslots, slot, key, digests, slots, wanted>> /\ pc = "keyslots"
  BY DEF ParseKeyslots, Goto, Reject, Fail, input
<1>2. \/ Wrong = {} /\ pc' = "digests" /\ UNCHANGED error
      \/ \E k \in Wrong : pc' = "rejected" /\ error' = SlotError(k)
  BY DEF ParseKeyslots, Goto, Reject, Fail
<1>3. TypeOK'
  <2>1. error' \in Errors \cup {error}
    BY <1>2, ErrorTypes DEF Wrong, TypeOK
  <2>2. pc' \in {"digests", "rejected"}
    BY <1>2
  <2> QED BY <1>1, <2>1, <2>2 DEF TypeOK, Errors
<1>4. Bound'
  BY <1>1 DEF Bound, Binds
<1>5. Numbers'
  <2>1. ASSUME pc' # "rejected" PROVE \A k \in keyslots' : SlotError(k)' = "none"
    BY <1>1, <1>2, <2>1 DEF Wrong, SlotError
  <2>2. \A d \in DOMAIN digests' : KeyError(key'[d]) = "none"
    BY <1>1 DEF Numbers
  <2> QED BY <2>1, <2>2 DEF Numbers
<1>6. Chosen' /\ NoLateRefusal'
  BY <1>2 DEF Chosen, NoLateRefusal
<1>7. WellBoundIsAccepted'
  <2>1. SUFFICES ASSUME pc' = "rejected"
                 PROVE  \E k \in keyslots' : SlotError(k)' # "none"
    BY DEF WellBoundIsAccepted
  <2> QED BY <1>1, <1>2, <2>1 DEF Wrong, SlotError
<1> QED BY <1>3, <1>4, <1>5, <1>6, <1>7

(* What reading one more digest does to the digests. *)
LEMMA OneMoreDigest ==
  ASSUME TypeOK, NEW d \in Digest, Len(digests) < MaxDigests, digests' = Append(digests, d)
  PROVE  /\ digests' \in Seq(Digest) /\ Len(digests') <= MaxDigests
         /\ DOMAIN digests = 1..Len(digests) /\ Len(digests) \in Nat
         /\ DOMAIN digests' = DOMAIN digests \cup {Len(digests) + 1}
         /\ Len(digests) + 1 \notin DOMAIN digests
         /\ digests'[Len(digests) + 1] = d
         /\ \A e \in DOMAIN digests : digests'[e] = digests[e]
         /\ Len(digests) + 1 \in 1..MaxDigests
<1>1. digests \in Seq(Digest) /\ Len(digests) \in Nat
  BY DEF TypeOK
<1>2. digests' \in Seq(Digest) /\ Len(digests') = Len(digests) + 1
  BY <1>1
<1>3. DOMAIN digests = 1..Len(digests) /\ DOMAIN digests' = 1..(Len(digests) + 1)
  BY <1>1, <1>2
<1>4. DOMAIN digests' = DOMAIN digests \cup {Len(digests) + 1} /\ Len(digests) + 1 \notin DOMAIN digests
  BY <1>1, <1>3
<1>5. digests'[Len(digests) + 1] = d /\ \A e \in DOMAIN digests : digests'[e] = digests[e]
  BY <1>1, <1>3
<1> QED BY <1>1, <1>2, <1>3, <1>4, <1>5, KeyslotsAssumption

LEMMA BindKeeps ==
  ASSUME KInv, NEW d \in Digest, BindDigest(d)
  PROVE  KInv'
<1> USE DEF KInv
<1>0. PICK n \in Nat : n = Len(digests) + 1
  BY DEF TypeOK
<1> DEFINE new == Range(d.keyslots)
<1>1. /\ UNCHANGED <<keyslots, slot, key, pc, wanted, error>> /\ pc = "digests"
      /\ Len(digests) < MaxDigests /\ digests' = Append(digests, d)
      /\ KeyError(key[n]) = "none" /\ new \subseteq keyslots
      /\ d.segments # <<>> => new \cap DOMAIN slots = {}
  BY <1>0 DEF BindDigest, Listed, input, ThisError
<1>2. /\ digests' \in Seq(Digest) /\ Len(digests') <= MaxDigests
      /\ DOMAIN digests' = DOMAIN digests \cup {n} /\ n \notin DOMAIN digests
      /\ digests'[n] = d /\ \A e \in DOMAIN digests : digests'[e] = digests[e]
  BY <1>0, <1>1, OneMoreDigest
<1>3. keyslots \subseteq Ids /\ DOMAIN slots \subseteq keyslots /\ Range(slots) \subseteq DOMAIN digests
  BY DEF TypeOK
<1>4. /\ DOMAIN slots = {k \in Ids : \E e \in DOMAIN digests : Binds(e, k)}
      /\ \A k \in DOMAIN slots, e \in DOMAIN digests : Binds(e, k) => slots[k] = e
  BY <1>1 DEF Bound
<1>5. \A k : Binds(n, k)' <=> d.segments # <<>> /\ k \in new
  BY <1>2 DEF Binds
<1>6. \A k, e : e \in DOMAIN digests => (Binds(e, k)' <=> Binds(e, k))
  BY <1>2 DEF Binds
<1> HIDE DEF new
<1>7. /\ DOMAIN slots' = {k \in Ids : \E e \in DOMAIN digests' : Binds(e, k)'}
      /\ \A k \in DOMAIN slots', e \in DOMAIN digests' : Binds(e, k)' => slots'[k] = e
      /\ DOMAIN slots' \subseteq keyslots /\ Range(slots') \subseteq DOMAIN digests'
  <2>1. CASE d.segments = <<>>
    <3>1. slots' = slots
      BY <2>1 DEF BindDigest
    <3>2. \A k : ~Binds(n, k)'
      BY <1>5, <2>1
    <3> QED BY <1>2, <1>3, <1>4, <1>6, <3>1, <3>2
  <2>2. CASE d.segments # <<>>
    <3>1. slots' = [k \in DOMAIN slots \cup new |-> IF k \in new THEN n ELSE slots[k]]
      <4>1. Len(digests') = n
        BY <1>0, <1>1 DEF TypeOK
      <4> QED BY <2>2, <4>1 DEF BindDigest, new
    <3>2. DOMAIN slots' = DOMAIN slots \cup new
      BY <3>1
    <3>3. \A k : Binds(n, k)' <=> k \in new
      BY <1>5, <2>2
    <3>4. DOMAIN slots' = {k \in Ids : \E e \in DOMAIN digests' : Binds(e, k)'}
      BY <1>1, <1>2, <1>3, <1>4, <1>6, <3>2, <3>3
    <3>5. ASSUME NEW k \in DOMAIN slots', NEW e \in DOMAIN digests', Binds(e, k)'
          PROVE  slots'[k] = e
      <4>1. CASE e = n
        BY <3>1, <3>3, <3>5, <4>1
      <4>2. CASE e # n
        <5>1. e \in DOMAIN digests /\ Binds(e, k) /\ k \in Ids
          BY <1>1, <1>2, <1>3, <1>6, <3>2, <3>5, <4>2
        <5>2. k \in DOMAIN slots /\ k \notin new
          BY <1>1, <1>4, <2>2, <5>1
        <5> QED BY <1>4, <3>1, <5>1, <5>2
      <4> QED BY <4>1, <4>2
    <3>6. Range(slots') \subseteq DOMAIN digests'
      <4>1. \A k \in DOMAIN slots : slots[k] \in DOMAIN digests
        BY <1>3 DEF Range
      <4>2. \A k \in DOMAIN slots' : slots'[k] \in DOMAIN digests'
        BY <1>2, <3>1, <3>2, <4>1
      <4> QED BY <4>2 DEF Range
    <3> QED BY <1>1, <1>3, <3>2, <3>4, <3>5, <3>6
  <2> QED BY <2>1, <2>2
<1>8. TypeOK'
  BY <1>1, <1>2, <1>7 DEF TypeOK
<1>9. Bound'
  BY <1>7 DEF Bound
<1>10. Numbers'
  <2>1. \A k \in keyslots' : SlotError(k)' = "none"
    BY <1>1 DEF Numbers, SlotError
  <2>2. \A e \in DOMAIN digests' : KeyError(key'[e]) = "none"
    BY <1>1, <1>2 DEF Numbers
  <2> QED BY <2>1, <2>2 DEF Numbers
<1>11. Chosen' /\ WellBoundIsAccepted' /\ NoLateRefusal'
  BY <1>1 DEF Chosen, WellBoundIsAccepted, NoLateRefusal
<1> QED BY <1>8, <1>9, <1>10, <1>11

(* A digest is rejected for its numbers, for what it lists, or because a   *)
(* keyslot it lists has a digest already: then two digests bind that.      *)
LEMMA RejectKeeps ==
  ASSUME KInv, NEW d \in Digest, RejectDigest(d)
  PROVE  KInv'
<1> USE DEF KInv
<1>0. PICK n \in Nat : n = Len(digests) + 1
  BY DEF TypeOK
<1>1. /\ UNCHANGED <<keyslots, slot, key, slots, wanted>> /\ pc = "digests" /\ pc' = "rejected"
      /\ Len(digests) < MaxDigests /\ digests' = Append(digests, d)
  BY DEF RejectDigest, Reject, Fail, Goto, input
<1>2. /\ digests' \in Seq(Digest) /\ Len(digests') <= MaxDigests
      /\ DOMAIN digests' = DOMAIN digests \cup {n} /\ n \notin DOMAIN digests
      /\ DOMAIN digests = 1..Len(digests) /\ Len(digests) \in Nat
      /\ digests'[n] = d /\ \A e \in DOMAIN digests : digests'[e] = digests[e]
      /\ n \in 1..MaxDigests
  BY <1>0, <1>1, OneMoreDigest
<1>3. \/ KeyError(key[n]) # "none" /\ error' = KeyError(key[n])
      \/ ~Listed(d) /\ error' = "MetadataInvalid"
  BY <1>0 DEF RejectDigest, Reject, Fail, ThisError
<1>4. TypeOK'
  <2>1. key[n] \in Key
    BY <1>2 DEF TypeOK
  <2>2. error' \in Errors
    BY <1>3, <2>1, ErrorTypes DEF Errors
  <2> QED BY <1>1, <1>2, <2>2 DEF TypeOK, Errors
<1>5. Bound' /\ Numbers' /\ Chosen' /\ NoLateRefusal'
  BY <1>1 DEF Bound, Numbers, Chosen, NoLateRefusal
<1>6. WellBoundIsAccepted'
  <2>1. CASE KeyError(key[n]) # "none"
    BY <1>1, <1>2, <2>1 DEF WellBoundIsAccepted
  <2>2. CASE ~Listed(d)
    <3> SUFFICES ASSUME WellBound' PROVE FALSE
      BY DEF WellBoundIsAccepted
    <3>1. /\ IdsOK(d.segments) /\ Range(d.segments) \subseteq {Segment}
          /\ IdsOK(d.keyslots) /\ Range(d.keyslots) \subseteq keyslots
      BY <1>1, <1>2 DEF WellBound
    <3>2. PICK k \in Range(d.keyslots) \cap DOMAIN slots : d.segments # <<>>
      BY <2>2, <3>1 DEF Listed
    <3>3. PICK e \in DOMAIN digests : Binds(e, k)
      BY <1>1 DEF Bound
    <3>4. Binds(e, k)' /\ Binds(n, k)' /\ e # n /\ k \in Ids
      BY <1>2, <3>2, <3>3 DEF Binds, TypeOK
    <3> DEFINE S == {x \in DOMAIN digests' : Binds(x, k)'}
    <3>5. S \in SUBSET (1..n) /\ e \in S /\ n \in S /\ n \in Nat
      BY <1>0, <1>2, <3>3, <3>4
    <3>6. ~(Cardinality(S) <= 1)
      BY <3>4, <3>5, TwoAreMany
    <3>7. Cardinality(S) <= 1
      BY <3>4 DEF WellBound
    <3> QED BY <3>6, <3>7
  <2> QED BY <1>3, <2>1, <2>2
<1> QED BY <1>4, <1>5, <1>6

LEMMA FindKeeps ==
  ASSUME KInv, NEW k \in Ids, FindSlot(k)
  PROVE  KInv'
<1> USE DEF KInv
<1>1. /\ UNCHANGED <<keyslots, slot, key, digests, slots>> /\ pc = "digests" /\ wanted' = k
      /\ \/ k \in DOMAIN slots /\ pc' = "kdf" /\ error' = error
         \/ k \notin DOMAIN slots /\ pc' = "refused" /\ error' = "UnsupportedProfile"
  BY DEF FindSlot, input
<1>2. TypeOK'
  BY <1>1 DEF TypeOK
<1>3. Bound'
  BY <1>1 DEF Bound, Binds
<1>4. Numbers'
  BY <1>1 DEF Numbers, SlotError
<1>5. Chosen' /\ WellBoundIsAccepted' /\ NoLateRefusal'
  BY <1>1 DEF Chosen, WellBoundIsAccepted, NoLateRefusal
<1> QED BY <1>2, <1>3, <1>4, <1>5

LEMMA StutterK == KInv /\ UNCHANGED vars => KInv'
<1> SUFFICES ASSUME KInv, UNCHANGED vars PROVE KInv'
  OBVIOUS
<1>1. UNCHANGED <<keyslots, slot, key, digests, pc, slots, wanted, error>>
  BY DEF vars, input
<1>2. TypeOK' /\ Bound' /\ Numbers' /\ Chosen' /\ NoLateRefusal'
  BY <1>1 DEF KInv, TypeOK, Bound, Binds, Numbers, SlotError, Chosen, NoLateRefusal
<1>3. WellBoundIsAccepted'
  BY <1>1 DEF KInv, WellBoundIsAccepted, WellBound, Binds, SlotError
<1> QED BY <1>2, <1>3 DEF KInv

----------------------------------------------------------------------------
(* The inductive invariant of from_json and unlock. *)
THEOREM KeyslotsInvariant == Spec => []KInv
<1>1. Init => KInv
  BY InitK
<1>2. KInv /\ [Next]_vars => KInv'
  <2> SUFFICES ASSUME KInv, [Next]_vars PROVE KInv'
    OBVIOUS
  <2>1. CASE ParseKeyslots
    BY <2>1, ParseKeeps
  <2>2. ASSUME NEW d \in Digest, BindDigest(d) PROVE KInv'
    BY <2>2, BindKeeps
  <2>3. ASSUME NEW d \in Digest, RejectDigest(d) PROVE KInv'
    BY <2>3, RejectKeeps
  <2>4. ASSUME NEW k \in Ids, FindSlot(k) PROVE KInv'
    BY <2>4, FindKeeps
  <2>5. CASE Unlocking
    BY <2>5, UnlockKeeps
  <2>6. CASE UNCHANGED vars
    BY <2>6, StutterK
  <2> QED BY <2>1, <2>2, <2>3, <2>4, <2>5, <2>6 DEF Next, Unlocking
<1> QED BY <1>1, <1>2, PTL DEF Spec

(* The plan of from_json names a digest that was read for every keyslot it *)
(* offers, and errors are the ones the code has.                           *)
THEOREM KeyslotTypes == Spec => []TypeOK
BY KeyslotsInvariant, PTL DEF KInv

(* from_json offers what a digest binds to the segment; the digest that    *)
(* unlock verifies a key by is the only one that lists its keyslot.        *)
THEOREM PlanIsUnambiguous == Spec => []OneDigestEach
<1>1. KInv => OneDigestEach
  BY DEF KInv, Bound, OneDigestEach, Planned
<1> QED BY <1>1, KeyslotsInvariant, PTL

(* from_json rejects numbers and bindings that are wrong, and no others.   *)
THEOREM BindingsAccepted == Spec => []WellBoundIsAccepted
BY KeyslotsInvariant, PTL DEF KInv

(* No limit of unlock is stricter than from_json: what it offers opens, or *)
(* fails by the password, the image, time or memory.                       *)
THEOREM LimitsAgree == Spec => []NoLateRefusal
BY KeyslotsInvariant, PTL DEF KInv
=============================================================================
