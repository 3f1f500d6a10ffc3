------------------------------ MODULE Keyslots ------------------------------
(***************************************************************************)
(* From the keyslots and digests of the metadata to the volume key: the    *)
(* second half of Metadata::from_json with ids() and parse_kdf()           *)
(* (src/metadata.rs), and UnlockedVolume::unlock with Kdf::derive,         *)
(* decrypt_sectors, af_merge and VolumeKey::new (src/crypto.rs).           *)
(*                                                                         *)
(* Two things are said twice in this code: the limits, once when the       *)
(* metadata is accepted and once where a number is used; and which digest  *)
(* a keyslot has, once per digest and once in the plan.  Where the areas   *)
(* lie is Layout's.  OpenSSL's own failures are left out.                  *)
(***************************************************************************)
EXTENDS Integers, Sequences, FiniteSets, Functions

CONSTANTS
  Ids,         \* numbers that name keyslots and segments
  MaxListed,   \* bound: how many a digest lists
  MaxDigests,  \* bound: digests in an input
  KeySizes, Memories, Times, Cpus, Iterations, Salts, DigestSizes  \* numbers it holds

ASSUME KeyslotsAssumption ==
  /\ 0 \in Ids /\ MaxDigests \in Nat
  /\ UNION {KeySizes, Memories, Times, Cpus, Iterations, DigestSizes} \subseteq Nat

VARIABLES
  keyslots,    \* the keyslots of the input
  digests,     \* its digests that are read: what each lists
  slot, key,   \* the numbers of each keyslot, and of each digest
  pc,
  slots,       \* Metadata.slots: the digest of each keyslot offered
  wanted,      \* --keyslot
  error

input == <<keyslots, slot, key>>
vars  == <<input, digests, pc, slots, wanted, error>>

Segment == 0                   \* the id of the only segment
HashSize == [sha256 |-> 32, sha512 |-> 64]

Lists   == UNION {[1..n -> Ids] : n \in 0..MaxListed}
Digest  == [segments : Lists, keyslots : Lists]
Kdf     == [type : {"pbkdf2"}, iterations : Iterations, salt : Salts]
             \cup [type : {"argon2"}, memory : Memories, time : Times, cpus : Cpus, salt : Salts]
Slot    == [key_size : KeySizes, area_key_size : KeySizes, kdf : Kdf]
Key     == [hash : DOMAIN HashSize, size : DigestSizes, iterations : Iterations, salt : Salts]

TypeOK ==
  /\ keyslots \subseteq Ids /\ digests \in Seq(Digest) /\ Len(digests) <= MaxDigests
  /\ slot \in [Ids -> Slot] /\ key \in [1..MaxDigests -> Key]
  /\ pc \in {"keyslots", "digests", "kdf", "area", "merge", "verify", "key", "open",
            "rejected", "refused"}
  /\ DOMAIN slots \subseteq keyslots /\ Range(slots) \subseteq DOMAIN digests
  /\ wanted \in Ids
  /\ error \in {"none", "MetadataInvalid", "UnsupportedProfile", "ResourceLimit", "Crypto",
                "InvalidRange", "BackendIo", "UnlockFailed", "NoMemory", "TooSlow"}

Init ==
  /\ keyslots \in SUBSET Ids /\ digests = <<>>
  /\ slot \in [Ids -> Slot] /\ key \in [1..MaxDigests -> Key]
  /\ pc = "keyslots" /\ slots = <<>> /\ wanted = Segment /\ error = "none"

Goto(from, to) == pc = from /\ pc' = to
Fail(from, to, e) == Goto(from, to) /\ error' = e /\ UNCHANGED <<input, slots, wanted>>
Reject(from, e) == Fail(from, "rejected", e)                         \* by from_json
Refuse(from, e) == Fail(from, "refused", e) /\ UNCHANGED digests    \* by unlock

----------------------------------------------------------------------------
(* from_json.                                                             *)

Bounded(n, max) == n # 0 /\ n <= max
SmallId(n) == n <= 31

\* MUTANT the memory of a lane is not looked at
KdfError_AnyMemory(k) ==
  IF k.salt # 32 THEN "MetadataInvalid"
  ELSE IF k.type = "pbkdf2" THEN IF Bounded(k.iterations, 10000000) THEN "none" ELSE "ResourceLimit"
  ELSE IF Bounded(k.memory, 1048576) /\ Bounded(k.time, 10) /\ Bounded(k.cpus, 8) THEN "none"
  ELSE "ResourceLimit"
(* parse_kdf. *)
KdfError(k) ==
  IF k.salt # 32 THEN "MetadataInvalid"
  ELSE IF k.type = "pbkdf2" THEN IF Bounded(k.iterations, 10000000) THEN "none" ELSE "ResourceLimit"
  ELSE IF ~(Bounded(k.memory, 1048576) /\ Bounded(k.time, 10) /\ Bounded(k.cpus, 8)) THEN "ResourceLimit"
  ELSE IF k.memory < 8 * k.cpus THEN "MetadataInvalid" ELSE "none"

SlotError(k) ==
  IF ~SmallId(k) THEN "MetadataInvalid"
  ELSE IF ~({slot[k].key_size, slot[k].area_key_size} \subseteq {32, 64}) THEN "UnsupportedProfile"
  ELSE KdfError(slot[k].kdf)

(* The loop over the keyslots, in whatever order; the first wrong one ends it. *)
Wrong == {k \in keyslots : SlotError(k) # "none"}
ParseKeyslots ==
  /\ UNCHANGED digests
  /\ \/ Wrong = {} /\ Goto("keyslots", "digests") /\ UNCHANGED <<input, slots, wanted, error>>
     \/ \E k \in Wrong : Reject("keyslots", SlotError(k))

(* The numbers of a digest. *)
KeyError(k) ==
  IF k.salt # 32 \/ k.size \notin {20, HashSize[k.hash]} THEN "MetadataInvalid"
  ELSE IF ~Bounded(k.iterations, 10000000) THEN "ResourceLimit" ELSE "none"
ThisError == KeyError(key[Len(digests) + 1])

(* ids: small numbers, each once. *)
IdsOK(list) == IsInjective(list) /\ \A n \in Range(list) : SmallId(n)

\* MUTANT a keyslot goes to the last digest that lists it
Listed_LastWins(d) ==
  /\ IdsOK(d.segments) /\ Range(d.segments) \subseteq {Segment}
  /\ IdsOK(d.keyslots) /\ Range(d.keyslots) \subseteq keyslots
\* MUTANT a keyslot bound to nothing counts as bound
Listed_CountsUnbound(d) ==
  /\ IdsOK(d.segments) /\ Range(d.segments) \subseteq {Segment}
  /\ IdsOK(d.keyslots) /\ Range(d.keyslots) \subseteq keyslots
  /\ \A e \in DOMAIN digests : Range(d.keyslots) \cap Range(digests[e].keyslots) = {}
\* MUTANT a digest may list a keyslot that is not there
Listed_AnyKeyslot(d) ==
  /\ IdsOK(d.segments) /\ Range(d.segments) \subseteq {Segment}
  /\ IdsOK(d.keyslots)
  /\ d.segments # <<>> => Range(d.keyslots) \cap DOMAIN slots = {}
(* What a digest lists is there, and no keyslot has a digest already. *)
Listed(d) ==
  /\ IdsOK(d.segments) /\ Range(d.segments) \subseteq {Segment}
  /\ IdsOK(d.keyslots) /\ Range(d.keyslots) \subseteq keyslots
  /\ d.segments # <<>> => Range(d.keyslots) \cap DOMAIN slots = {}

(* A digest without a segment binds nothing. *)
BindDigest(d) ==
  /\ pc = "digests" /\ Len(digests) < MaxDigests
  /\ ThisError = "none" /\ Listed(d)
  /\ digests' = Append(digests, d)
  /\ slots' = IF d.segments = <<>> THEN slots
              ELSE [k \in DOMAIN slots \cup Range(d.keyslots) |->
                      IF k \in Range(d.keyslots) THEN Len(digests') ELSE slots[k]]
  /\ UNCHANGED <<input, pc, wanted, error>>

RejectDigest(d) ==
  /\ Len(digests) < MaxDigests
  /\ \/ ThisError # "none" /\ Reject("digests", ThisError)
     \/ ThisError = "none" /\ ~Listed(d) /\ Reject("digests", "MetadataInvalid")
  /\ digests' = Append(digests, d)

----------------------------------------------------------------------------
(* unlock.                                                                *)

Go(from, to) == Goto(from, to) /\ UNCHANGED <<input, digests, slots, wanted, error>>

(* All digests are read; some keyslot is wanted. *)
FindSlot(k) ==
  /\ pc = "digests" /\ wanted' = k
  /\ IF k \in DOMAIN slots THEN pc' = "kdf" /\ UNCHANGED error
                           ELSE pc' = "refused" /\ error' = "UnsupportedProfile"
  /\ UNCHANGED <<input, digests, slots>>

(* External: what the Argon2 library accepts. *)
Argon2Params(k, size) == k.memory >= 8 * k.cpus /\ k.time >= 1 /\ k.cpus >= 1 /\ size >= 4

(* derive(k, size): its limits, then those of the Argon2 library, then the *)
(* time and the memory it may take ("TooSlow" and "NoMemory" are           *)
(* ResourceLimit, too).                                                    *)
DeriveError(k, size) ==
  IF size = 0 \/ size > 64 THEN "ResourceLimit"
  ELSE IF k.type = "pbkdf2" THEN IF k.iterations = 0 \/ k.iterations > 10000000 THEN "ResourceLimit" ELSE "none"
  ELSE IF k.memory > 1048576 \/ k.time > 10 \/ k.cpus > 8 THEN "ResourceLimit"
  ELSE IF ~Argon2Params(k, size) THEN "MetadataInvalid" ELSE "none"

Derive(k, size, from, to) ==
  /\ pc = from
  /\ IF DeriveError(k, size) # "none" THEN Refuse(from, DeriveError(k, size))
     ELSE \/ Go(from, to)
          \/ Refuse(from, "TooSlow")
          \/ k.type = "argon2" /\ Refuse(from, "NoMemory")

DeriveAreaKey == Derive(slot[wanted].kdf, slot[wanted].area_key_size, "kdf", "area")

XtsKey(size) == size \in {32, 64}

(* The key material is read, and decrypted in one transfer. *)
DecryptArea ==
  LET bytes == slot[wanted].key_size * 4000 IN
  IF ~XtsKey(slot[wanted].area_key_size) THEN Refuse("area", "UnsupportedProfile")
  ELSE IF bytes % 512 # 0 \/ bytes > 1048576 THEN Refuse("area", "InvalidRange")
  ELSE Go("area", "merge") \/ Refuse("area", "BackendIo")

Merge == IF XtsKey(slot[wanted].key_size) THEN Go("merge", "verify")
         ELSE Refuse("merge", "MetadataInvalid")

(* The digest of the keyslot that is wanted; its derivation, and ct_eq. *)
Verify == \/ LET k == key[slots[wanted]] IN
             Derive([type |-> "pbkdf2", iterations |-> k.iterations], k.size, "verify", "key")
          \/ Refuse("verify", "UnlockFailed")

TakeKey == IF XtsKey(slot[wanted].key_size) THEN Go("key", "open") \/ Refuse("key", "NoMemory")
           ELSE Refuse("key", "Crypto")

Next == \/ ParseKeyslots
        \/ \E d \in Digest : BindDigest(d) \/ RejectDigest(d)
        \/ \E k \in Ids : FindSlot(k)
        \/ DeriveAreaKey \/ DecryptArea \/ Merge \/ Verify \/ TakeKey

Spec == Init /\ [][Next]_vars

----------------------------------------------------------------------------
Planned == pc \in {"kdf", "area", "merge", "verify", "key", "open", "refused"}
Binds(d, k) == digests[d].segments # <<>> /\ k \in Range(digests[d].keyslots)

(* The keyslots offered are those that a digest binds to the segment, each *)
(* has one such digest, and that is the one its key will be verified by,   *)
(* whatever the digests list and in whatever order they come.              *)
OneDigestEach ==
  Planned => /\ DOMAIN slots = {k \in Ids : \E d \in DOMAIN digests : Binds(d, k)}
             /\ \A k \in DOMAIN slots, d \in DOMAIN digests : Binds(d, k) => slots[k] = d

(* The reference: what the digests may list. *)
WellBound ==
  /\ \A d \in DOMAIN digests : /\ IdsOK(digests[d].segments) /\ IdsOK(digests[d].keyslots)
                               /\ Range(digests[d].segments) \subseteq {Segment}
                               /\ Range(digests[d].keyslots) \subseteq keyslots
  /\ \A k \in Ids : Cardinality({d \in DOMAIN digests : Binds(d, k)}) <= 1

(* Metadata whose numbers are in order is rejected only for its bindings;  *)
(* a keyslot that some digest lists without a segment is no reason.        *)
WellBoundIsAccepted ==
  pc = "rejected" => \/ ~WellBound
                     \/ \E k \in keyslots : SlotError(k) # "none"
                     \/ \E d \in DOMAIN digests : KeyError(key[d]) # "none"

(* What from_json has accepted, unlock does not refuse for its numbers:    *)
(* an offered keyslot fails to open only by the password, the image, or    *)
(* the memory and time it costs, never after them by a limit.              *)
NoLateRefusal ==
  pc = "refused" => \/ error \in {"TooSlow", "NoMemory", "BackendIo", "UnlockFailed"}
                    \/ error = "UnsupportedProfile" /\ wanted \notin DOMAIN slots
=============================================================================
