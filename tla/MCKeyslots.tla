----------------------------- MODULE MCKeyslots -----------------------------
EXTENDS Keyslots

(* Bound: one keyslot or one digest has numbers other than the plain ones. *)
PlainSlot == [key_size |-> 64, area_key_size |-> 64,
              kdf |-> [type |-> "pbkdf2", iterations |-> 1, salt |-> 32]]
PlainKey  == [hash |-> "sha256", size |-> 32, iterations |-> 1, salt |-> 32]
Slots == [k \in Ids |-> PlainSlot]
Keys  == [d \in 1..MaxDigests |-> PlainKey]

MCInit == /\ keyslots \in SUBSET Ids /\ digests = <<>>
          /\ \/ slot = Slots /\ key = Keys
             \/ \E k \in keyslots, n \in Slot : slot = [Slots EXCEPT ![k] = n] /\ key = Keys
             \/ \E d \in 1..MaxDigests, n \in Key : slot = Slots /\ key = [Keys EXCEPT ![d] = n]
          /\ pc = "keyslots" /\ slots = <<>> /\ wanted = Segment /\ error = "none"
MCSpec == MCInit /\ [][Next]_vars
=============================================================================
