---------------------------- MODULE LayoutProofs ----------------------------
(***************************************************************************)
(* Proofs about Layout: whatever numbers the metadata and the requests     *)
(* carry, accesses stay inside the data segment, away from headers and     *)
(* keyslots, and no u64 of the code wraps.                                 *)
(***************************************************************************)
EXTENDS Layout, TLAPS

(* What rounding down to a sector gives. *)
LEMMA FloorFacts ==
  ASSUME NEW x \in Nat
  PROVE  /\ x \div 512 \in Nat
         /\ Floor(x) \in Nat /\ Floor(x) = (x \div 512) * 512
         /\ Floor(x) <= x /\ x < Floor(x) + 512
         /\ Aligned(Floor(x), 512)
  BY DEF Floor, Aligned

(* A multiple of the sector size is its own floor. *)
LEMMA AlignedFloor ==
  ASSUME NEW x \in Nat, Aligned(x, 512)
  PROVE  Floor(x) = x
  BY DEF Floor, Aligned

(* Rounding up stays below any aligned bound. *)
LEMMA CeilingBelow ==
  ASSUME NEW x \in Nat, NEW top \in Nat, x <= top, Aligned(top, 512)
  PROVE  /\ x <= Floor(x + 511) /\ Floor(x + 511) <= top
  BY DEF Floor, Aligned

(* A range write_at or read_at admitted, as arithmetic. *)
LEMMA CheckedFacts ==
  ASSUME TypeOK, NEW from \in Nat, NEW size \in Nat, CheckedRange(from, size)
  PROVE  from + size <= length /\ size <= MAX_TRANSFER
  BY DEF CheckedRange, TypeOK, U64, MAX_TRANSFER

(* A block count and address, as bytes. *)
LEMMA BlockFacts ==
  ASSUME NEW lba \in Lbas, NEW count \in Counts
  PROVE  /\ lba * 512 \in Nat /\ Aligned(lba * 512, 512)
         /\ count * 512 \in Nat /\ Aligned(count * 512, 512)
  BY LayoutAssumption DEF Aligned, U64

(* There are words. *)
LEMMA ZeroFits ==
  ASSUME imageLen \in U64
  PROVE  0 \in U64
<1>1. Word \in Nat
  BY LayoutAssumption
<1>2. imageLen >= 0 /\ imageLen <= Word - 1 /\ imageLen \in Int
  BY DEF U64
<1> QED
  BY <1>1, <1>2 DEF U64

----------------------------------------------------------------------------
(* Parsing.                                                               *)

LEMMA SegmentStep ==
  ASSUME LInv, NEW hdr \in HdrSizes, NEW areas \in Numbers, NEW off \in Numbers,
         NEW size \in Numbers, NEW dynamic \in BOOLEAN,
         Segment(hdr, areas, off, dynamic, size)
  PROVE  LInv'
<1> DEFINE len == IF dynamic THEN imageLen - off ELSE size
<1>1. /\ hdr \in U64 /\ hdr >= 512 /\ areas \in U64 /\ off \in U64 /\ size \in U64
      /\ imageLen \in U64 /\ Word \in Nat
  BY SMT, LayoutAssumption DEF LInv, TypeOK, HeaderSizes
<1>2. /\ stage = "segment" /\ stage' = "keyslots" /\ imageLen' = imageLen
      /\ hdrSize' = hdr /\ areaEnd' = 2 * hdr + areas /\ offset' = off /\ length' = len
      /\ keys' = keys /\ access' = access
      /\ 2 * hdr + areas <= off /\ off <= imageLen /\ Aligned(off, 512)
      /\ len <= imageLen - off /\ Aligned(len, 512)
  BY DEF Segment, SegmentFits, LengthFits
<1>3. len \in U64
  BY <1>1, <1>2 DEF U64
<1>4. keys = {} /\ access = NoAccess
  BY <1>2 DEF LInv, Ordered
<1>5. TypeOK'
  BY <1>1, <1>2, <1>3 DEF LInv, TypeOK, U64
<1>6. Ordered'
  BY <1>1, <1>2, <1>3 DEF Ordered, U64, Aligned
<1>7. /\ KeysRoomy' /\ PayloadOnly' /\ NeverOutside' /\ KeysApart' /\ SectorsMatch'
      /\ NothingRefused'
  BY <1>2, <1>4 DEF KeysRoomy, PayloadOnly, NeverOutside, KeysApart, SectorsMatch,
                    NothingRefused, NoAccess
<1> QED
  BY <1>5, <1>6, <1>7 DEF LInv

LEMMA KeyslotStep ==
  ASSUME LInv, NEW start \in Numbers, NEW size \in Numbers, NEW keySize \in KeySizes,
         Keyslot(start, size, keySize)
  PROVE  LInv'
<1> DEFINE area == [start |-> start, end |-> start + size, keySize |-> keySize]
<1>1. /\ start \in U64 /\ size \in U64 /\ keySize \in {32, 64} /\ Word \in Nat
  BY LayoutAssumption DEF KeySizes
<1>2. /\ stage = "keyslots" /\ stage' = stage
      /\ size >= keySize * 4000 /\ start >= 2 * hdrSize
      /\ start + size < Word /\ start + size <= areaEnd
      /\ \A k \in keys : ~Overlaps(k, area)
      /\ keys' = keys \cup {area} /\ access' = access
      /\ imageLen' = imageLen /\ hdrSize' = hdrSize /\ areaEnd' = areaEnd
      /\ offset' = offset /\ length' = length
  BY DEF Keyslot, AddFits, ApartFromAll, layoutVars
<1>3. /\ area.start = start /\ area.end = start + size /\ area.keySize = keySize
      /\ area \in Area /\ start < start + size
  BY <1>1, <1>2 DEF Area, U64, KeySizes
<1>4. TypeOK'
  BY <1>2, <1>3 DEF LInv, TypeOK
<1>5. Ordered'
  BY <1>2 DEF LInv, Ordered
<1>6. KeysRoomy'
  BY <1>1, <1>2, <1>3 DEF LInv, KeysRoomy, U64
<1>7. PayloadOnly'
  <2> SUFFICES ASSUME access.kind \in {"read", "write"}
               PROVE  access.at >= area.end
    BY <1>2 DEF LInv, PayloadOnly
  <2> QED
    BY <1>1, <1>2, <1>3 DEF LInv, PayloadOnly, TypeOK, Ordered, U64
<1>8. KeysApart'
  <2>1. \A k \in keys' : k.start >= 2 * hdrSize' /\ k.start < k.end /\ k.end <= areaEnd'
    BY <1>2, <1>3 DEF LInv, KeysApart
  <2>2. \A j, k \in keys' : j = k \/ ~Overlaps(j, k)
    <3>1. \A k \in keys : ~Overlaps(area, k)
      BY <1>2 DEF Overlaps
    <3> QED
      BY <1>2, <3>1 DEF LInv, KeysApart
  <2>3. access'.kind = "key" =>
           \E k \in keys' : access'.at = k.start /\ access'.at + access'.len <= k.end
    BY <1>2 DEF LInv, KeysApart
  <2> QED
    BY <2>1, <2>2, <2>3 DEF KeysApart, Overlaps
<1>9. NeverOutside' /\ SectorsMatch'
  BY <1>2 DEF LInv, NeverOutside, SectorsMatch
<1>10. NothingRefused'
  <2>1. access' = access /\ length' = length
    BY <1>2
  <2> QED
    BY <2>1 DEF LInv, NothingRefused, InRange
<1> QED
  BY <1>4, <1>5, <1>6, <1>7, <1>8, <1>9, <1>10 DEF LInv

LEMMA StageStep ==
  ASSUME LInv, Accept \/ RefuseMetadata
  PROVE  LInv'
<1>1. /\ stage' \in {"open", "refused"}
      /\ stage' = "open" => stage = "keyslots"
      /\ keys' = keys /\ access' = access
      /\ imageLen' = imageLen /\ hdrSize' = hdrSize /\ areaEnd' = areaEnd
      /\ offset' = offset /\ length' = length
  BY DEF Accept, RefuseMetadata, layoutVars
<1>2. TypeOK' /\ Ordered' /\ KeysRoomy'
  BY <1>1 DEF LInv, TypeOK, Ordered, KeysRoomy
<1>3. PayloadOnly' /\ NeverOutside' /\ KeysApart'
  BY <1>1 DEF LInv, PayloadOnly, NeverOutside, KeysApart, Overlaps
<1>4. SectorsMatch' /\ NothingRefused'
  BY <1>1 DEF LInv, SectorsMatch, NothingRefused, InRange
<1> QED
  BY <1>2, <1>3, <1>4 DEF LInv

----------------------------------------------------------------------------
(* Requests.  What an access must satisfy to keep the invariant.          *)

Good(a) ==
  /\ a \in [kind : Kinds, from : Nat, size : Nat, at : U64, len : U64, iv : Nat]
  /\ a.kind # "outside"
  /\ a.kind \in {"read", "write"} =>
       /\ a.at >= offset /\ a.at + a.len <= offset + length
       /\ Aligned(a.at - offset, 512) /\ Aligned(a.len, 512)
       /\ a.len <= MAX_TRANSFER
       /\ offset + a.iv * 512 = a.at
       /\ a.at <= offset + a.from
       /\ offset + a.from + a.size <= a.at + a.len
  /\ a.kind = "write" => a.len = a.size
  /\ a.kind = "key" => \E k \in keys : a.at = k.start /\ a.at + a.len <= k.end
  /\ a.kind \in {"no read", "no write"} =>
       ~(/\ a.from + a.size <= length /\ a.size <= MAX_TRANSFER
         /\ Aligned(a.from, 512) /\ Aligned(a.size, 512))

LEMMA AccessStep ==
  ASSUME LInv, Served, Good(access')
  PROVE  LInv'
<1>1. /\ stage = "open" /\ stage' = stage /\ keys' = keys
      /\ imageLen' = imageLen /\ hdrSize' = hdrSize /\ areaEnd' = areaEnd
      /\ offset' = offset /\ length' = length
  BY DEF Served, layoutVars
<1>2. TypeOK'
  BY <1>1 DEF LInv, TypeOK, Good
<1>3. Ordered' /\ KeysRoomy'
  BY <1>1 DEF LInv, Ordered, KeysRoomy
<1>4. PayloadOnly'
  <2> SUFFICES ASSUME access'.kind \in {"read", "write"}
               PROVE  /\ access'.at >= 2 * hdrSize
                      /\ \A k \in keys : access'.at >= k.end
    BY <1>1 DEF Good, PayloadOnly
  <2>1. access'.at >= areaEnd /\ access'.at \in Nat
    <3>1. access'.at >= offset /\ access'.at \in U64
      BY DEF Good
    <3> QED
      BY <3>1, LayoutAssumption DEF LInv, Ordered, TypeOK, U64
  <2>2. access'.at >= 2 * hdrSize
    BY <2>1 DEF LInv, Ordered, TypeOK, U64
  <2>3. ASSUME NEW k \in keys PROVE access'.at >= k.end
    <3>1. k.end <= areaEnd /\ k.end \in Nat /\ areaEnd \in Nat
      BY LayoutAssumption DEF LInv, KeysApart, TypeOK, Area, U64
    <3> QED
      BY <2>1, <3>1
  <2> QED
    BY <2>2, <2>3
<1>5. NeverOutside' /\ KeysApart'
  BY <1>1 DEF Good, LInv, NeverOutside, KeysApart, Overlaps
<1>6. SectorsMatch'
  BY <1>1 DEF Good, SectorsMatch
<1>7. NothingRefused'
  BY <1>1 DEF Good, NothingRefused, InRange
<1> QED
  BY <1>2, <1>3, <1>4, <1>5, <1>6, <1>7 DEF LInv

LEMMA KeyAreaGood ==
  ASSUME LInv, NEW k \in keys, ReadKeyArea(k)
  PROVE  Good(access')
<1>1. /\ k.start \in U64 /\ k.end \in U64 /\ k.keySize \in {32, 64} /\ Word \in Nat
      /\ imageLen \in U64 /\ areaEnd \in U64 /\ offset \in U64 /\ length \in U64
  BY LayoutAssumption DEF LInv, TypeOK, Area, KeySizes
<1>2. k.start + k.keySize * 4000 <= imageLen /\ k.start + k.keySize * 4000 <= k.end
  BY <1>1 DEF LInv, KeysRoomy, KeysApart, Ordered, U64
<1>3. Bounded(k.start, k.keySize * 4000) /\ k.keySize * 4000 \in U64
  BY <1>1, <1>2 DEF Bounded, U64
<1>4. access' = [kind |-> "key", from |-> 0, size |-> 0, at |-> k.start,
                 len |-> k.keySize * 4000, iv |-> 0]
  BY <1>3 DEF ReadKeyArea, Access
<1> QED
  BY <1>1, <1>2, <1>3, <1>4 DEF Good, Kinds

LEMMA RefusedGood ==
  ASSUME LInv, NEW kind \in {"empty", "flush", "no flush", "no read", "no write"},
         NEW from \in Nat, NEW size \in Nat, Refused(kind, from, size),
         kind \in {"no read", "no write"} =>
           ~(/\ from + size <= length /\ size <= MAX_TRANSFER
             /\ Aligned(from, 512) /\ Aligned(size, 512))
  PROVE  Good(access')
<1>1. access' = [kind |-> kind, from |-> from, size |-> size, at |-> 0, len |-> 0, iv |-> 0]
  BY DEF Refused, NoAccess
<1>2. 0 \in U64 /\ 0 \in Nat
  BY ZeroFits DEF LInv, TypeOK
<1>3. kind \notin {"read", "write", "key", "outside"} /\ kind \in Kinds
  BY DEF Kinds
<1>4. /\ access'.kind = kind /\ access'.from = from /\ access'.size = size
      /\ access' \in [kind : Kinds, from : Nat, size : Nat, at : U64, len : U64, iv : Nat]
  BY <1>1, <1>2, <1>3
<1> QED
  BY <1>3, <1>4 DEF Good

LEMMA ReadGood ==
  ASSUME LInv, NEW from \in Nat, NEW size \in Nat, ReadAt(from, size)
  PROVE  Good(access')
<1> DEFINE begin == Floor(from)
           end   == Floor(from + size + 511)
<1>1. /\ imageLen \in U64 /\ offset \in U64 /\ length \in U64 /\ Word \in Nat
      /\ offset + length <= imageLen /\ Aligned(offset, 512) /\ Aligned(length, 512)
      /\ offset >= 512
  <2>1. /\ imageLen \in U64 /\ offset \in U64 /\ length \in U64 /\ Word \in Nat
        /\ hdrSize \in U64 /\ areaEnd \in U64 /\ stage = "open"
    BY LayoutAssumption DEF LInv, TypeOK, ReadAt, Served
  <2>2. hdrSize >= 512 /\ 2 * hdrSize <= areaEnd /\ areaEnd <= offset
    BY <2>1 DEF LInv, Ordered
  <2>3. offset >= 512
    BY <2>1, <2>2 DEF U64
  <2> QED
    BY <2>1, <2>3 DEF LInv, Ordered
<1>2. CASE ReadRefused(from, size)
  <2>1. Refused("no read", from, size)
    BY <1>2 DEF ReadAt
  <2>2. ~(/\ from + size <= length /\ size <= MAX_TRANSFER
          /\ Aligned(from, 512) /\ Aligned(size, 512))
    <3> SUFFICES ASSUME from + size <= length, size <= MAX_TRANSFER,
                        Aligned(from, 512), Aligned(size, 512)
                 PROVE  FALSE
      OBVIOUS
    <3>1. CheckedRange(from, size)
      BY <1>1 DEF CheckedRange, U64
    <3>2. begin = from /\ end = from + size
      BY AlignedFloor DEF Floor, Aligned
    <3>3. AddFits(offset, begin, Word - 1)
      BY <1>1, <3>2 DEF AddFits, U64
    <3>4. end - begin = size
      BY <3>2
    <3>5. AddFits(from + size, 511, Word - 1)
      BY <1>1 DEF AddFits, U64
    <3> QED
      BY <1>2, <3>1, <3>3, <3>4, <3>5 DEF ReadRefused, MAX_TRANSFER, MiB
  <2> QED
    BY <2>1, <2>2, RefusedGood
<1>3. CASE ~ReadRefused(from, size) /\ size = 0
  <2>1. Refused("empty", from, size)
    BY <1>3 DEF ReadAt
  <2> QED
    BY <2>1, RefusedGood
<1>4. CASE ~ReadRefused(from, size) /\ size # 0
  <2>1. from + size <= length
    BY <1>4, CheckedFacts DEF ReadRefused, LInv
  <2>2. /\ begin \in Nat /\ begin <= from /\ begin = (from \div 512) * 512
        /\ from \div 512 \in Nat /\ Aligned(begin, 512)
    BY FloorFacts
  <2>3. end \in Nat /\ from + size <= end /\ end <= length /\ Aligned(end, 512)
    <3> DEFINE up == from + size + 511
    <3>1. from + size \in Nat /\ up \in Nat /\ length \in Nat
      BY <1>1 DEF U64
    <3>2. end \in Nat /\ Aligned(end, 512)
      <4>1. end = Floor(up)
        OBVIOUS
      <4> HIDE DEF up, end
      <4> QED
        BY <3>1, <4>1, FloorFacts
    <3>3. from + size <= end /\ end <= length
      BY <1>1, <2>1, <3>1, CeilingBelow
    <3> QED
      BY <3>2, <3>3
  <2>4. end - begin <= MAX_TRANSFER
    BY <1>4, <2>2, <2>3 DEF ReadRefused, MAX_TRANSFER, MiB
  <2>5. /\ offset + begin \in U64 /\ end - begin \in U64
        /\ offset + begin <= imageLen /\ end - begin <= imageLen - (offset + begin)
    BY <1>1, <2>1, <2>2, <2>3 DEF U64
  <2>6. access' = [kind |-> "read", from |-> from, size |-> size, at |-> offset + begin,
                   len |-> end - begin, iv |-> from \div 512]
    BY <1>3, <1>4, <2>5 DEF ReadAt, MapRead, Access, Bounded
  <2>7. /\ (offset + begin) + (end - begin) <= offset + length
        /\ Aligned((offset + begin) - offset, 512) /\ Aligned(end - begin, 512)
        /\ offset + (from \div 512) * 512 = offset + begin
        /\ offset + begin <= offset + from
        /\ offset + from + size <= (offset + begin) + (end - begin)
        /\ offset + begin >= offset
    BY <1>1, <2>2, <2>3 DEF Aligned, U64
  <2> HIDE DEF begin, end
  <2> QED
    BY <2>2, <2>4, <2>5, <2>6, <2>7 DEF Good, Kinds
<1> QED
  BY <1>2, <1>3, <1>4

LEMMA WriteGood ==
  ASSUME LInv, NEW from \in Nat, NEW size \in Nat, WriteAt(from, size)
  PROVE  Good(access')
<1>1. /\ imageLen \in U64 /\ offset \in U64 /\ length \in U64 /\ Word \in Nat
      /\ offset + length <= imageLen
  BY LayoutAssumption DEF LInv, TypeOK, Ordered
<1>2. CASE WriteRefused(from, size)
  <2>1. Refused("no write", from, size)
    BY <1>2 DEF WriteAt
  <2>2. ~(/\ from + size <= length /\ size <= MAX_TRANSFER
          /\ Aligned(from, 512) /\ Aligned(size, 512))
    BY <1>1, <1>2 DEF WriteRefused, CheckedRange, AddFits, U64, MAX_TRANSFER, MiB
  <2> QED
    BY <2>1, <2>2, RefusedGood
<1>3. CASE ~WriteRefused(from, size) /\ size = 0
  <2>1. Refused("empty", from, size)
    BY <1>3 DEF WriteAt
  <2> QED
    BY <2>1, RefusedGood
<1>4. CASE ~WriteRefused(from, size) /\ size # 0
  <2>1. from + size <= length /\ size <= MAX_TRANSFER
    BY <1>4, CheckedFacts DEF WriteRefused, LInv
  <2>2. Aligned(from, 512) /\ Aligned(size, 512)
    BY <1>4 DEF WriteRefused
  <2>3. from \div 512 \in Nat /\ (from \div 512) * 512 = from
    BY <2>2, FloorFacts, AlignedFloor
  <2>4. /\ offset + from \in U64 /\ size \in U64
        /\ offset + from <= imageLen /\ size <= imageLen - (offset + from)
    BY <1>1, <2>1 DEF U64
  <2>5. access' = [kind |-> "write", from |-> from, size |-> size, at |-> offset + from,
                   len |-> size, iv |-> from \div 512]
    BY <1>4, <2>4 DEF WriteAt, Access, Bounded
  <2>6. /\ (offset + from) - offset = from /\ offset + from >= offset
        /\ (offset + from) + size <= offset + length
        /\ offset + from <= offset + from
        /\ offset + from + size <= (offset + from) + size
    BY <1>1, <2>1 DEF U64
  <2> QED
    BY <2>1, <2>2, <2>3, <2>4, <2>5, <2>6 DEF Good, Kinds
<1> QED
  BY <1>2, <1>3, <1>4

LEMMA FlushGood ==
  ASSUME LInv, NEW lba \in Lbas, NEW count \in Counts, FlushBlocks(lba, count)
  PROVE  Good(access')
<1>1. /\ lba * 512 \in Nat /\ count * 512 \in Nat
  BY BlockFacts
<1>2. \/ Refused("flush", lba * 512, count * 512)
      \/ Refused("no flush", lba * 512, count * 512)
  BY DEF FlushBlocks
<1>3. "flush" \notin {"no read", "no write"} /\ "no flush" \notin {"no read", "no write"}
  OBVIOUS
<1>4. CASE Refused("flush", lba * 512, count * 512)
  BY <1>1, <1>3, <1>4, RefusedGood
<1>5. CASE Refused("no flush", lba * 512, count * 512)
  BY <1>1, <1>3, <1>5, RefusedGood
<1> QED
  BY <1>2, <1>4, <1>5

----------------------------------------------------------------------------
LEMMA InitL == ASSUME Init PROVE LInv
<1>1. /\ stage = "segment" /\ imageLen \in U64 /\ keys = {} /\ access = NoAccess
      /\ hdrSize = 0 /\ areaEnd = 0 /\ offset = 0 /\ length = 0 /\ Word \in Nat
  BY LayoutAssumption DEF Init
<1>2. 0 \in U64 /\ imageLen \in Nat
  BY <1>1 DEF U64
<1>3. TypeOK
  BY <1>1, <1>2 DEF TypeOK, NoAccess, Kinds
<1>4. Ordered
  BY <1>1, <1>2 DEF Ordered, Aligned
<1> QED
  BY <1>1, <1>3, <1>4 DEF LInv, KeysRoomy, PayloadOnly, NeverOutside, KeysApart, SectorsMatch,
                          NothingRefused, NoAccess

LEMMA NextL == ASSUME LInv, [Next]_vars PROVE LInv'
<1>1. CASE Parse
  BY <1>1, SegmentStep, KeyslotStep, StageStep DEF Parse
<1>2. CASE \E k \in keys : ReadKeyArea(k)
  <2>1. PICK k \in keys : ReadKeyArea(k)
    BY <1>2
  <2> QED
    BY <2>1, KeyAreaGood, AccessStep DEF ReadKeyArea
<1>3. CASE \E from \in Offsets, size \in Lengths : ReadAt(from, size) \/ WriteAt(from, size)
  <2>1. PICK from \in Offsets, size \in Lengths : ReadAt(from, size) \/ WriteAt(from, size)
    BY <1>3
  <2>2. from \in Nat /\ size \in Nat
    BY LayoutAssumption DEF U64
  <2>3. Served
    BY <2>1 DEF ReadAt, WriteAt
  <2> QED
    BY <2>1, <2>2, <2>3, ReadGood, WriteGood, AccessStep
<1>4. CASE \E lba \in Lbas, count \in Counts :
             ReadBlocks(lba, count) \/ WriteBlocks(lba, count) \/ FlushBlocks(lba, count)
  <2>1. PICK lba \in Lbas, count \in Counts :
          ReadBlocks(lba, count) \/ WriteBlocks(lba, count) \/ FlushBlocks(lba, count)
    BY <1>4
  <2>2. lba * 512 \in Nat /\ count * 512 \in Nat
    BY BlockFacts
  <2>3. CASE ReadBlocks(lba, count)
    <3>1. ReadAt(lba * 512, count * 512)
      BY <2>3 DEF ReadBlocks
    <3>2. Served
      BY <3>1 DEF ReadAt
    <3> QED
      BY <2>2, <3>1, <3>2, ReadGood, AccessStep
  <2>4. CASE WriteBlocks(lba, count)
    <3>1. WriteAt(lba * 512, count * 512)
      BY <2>4 DEF WriteBlocks
    <3>2. Served
      BY <3>1 DEF WriteAt
    <3> QED
      BY <2>2, <3>1, <3>2, WriteGood, AccessStep
  <2>5. CASE FlushBlocks(lba, count)
    <3>1. Served
      BY <2>5 DEF FlushBlocks
    <3> QED
      BY <2>5, <3>1, FlushGood, AccessStep
  <2> QED
    BY <2>1, <2>3, <2>4, <2>5
<1>5. CASE UNCHANGED vars
  <2>1. /\ stage' = stage /\ keys' = keys /\ access' = access
        /\ imageLen' = imageLen /\ hdrSize' = hdrSize /\ areaEnd' = areaEnd
        /\ offset' = offset /\ length' = length
    BY <1>5 DEF vars, layoutVars
  <2>2. TypeOK' /\ Ordered' /\ KeysRoomy'
    BY <2>1 DEF LInv, TypeOK, Ordered, KeysRoomy
  <2>3. PayloadOnly' /\ NeverOutside' /\ KeysApart'
    BY <2>1 DEF LInv, PayloadOnly, NeverOutside, KeysApart, Overlaps
  <2>4. SectorsMatch' /\ NothingRefused'
    BY <2>1 DEF LInv, SectorsMatch, NothingRefused, InRange
  <2> QED
    BY <2>2, <2>3, <2>4 DEF LInv
<1> QED
  BY <1>1, <1>2, <1>3, <1>4, <1>5 DEF Next, Serve

(* The layout, the arithmetic and the accesses stay in order for ever. *)
THEOREM LayoutInvariant == Spec => []LInv
<1>1. Init => LInv
  BY InitL
<1>2. LInv /\ [Next]_vars => LInv'
  BY NextL
<1> QED
  BY <1>1, <1>2, PTL DEF Spec

(* No subtraction of from_json, read_at or write_at goes below zero and no *)
(* addition beyond a u64, for every size of word and every input.          *)
THEOREM NoWrap == Spec => []TypeOK
<1>1. LInv => TypeOK
  BY DEF LInv
<1> QED
  BY <1>1, LayoutInvariant, PTL

(* checked_range, read_at's rounding and write_at's target keep every      *)
(* payload access inside the data segment, off headers and keyslots.       *)
THEOREM AccessesStayInPayload == Spec => []PayloadOnly
<1>1. LInv => PayloadOnly
  BY DEF LInv
<1> QED
  BY <1>1, LayoutInvariant, PTL

(* The image's own bounds checks never refuse what the volume asks for. *)
THEOREM ImageNeverRefuses == Spec => []NeverOutside
<1>1. LInv => NeverOutside
  BY DEF LInv
<1> QED
  BY <1>1, LayoutInvariant, PTL

(* The keyslot areas from_json accepts are apart from each other, from the *)
(* headers and from the payload.                                           *)
THEOREM KeyslotsApart == Spec => []KeysApart
<1>1. LInv => KeysApart
  BY DEF LInv
<1> QED
  BY <1>1, LayoutInvariant, PTL

(* Reads cover what was asked for and both directions agree on the IV. *)
THEOREM SectorsAgree == Spec => []SectorsMatch
<1>1. LInv => SectorsMatch
  BY DEF LInv
<1> QED
  BY <1>1, LayoutInvariant, PTL

(* No block request inside the payload is refused. *)
THEOREM RangeChecksExact == Spec => []NothingRefused
<1>1. LInv => NothingRefused
  BY DEF LInv
<1> QED
  BY <1>1, LayoutInvariant, PTL

----------------------------------------------------------------------------
(* Layout counts bytes, Volume counts sectors.  These two theorems say     *)
(* that the session core may: the segment is whole sectors of the image,   *)
(* and a callback for blocks is the transfer of the sectors Volume takes.  *)

DataOffset == offset \div 512
DataLen    == length \div 512

(* Volume's CheckedRange and FlushRange. *)
SectorRange(lba, count) ==
  count <= MAX_TRANSFER \div 512 /\ lba <= DataLen /\ count <= DataLen - lba
SectorFlush(lba, count) == lba <= DataLen /\ count <= DataLen - lba

(* Volume's transfer: `count` cells from DataOffset + lba, with the IVs    *)
(* from lba on.                                                            *)
Transfer(kind, lba, count) ==
  [kind |-> kind, from |-> lba * 512, size |-> count * 512,
   at |-> (DataOffset + lba) * 512, len |-> count * 512, iv |-> lba]

(* A callback of either direction, in range or not. *)
Mapped(kind, no, lba, count) ==
  IF ~SectorRange(lba, count) THEN access'.kind = no
  ELSE IF count = 0 THEN access'.kind = "empty"
  ELSE access' = Transfer(kind, lba, count)

BlocksMapped ==
  \A lba \in Lbas, count \in Counts :
    /\ ReadBlocks(lba, count) => Mapped("read", "no read", lba, count)
    /\ WriteBlocks(lba, count) => Mapped("write", "no write", lba, count)
    /\ FlushBlocks(lba, count) => (access'.kind = "flush" <=> SectorFlush(lba, count))

(* What Volume assumes of its constants. *)
WholeSectors ==
  stage = "open" => /\ offset = DataOffset * 512 /\ length = DataLen * 512
                    /\ DataOffset \in Nat /\ DataLen \in Nat
                    /\ DataOffset + DataLen <= imageLen \div 512

LEMMA SegmentSectors ==
  ASSUME LInv
  PROVE  /\ offset \in Nat /\ length \in Nat /\ imageLen \in Nat
         /\ offset = DataOffset * 512 /\ length = DataLen * 512
         /\ DataOffset \in Nat /\ DataLen \in Nat
         /\ DataOffset + DataLen <= imageLen \div 512
<1>1. offset \in Nat /\ length \in Nat /\ imageLen \in Nat
  BY LayoutAssumption DEF LInv, TypeOK, U64
<1>2. offset % 512 = 0 /\ length % 512 = 0 /\ offset + length <= imageLen
  BY DEF LInv, Ordered, Aligned
<1> QED
  BY <1>1, <1>2 DEF DataOffset, DataLen

(* The range check of the bytes is that of the blocks. *)
LEMMA SameRange ==
  ASSUME LInv, NEW lba \in Nat, NEW count \in Nat
  PROVE  /\ CheckedRange(lba * 512, count * 512) <=> SectorRange(lba, count)
         /\ MulFits(lba) => (FlushFits(lba, count) <=> SectorFlush(lba, count))
<1>1. length = DataLen * 512 /\ DataLen \in Nat
  BY SegmentSectors
<1>2. /\ lba * 512 <= length <=> lba <= DataLen
      /\ count * 512 <= length - lba * 512 <=> count <= DataLen - lba
  BY <1>1
<1>3. count * 512 <= MAX_TRANSFER <=> count <= MAX_TRANSFER \div 512
  BY SMT DEF MAX_TRANSFER, MiB
<1> QED
  BY <1>2, <1>3 DEF CheckedRange, SectorRange, FlushFits, SectorFlush

LEMMA BlockArithmetic ==
  ASSUME NEW lba \in Nat, NEW count \in Nat
  PROVE  /\ Floor(lba * 512) = lba * 512
         /\ Floor(lba * 512 + count * 512 + 511) - Floor(lba * 512) = count * 512
         /\ (lba * 512) \div 512 = lba
         /\ count * 512 = 0 <=> count = 0
<1>1. (lba * 512) \div 512 = lba
  OBVIOUS
<1>2. (lba * 512 + count * 512 + 511) \div 512 = lba + count
  OBVIOUS
<1> QED
  BY <1>1, <1>2 DEF Floor

LEMMA BlocksStep ==
  ASSUME LInv, LInv', NEW lba \in Lbas, NEW count \in Counts
  PROVE  /\ ReadBlocks(lba, count) => Mapped("read", "no read", lba, count)
         /\ WriteBlocks(lba, count) => Mapped("write", "no write", lba, count)
         /\ FlushBlocks(lba, count) => (access'.kind = "flush" <=> SectorFlush(lba, count))
<1> DEFINE from == lba * 512
           size == count * 512
<1>1. lba \in Nat /\ count \in Nat /\ from \in Nat /\ size \in Nat
      /\ Aligned(from, 512) /\ Aligned(size, 512)
  BY LayoutAssumption, BlockFacts DEF U64
<1>2. /\ Floor(from) = from /\ Floor(from + size + 511) - Floor(from) = size
      /\ from \div 512 = lba /\ (size = 0 <=> count = 0)
  BY <1>1, BlockArithmetic
<1>3. /\ CheckedRange(from, size) <=> SectorRange(lba, count)
      /\ MulFits(lba) => (FlushFits(lba, count) <=> SectorFlush(lba, count))
  BY <1>1, SameRange
<1>4. /\ offset \in Nat /\ length \in Nat /\ offset = DataOffset * 512 /\ DataOffset \in Nat
  BY SegmentSectors
<1>5. offset + from = (DataOffset + lba) * 512
  BY <1>1, <1>4
<1> HIDE DEF from, size
(* The guards are exact: a range that CheckedRange admits is served. *)
<1>6. ASSUME NEW kind \in {"no read", "no write"}, Refused(kind, from, size), Served
      PROVE  ~SectorRange(lba, count)
  <2>1. access'.kind = kind /\ access'.from = from /\ access'.size = size
    BY <1>6 DEF Refused, NoAccess
  <2>2. ~(from + size <= length /\ size <= MAX_TRANSFER)
    <3>1. length' = length
      BY <1>6 DEF Served, layoutVars
    <3> QED
      BY <1>1, <2>1, <3>1 DEF LInv, NothingRefused, InRange
  <2>3. ~CheckedRange(from, size)
    <3>1. from \in Nat /\ size \in Nat /\ length \in Nat
      BY <1>1, <1>4
    <3> QED
      BY <2>2, <3>1, CheckedFacts DEF LInv
  <2> QED
    BY <1>3, <2>3
<1>7. ASSUME NEW kind \in {"read", "write"}, Access(kind, from, size, offset + from, size, lba)
      PROVE  access' = Transfer(kind, lba, count)
  <2>1. access'.kind # "outside"
    BY DEF LInv, NeverOutside
  <2>2. access' = [kind |-> kind, from |-> from, size |-> size, at |-> offset + from,
                   len |-> size, iv |-> lba]
    BY <1>7, <2>1 DEF Access
  <2> QED
    BY <1>5, <2>2 DEF Transfer, from, size
<1>8. ReadBlocks(lba, count) => Mapped("read", "no read", lba, count)
  <2> SUFFICES ASSUME ReadBlocks(lba, count) PROVE Mapped("read", "no read", lba, count)
    OBVIOUS
  <2>1. Served /\ ReadAt(from, size)
    BY DEF ReadBlocks, ReadAt, from, size
  <2>2. CASE ReadRefused(from, size)
    <3>1. Refused("no read", from, size)
      BY <2>1, <2>2 DEF ReadAt
    <3>2. ~SectorRange(lba, count)
      BY <1>6, <2>1, <3>1
    <3> QED
      BY <3>1, <3>2 DEF Mapped, Refused, NoAccess
  <2>3. CASE ~ReadRefused(from, size)
    <3>1. SectorRange(lba, count)
      BY <1>3, <2>3 DEF ReadRefused
    <3>2. CASE count = 0
      <4>1. Refused("empty", from, size)
        BY <1>2, <2>1, <2>3, <3>2 DEF ReadAt
      <4> QED
        BY <3>1, <3>2, <4>1 DEF Mapped, Refused, NoAccess
    <3>3. CASE count # 0
      <4>1. MapRead(from, size)
        BY <1>2, <2>1, <2>3, <3>3 DEF ReadAt
      <4>2. Access("read", from, size, offset + from, size, lba)
        BY <1>2, <4>1 DEF MapRead
      <4> QED
        BY <1>7, <3>1, <3>3, <4>2 DEF Mapped
    <3> QED
      BY <3>2, <3>3
  <2> QED
    BY <2>2, <2>3
<1>9. WriteBlocks(lba, count) => Mapped("write", "no write", lba, count)
  <2> SUFFICES ASSUME WriteBlocks(lba, count) PROVE Mapped("write", "no write", lba, count)
    OBVIOUS
  <2>1. Served /\ WriteAt(from, size)
    BY DEF WriteBlocks, WriteAt, from, size
  <2>2. CASE WriteRefused(from, size)
    <3>1. Refused("no write", from, size)
      BY <2>1, <2>2 DEF WriteAt
    <3>2. ~SectorRange(lba, count)
      BY <1>6, <2>1, <3>1
    <3> QED
      BY <3>1, <3>2 DEF Mapped, Refused, NoAccess
  <2>3. CASE ~WriteRefused(from, size)
    <3>1. SectorRange(lba, count)
      BY <1>3, <2>3 DEF WriteRefused
    <3>2. CASE count = 0
      <4>1. Refused("empty", from, size)
        BY <1>2, <2>1, <2>3, <3>2 DEF WriteAt
      <4> QED
        BY <3>1, <3>2, <4>1 DEF Mapped, Refused, NoAccess
    <3>3. CASE count # 0
      <4>1. Access("write", from, size, offset + from, size, lba)
        BY <1>2, <2>1, <2>3, <3>3 DEF WriteAt
      <4> QED
        BY <1>7, <3>1, <3>3, <4>1 DEF Mapped
    <3> QED
      BY <3>2, <3>3
  <2> QED
    BY <2>2, <2>3
<1>10. FlushBlocks(lba, count) => (access'.kind = "flush" <=> SectorFlush(lba, count))
  BY <1>3 DEF FlushBlocks, Refused, NoAccess
<1> QED
  BY <1>8, <1>9, <1>10

(* from_json: the segment is made of whole sectors, and they are sectors   *)
(* of the image (VolumeAssumption).                                        *)
THEOREM SegmentIsSectors == Spec => []WholeSectors
<1>1. LInv => WholeSectors
  BY SegmentSectors DEF WholeSectors
<1> QED
  BY <1>1, LayoutInvariant, PTL

(* BlockAdapter::read, write and flush over read_at and write_at: blocks   *)
(* in range are served, others are not, and what is served are the sectors *)
(* with those numbers, under the IVs with those numbers.                   *)
THEOREM BlocksAreSectors == Spec => [][BlocksMapped]_vars
<1>1. LInv /\ LInv' => BlocksMapped
  BY BlocksStep DEF BlocksMapped
<1> QED
  BY <1>1, LayoutInvariant, PTL DEF Spec
=============================================================================
