------------------------------- MODULE Layout -------------------------------
(***************************************************************************)
(* Where on the image file winluks reads and writes: the layout the LUKS2  *)
(* metadata describes, as Metadata::from_json accepts it, and the byte     *)
(* ranges that unlock, read_at and write_at compute from it, in the u64    *)
(* arithmetic of the code.  Sizes are the real ones, in bytes.             *)
(***************************************************************************)
EXTENDS Integers, FiniteSets

CONSTANTS
  Word,       \* 2^64
  ImageLens,  \* lengths of the image file
  HdrSizes,   \* header sizes metadata::header accepts
  Numbers,    \* the decimal fields of the JSON area
  Offsets,    \* byte offsets of reads and writes
  Lengths,    \* and their lengths
  Lbas,       \* block addresses of the callbacks
  Counts      \* and their block counts, u32

U64 == 0..(Word - 1)
MiB == 1048576
MAX_TRANSFER == MiB
HeaderSizes == 16384..(4 * MiB)
KeySizes == {32, 64}

ASSUME LayoutAssumption ==
  /\ Word \in Nat
  /\ ImageLens \subseteq U64 /\ Numbers \subseteq U64
  /\ Offsets \subseteq U64 /\ Lengths \subseteq U64 /\ Lbas \subseteq U64
  /\ HdrSizes \subseteq HeaderSizes /\ HeaderSizes \subseteq U64
  /\ Counts \subseteq Nat /\ \A c \in Counts : c * 512 < Word

VARIABLES
  stage,      \* "segment", "keyslots", "open" or "refused"
  imageLen,   \* Image.len
  hdrSize,    \* the size of one of the two headers
  areaEnd,    \* area_end of from_json
  offset, length,  \* the data segment
  keys,       \* the accepted keyslot areas
  access      \* the last request and the range of the image it was mapped to

layoutVars == <<imageLen, hdrSize, areaEnd, offset, length>>
vars == <<stage, layoutVars, keys, access>>

NoAccess == [kind |-> "none", from |-> 0, size |-> 0, at |-> 0, len |-> 0, iv |-> 0]

----------------------------------------------------------------------------
(* u64 arithmetic.                                                        *)

\* MUTANT the sum wraps instead of failing: a guard on the wrapped value
AddFits_Wraps(a, b, most) == (a + b) % Word <= most
(* checked_add succeeds, with a result of at most `most`. *)
AddFits(a, b, most) == a + b < Word /\ a + b <= most

\* checked_mul(512) succeeds.
MulFits(a) == a <= (Word - 1) \div 512

Aligned(x, unit) == x % unit = 0

----------------------------------------------------------------------------
(* Metadata::from_json.                                                   *)

SegmentFits(hdr, areas, off) ==
  off >= 2 * hdr + areas /\ off <= imageLen /\ Aligned(off, 512)

\* MUTANT the length need not be whole sectors
LengthFits_Unaligned(off, len) == len # 0 /\ len <= imageLen - off
LengthFits(off, len) == len # 0 /\ len <= imageLen - off /\ Aligned(len, 512)

(* The size "dynamic" is what the image has behind the offset. *)
Segment(hdr, areas, off, dynamic, size) ==
  LET len == IF dynamic THEN imageLen - off ELSE size
  IN /\ stage = "segment"
     /\ areas <= 128 * MiB /\ Aligned(areas, 4096)
     /\ AddFits(2 * hdr, areas, Word - 1)
     /\ SegmentFits(hdr, areas, off)
     /\ LengthFits(off, len)
     /\ stage' = "keyslots"
     /\ hdrSize' = hdr /\ areaEnd' = 2 * hdr + areas
     /\ offset' = off /\ length' = len
     /\ UNCHANGED <<imageLen, keys, access>>

Overlaps(a, b) == a.start < b.end /\ b.start < a.end
\* MUTANT two areas overlap only if one contains the start of the new one
ApartFromAll_StartOnly(area) == \A k \in keys : ~(k.start <= area.start /\ area.start < k.end)
ApartFromAll(area) == \A k \in keys : ~Overlaps(k, area)

(* One round of the loop over the keyslots. *)
Keyslot(start, size, keySize) ==
  LET area == [start |-> start, end |-> start + size, keySize |-> keySize]
  IN /\ stage = "keyslots"
     /\ Cardinality(keys) < 32
     /\ size <= 64 * MiB /\ size >= keySize * 4000
     /\ start >= 2 * hdrSize /\ AddFits(start, size, areaEnd)
     /\ Aligned(start, 4096) /\ Aligned(size, 4096)
     /\ ApartFromAll(area)
     /\ keys' = keys \cup {area}
     /\ UNCHANGED <<stage, layoutVars, access>>

Accept ==
  /\ stage = "keyslots"
  /\ stage' = "open"
  /\ UNCHANGED <<layoutVars, keys, access>>

(* Anything else in the metadata, and any guard above that is false. *)
RefuseMetadata ==
  /\ stage \in {"segment", "keyslots"}
  /\ stage' = "refused"
  /\ UNCHANGED <<layoutVars, keys, access>>

----------------------------------------------------------------------------
(* Accesses to the image.                                                 *)

(* The bounds of write_all_at and read_exact_at. *)
Bounded(at, len) == at <= imageLen /\ len <= imageLen - at

(* A request for `size` bytes from `from`, mapped to the image. *)
Access(kind, from, size, at, len, iv) ==
  access' = [kind |-> IF Bounded(at, len) THEN kind ELSE "outside",
             from |-> from, size |-> size, at |-> at, len |-> len, iv |-> iv]
Refused(kind, from, size) ==
  access' = [NoAccess EXCEPT !.kind = kind, !.from = from, !.size = size]

Served == stage = "open" /\ UNCHANGED <<stage, layoutVars, keys>>

(* unlock reads the key material of the chosen keyslot. *)
ReadKeyArea(k) ==
  /\ Served
  /\ Access("key", 0, 0, k.start, k.keySize * 4000, 0)

\* MUTANT the last byte of the payload is out of range
CheckedRange_LastByte(from, size) ==
  size <= MAX_TRANSFER /\ from <= length /\ size < length - from
CheckedRange(from, size) ==
  size <= MAX_TRANSFER /\ from <= length /\ size <= length - from

Floor(x) == (x \div 512) * 512

(* read_at: whole sectors around the range, which may be unaligned. *)
ReadRefused(from, size) ==
  \/ ~CheckedRange(from, size)
  \/ size # 0 /\ ~AddFits(from + size, 511, Word - 1)
  \/ size # 0 /\ Floor(from + size + 511) - Floor(from) > MAX_TRANSFER
  \/ size # 0 /\ ~AddFits(offset, Floor(from), Word - 1)

\* MUTANT the IV of the first sector counts from the start of the image
MapRead_ImageIv(from, size) ==
  Access("read", from, size, offset + Floor(from), Floor(from + size + 511) - Floor(from),
         (offset + from) \div 512)
MapRead(from, size) ==
  Access("read", from, size, offset + Floor(from), Floor(from + size + 511) - Floor(from),
         from \div 512)

ReadAt(from, size) ==
  /\ Served
  /\ IF ReadRefused(from, size) THEN Refused("no read", from, size)
     ELSE IF size = 0 THEN Refused("empty", from, size)
     ELSE MapRead(from, size)

(* write_at: aligned ranges only. *)
WriteRefused(from, size) ==
  \/ ~CheckedRange(from, size)
  \/ ~Aligned(from, 512) \/ ~Aligned(size, 512)
  \/ size # 0 /\ ~AddFits(offset, from, Word - 1)

WriteAt(from, size) ==
  /\ Served
  /\ IF WriteRefused(from, size) THEN Refused("no write", from, size)
     ELSE IF size = 0 THEN Refused("empty", from, size)
     ELSE Access("write", from, size, offset + from, size, from \div 512)

(* BlockAdapter::read, write and flush: blocks become bytes. *)
ReadBlocks(lba, count)  == MulFits(lba) /\ ReadAt(lba * 512, count * 512)
WriteBlocks(lba, count) == MulFits(lba) /\ WriteAt(lba * 512, count * 512)

FlushFits(lba, count) ==
  MulFits(lba) /\ lba * 512 <= length /\ count * 512 <= length - lba * 512

FlushBlocks(lba, count) ==
  /\ Served
  /\ MulFits(lba)
  /\ Refused(IF FlushFits(lba, count) THEN "flush" ELSE "no flush", lba * 512, count * 512)

----------------------------------------------------------------------------
Init ==
  /\ stage = "segment"
  /\ imageLen \in ImageLens
  /\ hdrSize = 0 /\ areaEnd = 0 /\ offset = 0 /\ length = 0
  /\ keys = {}
  /\ access = NoAccess

Parse ==
  \/ \E hdr \in HdrSizes, areas, off, size \in Numbers, dynamic \in BOOLEAN :
       Segment(hdr, areas, off, dynamic, size)
  \/ \E start, size \in Numbers, keySize \in KeySizes : Keyslot(start, size, keySize)
  \/ Accept \/ RefuseMetadata

Serve ==
  \/ \E k \in keys : ReadKeyArea(k)
  \/ \E from \in Offsets, size \in Lengths : ReadAt(from, size) \/ WriteAt(from, size)
  \/ \E lba \in Lbas, count \in Counts :
       ReadBlocks(lba, count) \/ WriteBlocks(lba, count) \/ FlushBlocks(lba, count)

Next == Parse \/ Serve

Spec == Init /\ [][Next]_vars

----------------------------------------------------------------------------
(* Properties.                                                            *)

Area == [start : U64, end : U64, keySize : KeySizes]
Kinds == {"none", "key", "read", "write", "empty", "flush", "no read", "no write", "no flush",
          "outside"}

(* Every length, offset and end of an area is a u64: no subtraction of     *)
(* from_json goes below zero and no addition beyond the word.              *)
TypeOK ==
  /\ stage \in {"segment", "keyslots", "open", "refused"}
  /\ imageLen \in U64 /\ hdrSize \in U64 /\ areaEnd \in U64 /\ offset \in U64 /\ length \in U64
  /\ keys \subseteq Area
  /\ access \in [kind : Kinds, from : Nat, size : Nat, at : U64, len : U64, iv : Nat]

(* Every access to payload lies inside the segment the metadata describes, *)
(* and so misses the headers and every keyslot area: write_at can change   *)
(* neither, and read_at's rounding to whole sectors reads neither.         *)
PayloadOnly ==
  access.kind \in {"read", "write"} =>
    /\ access.at >= offset /\ access.at + access.len <= offset + length
    /\ access.at >= 2 * hdrSize
    /\ \A k \in keys : access.at >= k.end

(* The bounds checks of the image never refuse a range that unlock,        *)
(* read_at or write_at computed: on a read-write session such a refusal    *)
(* would be a permanent fault.                                             *)
NeverOutside == access.kind # "outside"

(* The keyslot areas lie behind both headers, before the payload, and do   *)
(* not overlap; the key material unlock reads lies inside one of them.     *)
KeysApart ==
  /\ \A k \in keys : k.start >= 2 * hdrSize /\ k.start < k.end /\ k.end <= areaEnd
  /\ \A j, k \in keys : j = k \/ ~Overlaps(j, k)
  /\ access.kind = "key" =>
       \E k \in keys : access.at = k.start /\ access.at + access.len <= k.end

(* A read covers the bytes asked for, in whole sectors and in one          *)
(* transfer, and both directions number a sector by its place in the       *)
(* payload, so what one wrote the other decrypts.                          *)
SectorsMatch ==
  /\ access.kind \in {"read", "write"} =>
       /\ Aligned(access.at - offset, 512) /\ Aligned(access.len, 512)
       /\ access.len <= MAX_TRANSFER
       /\ offset + access.iv * 512 = access.at
       /\ access.at <= offset + access.from
       /\ offset + access.from + access.size <= access.at + access.len
  /\ access.kind = "write" => access.len = access.size

(* A request for whole blocks inside the payload is never refused, up to   *)
(* and including the last one: the checks are exact, not only safe.        *)
InRange == access.from + access.size <= length /\ access.size <= MAX_TRANSFER
           /\ Aligned(access.from, 512) /\ Aligned(access.size, 512)
NothingRefused == access.kind \in {"no read", "no write"} => ~InRange

(* The inductive invariant behind them: from the headers to the end of the *)
(* image everything is in order, and nothing is accessed while the layout  *)
(* is not known.                                                           *)
Ordered ==
  /\ 2 * hdrSize <= areaEnd /\ areaEnd <= offset /\ offset + length <= imageLen
  /\ Aligned(offset, 512) /\ Aligned(length, 512)
  /\ stage = "segment" => keys = {} /\ access = NoAccess
  /\ stage \in {"keyslots", "open"} => hdrSize >= 512
KeysRoomy == \A k \in keys : k.start + k.keySize * 4000 <= k.end
LInv == /\ TypeOK /\ Ordered /\ KeysRoomy
        /\ PayloadOnly /\ NeverOutside /\ KeysApart /\ SectorsMatch /\ NothingRefused

=============================================================================
