---------------------------- MODULE BlockwiseOrder ----------------------------
(***************************************************************************)
(* encode_blockwise and decode_blockwise of src/triplets.cpp.  LCP writes  *)
(* the particles block by block, in an order of its own inside each block; *)
(* the package keeps the block of every row (block_ids) and, bit-packed,   *)
(* the place of every written particle among the rows of its block         *)
(* (packed_order).  A particle is its row; one of the sidecars may be      *)
(* damaged in between.                                                     *)
(***************************************************************************)
EXTENDS BitNumbers, FiniteSets, SequencesExt

CONSTANTS
  N,          (* t[0].size()                                               *)
  BlockIds,   (* the block numbers of LCP                                  *)
  WordBits,   (* packed_order is padded to words of this many bits (32)    *)
  None        (* a row that has received no particle                       *)

BlockwiseAssumption ==
  /\ N \in Nat \ {0} /\ WordBits \in Nat \ {0}
  /\ BlockIds # {} /\ IsFiniteSet(BlockIds)
  /\ None \notin Nat

Rows == 0..(N - 1)

VARIABLES
  ids,      (* block_ids: the block of every row                           *)
  written,  (* the rows in the order of the LCP stream                     *)
  counts, blocks,   (* LCP's blocks in stream order: populations, numbers  *)
  packed,   (* packed_order: a sequence of bits                            *)
  damage,   (* what happened to the sidecars                               *)
  block, bit, index,   (* the positions of decode_blockwise                *)
  out,      (* out[row]: the particle restored there                       *)
  stage

sidecars == <<ids, packed, damage>>
native == <<written, counts, blocks>>
reader == <<block, bit, index, out>>
vars == <<sidecars, native, reader, stage>>

Bit == {0, 1}

TypeOK ==
  /\ ids \in [Rows -> BlockIds]
  /\ written \in Seq(Rows) /\ counts \in Seq(1..N) /\ blocks \in Seq(BlockIds)
  /\ packed \in Seq(Bit)
  /\ damage \in {"none", "padding", "order", "words", "ids"}
  /\ block \in 0..Len(blocks) /\ bit \in 0..Len(packed) /\ index \in 0..N
  /\ out \in [Rows -> Rows \cup {None}]
  /\ stage \in {"encode", "pack", "damage", "check", "blocks", "accepted", "rejected"}

Init ==
  /\ ids \in [Rows -> BlockIds]
  /\ written = <<>> /\ counts = <<>> /\ blocks = <<>> /\ packed = <<>>
  /\ damage = "none"
  /\ block = 0 /\ bit = 0 /\ index = 0
  /\ out = [row \in Rows |-> None]
  /\ stage = "encode"

-------------------------------------------------------------------------------
(* Bit packing.                                                            *)

(* std::bit_width(count - 1), and the mistake std::bit_width(count) - 1.   *)
WidthRoundedDown(count) ==
  CHOOSE w \in 0..count :
    PowerOfTwo[w + 1] > count /\ \A v \in 0..(w - 1) : PowerOfTwo[v + 1] <= count
Width(count) ==
  CHOOSE w \in 0..count : PowerOfTwo[w] >= count /\ \A v \in 0..(w - 1) : PowerOfTwo[v] < count

(* (local[index] >> k) & 1, and the sum of the bits << k.                  *)
BitOf(value, k) == (value \div PowerOfTwo[k]) % 2
FromBits(bits) == SumOf([k \in DOMAIN bits |-> bits[k] * PowerOfTwo[k - 1]])

(* bits / 32 + (bits % 32 != 0) words                                      *)
Padded(bits) == ((bits + WordBits - 1) \div WordBits) * WordBits

Bits(populations) ==
  SumOf([k \in DOMAIN populations |-> populations[k] * Width(populations[k])])

-------------------------------------------------------------------------------
(* encode_blockwise                                                        *)

(* The rows of a block, in the order of the particles.                     *)
Members(b) == {row \in Rows : ids[row] = b}

(* How many rows of its block come before a row.                           *)
Local(row) == Cardinality({r \in Members(ids[row]) : r < row})

(* LCP writes block after block without a gap: counts and blocks list them *)
(* in the order of the stream, and local[i] is Local(written[i]).          *)
Compress ==
  /\ stage = "encode"
  /\ blocks' \in SetToSeqs(Range(ids))
  /\ counts' = [k \in DOMAIN blocks' |-> Cardinality(Members(blocks'[k]))]
  /\ written' \in SetToSeqs(Rows)
  /\ LET first == Sums(counts')
     IN  \A k \in DOMAIN blocks' : \A i \in 1..counts'[k] :
           ids[written'[first[k - 1] + i]] = blocks'[k]
  /\ stage' = "pack"
  /\ UNCHANGED <<sidecars, reader>>

Count == counts[block + 1]

(* The bits of a block: Width(Count) of every place.                       *)
BlockBits ==
  [q \in 1..(Count * Width(Count)) |->
     BitOf(Local(written[index + (q - 1) \div Width(Count) + 1]), (q - 1) % Width(Count))]

PackBlock ==
  /\ stage = "pack" /\ block < Len(blocks)
  /\ packed' = packed \o BlockBits
  /\ block' = block + 1
  /\ index' = index + Count
  /\ UNCHANGED <<ids, damage, native, bit, out, stage>>

(* The last word is filled with zeros; the loop variables are local.       *)
PackDone ==
  /\ stage = "pack" /\ block = Len(blocks)
  /\ packed' = packed \o [k \in 1..(Padded(Len(packed)) - Len(packed)) |-> 0]
  /\ block' = 0 /\ index' = 0
  /\ stage' = "damage"
  /\ UNCHANGED <<ids, damage, native, bit, out>>

-------------------------------------------------------------------------------
(* What may happen to the sidecars on disk.                                *)

Damage(how) ==
  /\ stage = "damage"
  /\ damage' = how
  /\ stage' = "check"
  /\ UNCHANGED <<native, reader>>

Intact == Damage("none") /\ UNCHANGED <<ids, packed>>

BadBit ==
  \E k \in DOMAIN packed :
    /\ Damage(IF k > Bits(counts) THEN "padding" ELSE "order")
    /\ packed' = [packed EXCEPT ![k] = 1 - @]
    /\ UNCHANGED ids

BadWords ==
  /\ Damage("words")
  /\ packed' \in {packed \o [k \in 1..WordBits |-> 0]}
                 \cup (IF packed = <<>> THEN {} ELSE {SubSeq(packed, 1, Len(packed) - WordBits)})
  /\ UNCHANGED ids

BadId ==
  \E row \in Rows, b \in BlockIds :
    /\ b # ids[row]
    /\ Damage("ids")
    /\ ids' = [ids EXCEPT ![row] = b]
    /\ UNCHANGED packed

-------------------------------------------------------------------------------
(* decode_blockwise                                                        *)

Reject ==
  /\ stage' = "rejected"
  /\ UNCHANGED <<sidecars, native, reader>>

(* The mistake: more words than needed are accepted.                       *)
SizesFitAtLeast ==
  /\ Cardinality(Range(ids)) = Len(blocks)
  /\ Len(packed) >= Padded(Bits(counts))

(* `n != ids.size()` cannot happen here: the stream itself is not damaged. *)
SizesFit ==
  /\ Cardinality(Range(ids)) = Len(blocks)
  /\ Len(packed) = Padded(Bits(counts))

Check ==
  /\ stage = "check" /\ SizesFit
  /\ stage' = "blocks"
  /\ UNCHANGED <<sidecars, native, reader>>

CheckFails == stage = "check" /\ ~SizesFit /\ Reject

AtBlock == stage = "blocks" /\ block < Len(blocks)

(* The mistake: a place that is used twice is not seen.                    *)
PlacesFitInRange(places) == \A i \in 1..Count : places[i] < Count

PopulationFits == Cardinality(Members(blocks[block + 1])) = Count

Places ==
  [i \in 1..Count |->
     FromBits([k \in 1..Width(Count) |-> packed[bit + (i - 1) * Width(Count) + k]])]

PlacesFit(places) ==
  /\ \A i \in 1..Count : places[i] < Count
  /\ \A i, j \in 1..Count : places[i] = places[j] => i = j

(* The particle whose place is that of the row: it->second is ascending.   *)
Source(places, row) == CHOOSE i \in 1..Count : places[i] = Local(row)
Receives(places, row) ==
  ids[row] = blocks[block + 1] /\ \E i \in 1..Count : places[i] = Local(row)

(* The mistake: the position in the stream is stored, not what is there.   *)
DecodeBlockByPosition ==
  /\ AtBlock /\ PopulationFits /\ PlacesFit(Places)
  /\ LET places == Places
     IN  out' = [row \in Rows |->
                   IF Receives(places, row) THEN index + Source(places, row) ELSE out[row]]
  /\ block' = block + 1
  /\ bit' = bit + Count * Width(Count)
  /\ index' = index + Count
  /\ UNCHANGED <<sidecars, native, stage>>

DecodeBlock ==
  /\ AtBlock /\ PopulationFits /\ PlacesFit(Places)
  /\ LET places == Places
     IN  out' = [row \in Rows |->
                   IF Receives(places, row) THEN written[index + Source(places, row)] ELSE out[row]]
  /\ block' = block + 1
  /\ bit' = bit + Count * Width(Count)
  /\ index' = index + Count
  /\ UNCHANGED <<sidecars, native, stage>>

RejectBlock == AtBlock /\ ~(PopulationFits /\ PlacesFit(Places)) /\ Reject

(* "LCP block counts do not sum to particle count"                         *)
DecodeDone ==
  /\ stage = "blocks" /\ block = Len(blocks)
  /\ stage' = IF index = N THEN "accepted" ELSE "rejected"
  /\ UNCHANGED <<sidecars, native, reader>>

Done == stage \in {"accepted", "rejected"} /\ UNCHANGED vars

Next ==
  \/ Compress \/ PackBlock \/ PackDone \/ Intact \/ BadBit \/ BadWords \/ BadId
  \/ Check \/ CheckFails \/ DecodeBlock \/ RejectBlock \/ DecodeDone \/ Done

Spec == Init /\ [][Next]_vars

-------------------------------------------------------------------------------
(* Properties.                                                             *)

(* triplets.cpp:289, 337: with intact sidecars, or a changed bit that only *)
(* pads the last word, every particle returns to its row.                  *)
RowsRestored ==
  damage \in {"none", "padding"} =>
    /\ stage # "rejected"
    /\ stage = "accepted" => \A row \in Rows : out[row] = row

(* triplets.cpp:334, 341: whatever a damaged sidecar says, an accepted     *)
(* result has every particle once: no row is written twice or left empty.  *)
EveryParticleOnce == stage = "accepted" => {out[row] : row \in Rows} = Rows

(* triplets.cpp:318, 326, 334: a row that changed its block, or another    *)
(* number of words, is never taken for an order.                           *)
SidecarChecked == stage = "accepted" => damage \notin {"words", "ids"}

(* What decode_blockwise makes of the sidecars: intact ones restore the    *)
(* order, others are refused or still give every particle once.            *)
OrderKept == RowsRestored /\ EveryParticleOnce /\ SidecarChecked
===============================================================================
