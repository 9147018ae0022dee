-------------------------------- MODULE Huffman --------------------------------
(***************************************************************************)
(* src/huffman.cpp: the block IDs of a package are stored as canonical     *)
(* Huffman codes of their differences.  The encoder joins the two lightest *)
(* nodes until one is left; the table of code lengths and the bits are     *)
(* written, may be damaged, and are read again bit by bit.  Both sides     *)
(* find the codes from the lengths, the shortest first.                    *)
(***************************************************************************)
EXTENDS BitNumbers, FiniteSets, SequencesExt

CONSTANTS
  MaxValues,   (* bound on a.size()                                        *)
  Modulus,     (* 2^32 or 2^64: the range of a value and of a difference   *)
  ByteBits     (* bits of a byte of the payload (8)                        *)

HuffmanAssumption ==
  MaxValues \in Nat \ {0} /\ Modulus \in Nat \ {0} /\ ByteBits \in Nat \ {0}

VARIABLES
  values,      (* the array, and `count` of the decoder                    *)
  heap,        (* the nodes without a parent; depth: their leaves' depths  *)
  table,       (* the stored symbols and lengths, by what was written      *)
  bits, bitCount,   (* the payload, and the stored number of its bits      *)
  damage,      (* what happened to the stream                              *)
  pending,     (* the entries that have no code yet                        *)
  following, overflow,   (* the next code, and that there is none          *)
  codes,       (* the codes found: a set of [symbol, code]                 *)
  at,          (* the bits read so far                                     *)
  prefix,      (* the path from the root of the trie to `node`             *)
  out,         (* the values written so far                                *)
  stage

streamVars == <<values, table, bits, bitCount, damage>>
canonicalVars == <<pending, following, overflow, codes>>
readerVars == <<at, prefix, out>>
vars == <<streamVars, heap, canonicalVars, readerVars, stage>>

Symbols == 0..(Modulus - 1)

(* The differences, and the mistake of starting at the first value.        *)
DeltasFromFirst(a) ==
  [i \in DOMAIN a |-> (a[i] - (IF i = 1 THEN a[1] ELSE a[i - 1])) % Modulus]
Deltas(a) ==
  [i \in DOMAIN a |-> (a[i] - (IF i = 1 THEN 0 ELSE a[i - 1])) % Modulus]

Occurrences(x, a) == Cardinality({i \in DOMAIN a : a[i] = x})

(* The leaves, in the order of std::map.                                   *)
Leaves(a) ==
  {[frequency |-> Occurrences(x, a), minimum |-> x,
    serial |-> Cardinality({y \in Range(a) : y < x}),
    depth |-> [s \in {x} |-> 0]] : x \in Range(a)}

Init ==
  /\ values \in UNION {[1..n -> Symbols] : n \in 1..MaxValues}
  /\ heap = Leaves(Deltas(values))
  /\ table = <<>> /\ bits = <<>> /\ bitCount = 0
  /\ damage = "none"
  /\ pending = {} /\ following = <<>> /\ overflow = FALSE /\ codes = {}
  /\ at = 0 /\ prefix = <<>> /\ out = <<>>
  /\ stage = "merge"

-------------------------------------------------------------------------------
(* huffman_encode                                                          *)

(* std::greater<std::tuple<size_t, uint64_t, size_t>>, and the mistake of  *)
(* a queue without std::greater, which gives the heaviest node first.      *)
HeavierFirst(x, y) ==
  \/ x.frequency > y.frequency
  \/ x.frequency = y.frequency /\ x.minimum > y.minimum
Lighter(x, y) ==
  \/ x.frequency < y.frequency
  \/ x.frequency = y.frequency /\ x.minimum < y.minimum
  \/ x.frequency = y.frequency /\ x.minimum = y.minimum /\ x.serial < y.serial

Top(nodes) == CHOOSE x \in nodes : \A y \in nodes \ {x} : Lighter(x, y)

Smaller(x, y) == IF x < y THEN x ELSE y

(* Symbols have 2 n - 1 nodes: the serial number of the next one.          *)
NextSerial == 2 * Cardinality(Range(Deltas(values))) - Cardinality(heap)

Merge ==
  /\ stage = "merge" /\ Cardinality(heap) > 1
  /\ LET a == Top(heap)
         b == Top(heap \ {a})
         deeper == [s \in DOMAIN a.depth \cup DOMAIN b.depth |->
                      1 + (IF s \in DOMAIN a.depth THEN a.depth[s] ELSE b.depth[s])]
     IN  heap' = (heap \ {a, b}) \cup
                   {[frequency |-> a.frequency + b.frequency,
                     minimum |-> Smaller(a.minimum, b.minimum),
                     serial |-> NextSerial, depth |-> deeper]}
  /\ UNCHANGED <<streamVars, canonicalVars, readerVars, stage>>

(* std::max<size_t>(depth, 1)                                              *)
Length(depth) == IF depth = 0 THEN 1 ELSE depth

(* The mistake: the overflow is not seen.                                  *)
IncrementSilently(code) ==
  LET zero == CHOOSE i \in 0..Len(code) :
                /\ i = 0 \/ code[i] = 0
                /\ \A j \in (i + 1)..Len(code) : code[j] = 1
  IN  [code |-> [j \in DOMAIN code |->
                   IF j < zero THEN code[j] ELSE IF j = zero THEN 1 ELSE 0],
       overflow |-> FALSE]

(* huffman.cpp:36-41: the next binary number of the same length.           *)
Increment(code) ==
  LET zero == CHOOSE i \in 0..Len(code) :
                /\ i = 0 \/ code[i] = 0
                /\ \A j \in (i + 1)..Len(code) : code[j] = 1
  IN  [code |-> [j \in DOMAIN code |->
                   IF j < zero THEN code[j] ELSE IF j = zero THEN 1 ELSE 0],
       overflow |-> zero = 0]

(* canonical: the next entry by length and value.                          *)
Shorter(x, y) == x.length < y.length \/ (x.length = y.length /\ x.symbol < y.symbol)
First == CHOOSE x \in pending : \A y \in pending \ {x} : Shorter(x, y)

StartCodes(entries) ==
  /\ pending' = entries
  /\ following' = <<>> /\ overflow' = FALSE /\ codes' = {}

Fits == ~overflow /\ First.length >= Len(following)

AssignCode ==
  /\ stage \in {"encode", "decode"} /\ pending # {} /\ Fits
  /\ LET code == following \o [i \in 1..(First.length - Len(following)) |-> 0]
         incremented == Increment(code)
     IN  /\ codes' = codes \cup {[symbol |-> First.symbol, code |-> code]}
         /\ following' = incremented.code
         /\ overflow' = incremented.overflow
  /\ pending' = pending \ {First}
  /\ UNCHANGED <<streamVars, heap, readerVars, stage>>

(* "Oversubscribed Huffman table"                                          *)
RejectCode ==
  /\ stage \in {"encode", "decode"} /\ pending # {} /\ ~Fits
  /\ stage' = "oversubscribed"
  /\ UNCHANGED <<streamVars, heap, canonicalVars, readerVars>>

Lengths ==
  /\ stage = "merge" /\ Cardinality(heap) = 1
  /\ LET depth == Top(heap).depth
     IN  table' = [s \in DOMAIN depth |-> [symbol |-> s, length |-> Length(depth[s])]]
  /\ StartCodes(Range(table'))
  /\ stage' = "encode"
  /\ UNCHANGED <<values, bits, bitCount, damage, heap, readerVars>>

CodeOf(symbol, assigned) == (CHOOSE c \in assigned : c.symbol = symbol).code

Encoded(deltas, assigned) ==
  FlattenSeq([i \in DOMAIN deltas |-> CodeOf(deltas[i], assigned)])

Write ==
  /\ stage = "encode" /\ pending = {}
  /\ bits' = Encoded(Deltas(values), codes)
  /\ bitCount' = Len(bits')
  /\ stage' = "damage"
  /\ UNCHANGED <<values, table, damage, heap, canonicalVars, readerVars>>

-------------------------------------------------------------------------------
(* What may happen to the stream on disk.                                  *)

Damage(how) ==
  /\ stage = "damage"
  /\ damage' = how
  /\ stage' = "table"
  /\ UNCHANGED <<values, heap, canonicalVars, readerVars>>

Intact == Damage("none") /\ UNCHANGED <<table, bits, bitCount>>

BadBit ==
  \E i \in DOMAIN bits :
    /\ Damage("bit")
    /\ bits' = [bits EXCEPT ![i] = 1 - @]
    /\ UNCHANGED <<table, bitCount>>

BadTable ==
  \E k \in DOMAIN table, symbol \in 0..Modulus, length \in 0..MaxValues :
    /\ [symbol |-> symbol, length |-> length] # table[k]
    /\ symbol = table[k].symbol \/ length = table[k].length
    /\ Damage("table")
    /\ table' = [table EXCEPT ![k] = [symbol |-> symbol, length |-> length]]
    /\ UNCHANGED <<bits, bitCount>>

BadBitCount ==
  \E n \in 0..(Len(bits) + ByteBits) :
    /\ n # bitCount
    /\ Damage("count")
    /\ bitCount' = n
    /\ UNCHANGED <<table, bits>>

-------------------------------------------------------------------------------
(* huffman_decode                                                          *)

Reject ==
  /\ stage' = "rejected"
  /\ UNCHANGED <<streamVars, heap, canonicalVars, readerVars>>

Bytes(n) == (n + ByteBits - 1) \div ByteBits

TableFits ==
  /\ \A k \in DOMAIN table : table[k].symbol < Modulus /\ table[k].length > 0
  /\ \A k, l \in DOMAIN table : table[k].symbol = table[l].symbol => k = l
  /\ Bytes(bitCount) = Bytes(Len(bits))

ReadTable ==
  /\ stage = "table" /\ TableFits
  /\ StartCodes(Range(table))
  /\ stage' = "decode"
  /\ UNCHANGED <<streamVars, heap, readerVars>>

RejectTable == stage = "table" /\ ~TableFits /\ Reject

CodesDone ==
  /\ stage = "decode" /\ pending = {}
  /\ stage' = "bits"
  /\ UNCHANGED <<streamVars, heap, canonicalVars, readerVars>>

AtBit == stage = "bits" /\ at < bitCount

(* The last byte is padded with zeros.                                     *)
NextPrefix == Append(prefix, IF at < Len(bits) THEN bits[at + 1] ELSE 0)

InTrie == \E c \in codes : IsPrefix(NextPrefix, c.code)
Leaf == \E c \in codes : c.code = NextPrefix
Value == (CHOOSE c \in codes : c.code = NextPrefix).symbol

(* The mistake: bits may be left over when the last value is complete.     *)
DecodeEndsEarly == Len(out) = Len(values)
DecodeEnds == Len(out) = Len(values) /\ prefix = <<>>

Previous == IF out = <<>> THEN 0 ELSE out[Len(out)]

ReadBit ==
  /\ AtBit /\ InTrie /\ (Leaf => Len(out) < Len(values))
  /\ at' = at + 1
  /\ prefix' = IF Leaf THEN <<>> ELSE NextPrefix
  /\ out' = IF Leaf THEN Append(out, (Previous + Value) % Modulus) ELSE out
  /\ UNCHANGED <<streamVars, heap, canonicalVars, stage>>

(* "Invalid Huffman code", "Excess Huffman values"                         *)
RejectBit == AtBit /\ ~(InTrie /\ (Leaf => Len(out) < Len(values))) /\ Reject

(* "Incomplete Huffman data"                                               *)
DecodeDone ==
  /\ stage = "bits" /\ at = bitCount
  /\ stage' = IF DecodeEnds THEN "accepted" ELSE "rejected"
  /\ UNCHANGED <<streamVars, heap, canonicalVars, readerVars>>

Done == stage \in {"accepted", "rejected", "oversubscribed"} /\ UNCHANGED vars

Next ==
  \/ Merge \/ Lengths \/ AssignCode \/ RejectCode \/ Write
  \/ Intact \/ BadBit \/ BadTable \/ BadBitCount
  \/ ReadTable \/ RejectTable \/ CodesDone \/ ReadBit \/ RejectBit \/ DecodeDone \/ Done

Spec == Init /\ [][Next]_vars

-------------------------------------------------------------------------------
(* Properties.                                                             *)

(* huffman.cpp:96, 183: an undamaged stream gives the values back.         *)
RoundTrip ==
  damage = "none" =>
    /\ stage \notin {"rejected", "oversubscribed"}
    /\ stage = "accepted" => out = values

(* How much of the code space the lengths take, in units of 2^-MaxValues.  *)
Kraft(lengths) == SumFunction([s \in DOMAIN lengths |-> PowerOfTwo[MaxValues - lengths[s]]])
WholeSpace == PowerOfTwo[MaxValues]

Cost(lengths) ==
  SumFunction([s \in DOMAIN lengths |-> Occurrences(s, Deltas(values)) * lengths[s]])

(* huffman.cpp:72: no prefix code of the differences takes fewer bits.     *)
Shortest ==
  stage = "damage" =>
    \A lengths \in [Range(Deltas(values)) -> 1..MaxValues] :
      Kraft(lengths) <= WholeSpace => Len(bits) <= Cost(lengths)

(* huffman.cpp:32-41: a table is refused for its lengths exactly when they *)
(* do not fit into the code space; the codes of an accepted one, complete  *)
(* or not, are prefix-free (so that line 162 never throws).                *)
TableJudged ==
  LET space == Kraft([k \in DOMAIN table |-> table[k].length])
  IN  /\ stage = "oversubscribed" => space > WholeSpace
      /\ stage = "bits" =>
           /\ space <= WholeSpace
           /\ \A c, d \in codes : IsPrefix(c.code, d.code) => c = d

(* huffman.cpp:181-188: whatever was damaged, what is accepted is a whole  *)
(* number of values, as many as asked, whose codes are the bits read.      *)
AcceptedReencodes ==
  stage = "accepted" =>
    LET read == [i \in 1..bitCount |-> IF i <= Len(bits) THEN bits[i] ELSE 0]
    IN  Len(out) = Len(values) /\ Encoded(Deltas(out), codes) = read

(* An undamaged stream is the shortest of its kind, and is read back.      *)
ShortestCode == RoundTrip /\ Shortest

(* A damaged one is judged for what it says: no table that has codes is    *)
(* refused, and nothing but a whole number of values is accepted.          *)
DamageJudged == TableJudged /\ AcceptedReencodes
===============================================================================
