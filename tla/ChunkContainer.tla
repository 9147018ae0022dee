---------------------------- MODULE ChunkContainer ----------------------------
(***************************************************************************)
(* The container of chunked triplets (src/triplets.cpp): encode_triplet    *)
(* frames the encoded chunks, a damage may happen to the bytes,            *)
(* decode_triplet checks the frame entry by entry and hands every payload  *)
(* to the native decoder.  Positions are byte offsets; the 64-bit words of *)
(* the frame are kept by the offset they start at, and a word read at any  *)
(* other offset is arbitrary, as the bytes of a payload are.               *)
(***************************************************************************)
EXTENDS Integers, Sequences

CONSTANTS
  MaxCount,   (* bound on the particles and on the chunk size              *)
  Lengths,    (* the payload lengths the codecs may produce                *)
  Modulus,    (* size_t and uint64_t count modulo this                     *)
  Junk,       (* the words a damage, or a read at a wrong offset, gives    *)
  None        (* a row nobody encoded                                      *)

WordBytes == 8
HeaderBytes == 4 * WordBytes
EntryBytes == 2 * WordBytes
CountAt == WordBytes
ChunkAt == 2 * WordBytes
SegmentsAt == 3 * WordBytes

(* A stream is a vector in memory: its size is a size_t.                   *)
ChunkContainerAssumption ==
  /\ MaxCount \in Nat \ {0}
  /\ Lengths \subseteq Nat \ {0}
  /\ Modulus \in Nat \ {0}
  /\ \A length \in Lengths : HeaderBytes + MaxCount * (EntryBytes + length) < Modulus
  /\ Junk \subseteq 0..(Modulus - 1)
  /\ None \notin Nat

VARIABLES
  codec, count, chunk,   (* arguments of both functions: the JSON metadata *)
  start,     (* the rows encoded so far                                    *)
  magic,     (* whether the stream starts with the magic of the codec      *)
  words,     (* offset of a frame word |-> its value                       *)
  payloads,  (* offset of an intact payload |-> what it encodes            *)
  size,      (* bytes.size()                                               *)
  damage,    (* what happened to the bytes                                 *)
  p, segments, total, entries,   (* the locals of decode_triplet           *)
  decoded,   (* the entries decoded so far                                 *)
  out,       (* their rows                                                 *)
  stage

arguments == <<codec, count, chunk>>
stream == <<start, magic, words, payloads, size, damage>>
frame == <<p, segments, total, entries>>
vars == <<arguments, stream, frame, decoded, out, stage>>

Word == 0..(Modulus - 1)
Segment == [offset : Nat, length : Nat, count : Nat, batch : BOOLEAN]

TypeOK ==
  /\ codec \in {"lcp", "xnyzip"}
  /\ count \in 1..MaxCount /\ chunk \in 1..MaxCount /\ start \in 0..count
  /\ magic \in BOOLEAN
  /\ DOMAIN words \subseteq Nat /\ \A w \in DOMAIN words : words[w] \in Nat
  /\ DOMAIN payloads \subseteq Nat
  /\ size \in Nat
  /\ damage \in {"none", "payload", "inner length", "frame", "magic", "size"}
  /\ p \in Nat /\ segments \in Nat /\ total \in 0..count
  /\ entries \in Seq(Segment) /\ Len(entries) <= segments
  /\ decoded \in 0..Len(entries)
  /\ out \in Seq(Nat \cup {None})
  /\ stage \in {"encode", "damage", "header", "entries", "native", "accepted", "rejected"}

-------------------------------------------------------------------------------
(* encode_triplet: magic, count, chunk size and number of segments, then   *)
(* for every chunk its count, the length of its payload and the payload.   *)

(* append64                                                                *)
Put(f, offset, value) ==
  [w \in DOMAIN f \cup {offset} |-> IF w = offset THEN value ELSE f[w]]

Chunks == count \div chunk + (IF count % chunk = 0 THEN 0 ELSE 1)

Init ==
  /\ codec \in {"lcp", "xnyzip"}
  /\ count \in 1..MaxCount /\ chunk \in 1..MaxCount
  /\ start = 0
  /\ magic = TRUE
  /\ words = Put(Put(Put([w \in {} |-> 0], CountAt, count), ChunkAt, chunk),
                 SegmentsAt, Chunks)
  /\ payloads = [w \in {} |-> 0]
  /\ size = HeaderBytes
  /\ damage = "none"
  /\ p = 0 /\ segments = 0 /\ total = 0 /\ entries = <<>>
  /\ decoded = 0 /\ out = <<>>
  /\ stage = "encode"

ShortTail == IF count - start < chunk THEN count - start ELSE chunk

Append64s(rows, length, framed) ==
  /\ words' = Put(Put(framed, size, rows), size + WordBytes, length)
  /\ payloads' = Put(payloads, size + EntryBytes,
                     [first |-> start, count |-> rows, length |-> length])
  /\ size' = size + EntryBytes + length
  /\ start' = start + rows
  /\ UNCHANGED <<arguments, magic, damage, frame, decoded, out, stage>>

EncodeChunk ==
  /\ stage = "encode" /\ start < count
  /\ \E length \in Lengths : Append64s(ShortTail, length, words)

(* Another writer of LCPCHK2 joins `many` whole chunks in a segment of     *)
(* independent frames, which the decoder still reads.                      *)
EncodeBatch ==
  /\ stage = "encode" /\ codec = "lcp"
  /\ \E many \in 2..MaxCount, length \in Lengths :
       /\ start + many * chunk <= count
       /\ Append64s(many * chunk, length,
                    [words EXCEPT ![SegmentsAt] = @ - (many - 1)])

EncodeDone ==
  /\ stage = "encode" /\ start = count
  /\ stage' = "damage"
  /\ UNCHANGED <<arguments, stream, frame, decoded, out>>

-------------------------------------------------------------------------------
(* What may happen to the file of the package.                             *)

Damaged(how) ==
  /\ stage = "damage"
  /\ damage' = how
  /\ stage' = "header"
  /\ UNCHANGED <<arguments, start, frame, decoded, out>>

Intact == Damaged("none") /\ UNCHANGED <<magic, words, payloads, size>>

BadMagic == Damaged("magic") /\ magic' = FALSE /\ UNCHANGED <<words, payloads, size>>

(* The length of an entry other than the last one.                         *)
InnerLength(w) == \E a, b \in DOMAIN payloads : w + WordBytes = a /\ a < b

BadWord ==
  \E w \in DOMAIN words, v \in Junk :
    /\ v # words[w]
    /\ Damaged(IF InnerLength(w) THEN "inner length" ELSE "frame")
    /\ words' = [words EXCEPT ![w] = v]
    /\ UNCHANGED <<magic, payloads, size>>

BadPayload ==
  \E a \in DOMAIN payloads :
    /\ Damaged("payload")
    /\ payloads' = [b \in DOMAIN payloads \ {a} |-> payloads[b]]
    /\ UNCHANGED <<magic, words, size>>

BadSize ==
  \E s \in 0..(size + EntryBytes + 1) :
    /\ s # size
    /\ Damaged("size")
    /\ size' = s
    /\ UNCHANGED <<magic, words, payloads>>

-------------------------------------------------------------------------------
(* decode_triplet                                                          *)

Step(from, to) ==
  /\ stage = from
  /\ stage' = to
  /\ UNCHANGED <<arguments, stream>>

Reject(from) == Step(from, "rejected") /\ UNCHANGED <<frame, decoded, out>>

(* take64                                                                  *)
Truncated(at) == at > size \/ size - at < WordBytes
Take64(at) == IF at \in DOMAIN words THEN {words[at]} ELSE Junk

(* Subtraction of two size_t.                                              *)
Minus(a, b) == (a - b) % Modulus

HeaderFits ==
  /\ size >= HeaderBytes /\ magic
  /\ words[CountAt] = count /\ words[ChunkAt] = chunk
  /\ words[SegmentsAt] # 0 /\ words[SegmentsAt] <= count

ReadHeader ==
  /\ HeaderFits
  /\ Step("header", "entries")
  /\ p' = HeaderBytes
  /\ segments' = words[SegmentsAt]
  /\ UNCHANGED <<total, entries, decoded, out>>

RejectHeader == ~HeaderFits /\ Reject("header")

Batch(n) == codec = "lcp" /\ n > chunk

(* Mistakes: the sum instead of the difference is tested; the rest of the  *)
(* stream is measured from the entry, not from its payload; a segment is   *)
(* at most a chunk; bytes may be left behind the last entry; the decoded   *)
(* rows are not counted.                                                   *)
EntryFitsBySum(n, length, at) ==
  /\ n # 0 /\ (total + n) % Modulus <= count
  /\ (at + length) % Modulus <= size /\ length # 0
  /\ Batch(n) => n % chunk = 0
EntryFitsFromEntry(n, length, at) ==
  /\ n # 0 /\ n <= Minus(count, total)
  /\ length <= Minus(size, at - EntryBytes) /\ length # 0
EntryFitsOneChunk(n, length, at) ==
  /\ n # 0 /\ n <= Minus(count, total) /\ n <= chunk
  /\ length <= Minus(size, at) /\ length # 0
FrameEndsAnywhere == total = count

EntryFits(n, length, at) ==
  /\ n # 0 /\ n <= Minus(count, total)
  /\ length <= Minus(size, at) /\ length # 0
  /\ Batch(n) => n % chunk = 0

AtEntry == stage = "entries" /\ Len(entries) < segments
CutEntry == Truncated(p) \/ Truncated(p + WordBytes)

ReadEntry ==
  /\ AtEntry /\ ~CutEntry
  /\ \E n \in Take64(p), length \in Take64(p + WordBytes) :
       LET at == p + EntryBytes IN
       /\ EntryFits(n, length, at)
       /\ entries' = Append(entries, [offset |-> at, length |-> length,
                                      count |-> n, batch |-> Batch(n)])
       /\ p' = at + length
       /\ total' = total + n
  /\ UNCHANGED <<arguments, stream, segments, decoded, out, stage>>

RejectEntry ==
  /\ AtEntry
  /\ \/ CutEntry
     \/ \E n \in Take64(p), length \in Take64(p + WordBytes) :
          ~EntryFits(n, length, p + EntryBytes)
  /\ Reject("entries")

FrameEnds == total = count /\ p = size

FrameDone ==
  /\ Len(entries) = segments
  /\ IF FrameEnds THEN Step("entries", "native") /\ UNCHANGED <<frame, decoded, out>>
                  ELSE Reject("entries")

(* The native decoder gives the rows of an intact payload that is read     *)
(* whole and in its mode; of anything else it gives rows, or throws.       *)
Rows(first, many) == [i \in 1..many |-> first + i - 1]

Native(e) ==
  LET whole == /\ e.offset \in DOMAIN payloads
               /\ payloads[e.offset].length = e.length
               /\ (payloads[e.offset].count > chunk /\ codec = "lcp") = e.batch
  IN  IF whole THEN {Rows(payloads[e.offset].first, payloads[e.offset].count)}
               ELSE {[i \in 1..many |-> None] : many \in 0..(MaxCount + 1)}

DecodeChunkUncounted ==
  /\ stage = "native" /\ decoded < Len(entries)
  /\ \E rows \in Native(entries[decoded + 1]) : out' = out \o rows
  /\ decoded' = decoded + 1
  /\ UNCHANGED <<arguments, stream, frame, stage>>

(* parallel_map gives the results by index: see MapOutcome.                *)
DecodeChunk ==
  /\ stage = "native" /\ decoded < Len(entries)
  /\ \E rows \in Native(entries[decoded + 1]) :
       IF Len(rows) # entries[decoded + 1].count
         THEN Reject("native")
         ELSE /\ out' = out \o rows
              /\ decoded' = decoded + 1
              /\ UNCHANGED <<arguments, stream, frame, stage>>

DecodeDone ==
  /\ decoded = Len(entries)
  /\ Step("native", "accepted")
  /\ UNCHANGED <<frame, decoded, out>>

Done == stage \in {"accepted", "rejected"} /\ UNCHANGED vars

Next ==
  \/ EncodeChunk \/ EncodeBatch \/ EncodeDone
  \/ Intact \/ BadMagic \/ BadWord \/ BadPayload \/ BadSize
  \/ ReadHeader \/ RejectHeader \/ ReadEntry \/ RejectEntry \/ FrameDone
  \/ DecodeChunk \/ DecodeDone \/ Done

Spec == Init /\ [][Next]_vars

-------------------------------------------------------------------------------
(* Properties.                                                             *)

(* triplets.cpp:231: no subtraction of size_t goes below zero, so that     *)
(* every range handed to a native decoder lies inside the stream, behind   *)
(* the one before it, and no more rows are announced than there are.       *)
EntriesInStream ==
  /\ total <= count
  /\ stage \in {"entries", "native"} => p <= size
  /\ \A k \in DOMAIN entries :
       /\ entries[k].length > 0 /\ entries[k].count > 0
       /\ entries[k].offset >= HeaderBytes + EntryBytes
       /\ entries[k].offset + entries[k].length <= p
       /\ \A l \in DOMAIN entries :
            k < l => entries[k].offset + entries[k].length <= entries[l].offset

(* triplets.cpp:231-241 (tests/triplet_interop.py:50): what is cut,        *)
(* lengthened, or changed in the header or in an entry is refused before a *)
(* native decoder runs.  A changed length of an inner entry is only as far *)
(* as the bytes of its payload do not look like another frame.             *)
FramingChecked ==
  stage \in {"native", "accepted"} => damage \in {"none", "payload", "inner length"}

(* An undamaged stream is decoded, to all rows in their order, whatever    *)
(* the chunk size and with or without batch segments.                      *)
Undamaged ==
  damage = "none" =>
    /\ stage # "rejected"
    /\ stage = "accepted" => out = Rows(0, count)

(* triplets.cpp:249, 253: whatever was damaged, an accepted stream has     *)
(* `count` rows, and with an intact frame every intact row is in its place.*)
AcceptedWhole ==
  stage = "accepted" =>
    /\ Len(out) = count
    /\ damage # "inner length" => \A i \in 1..count : out[i] \in {i - 1, None}

(* What decode_triplet makes of a stream: an undamaged one is decoded, a   *)
(* damaged frame is refused, and what is accepted is whole.                *)
DecodedAsFramed == FramingChecked /\ Undamaged /\ AcceptedWhole
===============================================================================
