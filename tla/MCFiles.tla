-------------------------------- MODULE MCFiles --------------------------------
(* TLC instance of what is read from files and written to them: the        *)
(* datasets that are the fields, the rows of one snapshot or of a          *)
(* directory, the container of chunks, the manifest that lists its own     *)
(* size, and the sums of batch_metrics.json.  They share no state: `part`  *)
(* says which of them a behaviour is about, the variables of the others    *)
(* are idle.                                                               *)
(*                                                                         *)
(* Snapshots of up to two rows with three IDs, native files whose cfg      *)
(* disagrees with them, cfg files without data, and counters of different  *)
(* widths; up to four datasets in the root group, two groups and a group   *)
(* inside one of them, names in both cases on both sides of the group      *)
(* names, two fields with two aliases each.                                *)
(*                                                                         *)
(* A payload of 33 bytes has room for a forged entry where a wrong length  *)
(* leads the reader.  Packages are those of the codecs that write the most *)
(* different files, with sizes that are powers of two, so that no sum of   *)
(* some is a sum of others.                                                *)
EXTENDS Integers, Sequences, TLC

CONSTANTS MaxCount, Lengths, Modulus, Junk, None, Others, Sizes, MaxRounds,
          FileCount, Counts, Widths, Packages,
          HdfNames, Lower, Aliases, HdfFiles,
          Snapshots, MostFiles, Limits, Keys, Torn

VARIABLES
  part,
  codec, count, chunk, start, magic, words, payloads, size, p, segments,
  total, entries, decoded,
  others, lengths, round, component, listed, sum, length,
  command, metrics, files, results, next, success, particles, original,
  compressed, complete, groups, groups_available, listings, batch,
  file, content, available, todo, found, firstFound,
  snapshots, merging, limit, position, columns, value, joined,
  damage, out, stage

chunkVars == <<codec, count, chunk, start, magic, words, payloads, size, p, segments,
               total, entries, decoded>>
sizeVars == <<others, lengths, round, component, listed, sum, length>>
summaryVars == <<command, metrics, files, results, next, success, particles, original,
                 compressed, complete, groups, groups_available, listings, batch>>
fieldVars == <<file, content, available, todo, found, firstFound>>
rowVars == <<snapshots, merging, limit, position, columns, value, joined>>
packageVars == <<chunkVars, sizeVars, summaryVars>>
inputVars == <<fieldVars, rowVars>>
vars == <<part, packageVars, inputVars, damage, out, stage>>

Chunked == INSTANCE ChunkContainer
Own == INSTANCE ManifestSize WITH i <- round, total <- sum, written <- length
Summary == INSTANCE BatchSummary
             WITH i <- next, count <- particles, entries <- listings, null <- None
Fields == INSTANCE FieldSearch WITH Names <- HdfNames, Files <- HdfFiles, first <- firstFound
Input == INSTANCE Merge
          WITH Entries <- Snapshots, files <- snapshots, counts <- joined

ASSUME FilesAssumption ==
  /\ Chunked!ChunkContainerAssumption
  /\ Own!ManifestSizeAssumption
  /\ Summary!BatchSummaryAssumption
  /\ Fields!FieldSearchAssumption
  /\ Input!MergeAssumption

ChunksIdle ==
  /\ codec = None /\ count = None /\ chunk = None /\ start = None /\ magic = None
  /\ words = None /\ payloads = None /\ size = None /\ p = None /\ segments = None
  /\ total = None /\ entries = None /\ decoded = None
SizesIdle ==
  /\ others = None /\ lengths = None /\ round = None /\ component = None
  /\ listed = None /\ sum = None /\ length = None
SummaryIdle ==
  /\ command = None /\ metrics = None /\ files = None /\ results = None /\ next = None
  /\ success = None /\ particles = None /\ original = None /\ compressed = None
  /\ complete = None /\ groups = None /\ groups_available = None
  /\ listings = None /\ batch = None
FieldsIdle ==
  /\ file = None /\ content = None /\ available = None /\ todo = None
  /\ found = None /\ firstFound = None
RowsIdle ==
  /\ snapshots = None /\ merging = None /\ limit = None /\ position = None
  /\ columns = None /\ value = None /\ joined = None
PackageIdle ==
  ChunksIdle /\ SizesIdle /\ SummaryIdle
InputIdle == FieldsIdle /\ RowsIdle

Init ==
  \/ /\ part = "chunks" /\ Chunked!Init /\ InputIdle
     /\ SizesIdle /\ SummaryIdle
  \/ /\ part = "sizes" /\ Own!Init /\ damage = None /\ out = None /\ InputIdle
     /\ ChunksIdle /\ SummaryIdle
  \/ /\ part = "summary" /\ Summary!Init /\ damage = None /\ out = None /\ stage = None
     /\ ChunksIdle /\ SizesIdle /\ InputIdle
  \/ /\ part = "fields" /\ Fields!Init /\ damage = None /\ out = None
     /\ RowsIdle /\ PackageIdle
  \/ /\ part = "rows" /\ Input!Init /\ damage = None /\ out = None
     /\ FieldsIdle /\ PackageIdle

Next ==
  \/ /\ part = "chunks" /\ Chunked!Next
     /\ UNCHANGED <<part, sizeVars, summaryVars, inputVars>>
  \/ /\ part = "sizes" /\ Own!Next
     /\ UNCHANGED <<part, chunkVars, summaryVars, inputVars, damage, out>>
  \/ /\ part = "summary" /\ Summary!Next
     /\ UNCHANGED <<part, chunkVars, sizeVars, inputVars, damage, out, stage>>
  \/ /\ part = "fields" /\ Fields!Next
     /\ UNCHANGED <<part, packageVars, rowVars, damage, out>>
  \/ /\ part = "rows" /\ Input!Next
     /\ UNCHANGED <<part, packageVars, fieldVars, damage, out>>

Spec == Init /\ [][Next]_vars

(* ---- the values of the constants -------------------------------------- *)

FieldNames == {"id", "x", "y", "z", "vx", "vy", "vz"}
MCWidths == {[n \in FieldNames |-> IF n = "id" THEN 8 ELSE 4],
             [n \in FieldNames |-> IF n \in {"x", "y", "z"} THEN 2 ELSE 8]}

Size(n, path, bytes) == path :> bytes * (IF n = 1 THEN 1 ELSE 3)
Common(n) == Size(n, <<"manifest", "json">>, 1) @@ Size(n, <<"id", "pco">>, 2)
Fieldwise(n) ==
  Common(n) @@ Size(n, <<"x", "sz3">>, 4) @@ Size(n, <<"y", "sz3">>, 8)
            @@ Size(n, <<"z", "sz3">>, 16) @@ Size(n, <<"x", "lattice-wrap.pco">>, 32)
            @@ Size(n, <<"vx", "szo">>, 64) @@ Size(n, <<"vy", "szo">>, 128)
            @@ Size(n, <<"vz", "szo">>, 256)
Blockwise(n) ==
  Common(n) @@ Size(n, <<"positions", "lcp">>, 4) @@ Size(n, <<"velocities", "lcp">>, 8)
            @@ Size(n, <<"velocity_order", "pco">>, 16)
            @@ Size(n, <<"velocity_block_ids", "pco">>, 32)
MCPackages == {Fieldwise(1), Blockwise(1), Blockwise(2)}

(* Names in the order of the bytes: ID, X, two groups, id, pid, x.         *)
MCHdfNames == 1..7
MCLower == [name \in MCHdfNames |-> CASE name = 1 -> 5 [] name = 2 -> 7 [] OTHER -> name]
MCAliases == <<<<5, 6>>, <<7>>>>
Datasets == {group \o <<name>> : group \in {<<>>, <<3>>, <<4>>, <<4, 3>>},
                                 name \in {1, 2, 5, 6, 7}}
MCHdfFiles ==
  UNION {[chosen -> 1..2] :
           chosen \in {{k, l, m, n} : k, l, m, n \in Datasets}}

Scalar(bits_, sign) ==
  [shape |-> "scalar", top |-> 2 ^ (IF sign THEN bits_ - 1 ELSE bits_), sign |-> sign]
Array == [Scalar(8, TRUE) EXCEPT !.shape = "array"]
NoAttribute == [Scalar(8, TRUE) EXCEPT !.shape = "none"]

(* npart can hold the rows of its own file.                                *)
Attributes(n) ==
  {[npart |-> kind, rank |-> Scalar(8, TRUE)] :
     kind \in {k \in {Scalar(1, FALSE), Scalar(2, TRUE), Scalar(8, TRUE), NoAttribute, Array} :
                 n < k.top}}
Wide == [npart |-> Scalar(8, TRUE), rank |-> Scalar(8, TRUE)]
Snapshot(format, n, rows, whole, schema, attrs) ==
  [format |-> format, n |-> n, ids |-> rows, whole |-> whole, schema |-> schema, attrs |-> attrs]

MCSnapshots ==
       UNION {{Snapshot("hdf5", Len(rows), rows, TRUE, "s", a) : a \in Attributes(Len(rows))} :
                rows \in {<<>>, <<0>>, <<1>>, <<0, 1>>, <<1, 0>>, <<2, 1>>, <<1, 1>>}}
  \cup {Snapshot("hdf5", 1, <<2>>, w, s, Wide) : w \in BOOLEAN, s \in {"s", "t"}}
  \cup {Snapshot("native", n, rows, TRUE, "s", Wide) :
          n \in 0..3, rows \in {<<>>, <<2>>, <<2, 0>>, <<1, 2, 0>>}}
  \cup {Snapshot("config", n, <<>>, TRUE, "s", Wide) : n \in 0..1}

(* ---- what is checked -------------------------------------------------- *)

(* ChunkContainer: triplets.cpp:231, no check wraps around and no range    *)
(* leaves the stream.                                                      *)
EntriesInStream == part = "chunks" => Chunked!TypeOK /\ Chunked!EntriesInStream

(* ChunkContainer: triplets.cpp:231-253, decode_triplet accepts what is    *)
(* intact, refuses a damaged frame, and loses no row of what it accepts.   *)
DecodedAsFramed == part = "chunks" => Chunked!DecodedAsFramed

(* ManifestSize: pipeline.cpp:336, a settled size is exact, any other is   *)
(* near, and the loop gives up only in a cycle.                            *)
SizesAreTrue == part = "sizes" => Own!TypeOK /\ Own!SizesTrue

(* BatchSummary: batch.cpp:307-343, groups are a partition, totals are of  *)
(* all files or null, and what is counted is what succeeded.               *)
SummaryIsTrue == part = "summary" => Summary!SummaryTrue

(* FieldSearch: hdf5.cpp:84, 220, 271, fields are found by their first     *)
(* alias, those of one species together, and found again in the output.    *)
FieldsFound == part = "fields" => Fields!FieldsKept

(* Merge: batch.cpp:39-137, native.cpp:84, rows stay whole, and what fits  *)
(* together is joined, all of it, with true counts and no ID twice.        *)
SnapshotsJoined == part = "rows" => Input!MergeKept
===============================================================================
