--------------------------------- MODULE Merge ---------------------------------
(***************************************************************************)
(* Where the particles come from: read_native and read_hdf5                *)
(* (src/native.cpp, src/hdf5.cpp) read one snapshot, all of it or its      *)
(* first rows; discover and merge (src/batch.cpp) join the snapshots of a  *)
(* directory into one.  How merged.h5 is published is part of Package.     *)
(* A value is the particle it belongs to, <<file, row>>.  A native file is *)
(* a sequence of words of four bytes: six fields of one word a particle,   *)
(* then the IDs of two words.                                              *)
(***************************************************************************)
EXTENDS Integers, SequencesExt

CONSTANTS
  Entries,     (* the files there may be, in the order discover sorts them *)
  MostFiles,   (* in a directory                                           *)
  Limits,      (* --limit; 0 is none                                       *)
  Keys,        (* npart, npart_total, proc_size, rank                      *)
  Torn         (* a value that is not one particle's                       *)

Fields == 0..6

(* The dtype of a counter has the values below `top`, and as many negative *)
(* ones if it is signed; what is stored in it is taken modulo all of them. *)
InDtype(n, kind) ==
  LET all == IF kind.sign THEN 2 * kind.top ELSE kind.top
      low == n % all
  IN  IF kind.sign /\ low >= kind.top THEN low - all ELSE low

(* A file: its format ("config" is a cfg file without data), the number of *)
(* rows it claims, the IDs of the rows it has, whether its datasets are    *)
(* there and equally long, everything that must agree between files, and   *)
(* the mutable root attributes, whose npart can hold its own rows.         *)
IsEntry(f) ==
  /\ f.format \in {"hdf5", "native", "config"} /\ f.n \in Nat
  /\ f.ids \in Seq(Nat) /\ (f.format = "hdf5" => Len(f.ids) = f.n)
  /\ f.whole \in BOOLEAN
  /\ f.attrs \in [Keys -> [shape : {"scalar", "array", "none"}, top : Nat \ {0}, sign : BOOLEAN]]
  /\ "npart" \in Keys /\ f.attrs["npart"].shape # "none" => f.n < f.attrs["npart"].top

MergeAssumption ==
  /\ \A f \in Entries : IsEntry(f)
  /\ MostFiles \in Nat \ {0} /\ Limits \subseteq Nat
  /\ Torn \notin Nat \X Nat

VARIABLES
  files, merging, limit,
  position,      (* of the loop over files                                 *)
  columns,       (* Snapshot::data, joined.data                            *)
  value,         (* the values of the mutable root attributes              *)
  counts,        (* source_particle_counts                                 *)
  stage

arguments == <<files, merging, limit>>
vars == <<arguments, position, columns, value, counts, stage>>

Init ==
  /\ \E k \in 1..MostFiles : files \in [1..k -> Entries]
  /\ merging \in BOOLEAN
  /\ ~merging => Len(files) = 1 /\ files[1].format # "config"
  /\ limit \in IF merging THEN {0} ELSE Limits
  /\ position = 1
  /\ columns = [i \in Fields |-> <<>>] /\ value = <<>> /\ counts = <<>>
  /\ stage = IF merging THEN "discover" ELSE "read"

-------------------------------------------------------------------------------
(* read_hdf5, read_native                                                  *)

Rows(f) == Len(files[f].ids)
Count(f) == IF limit > 0 THEN Min({files[f].n, limit}) ELSE files[f].n

(* What stands at an offset of a native file: field, row, half of the ID.  *)
WordAt(f, offset) ==
  LET rest == offset - 6 * Rows(f)
  IN  IF rest < 0
      THEN <<(offset \div Rows(f)) + 1, (offset % Rows(f)) + 1, 0>>
      ELSE <<0, (rest \div 2) + 1, rest % 2>>

(* The mistake: a field begins where the rows that are read end.           *)
OffsetSelected(f, i) == Count(f) * (IF i = 0 THEN 6 ELSE i - 1)
Offset(f, i) == files[f].n * (IF i = 0 THEN 6 ELSE i - 1)

NativeValue(f, i, j) ==
  LET width == IF i = 0 THEN 2 ELSE 1
      words == [half \in 0..(width - 1) |->
                  WordAt(f, Offset(f, i) + width * (j - 1) + half)]
      row == words[0][2]
  IN  IF \A half \in DOMAIN words : words[half] = <<i, row, half>>
      THEN <<f, row>> ELSE Torn

Readable(f) ==
  /\ files[f].whole
  /\ files[f].format = "native" => files[f].n > 0 /\ files[f].n = Rows(f)

Snapshot(f) ==
  [i \in Fields |-> [j \in 1..Count(f) |->
     IF files[f].format = "native" THEN NativeValue(f, i, j) ELSE <<f, j>>]]

RootAttributes(f) ==
  [k \in {key \in Keys : files[f].attrs[key].shape # "none"} |->
     IF k = "npart" THEN Count(f) ELSE files[f].n]

Read ==
  /\ stage = "read" /\ Readable(1)
  /\ columns' = Snapshot(1) /\ value' = RootAttributes(1)
  /\ stage' = "done"
  /\ UNCHANGED <<arguments, position, counts>>

ReadThrows ==
  /\ stage = "read" /\ ~Readable(1)
  /\ stage' = "error"
  /\ UNCHANGED <<arguments, position, columns, value, counts>>

-------------------------------------------------------------------------------
(* discover, merge                                                         *)

DataFiles == {f \in DOMAIN files : files[f].format # "config"}
First == Min(DataFiles)

Discover ==
  /\ stage = "discover"
  /\ stage' = IF /\ DataFiles # {}
                 /\ \A f \in DOMAIN files \ DataFiles : files[f].n = 0
              THEN "join" ELSE "error"
  /\ UNCHANGED <<arguments, position, columns, value, counts>>

(* A cfg file without particles has no data file and is not in paths.      *)
Skip ==
  /\ stage = "join" /\ position \in DOMAIN files \ DataFiles
  /\ position' = position + 1
  /\ UNCHANGED <<arguments, columns, value, counts, stage>>

(* The mistake: the counts of the files are compared as well.              *)
AgreesInAll(f) == /\ files[f].schema = files[First].schema
                  /\ RootAttributes(f) = RootAttributes(First)

(* stable_attrs, and the schemas of the fields                             *)
Agrees(f) == files[f].schema = files[First].schema

Joinable(f) == Readable(f) /\ Count(f) > 0 /\ Agrees(f)

Join ==
  /\ stage = "join" /\ position \in DataFiles /\ Joinable(position)
  /\ columns' = [i \in Fields |-> columns[i] \o Snapshot(position)[i]]
  /\ value' = IF position = First THEN RootAttributes(position) ELSE value
  /\ counts' = Append(counts, Count(position))
  /\ position' = position + 1
  /\ UNCHANGED <<arguments, stage>>

JoinThrows ==
  /\ stage = "join" /\ position \in DataFiles /\ ~Joinable(position)
  /\ stage' = "error"
  /\ UNCHANGED <<arguments, position, columns, value, counts>>

Id(particle) == files[particle[1]].ids[particle[2]]

(* stable_id_order, and the comparison of neighbours. The mistake: the     *)
(* rows are compared as they were read.                                    *)
AsRead == columns[0]
Place(k) ==
  Cardinality({j \in DOMAIN columns[0] :
                 \/ Id(columns[0][j]) < Id(columns[0][k])
                 \/ Id(columns[0][j]) = Id(columns[0][k]) /\ j <= k})
Sorted ==
  [m \in DOMAIN columns[0] |-> columns[0][CHOOSE k \in DOMAIN columns[0] : Place(k) = m]]
OverlapIn(order) == \E i \in 2..Len(order) : Id(order[i - 1]) = Id(order[i])

CheckIds ==
  /\ stage = "join" /\ position > Len(files)
  /\ stage' = IF OverlapIn(Sorted) THEN "error" ELSE "attributes"
  /\ UNCHANGED <<arguments, position, columns, value, counts>>

Merged(key) == CASE key = "rank" -> 0 [] key = "proc_size" -> 1 [] OTHER -> Len(columns[0])

(* The mistake: the bit of the sign is taken for one of the value.         *)
FitsUnsigned(n, kind) == n < (IF kind.sign THEN 2 ELSE 1) * kind.top
Fits(n, kind) == n < kind.top

SetAttributes ==
  /\ stage = "attributes"
  /\ IF \A key \in DOMAIN value :
          LET kind == files[First].attrs[key]
          IN  kind.shape = "scalar" /\ Fits(Merged(key), kind)
     THEN /\ value' = [key \in DOMAIN value |-> Merged(key)]
          /\ stage' = "done"
     ELSE /\ value' = value
          /\ stage' = "error"
  /\ UNCHANGED <<arguments, position, columns, counts>>

Done == stage \in {"done", "error"} /\ UNCHANGED vars

Next ==
  \/ Read \/ ReadThrows
  \/ Discover \/ Skip \/ Join \/ JoinThrows \/ CheckIds \/ SetAttributes \/ Done

Spec == Init /\ [][Next]_vars

-------------------------------------------------------------------------------
(* A row of any snapshot, limited or joined, is one particle in all seven  *)
(* fields, and the rows are the first ones of the files, in order.         *)
RowsWhole ==
  stage # "error" =>
    \A i \in Fields, j \in 1..Len(columns[0]) :
      /\ Len(columns[i]) = Len(columns[0])
      /\ columns[i][j] = columns[0][j]
      /\ columns[0][j] # Torn
      /\ columns[0][j][2] = IF j > 1 /\ columns[0][j - 1][1] = columns[0][j][1]
                            THEN columns[0][j - 1][2] + 1 ELSE 1

AllRows == UNION {{<<f, j>> : j \in DOMAIN files[f].ids} : f \in DataFiles}

(* Merge publishes every particle of every file of the directory, and      *)
(* never two with one ID.                                                  *)
MergeExact ==
  stage = "done" /\ merging =>
    /\ ToSet(columns[0]) = AllRows
    /\ \A i, j \in DOMAIN columns[0] : i # j => Id(columns[0][i]) # Id(columns[0][j])

(* The counts that are written into the merged file are those of its rows, *)
(* also after the conversion to the attribute's dtype.                     *)
CountsTrue ==
  stage = "done" =>
    \A key \in DOMAIN value \cap {"npart", "npart_total"} :
      merging \/ (key = "npart" /\ limit > 0) =>
        InDtype(value[key], files[First].attrs[key]) = Len(columns[0])

(* Whatever fits together is merged: what differs between files by nature, *)
(* their counts and ranks, does not stand in the way.                      *)
Compatible ==
  /\ DataFiles # {}
  /\ \A f \in DOMAIN files :
       IF f \in DataFiles THEN /\ files[f].whole /\ files[f].n = Rows(f) /\ Rows(f) > 0
                               /\ files[f].schema = files[First].schema
       ELSE files[f].n = 0
  /\ \A f, g \in DataFiles : \A i \in 1..Rows(f), j \in 1..Rows(g) :
       <<f, i>> # <<g, j>> => files[f].ids[i] # files[g].ids[j]

MergesCompatible ==
  stage = "error" /\ merging /\ Compatible =>
    \E k \in Keys : LET kind == files[First].attrs[k]
                    IN  \/ kind.shape = "array"
                        \/ InDtype(Cardinality(AllRows), kind) # Cardinality(AllRows)

(* What merge publishes is the whole of what can be merged.                *)
MergeKept == RowsWhole /\ MergeExact /\ CountsTrue /\ MergesCompatible
===============================================================================
