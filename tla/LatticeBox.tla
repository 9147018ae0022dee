------------------------------ MODULE LatticeBox ------------------------------
(***************************************************************************)
(* The dense box of the lattice layout (src/layout.cpp): infer_lattice     *)
(* finds the smallest periodic box that holds the cells of all particle    *)
(* IDs, lattice_encode puts a field into it and fills the cells without a  *)
(* particle by interpolation, load_lattice finds the box again from the    *)
(* manifest and the decoded IDs, lattice_decode takes the field out.       *)
(* The value of a particle is its row.                                     *)
(***************************************************************************)
EXTENDS Integers, FiniteSets, SequencesExt

CONSTANTS
  Side,           (* the attribute nsidemesh                               *)
  Ids,            (* the particle IDs there may be                         *)
  MaxParticles,   (* bound on the number of particles                      *)
  MinDense,       (* the fewest cells a box may have (10000)               *)
  Occupancy       (* the option lattice_min_occupancy, in percent          *)

LatticeAssumption ==
  /\ Side \in Nat \ {0}
  /\ Ids \subseteq Nat
  /\ MaxParticles \in Nat \ {0}
  /\ MinDense \in Nat /\ Occupancy \in 0..100

Axes == 0..2
Total == Side * Side * Side

VARIABLES
  ids,             (* the IDs by row                                       *)
  base,            (* Lattice::base                                        *)
  starts, shape,   (* Lattice::starts, Lattice::shape                      *)
  indices,         (* Lattice::indices: the cell of every row in the box   *)
  dense,           (* cell |-> the rows its value comes from               *)
  next, index,     (* the loop variables of the hole filling               *)
  loaded,          (* the indices load_lattice computes                    *)
  out,             (* the rows taken out by lattice_decode                 *)
  stage

box == <<ids, base, starts, shape, indices>>
vars == <<box, dense, next, index, loaded, out, stage>>

Init ==
  /\ \E present \in UNION {kSubset(n, Ids) : n \in 1..MaxParticles} :
       ids \in SetToSeqs(present)
  /\ base = 0
  /\ starts = [k \in Axes |-> 0] /\ shape = [k \in Axes |-> 1]
  /\ indices = <<>> /\ dense = <<>> /\ next = 0 /\ index = 0
  /\ loaded = <<>> /\ out = <<>>
  /\ stage = "infer"

-------------------------------------------------------------------------------
(* infer_lattice                                                           *)

(* coordinates                                                             *)
Coordinates(id, b) ==
  LET v == id - b
  IN  [k \in Axes |-> CASE k = 0 -> v \div (Side * Side)
                        [] k = 1 -> (v \div Side) % Side
                        [] k = 2 -> v % Side]

FitsBase(b) == \A i \in DOMAIN ids : ids[i] >= b /\ ids[i] < Total + b

Present(b, k) == {Coordinates(ids[i], b)[k] : i \in DOMAIN ids}

(* The next occupied coordinate around the period.                         *)
Following(present, v) ==
  IF \E w \in present : w > v THEN Min({w \in present : w > v}) ELSE Min(present)

Gap(present, v) == (Following(present, v) + Side - v) % Side

(* The mistake: a box that begins at the smallest coordinate.              *)
StartAtSmallest(present) == Min(present)

(* The box starts behind the first of the largest gaps.                    *)
Start(present) ==
  IF Cardinality(present) \in {1, Side} THEN Min(present)
  ELSE Following(present,
         CHOOSE v \in present : \A w \in present :
           \/ Gap(present, v) > Gap(present, w)
           \/ Gap(present, v) = Gap(present, w) /\ v <= w)

Span(present) ==
  IF Cardinality(present) = Side THEN Side
  ELSE Max({((x + Side - Start(present)) % Side) + 1 : x \in present})

(* index_of                                                                *)
LocalOf(c, begin) == [k \in Axes |-> (c[k] + Side - begin[k]) % Side]

Inside(c, begin, extent) == \A k \in Axes : LocalOf(c, begin)[k] < extent[k]

(* The mistake: the row length of the wrong axis.                          *)
IndexOfWrongRow(c, begin, extent) ==
  LET l == LocalOf(c, begin) IN (l[0] * extent[1] + l[1]) * extent[1] + l[2]
IndexOf(c, begin, extent) ==
  LET l == LocalOf(c, begin) IN (l[0] * extent[1] + l[1]) * extent[2] + l[2]

DenseCount == shape[0] * shape[1] * shape[2]

(* The tests of the lattice layout; the structured layout goes without.    *)
WorthIt(extent) ==
  LET cells == extent[0] * extent[1] * extent[2]
  IN  cells >= MinDense /\ Len(ids) * 100 >= Occupancy * cells

(* The base with the better score against the positions, which may be any  *)
(* that the IDs fit; the axes are not needed for the box.                  *)
Infer ==
  /\ stage = "infer"
  /\ \E b \in {0, 1}, structured \in BOOLEAN :
       /\ FitsBase(b)
       /\ base' = b
       /\ starts' = [k \in Axes |-> Start(Present(b, k))]
       /\ shape' = [k \in Axes |-> Span(Present(b, k))]
       /\ stage' = IF structured \/ WorthIt(shape') THEN "scatter" ELSE "disabled"
  /\ indices' = [i \in DOMAIN ids |-> IndexOf(Coordinates(ids[i], base'), starts', shape')]
  /\ UNCHANGED <<ids, dense, next, index, loaded, out>>

(* "Particle IDs fit neither zero-based nor one-based lattice"             *)
InferThrows ==
  /\ stage = "infer"
  /\ ~\E b \in {0, 1} : FitsBase(b)
  /\ stage' = "disabled"
  /\ UNCHANGED <<box, dense, next, index, loaded, out>>

-------------------------------------------------------------------------------
(* lattice_encode                                                          *)

(* The rows by index: the row that has m rows up to itself.                *)
Order ==
  [m \in DOMAIN ids |->
     CHOOSE i \in DOMAIN ids : Cardinality({j \in DOMAIN ids : indices[j] <= indices[i]}) = m]

(* A cell without a particle is zero until it is filled.                   *)
Scatter ==
  /\ stage = "scatter"
  /\ dense' = [cell \in 0..(DenseCount - 1) |->
                 {i \in DOMAIN ids : indices[i] = cell}]
  /\ stage' = "fill"
  /\ UNCHANGED <<box, next, index, loaded, out>>

(* `next` moves past the particles before this cell.                       *)
Passed(from) ==
  CHOOSE n \in from..Len(ids) :
    /\ n < Len(ids) => indices[Order[n + 1]] >= index
    /\ \A m \in from..(n - 1) : indices[Order[m + 1]] < index

(* The particles before and behind a hole.                                 *)
Neighbours(n) == {Order[m] : m \in {n, n + 1} \cap DOMAIN Order}

(* The mistakes: an occupied cell is filled too; next stays behind.        *)
FillOccupied ==
  /\ stage = "fill" /\ index < DenseCount
  /\ LET n == Passed(next) IN
       /\ next' = n
       /\ dense' = [dense EXCEPT ![index] = Neighbours(n)]
  /\ index' = index + 1
  /\ UNCHANGED <<box, loaded, out, stage>>
FillFromFirst ==
  /\ stage = "fill" /\ index < DenseCount
  /\ dense' = IF \E i \in DOMAIN ids : indices[i] = index
                THEN dense ELSE [dense EXCEPT ![index] = Neighbours(next)]
  /\ index' = index + 1
  /\ UNCHANGED <<box, next, loaded, out, stage>>

Fill ==
  /\ stage = "fill" /\ index < DenseCount
  /\ LET n == Passed(next) IN
       /\ next' = n
       /\ dense' = IF n < Len(ids) /\ indices[Order[n + 1]] = index
                     THEN dense ELSE [dense EXCEPT ![index] = Neighbours(n)]
  /\ index' = index + 1
  /\ UNCHANGED <<box, loaded, out, stage>>

Filled ==
  /\ stage = "fill" /\ index = DenseCount
  /\ stage' = "load"
  /\ UNCHANGED <<box, dense, next, index, loaded, out>>

-------------------------------------------------------------------------------
(* load_lattice and lattice_decode                                         *)

LoadFits ==
  /\ \A k \in Axes : starts[k] < Side /\ shape[k] \in 1..Side
  /\ \A i \in DOMAIN ids :
       ids[i] >= base /\ ids[i] < Total + base /\ Inside(Coordinates(ids[i], base), starts, shape)
  /\ \A i, j \in DOMAIN ids :
       IndexOf(Coordinates(ids[i], base), starts, shape)
         = IndexOf(Coordinates(ids[j], base), starts, shape) => i = j

Load ==
  /\ stage = "load" /\ LoadFits
  /\ loaded' = [i \in DOMAIN ids |-> IndexOf(Coordinates(ids[i], base), starts, shape)]
  /\ stage' = "gather"
  /\ UNCHANGED <<box, dense, next, index, out>>

LoadThrows ==
  /\ stage = "load" /\ ~LoadFits
  /\ stage' = "refused"
  /\ UNCHANGED <<box, dense, next, index, loaded, out>>

Decode ==
  /\ stage = "gather"
  /\ out' = [i \in DOMAIN ids |-> dense[loaded[i]]]
  /\ stage' = "restored"
  /\ UNCHANGED <<box, dense, next, index, loaded>>

Done == stage \in {"disabled", "refused", "restored"} /\ UNCHANGED vars

Next ==
  \/ Infer \/ InferThrows \/ Scatter \/ Fill \/ Filled
  \/ Load \/ LoadThrows \/ Decode \/ Done

Spec == Init /\ [][Next]_vars

-------------------------------------------------------------------------------
(* Properties.                                                             *)

Inferred == stage \notin {"infer", "disabled"}

(* layout.cpp:172: the box holds every coordinate, around the period too,  *)
(* and no box with another start would be smaller.                         *)
BoxSmallest ==
  Inferred => \A k \in Axes :
    LET reach(s) == Max({((x + Side - s) % Side) + 1 : x \in Present(base, k)})
    IN  /\ reach(starts[k]) <= shape[k]
        /\ \A s \in 0..(Side - 1) : shape[k] <= reach(s)

(* layout.cpp:21, 186: index_of does not throw on the particles the box    *)
(* was made for, and no two share a cell.                                  *)
CellsOwned ==
  Inferred =>
    /\ \A i \in DOMAIN ids : Inside(Coordinates(ids[i], base), starts, shape)
    /\ \A i \in DOMAIN ids : indices[i] \in 0..(DenseCount - 1)
    /\ \A i, j \in DOMAIN ids : indices[i] = indices[j] => i = j

(* layout.cpp:258: a hole gets a value between those of the nearest        *)
(* particles before and behind it, and of one of them at the ends.         *)
HolesBetween ==
  \A hole \in 0..(index - 1) :
    (~\E i \in DOMAIN ids : indices[i] = hole) =>
      LET before == {i \in DOMAIN ids : indices[i] < hole}
          behind == {i \in DOMAIN ids : indices[i] > hole}
      IN  dense[hole] =
            {i \in before : \A j \in before : indices[j] <= indices[i]}
            \cup {i \in behind : \A j \in behind : indices[j] >= indices[i]}

(* layout.cpp:196, 280: the lattice of the manifest is accepted, and every *)
(* particle gets its own value back, whatever the holes around it hold.    *)
FieldRestored ==
  /\ stage # "refused"
  /\ stage = "restored" => \A i \in DOMAIN ids : out[i] = {i}

(* A field survives the box: the cells are the particles' own, the holes   *)
(* are filled without touching them, and each gets its value back.         *)
FieldKept == CellsOwned /\ HolesBetween /\ FieldRestored
===============================================================================
