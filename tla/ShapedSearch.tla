------------------------------ MODULE ShapedSearch ------------------------------
(***************************************************************************)
(* The dense box of a lattice field as a three-dimensional array           *)
(* (src/shaped.cpp): encode_shaped tries the orders of the axes, and then  *)
(* the directions of the best order, and keeps the smallest stream;        *)
(* decode_shaped undoes what the metadata names.  How long a stream gets   *)
(* is the codec's choice.  A value is the cell of the box it belongs to,   *)
(* and a codec returns the values in the order it was given.               *)
(***************************************************************************)
EXTENDS Integers, Functions

CONSTANTS
  Shapes,      (* shapes of the box                                        *)
  Sizes,       (* lengths of a stream                                      *)
  Lengths      (* lengths of an axis that damaged metadata may hold        *)

Axes == 0..2
Identity == [k \in Axes |-> k]
Unflipped == [k \in Axes |-> FALSE]

ShapedAssumption ==
  /\ Shapes \subseteq [Axes -> Nat \ {0}]
  /\ Sizes \subseteq Nat \ {0}
  /\ Lengths \subseteq Nat

VARIABLES
  shape, search,
  permutation, flips,    (* of the trial                                   *)
  tried,                 (* the length of every trial's stream             *)
  best,                  (* the values in the smallest stream              *)
  selected, selectedFlips,
  metadata,              (* base_shape, encoded_shape, axis_permutation... *)
  out,
  stage

box == <<shape, search>>
trials == <<permutation, flips, tried, best, selected, selectedFlips>>
vars == <<box, trials, metadata, out, stage>>

(* ---- transpose_order -------------------------------------------------- *)

Product(s) == s[0] * s[1] * s[2]
Turned(s, p) == [k \in Axes |-> s[p[k]]]

(* The mistake: every box may be cut into its cells by any axes.           *)
AreAxesInRange(p) == \A k \in Axes : p[k] \in Axes
AreAxes(p) == {p[k] : k \in Axes} = Axes

Coordinate(length, flip, c) == IF flip THEN length - c - 1 ELSE c

TransposeOrder(s, p, f) ==
  LET dims == Turned(s, p)
      At(i) == LET c == [k \in Axes |-> CASE k = 0 -> i \div (dims[1] * dims[2])
                                          [] k = 1 -> (i \div dims[2]) % dims[1]
                                          [] k = 2 -> i % dims[2]]
                   base(j) == LET K == {k \in Axes : p[k] = j}
                                  k == CHOOSE k \in K : TRUE
                              IN  IF K = {} THEN 0 ELSE Coordinate(dims[k], f[k], c[k])
               IN  (base(0) * s[1] + base(1)) * s[2] + base(2)
  IN  [i \in 0..(Product(dims) - 1) |-> At(i)]

(* ---- encode_shaped ---------------------------------------------------- *)

Init ==
  /\ shape \in Shapes /\ search \in BOOLEAN
  /\ permutation = Identity /\ flips = Unflipped
  /\ tried = <<>> /\ best = <<>>
  /\ selected = Identity /\ selectedFlips = Unflipped
  /\ metadata = <<>> /\ out = <<>>
  /\ stage = "permutations"

Trial ==
  \E size \in Sizes :
    /\ tried' = [trial \in DOMAIN tried \cup {<<permutation, flips>>} |->
                   IF trial = <<permutation, flips>> THEN size ELSE tried[trial]]
    /\ IF best = <<>> \/ size < tried[<<selected, selectedFlips>>]
       THEN /\ best' = TransposeOrder(shape, permutation, flips)
            /\ selected' = permutation /\ selectedFlips' = flips
       ELSE UNCHANGED <<best, selected, selectedFlips>>

(* std::next_permutation, and the bits of the directions                   *)
Rank(p) == 9 * p[0] + 3 * p[1] + p[2]
Later(p) == {q \in Bijection(Axes, Axes) : Rank(q) > Rank(p)}
NextPermutation(p) == CHOOSE q \in Later(p) : \A r \in Later(p) : Rank(q) <= Rank(r)
Bits(f) == Rank([k \in Axes |-> IF f[k] THEN 1 ELSE 0])
MoreFlips(f) == {g \in [Axes -> BOOLEAN] : Bits(g) > Bits(f)}
NextFlips(f) == CHOOSE g \in MoreFlips(f) : \A h \in MoreFlips(f) : Bits(g) <= Bits(h)

TryPermutation ==
  /\ stage = "permutations"
  /\ Trial
  /\ IF search /\ Later(permutation) # {}
     THEN permutation' = NextPermutation(permutation) /\ stage' = stage
     ELSE permutation' = permutation /\ stage' = IF search THEN "best" ELSE "store"
  /\ UNCHANGED <<box, flips, metadata, out>>

(* auto p = selected.  The mistake: the loop's last permutation is turned. *)
FlipLast ==
  /\ stage = "best"
  /\ flips' = NextFlips(Unflipped)
  /\ stage' = "flips"
  /\ UNCHANGED <<box, permutation, tried, best, selected, selectedFlips, metadata, out>>

FlipBest ==
  /\ stage = "best"
  /\ permutation' = selected /\ flips' = NextFlips(Unflipped)
  /\ stage' = "flips"
  /\ UNCHANGED <<box, tried, best, selected, selectedFlips, metadata, out>>

TryFlips ==
  /\ stage = "flips"
  /\ Trial
  /\ IF MoreFlips(flips) # {}
     THEN flips' = NextFlips(flips) /\ stage' = stage
     ELSE flips' = flips /\ stage' = "store"
  /\ UNCHANGED <<box, permutation, metadata, out>>

(* The mistake: the metadata names the last trial, not the best.           *)
StoreLast ==
  /\ stage = "store"
  /\ metadata' = [count |-> Product(shape), base |-> shape,
                  encoded |-> Turned(shape, permutation),
                  axes |-> permutation, flips |-> flips]
  /\ stage' = "stored"
  /\ UNCHANGED <<box, trials, out>>

Store ==
  /\ stage = "store"
  /\ metadata' = [count |-> Product(shape), base |-> shape,
                  encoded |-> Turned(shape, selected),
                  axes |-> selected, flips |-> selectedFlips]
  /\ stage' = "stored"
  /\ UNCHANGED <<box, trials, out>>

(* One entry of the metadata is damaged; the trials are long over.         *)
Damage ==
  /\ stage = "stored"
  /\ \/ \E n \in Lengths : metadata' = [metadata EXCEPT !.count = n]
     \/ \E s \in [Axes -> Lengths] : \/ metadata' = [metadata EXCEPT !.base = s]
                                     \/ metadata' = [metadata EXCEPT !.encoded = s]
     \/ \E p \in [Axes -> 0..3] : metadata' = [metadata EXCEPT !.axes = p]
     \/ \E f \in [Axes -> BOOLEAN] : metadata' = [metadata EXCEPT !.flips = f]
  /\ stage' = "damaged"
  /\ tried' = <<>>
  /\ UNCHANGED <<box, permutation, flips, best, selected, selectedFlips, out>>

(* ---- decode_shaped ---------------------------------------------------- *)

(* The mistake: encoded_shape is not compared.                             *)
EncodedAnyhow(m) == TRUE
EncodedAgrees(m) == m.encoded = Turned(m.base, m.axes)

Accepts(m) ==
  /\ \A k \in Axes : m.base[k] > 0 /\ m.encoded[k] > 0
  /\ Product(m.base) = m.count /\ Product(m.encoded) = m.count
  /\ AreAxes(m.axes)
  /\ EncodedAgrees(m)

(* The inverse of order, and the gather by it: the value at encoded place  *)
(* i goes to the cell order[i].                                            *)
Decode ==
  /\ stage \in {"stored", "damaged"} /\ Accepts(metadata)
  /\ LET order == TransposeOrder(metadata.base, metadata.axes, metadata.flips)
     IN  out' = [cell \in 0..(metadata.count - 1) |->
                   LET I == {i \in DOMAIN order : order[i] = cell}
                   IN  best[IF I = {} THEN 0 ELSE CHOOSE i \in I : \A j \in I : j <= i]]
  /\ stage' = IF stage = "stored" THEN "decoded" ELSE "accepted"
  /\ UNCHANGED <<box, trials, metadata>>

DecodeThrows ==
  /\ stage \in {"stored", "damaged"} /\ ~Accepts(metadata)
  /\ stage' = IF stage = "stored" THEN "refused" ELSE "error"
  /\ UNCHANGED <<box, trials, metadata, out>>

Done == stage \in {"decoded", "accepted", "refused", "error"} /\ UNCHANGED vars

Next ==
  \/ TryPermutation \/ FlipBest \/ TryFlips \/ Store \/ Damage
  \/ Decode \/ DecodeThrows \/ Done

Spec == Init /\ [][Next]_vars

-------------------------------------------------------------------------------
(* Whatever axes won, every value comes back to its cell.                  *)
CellsBack ==
  /\ stage = "decoded" => out = [cell \in 0..(Product(shape) - 1) |-> cell]
  /\ stage # "refused"

(* What is stored is the smallest of the streams a search promises: those  *)
(* of all six orders of the axes, and all eight directions of the best.    *)
SearchWhole ==
  stage = "stored" =>
    LET size == tried[<<selected, selectedFlips>>]
        wanted == IF search
                  THEN (Bijection(Axes, Axes) \X {Unflipped}) \cup ({selected} \X [Axes -> BOOLEAN])
                  ELSE {<<Identity, Unflipped>>}
    IN  /\ wanted \subseteq DOMAIN tried
        /\ \A trial \in DOMAIN tried : size <= tried[trial]

(* Damaged metadata that is accepted still returns every value once.       *)
CellsOnce ==
  stage = "accepted" => {out[cell] : cell \in DOMAIN out} = 0..(Product(shape) - 1)

(* Values at a wrong cell can only come from other directions, or from an  *)
(* exchange of axes of one length.                                         *)
AxesJudged ==
  stage = "accepted" /\ metadata.flips = selectedFlips /\ IsInjective(shape) =>
    out = [cell \in 0..(Product(shape) - 1) |-> cell]

(* The search keeps the smallest stream and the cells of its values, and   *)
(* damaged metadata neither lose a value nor go unnoticed where it shows.  *)
ShapedKept == CellsBack /\ SearchWhole /\ CellsOnce /\ AxesJudged
===============================================================================
