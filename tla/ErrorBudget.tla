------------------------------ MODULE ErrorBudget ------------------------------
(***************************************************************************)
(* What becomes of an error bound (src/pipeline.cpp, src/metrics.cpp):     *)
(* selection turns the options into a requested bound of every component,  *)
(* preprocess casts the values to float and subtracts what that and the    *)
(* later rounding cost, the codec spends the rest, decompress scales,      *)
(* clamps and rounds to the dtype of the source, and compute_metrics       *)
(* judges the result.                                                      *)
(* A codec returns anything within the bound it is given.  Lengths are     *)
(* whole numbers of a small unit, after the division by position_scale;    *)
(* arithmetic of doubles is exact, and the values of a dtype are evenly    *)
(* spaced.  "sz3" stands for sz3 and szo, which are used alike.            *)
(***************************************************************************)
EXTENDS Integers, FiniteSets

CONSTANTS
  Axes,        (* the components of a vector that are followed             *)
  Rows,        (* the particles                                            *)
  Unit,        (* the distance of two integer values after scaling, even   *)
  Grid,        (* the distance of two floats                               *)
  Steps,       (* the distances of two values of a floating-point source   *)
  High,        (* the largest value of the integer dtype; the least is 0   *)
  Reals,       (* the values that floating-point sources have              *)
  Reach,       (* the largest magnitude of a value                         *)
  Bounds,      (* absolute bounds that may be asked for                    *)
  One, Slack,  (* the length 1, and the part of it that metrics tolerate   *)
  Parts,       (* relative bounds are asked for in this fraction           *)
  Shares,      (* relative bounds that may be asked for                    *)
  None         (* an option that is not given                              *)

ASSUME ErrorBudgetAssumption ==
  /\ Unit \in Nat \ {0} /\ Unit % 2 = 0
  /\ Grid \in Nat \ {0} /\ Steps \subseteq Nat \ {0}
  /\ One \in Nat /\ Slack \in Nat \ {0}
  /\ High \in Nat /\ High % Unit = 0
  /\ Reach \in Nat /\ High <= Reach
  /\ Reals \subseteq (-Reach)..Reach
  /\ Rows # {} /\ Axes # {} /\ Axes \subseteq 0..2
  /\ Bounds \subseteq Nat /\ Shares \subseteq Nat /\ Parts \in Nat \ {0}
  /\ None \notin Nat

VARIABLES
  group, codec,  (* positions or velocities, and their codec               *)
  integer, step, (* the kind of their dtype, the distance of its values    *)
  source,        (* source.data                                            *)
  mode,          (* field_error_bounds[...]["mode"]                        *)
  requested,     (* ["abs"], by axis                                       *)
  vectorAsked,   (* ["abs"] of positions_xnyzip or velocities_xnyzip       *)
  prepared,      (* the values the codec is given                          *)
  cast,          (* preprocess_cast_max_abs, by axis                       *)
  bound,         (* ["compressor_abs"], by axis                            *)
  least,         (* positions_lcp_abs or velocities_lcp_abs                *)
  row,           (* the particle that is followed from here                *)
  decoded, restored,
  satisfied,     (* ["satisfied"], by axis                                 *)
  stage

sources == <<group, codec, integer, step, source>>
asked == <<mode, requested, vectorAsked>>
budget == <<prepared, cast, bound, least>>
results == <<row, decoded, restored, satisfied>>
vars == <<sources, asked, budget, results, stage>>

Integral == {v \in 0..High : v % Unit = 0}
Floating(s) == {v \in Reals : v % s = 0}

(* Velocities are not scaled: theirs are floats, or doubles between them.  *)
Spacings(g) == IF g = "positions" THEN Steps ELSE {s \in Steps : Grid % s = 0}

Zero == [k \in Axes |-> 0]

Abs(v) == IF v < 0 THEN -v ELSE v
Positive(v) == IF v > 0 THEN v ELSE 0
Nearest(v, width) ==
  {g \in (v - width)..(v + width) : g % width = 0 /\ 2 * Abs(g - v) <= width}
IsLargest(m, S) == m \in S /\ \A s \in S : s <= m
IsLeast(m, S) == m \in S /\ \A s \in S : m <= s

Init ==
  /\ group \in {"positions", "velocities"}
  /\ codec \in {"lcp", "xnyzip", "sz3", "pcodec"}
  /\ integer \in IF group = "positions" THEN BOOLEAN ELSE {FALSE}
  /\ step \in IF integer THEN {Unit} ELSE Spacings(group)
  /\ source \in [Rows -> [Axes -> IF integer THEN Integral ELSE Floating(step)]]
  /\ mode = "lossless" /\ requested = Zero /\ vectorAsked = 0
  /\ prepared = source /\ cast = Zero /\ bound = Zero /\ least = 0
  /\ row \in Rows
  /\ decoded = Zero /\ restored = Zero
  /\ satisfied = [k \in Axes |-> FALSE]
  /\ stage = "select"

-------------------------------------------------------------------------------
(* selection                                                               *)

Column(k) == {source[j][k] : j \in Rows}
Corners == [Axes -> UNION {Column(k) : k \in Axes}]
IsBox(low, high) ==
  \A k \in Axes : IsLeast(low[k], Column(k)) /\ IsLargest(high[k], Column(k))

SumOfSquares(f) ==
  LET square(k) == IF k \in Axes THEN f[k] * f[k] ELSE 0
  IN  square(0) + square(1) + square(2)

(* The part of the diagonal of the bounding box, rounded down.             *)
OfDiagonal(share, range) ==
  LET square == share * share * SumOfSquares(range)
  IN  CHOOSE r \in 0..square : /\ r * r * Parts * Parts <= square
                               /\ square < (r + 1) * (r + 1) * Parts * Parts

Select ==
  /\ stage = "select" /\ codec # "pcodec"
  /\ \E field, overall \in (Bounds \cup {None}) \X (Shares \cup {None}),
        low, high \in Corners :
       LET given == IF field = <<None, None>> THEN overall ELSE field
           range == [k \in Axes |-> high[k] - low[k]]
       IN  /\ IsBox(low, high)
           /\ field[1] = None \/ field[2] = None
           /\ given # <<None, None>>
           /\ IF given[2] # None
              THEN /\ mode' = "relative"
                   /\ requested' = [k \in Axes |-> (given[2] * range[k]) \div Parts]
                   /\ vectorAsked' = OfDiagonal(given[2], range)
              ELSE /\ mode' = "absolute"
                   /\ requested' = [k \in Axes |-> given[1]]
                   /\ vectorAsked' = given[1]
  /\ stage' = "preprocess"
  /\ UNCHANGED <<sources, budget, results>>

SelectLossless ==
  /\ stage = "select" /\ codec = "pcodec"
  /\ stage' = "preprocess"
  /\ UNCHANGED <<sources, asked, budget, results>>

(* "cannot both be set", "No error bound selected"                         *)
SelectThrows ==
  /\ stage = "select" /\ codec # "pcodec"
  /\ stage' = "error"
  /\ UNCHANGED <<sources, asked, budget, results>>

-------------------------------------------------------------------------------
(* preprocess                                                              *)

(* exported[i] for positions, the cast of the triplet codecs for velocities *)
IsCast ==
  IF group = "positions" THEN codec # "pcodec" ELSE codec \in {"lcp", "xnyzip"}

(* The mistake: the rounding of decompress is not set aside.               *)
RoundingForgotten == 0
Rounding == IF group = "positions" /\ integer THEN Unit \div 2 ELSE 0

Preparation(k, casts) == casts[k] + Rounding

(* The bounds of single components from which preparation is taken off.    *)
Reduced ==
  IF group = "positions" THEN mode = "relative" ELSE codec = "lcp"

Remaining(k, casts) ==
  IF Reduced THEN Positive(requested[k] - Preparation(k, casts)) ELSE requested[k]

Floats == UNION {Nearest(source[j][k], Grid) : j \in Rows, k \in Axes}

Prepared ==
  IF IsCast
  THEN {p \in [Rows -> [Axes -> Floats]] :
          \A j \in Rows, k \in Axes : p[j][k] \in Nearest(source[j][k], Grid)}
  ELSE {source}

PreparedSquares(casts) == SumOfSquares([k \in Axes |-> Preparation(k, casts)])

HasBudget(casts) ==
  codec = "xnyzip" => vectorAsked * vectorAsked > PreparedSquares(casts)

Preprocess ==
  /\ stage = "preprocess"
  /\ prepared' \in Prepared
  /\ cast' \in [Axes -> {Abs(prepared'[j][k] - source[j][k]) : j \in Rows, k \in Axes}]
  /\ \A k \in Axes : IsLargest(cast'[k], {Abs(prepared'[j][k] - source[j][k]) : j \in Rows})
  /\ least' \in {Remaining(k, cast') : k \in Axes}
  /\ \A k \in Axes : least' <= Remaining(k, cast')
  /\ bound' = [k \in Axes |-> IF group = "velocities" /\ codec = "lcp"
                              THEN least' ELSE Remaining(k, cast')]
  /\ stage' = IF HasBudget(cast') THEN "encode" ELSE "error"
  /\ UNCHANGED <<sources, asked, results>>

-------------------------------------------------------------------------------
(* compress and decompress, for one particle                               *)

(* The bound a scalar codec or lcp is given.                               *)
Given(k) == IF codec = "lcp" THEN least ELSE bound[k]

(* sqrt(errors) <= asked - sqrt(prepared), without roots                   *)
WithinVector(errors, prep, most) ==
  LET left == most * most - errors - prep
  IN  left >= 0 /\ 4 * errors * prep <= left * left

(* The mistake: the codec may use all of the requested bound.              *)
WithinBudgetWhole(e) == SumOfSquares(e) <= vectorAsked * vectorAsked
WithinBudget(e) ==
  WithinVector(SumOfSquares(e), PreparedSquares(cast), vectorAsked)

(* The values a codec may return: of the dtype it was given.               *)
Returned(v, most) ==
  {g \in (v - most)..(v + most) : g % (IF IsCast THEN Grid ELSE step) = 0}

(* encode_native's validation, and the promise of the other codecs         *)
Decode ==
  /\ stage = "encode"
  /\ \E d \in [Axes -> UNION {Returned(prepared[row][k],
                                       IF codec = "xnyzip" THEN vectorAsked ELSE Given(k)) :
                              k \in Axes}] :
       /\ IF codec = "xnyzip"
          THEN WithinBudget([k \in Axes |-> d[k] - prepared[row][k]])
          ELSE \A k \in Axes : d[k] \in Returned(prepared[row][k], Given(k))
       /\ decoded' = d
  /\ stage' = "decoded"
  /\ UNCHANGED <<sources, asked, budget, row, restored, satisfied>>

(* The mistakes: the fraction is cut off, the value wraps around.          *)
RoundedCut(v) == {g \in (v - step)..v : g % step = 0 /\ v - g < step}
ClampedWrapping(v) == v % (High + Unit)

(* std::nearbyint, or Array::set to a float; std::clamp for integers       *)
Rounded(v) == Nearest(v, step)
Clamped(v) == IF v < 0 THEN 0 ELSE IF v > High THEN High ELSE v

Restore ==
  /\ stage = "decoded"
  /\ IF group = "positions" /\ codec # "pcodec"
     THEN \E n \in [Axes -> UNION {Rounded(decoded[k]) : k \in Axes}] :
            /\ \A k \in Axes : n[k] \in Rounded(decoded[k])
            /\ restored' = [k \in Axes |-> IF integer THEN Clamped(n[k]) ELSE n[k]]
     ELSE restored' = decoded
  /\ stage' = "restored"
  /\ UNCHANGED <<sources, asked, budget, row, decoded, satisfied>>

-------------------------------------------------------------------------------
(* compute_metrics                                                         *)

Error(k) == Abs(restored[k] - source[row][k])
ErrorSquares == SumOfSquares([k \in Axes |-> Error(k)])

Allowance(k) ==
  IF group = "positions" \/ codec = "lcp" THEN cast[k] ELSE 0

Effective(k) ==
  IF codec = "xnyzip" THEN vectorAsked
  ELSE IF mode = "relative" THEN requested[k]
  ELSE bound[k] + Allowance(k) + Rounding

(* 1e-6 * max(1, effective)                                                *)
Tolerance(most) == (IF most > One THEN most ELSE One) \div Slack
Tolerated(most) == most + Tolerance(most)

Judge ==
  /\ stage = "restored"
  /\ satisfied' =
       [k \in Axes |->
          /\ Error(k) <= Tolerated(Effective(k))
          /\ codec = "xnyzip" =>
               ErrorSquares <= Tolerated(vectorAsked) * Tolerated(vectorAsked)]
  /\ stage' = "judged"
  /\ UNCHANGED <<sources, asked, budget, row, decoded, restored>>

Done == stage \in {"judged", "error"} /\ UNCHANGED vars

Next ==
  \/ Select \/ SelectLossless \/ SelectThrows \/ Preprocess
  \/ Decode \/ Restore \/ Judge \/ Done

Spec == Init /\ [][Next]_vars

-------------------------------------------------------------------------------
Over == stage \in {"restored", "judged"}

(* What no budget sets aside: scaled positions are rounded once more when  *)
(* they become floats of the source, unless these are floats of the codec, *)
(* or lie between them.                                                    *)
Lost ==
  IF group = "positions" /\ ~integer /\ Grid % step # 0 THEN step \div 2 ELSE 0

(* A relative bound, and every bound of lcp velocities, is kept from the   *)
(* source to the reconstruction, through the casts, the codec, the         *)
(* rounding and the clamping, wherever it leaves room for the preparation; *)
(* an absolute bound of positions is exceeded by the preparation at most.  *)
(* Scaled floating-point positions may lie farther by the last rounding.   *)
RequestKept ==
  Over /\ codec \in {"lcp", "sz3"} =>
    \A k \in Axes :
      LET reserve == IF group = "positions" THEN Preparation(k, cast) ELSE Allowance(k)
      IN  IF group = "positions" /\ mode = "absolute"
          THEN Error(k) <= requested[k] + reserve + Lost
          ELSE requested[k] >= reserve => Error(k) <= requested[k] + Lost

(* The vector bound of xnyzip is kept from the source to the               *)
(* reconstruction, whatever way the budget was split; only the last        *)
(* rounding of scaled floating-point positions comes on top, once for      *)
(* every component.                                                        *)
Beyond(k) == Positive(Error(k) - Lost)

VectorKept ==
  Over /\ codec = "xnyzip" =>
    SumOfSquares([k \in Axes |-> Beyond(k)]) <= vectorAsked * vectorAsked

(* Integer positions are off by no more whole units than the bound and the *)
(* cast amount to, rounded to the nearest: with less than half a unit,     *)
(* they are exact.                                                         *)
IntegersTight ==
  Over /\ integer /\ codec \in {"lcp", "sz3"} =>
    \A k \in Axes :
      Error(k) <= Unit * ((Given(k) + cast[k] + Unit \div 2) \div Unit)

(* Metrics report a bound as missed, when every codec kept its own, in two *)
(* cases only: the preparation alone had used up a relative bound, or the  *)
(* last rounding of scaled floating-point positions is more than metrics   *)
(* tolerate.                                                               *)
Exhausted(k) ==
  /\ mode = "relative" /\ codec # "xnyzip"
  /\ requested[k] < (IF group = "positions" THEN Preparation(k, cast) ELSE Allowance(k))

Untolerated(k) ==
  IF codec = "xnyzip"
  THEN SumOfSquares([j \in Axes |-> Lost])
         > Tolerance(vectorAsked) * Tolerance(vectorAsked)
  ELSE Lost > Tolerance(Effective(k))

VerdictFair ==
  stage = "judged" =>
    \A k \in Axes : satisfied[k] \/ Exhausted(k) \/ Untolerated(k)
===============================================================================
