---------------------------- MODULE LatticeResidual ----------------------------
(***************************************************************************)
(* A position in the lattice layout: lattice_encode (src/layout.cpp)       *)
(* replaces it by its distance from its lattice site around the period,    *)
(* and compress_lattice_field (src/layout_pipeline.cpp) takes what the     *)
(* transform costs off the error bound, or does without the transform when *)
(* nothing is left; lattice_decode puts the position together again.       *)
(* One component of one particle: the others can only make `error`, and    *)
(* with it the guard, larger.  Lengths are whole numbers of a small unit.  *)
(***************************************************************************)
EXTENDS Integers

CONSTANTS
  Period,      (* the side of the box, 1.0; even                           *)
  Side,        (* lattice sites along it                                   *)
  Grid,        (* the distance of two floats of the largest magnitude      *)
  Residuals,   (* the distance of two floats up to half the period         *)
  Values,      (* the positions there may be                               *)
  Bounds       (* compressor_abs of the field                              *)

ASSUME LatticeResidualAssumption ==
  /\ Period \in Nat \ {0} /\ Period % 2 = 0
  /\ Side \in Nat \ {0}
  /\ Grid \in Nat \ {0}
  /\ Residuals \in 1..Grid
  /\ Values \subseteq Int
  /\ Bounds \subseteq Nat

VARIABLES
  value,         (* the position                                           *)
  site,          (* Lattice::coordinates                                   *)
  requested,     (* requested_compressor_abs                               *)
  transformed,   (* the value in the dense box                             *)
  wrap,          (* the sidecar lattice_wrap_field                         *)
  residual,      (* lattice_transform: residual_name or identity           *)
  error,         (* transform_roundtrip_max_abs                            *)
  bound,         (* abs_error_bound, what the codec is given               *)
  returned,      (* what the codec returns                                 *)
  out,           (* the decoded position                                   *)
  stage

input == <<value, site, requested>>
encoding == <<transformed, wrap, residual, error, bound>>
vars == <<input, encoding, returned, out, stage>>

Abs(v) == IF v < 0 THEN -v ELSE v

(* The values a conversion to float may give.                              *)
Nearest(v, step) ==
  {g \in (v - step)..(v + step) : g % step = 0 /\ 2 * Abs(g - v) <= step}

Half == Period \div 2
Predictor == (site * Period) \div Side

Init ==
  /\ value \in Values /\ site \in 0..(Side - 1) /\ requested \in Bounds
  /\ transformed = value /\ wrap = 0 /\ residual = TRUE
  /\ error = 0 /\ bound = 0
  /\ returned = 0 /\ out = 0
  /\ stage = "encode"

-------------------------------------------------------------------------------
(* The mistake: distances are counted upwards only.                        *)
DistanceUpwards == (value - Predictor) % Period
(* modulo(r + .5, 1) - .5 and nearbyint(r - w)                             *)
Distance == ((value - Predictor + Half) % Period) - Half
Offset == (value - Predictor - Distance) \div Period

Restored(w, offset) == Nearest(w + Predictor + offset * Period, Grid)

(* The mistakes: no wrap is expected, and the guard is what was measured.  *)
WrapFitsInside == Offset \in -1..0
GuardMeasured(e) == e

WrapFits == Offset \in -1..1
(* std::max(error, 2 * epsilon * magnitude)                                *)
Guard(e) == IF e > 2 * Grid THEN e ELSE 2 * Grid

Encode ==
  /\ stage = "encode" /\ WrapFits
  /\ \E w \in Nearest(Distance, Residuals) :
       \E restored \in Restored(w, Offset) :
         /\ error' = Abs(restored - value)
         /\ residual' = (requested > Guard(error'))
         /\ IF residual'
            THEN transformed' = w /\ wrap' = Offset /\ bound' = requested - Guard(error')
            ELSE transformed' = value /\ wrap' = 0 /\ bound' = requested
  /\ stage' = "encoded"
  /\ UNCHANGED <<input, returned, out>>

(* "Unexpected lattice wrap offset"                                        *)
EncodeThrows ==
  /\ stage = "encode" /\ ~WrapFits
  /\ stage' = "error"
  /\ UNCHANGED <<input, encoding, returned, out>>

(* encode_shaped and decode_shaped, within the bound                       *)
Transmit ==
  /\ stage = "encoded"
  /\ returned' \in (transformed - bound)..(transformed + bound)
  /\ stage' = "transmitted"
  /\ UNCHANGED <<input, encoding, out>>

Decode ==
  /\ stage = "transmitted"
  /\ IF residual THEN out' \in Restored(returned, wrap) ELSE out' = returned
  /\ stage' = "decoded"
  /\ UNCHANGED <<input, encoding, returned>>

Done == stage \in {"decoded", "error"} /\ UNCHANGED vars

Next == Encode \/ EncodeThrows \/ Transmit \/ Decode \/ Done

Spec == Init /\ [][Next]_vars

-------------------------------------------------------------------------------
(* A position is back within the bound the field was given, whatever the   *)
(* conversions to float did on the way there and back, also where the      *)
(* measured round trip happened to be exact.                               *)
LatticeKept == stage = "decoded" => Abs(out - value) <= requested

(* The dense box holds the shorter way around the period, at most half of  *)
(* it: particles on both sides of the border have similar values.          *)
ShorterWay ==
  stage = "encoded" /\ residual =>
    /\ 2 * Abs(transformed) <= Period + Residuals
    /\ \A turns \in -2..2 :
         Abs(transformed) <= Abs(value - Predictor + turns * Period) + Residuals

(* The offset fits its sidecar for every position inside of the box, both  *)
(* borders included: only positions outside of it stop the compression.    *)
InsideAccepted == stage = "error" => value < 0 \/ value > Period

(* What makes the residual worth it: it is small and nothing is refused.   *)
ResidualShort == ShorterWay /\ InsideAccepted
===============================================================================
