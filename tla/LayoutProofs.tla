----------------------------- MODULE LayoutProofs -----------------------------
(***************************************************************************)
(* The lattice layout of a position keeps the error bound of its field and *)
(* takes the shorter way around the period: for every period, lattice,     *)
(* float grid, position and bound.  The dense box of a lattice field is    *)
(* the smallest one and returns every value: for every set of IDs.  The    *)
(* search of its axes keeps the smallest stream and every value's cell:    *)
(* for every shape, and whatever lengths the codec's streams get.  The     *)
(* order sidecars of the LCP blocks restore every row, and give no         *)
(* particle twice when damaged: for every number of rows and blocks.       *)
(***************************************************************************)
EXTENDS MCLayouts, BitNumbers, FiniteSetTheorems, FunctionTheorems, WellFoundedInduction, TLAPS

TypeInv ==
  /\ value \in Int /\ site \in 0..(Side - 1) /\ requested \in Nat
  /\ transformed \in Int /\ wrap \in Int /\ residual \in BOOLEAN
  /\ error \in Nat /\ bound \in Nat
  /\ returned \in Int /\ out \in Int
  /\ stage \in {"encode", "encoded", "transmitted", "decoded", "error"}

(* What is known of the field while it is under way: with the transform,   *)
(* the residual is a float next to the distance, and the codec may use     *)
(* what the guard leaves; without it, the position itself is encoded.      *)
EncodingInv ==
  stage \in {"encoded", "transmitted", "decoded"} =>
    IF residual
    THEN /\ transformed \in Nearest(Distance, Residuals)
         /\ wrap = Offset
         /\ bound <= requested - 2 * Grid
    ELSE transformed = value /\ bound = requested

ReturnedInv ==
  stage \in {"transmitted", "decoded"} => Abs(returned - transformed) <= bound

ResidualInv == TypeInv /\ EncodingInv /\ ReturnedInv /\ LatticeKept

-------------------------------------------------------------------------------
(* What a codec may return.                                                *)
LEMMA RangeClose ==
  ASSUME NEW v \in Int, NEW most \in Nat, NEW r \in (v - most)..(v + most)
  PROVE  r \in Int /\ Abs(r - v) <= most
BY DEF Abs

(* The sum of the errors: w is near d, r is near w, o is near r + p + s,   *)
(* and what is looked for is d + p + s.                                    *)
LEMMA ErrorsAdd ==
  ASSUME NEW v \in Int, NEW d \in Int, NEW p \in Int, NEW s \in Int,
         NEW w \in Int, NEW r \in Int, NEW o \in Int,
         NEW most \in Nat, NEW given \in Nat, NEW grid \in Nat, NEW fine \in Nat,
         fine <= grid, given <= most - 2 * grid, v = d + p + s,
         2 * Abs(w - d) <= fine, Abs(r - w) <= given,
         2 * Abs(o - (r + p + s)) <= grid
  PROVE  Abs(o - v) <= most
<1>1. 2 * (w - d) <= fine /\ 2 * (d - w) <= fine
  BY DEF Abs
<1>2. r - w <= given /\ w - r <= given
  BY DEF Abs
<1>3. 2 * (o - (r + p + s)) <= grid /\ 2 * ((r + p + s) - o) <= grid
  BY DEF Abs
<1>4. o - v <= most /\ v - o <= most
  BY <1>1, <1>2, <1>3
<1> QED BY <1>4 DEF Abs

(* A conversion moves a value by half a step at most.                      *)
LEMMA NearestClose ==
  ASSUME NEW v \in Int, NEW step \in Nat, NEW g \in Nearest(v, step)
  PROVE  g \in Int /\ 2 * Abs(g - v) <= step
BY SMT DEF Nearest, Abs

(* The site of a particle is a position.                                   *)
LEMMA PredictorType ==
  ASSUME TypeInv PROVE Predictor \in Int
<1>1. site \in Int /\ Period \in Int
  BY LatticeResidualAssumption DEF TypeInv
<1>2. site * Period \in Int
  BY <1>1
<1> DEFINE p == site * Period
<1>3. p \div Side \in Int
  <2> HIDE DEF p
  <2> QED BY <1>2, LatticeResidualAssumption DEF p
<1> QED BY <1>3 DEF Predictor

(* Euclid's division by the period.                                        *)
LEMMA Division ==
  ASSUME NEW a \in Int
  PROVE  /\ a % Period \in 0..(Period - 1) /\ a \div Period \in Int
         /\ a = (a \div Period) * Period + (a % Period)
BY LatticeResidualAssumption, Z3

LEMMA DistanceType ==
  ASSUME TypeInv PROVE Distance \in Int /\ Offset \in Int
<1>1. Predictor \in Int
  BY PredictorType
<1>2. Half \in Int
  BY LatticeResidualAssumption DEF Half
<1>3. value - Predictor + Half \in Int
  BY <1>1, <1>2 DEF TypeInv
<1>4. Distance \in Int
  BY <1>2, <1>3, Division DEF Distance
<1>5. value - Predictor - Distance \in Int
  BY <1>1, <1>4 DEF TypeInv
<1> QED BY <1>4, <1>5, Division DEF Offset

(* A whole number of periods divides without a rest.                       *)
LEMMA Multiple ==
  ASSUME NEW q \in Int PROVE (q * Period) \div Period = q
<1> DEFINE d == (q * Period) \div Period
           e == q - d
           rest == (q * Period) % Period
<1>1. q * Period \in Int /\ Period \in Nat /\ Period > 0
  BY LatticeResidualAssumption
<1>2. d \in Int /\ rest \in 0..(Period - 1) /\ q * Period = d * Period + rest
  BY <1>1, Division
<1>3. e \in Int /\ e * Period = rest
  <2> HIDE DEF d, rest
  <2> QED BY <1>1, <1>2, Z3 DEF e
<1>4. e < 1 /\ e > -1
  <2> HIDE DEF e, d, rest
  <2>1. e \in Int /\ e * Period \in 0..(Period - 1)
    BY <1>2, <1>3
  <2>2. ASSUME e >= 1 PROVE FALSE
    <3>1. e * Period >= Period
      BY <2>1, <2>2, <1>1, Z3
    <3> QED BY <3>1, <2>1, <1>1
  <2>3. ASSUME e <= -1 PROVE FALSE
    <3>1. e * Period <= -Period
      BY <2>1, <2>3, <1>1, Z3
    <3> QED BY <3>1, <2>1, <1>1
  <2> QED BY <2>1, <2>2, <2>3
<1>5. e = 0
  <2> HIDE DEF e, d, rest
  <2> QED BY <1>3, <1>4
<1>6. d = q
  <2> HIDE DEF d, rest
  <2> QED BY <1>2, <1>5 DEF e
<1> QED BY <1>6

(* The distance, the site and the wrap give the position exactly.          *)
LEMMA Decomposed ==
  ASSUME TypeInv PROVE value = Distance + Predictor + Offset * Period
<1> DEFINE a == value - Predictor + Half
           q == a \div Period
<1>1. Predictor \in Int /\ Half \in Int /\ value \in Int
  BY PredictorType, LatticeResidualAssumption DEF Half, TypeInv
<1>2. a \in Int
  BY <1>1
<1>3. q \in Int /\ a = q * Period + (a % Period)
  <2> HIDE DEF a
  <2> QED BY <1>2, Division
<1>4. Distance = (a % Period) - Half /\ a % Period \in Int
  <2>1. a % Period \in Int
    <3> HIDE DEF a
    <3> QED BY <1>2, Division
  <2> QED BY <2>1 DEF Distance
<1>5. value - Predictor - Distance = q * Period /\ q * Period \in Int
  <2>1. q * Period \in Int
    <3> HIDE DEF q
    <3> QED BY <1>3, LatticeResidualAssumption
  <2> DEFINE rest == a % Period
             turns == q * Period
  <2>2. value - Predictor + Half = turns + rest /\ Distance = rest - Half
    BY <1>3, <1>4
  <2>3. rest \in Int /\ turns \in Int
    BY <1>4, <2>1
  <2> HIDE DEF rest, turns, q, a
  <2>4. value - Predictor - Distance = turns
    BY <1>1, <2>2, <2>3
  <2> QED BY <2>3, <2>4 DEF turns
<1>6. Offset = q
  <2> HIDE DEF q
  <2> QED BY <1>3, <1>5, Multiple DEF Offset
<1> QED
  <2> DEFINE turns == q * Period
  <2>1. value - Predictor - Distance = turns /\ turns \in Int /\ Distance \in Int
    BY <1>5, DistanceType
  <2>2. Offset * Period = turns
    BY <1>6
  <2> HIDE DEF turns, q
  <2> QED BY <1>1, <2>1, <2>2

-------------------------------------------------------------------------------
LEMMA ResidualInit == Init => ResidualInv
BY LatticeResidualAssumption
DEF Init, ResidualInv, TypeInv, EncodingInv, ReturnedInv, LatticeKept

(* The guard leaves at least two steps of the float grid.                  *)
LEMMA GuardLeaves ==
  ASSUME NEW e \in Nat
  PROVE  Guard(e) \in Nat /\ Guard(e) >= 2 * Grid
BY LatticeResidualAssumption DEF Guard

(* The site, the distance and the offset belong to the input.              *)
LEMMA InputKept ==
  ASSUME UNCHANGED input PROVE Distance' = Distance /\ Offset' = Offset
BY DEF input, Distance, Offset, Predictor, Half

LEMMA EncodeStep ==
  ASSUME ResidualInv, Encode PROVE ResidualInv'
<1>1. PICK w \in Nearest(Distance, Residuals) :
      \E restored \in Restored(w, Offset) :
        /\ error' = Abs(restored - value)
        /\ residual' = (requested > Guard(error'))
        /\ IF residual'
           THEN transformed' = w /\ wrap' = Offset /\ bound' = requested - Guard(error')
           ELSE transformed' = value /\ wrap' = 0 /\ bound' = requested
  BY DEF Encode
<1>2. PICK restored \in Restored(w, Offset) :
        /\ error' = Abs(restored - value)
        /\ residual' = (requested > Guard(error'))
        /\ IF residual'
           THEN transformed' = w /\ wrap' = Offset /\ bound' = requested - Guard(error')
           ELSE transformed' = value /\ wrap' = 0 /\ bound' = requested
  BY <1>1
<1>3. Distance \in Int /\ Offset \in Int /\ Predictor \in Int
  BY DistanceType, PredictorType DEF ResidualInv
<1>4. w \in Int
  BY <1>3, NearestClose, LatticeResidualAssumption
<1>5. restored \in Int
  <2>1. Offset * Period \in Int
    BY <1>3, LatticeResidualAssumption
  <2>2. w + Predictor + Offset * Period \in Int
    BY <1>3, <1>4, <2>1
  <2> QED BY <2>2, NearestClose, LatticeResidualAssumption DEF Restored
<1>6. value \in Int /\ requested \in Nat /\ error' \in Nat
  BY <1>2, <1>5 DEF ResidualInv, TypeInv, Abs
<1>7. Guard(error') \in Nat /\ Guard(error') >= 2 * Grid
  BY <1>6, GuardLeaves
<1>8. UNCHANGED <<input, returned, out>> /\ stage' = "encoded"
  BY DEF Encode
<1>9. TypeInv'
  <2>1. residual' \in BOOLEAN /\ (residual' => requested > Guard(error'))
    <3> DEFINE more == requested > Guard(error')
    <3>1. residual' = more
      BY <1>2
    <3>2. more \in BOOLEAN
      OBVIOUS
    <3> HIDE DEF more
    <3>3. residual' \in BOOLEAN /\ (residual' => more)
      BY <3>1, <3>2
    <3> QED BY <3>3 DEF more
  <2>2. transformed' \in Int /\ wrap' \in Int /\ bound' \in Nat
    <3>1. CASE residual'
      BY <2>1, <3>1, <1>2, <1>3, <1>4, <1>6, <1>7
    <3>2. CASE ~residual'
      BY <3>2, <1>2, <1>6
    <3> QED BY <3>1, <3>2
  <2> QED BY <2>1, <2>2, <1>6, <1>8 DEF ResidualInv, TypeInv, input
<1>10. EncodingInv'
  <2>1. Distance' = Distance /\ Offset' = Offset
    BY <1>8, InputKept
  <2>2. ASSUME residual'
        PROVE  transformed' \in Nearest(Distance', Residuals) /\ wrap' = Offset'
               /\ bound' <= requested' - 2 * Grid
    <3>1. transformed' = w /\ wrap' = Offset /\ bound' = requested - Guard(error')
      BY <1>2, <2>2
    <3>2. bound' <= requested - 2 * Grid
      BY <3>1, <1>6, <1>7, LatticeResidualAssumption
    <3> QED BY <3>1, <3>2, <2>1, <1>8 DEF input
  <2>3. ASSUME ~residual' PROVE transformed' = value' /\ bound' = requested'
    BY <1>2, <2>3, <1>8 DEF input
  <2> QED BY <2>2, <2>3 DEF EncodingInv, Nearest
<1> QED BY <1>8, <1>9, <1>10 DEF ResidualInv, ReturnedInv, LatticeKept

LEMMA TransmitStep ==
  ASSUME ResidualInv, Transmit PROVE ResidualInv'
<1>1. UNCHANGED <<input, encoding, out>> /\ stage' = "transmitted" /\ stage = "encoded"
  BY DEF Transmit
<1>2. transformed \in Int /\ bound \in Nat
  BY DEF ResidualInv, TypeInv
<1>3. returned' \in (transformed - bound)..(transformed + bound)
  BY DEF Transmit
<1>4. returned' \in Int /\ Abs(returned' - transformed) <= bound
  BY <1>2, <1>3, RangeClose
<1>5. TypeInv' /\ ReturnedInv'
  BY <1>1, <1>4 DEF ResidualInv, TypeInv, ReturnedInv, input, encoding, Abs
<1>6. EncodingInv'
  <2>1. Distance' = Distance /\ Offset' = Offset
    BY <1>1, InputKept
  <2> QED BY <1>1, <2>1 DEF ResidualInv, EncodingInv, Nearest, input, encoding
<1> QED BY <1>1, <1>5, <1>6 DEF ResidualInv, LatticeKept

LEMMA DecodeStep ==
  ASSUME ResidualInv, Decode PROVE ResidualInv'
<1>1. UNCHANGED <<input, encoding, returned>> /\ stage' = "decoded" /\ stage = "transmitted"
  BY DEF Decode
<1>2. /\ value \in Int /\ requested \in Nat /\ transformed \in Int /\ bound \in Nat
      /\ returned \in Int /\ Abs(returned - transformed) <= bound
  BY <1>1 DEF ResidualInv, TypeInv, ReturnedInv
<1>3. out' \in Int /\ Abs(out' - value) <= requested
  <2>1. CASE residual
    <3>1. /\ transformed \in Nearest(Distance, Residuals) /\ wrap = Offset
          /\ bound <= requested - 2 * Grid
      BY <1>1, <2>1 DEF ResidualInv, EncodingInv
    <3> DEFINE turns == Offset * Period
    <3>2. Distance \in Int /\ Predictor \in Int /\ turns \in Int
      BY DistanceType, PredictorType, LatticeResidualAssumption DEF ResidualInv
    <3>3. value = Distance + Predictor + turns
      BY Decomposed DEF ResidualInv
    <3>4. out' \in Nearest(returned + Predictor + turns, Grid)
      BY <2>1, <3>1 DEF Decode, Restored
    <3> HIDE DEF turns
    <3>5. 2 * Abs(transformed - Distance) <= Residuals
      BY <3>1, <3>2, NearestClose, LatticeResidualAssumption
    <3>6. out' \in Int /\ 2 * Abs(out' - (returned + Predictor + turns)) <= Grid
      BY <1>2, <3>2, <3>4, NearestClose, LatticeResidualAssumption
    <3>7. Grid \in Nat /\ Residuals \in Nat /\ Residuals <= Grid
      BY LatticeResidualAssumption
    <3>8. Abs(out' - value) <= requested
      BY <1>2, <3>1, <3>2, <3>3, <3>5, <3>6, <3>7, ErrorsAdd
    <3> QED BY <3>6, <3>8
  <2>2. CASE ~residual
    <3>1. transformed = value /\ bound = requested /\ out' = returned
      BY <1>1, <2>2 DEF ResidualInv, EncodingInv, Decode
    <3> QED BY <3>1, <1>2
  <2> QED BY <2>1, <2>2
<1>4. EncodingInv'
  <2>1. Distance' = Distance /\ Offset' = Offset
    BY <1>1, InputKept
  <2> QED BY <1>1, <2>1 DEF ResidualInv, EncodingInv, Nearest, input, encoding
<1>5. TypeInv' /\ ReturnedInv'
  BY <1>1, <1>3 DEF ResidualInv, TypeInv, ReturnedInv, input, encoding, Abs
<1>6. LatticeKept'
  BY <1>1, <1>3 DEF LatticeKept, input, Abs
<1> QED BY <1>4, <1>5, <1>6 DEF ResidualInv

LEMMA ResidualStep ==
  ASSUME ResidualInv, [Next]_vars PROVE ResidualInv'
<1>1. CASE Encode
  BY <1>1, EncodeStep
<1>2. CASE Transmit
  BY <1>2, TransmitStep
<1>3. CASE Decode
  BY <1>3, DecodeStep
<1>4. CASE EncodeThrows
  BY <1>4
  DEF ResidualInv, TypeInv, EncodingInv, ReturnedInv, LatticeKept, EncodeThrows,
      input, encoding
<1>5. CASE UNCHANGED vars
  <2>1. UNCHANGED <<input, encoding, returned, out, stage>>
    BY <1>5 DEF vars
  <2>2. Distance' = Distance /\ Offset' = Offset
    BY <2>1, InputKept
  <2> QED
    BY <2>1, <2>2
    DEF ResidualInv, TypeInv, EncodingInv, ReturnedInv, LatticeKept, Nearest, Abs,
        input, encoding
<1> QED BY <1>1, <1>2, <1>3, <1>4, <1>5 DEF Next, Done

(* A position is back within the bound of its field, through the transform *)
(* or without it: the guard of compress_lattice_field is always enough.    *)
THEOREM LatticeKeepsBound == Spec => []LatticeKept
<1>1. ResidualInv => LatticeKept
  BY DEF ResidualInv
<1> QED BY <1>1, ResidualInit, ResidualStep, PTL DEF Spec

-------------------------------------------------------------------------------
(* The shorter way.                                                        *)

(* The distance is at most half a period, in either direction.             *)
LEMMA DistanceBounds ==
  ASSUME TypeInv PROVE -Half <= Distance /\ Distance < Half
<1> DEFINE a == value - Predictor + Half
<1>1. Half \in Nat /\ 2 * Half = Period /\ a \in Int
  <2>1. Half \in Nat /\ 2 * Half = Period
    BY LatticeResidualAssumption DEF Half
  <2> QED BY <2>1, PredictorType DEF TypeInv
<1>2. a % Period \in 0..(Period - 1) /\ Distance = (a % Period) - Half
  <2>1. a % Period \in 0..(Period - 1)
    <3> HIDE DEF a
    <3> QED BY <1>1, Division
  <2> QED BY <2>1 DEF Distance
<1> DEFINE rest == a % Period
<1>3. rest \in 0..(Period - 1) /\ Distance = rest - Half
  BY <1>2
<1> HIDE DEF rest, a
<1> QED BY <1>1, <1>3, LatticeResidualAssumption

(* The site of a particle is inside of the box.                            *)
LEMMA PredictorBounds ==
  ASSUME TypeInv PROVE Predictor \in 0..(Period - 1)
<1> DEFINE a == site * Period
<1>1. site \in 0..(Side - 1) /\ Side \in Nat /\ Side > 0 /\ Period \in Nat /\ Period > 0
  BY LatticeResidualAssumption DEF TypeInv
<1>2. a \in Nat /\ a < Side * Period
  <2>1. a \in Nat
    BY <1>1, Z3
  <2>2. site * Period < Side * Period
    BY <1>1, Z3
  <2> QED BY <2>1, <2>2
<1> HIDE DEF a
<1> DEFINE q == a \div Side
<1>3. q \in Int /\ q * Side <= a /\ a < q * Side + Side
  BY <1>1, <1>2, Z3
<1> HIDE DEF q
<1>4. q >= 0
  <2> SUFFICES ASSUME q <= -1 PROVE FALSE
    BY <1>3
  <2>1. q * Side <= -Side
    BY <1>1, <1>3, Z3
  <2>2. q * Side \in Int
    BY <1>1, <1>3
  <2> QED BY <2>1, <2>2, <1>1, <1>2, <1>3
<1>5. q < Period
  <2> SUFFICES ASSUME q >= Period PROVE FALSE
    BY <1>1, <1>3
  <2>1. q * Side >= Side * Period
    BY <1>1, <1>3, Z3
  <2>2. q * Side \in Int /\ Side * Period \in Int
    BY <1>1, <1>3
  <2> QED BY <2>1, <2>2, <1>2, <1>3
<1> QED BY <1>1, <1>3, <1>4, <1>5 DEF q, a, Predictor

(* No number of whole turns makes the way shorter.                         *)
LEMMA NoShorterWay ==
  ASSUME TypeInv, NEW k \in Int
  PROVE  Abs(Distance) <= Abs(Distance + k * Period)
<1> DEFINE turns == k * Period
<1>1. Half \in Nat /\ 2 * Half = Period /\ Distance \in Int /\ turns \in Int
  <2>1. Half \in Nat /\ 2 * Half = Period
    BY LatticeResidualAssumption DEF Half
  <2> QED BY <2>1, DistanceType
<1>2. -Half <= Distance /\ Distance < Half
  BY DistanceBounds
<1>3. k = 0 \/ turns >= Period \/ turns <= -Period
  <2>1. Period \in Nat /\ Period > 0
    BY LatticeResidualAssumption
  <2>2. ASSUME k >= 1 PROVE turns >= Period
    BY <2>1, <2>2, Z3
  <2>3. ASSUME k <= -1 PROVE turns <= -Period
    BY <2>1, <2>3, Z3
  <2> QED BY <2>2, <2>3
<1>4. k = 0 => turns = 0
  BY LatticeResidualAssumption
<1> HIDE DEF turns
<1>5. Abs(Distance) <= Abs(Distance + turns)
  BY <1>1, <1>2, <1>3, <1>4 DEF Abs
<1> QED BY <1>5 DEF turns

(* Only positions outside of the box do not fit the sidecar of the wraps.  *)
LEMMA InsideFits ==
  ASSUME TypeInv, 0 <= value, value <= Period
  PROVE  WrapFits
<1> DEFINE turns == Offset * Period
<1>1. /\ value \in Int /\ Distance \in Int /\ Offset \in Int
      /\ Predictor \in 0..(Period - 1) /\ turns \in Int
      /\ Half \in Nat /\ 2 * Half = Period /\ Period \in Nat /\ Period > 0
  <2>1. Half \in Nat /\ 2 * Half = Period /\ Period \in Nat /\ Period > 0
    BY LatticeResidualAssumption DEF Half
  <2> QED BY <2>1, DistanceType, PredictorBounds DEF TypeInv
<1>2. value = Distance + Predictor + turns
  BY Decomposed
<1>3. -Half <= Distance /\ Distance < Half
  BY DistanceBounds
<1>4. ASSUME Offset >= 2 PROVE turns >= 2 * Period
  BY <1>1, <1>4, Z3
<1>5. ASSUME Offset <= -2 PROVE turns <= -(2 * Period)
  BY <1>1, <1>5, Z3
<1> HIDE DEF turns
<1>6. ~(Offset >= 2) /\ ~(Offset <= -2)
  BY <1>1, <1>2, <1>3, <1>4, <1>5
<1> QED BY <1>1, <1>6 DEF WrapFits

ErrorInv == InsideAccepted

LEMMA ErrorInvStep ==
  ASSUME ResidualInv, ErrorInv, [Next]_vars PROVE ErrorInv'
<1>1. CASE EncodeThrows
  <2>1. value' = value /\ ~WrapFits
    BY <1>1 DEF EncodeThrows, input
  <2>2. value \in Int /\ Period \in Int
    BY LatticeResidualAssumption DEF ResidualInv, TypeInv
  <2> QED BY <2>1, <2>2, InsideFits DEF ErrorInv, InsideAccepted, ResidualInv
<1>2. CASE Encode \/ Transmit \/ Decode
  BY <1>2 DEF Encode, Transmit, Decode, ErrorInv, InsideAccepted
<1>3. CASE UNCHANGED vars
  BY <1>3 DEF vars, input, ErrorInv, InsideAccepted
<1> QED BY <1>1, <1>2, <1>3 DEF Next, Done

LEMMA ShorterWayTaken ==
  ASSUME ResidualInv PROVE ShorterWay
<1> SUFFICES ASSUME stage = "encoded", residual
             PROVE  /\ 2 * Abs(transformed) <= Period + Residuals
                    /\ \A turns \in -2..2 :
                         Abs(transformed) <= Abs(value - Predictor + turns * Period) + Residuals
  BY DEF ShorterWay
<1>1. /\ TypeInv /\ transformed \in Int /\ transformed \in Nearest(Distance, Residuals)
  BY DEF ResidualInv, EncodingInv, TypeInv
<1>2. /\ Distance \in Int /\ Predictor \in Int /\ Offset \in Int /\ value \in Int
      /\ Residuals \in Nat /\ Period \in Nat
      /\ Half \in Nat /\ 2 * Half = Period
  <2>1. /\ Residuals \in Nat /\ Period \in Nat /\ Half \in Nat /\ 2 * Half = Period
    BY LatticeResidualAssumption DEF Half
  <2> QED BY <2>1, <1>1, DistanceType, PredictorType DEF TypeInv
<1>3. 2 * Abs(transformed - Distance) <= Residuals
  BY <1>1, <1>2, NearestClose
<1>4. -Half <= Distance /\ Distance < Half
  BY <1>1, DistanceBounds
<1>5. 2 * Abs(transformed) <= Period + Residuals
  BY <1>1, <1>2, <1>3, <1>4 DEF Abs
<1>6. ASSUME NEW turns \in -2..2
      PROVE  Abs(transformed) <= Abs(value - Predictor + turns * Period) + Residuals
  <2> DEFINE far == Distance + (Offset + turns) * Period
             a == Offset * Period
             b == turns * Period
  <2>1. Abs(Distance) <= Abs(far)
    BY <1>1, <1>2, NoShorterWay
  <2>2. a \in Int /\ b \in Int /\ far = Distance + a + b
    BY <1>2, Z3
  <2>3. value = Distance + Predictor + a
    BY <1>1, Decomposed
  <2> HIDE DEF far, a, b
  <2>4. value - Predictor + b = far
    BY <1>2, <2>2, <2>3
  <2>5. far \in Int
    BY <1>2, <2>2
  <2>6. Abs(transformed) <= Abs(far) + Residuals
    BY <1>1, <1>2, <1>3, <2>1, <2>5 DEF Abs
  <2> QED BY <2>4, <2>6 DEF b
<1> QED BY <1>5, <1>6

(* The dense box holds the shorter way around the period, and only         *)
(* positions outside of the box stop the compression.                      *)
THEOREM ResidualIsShort == Spec => []ResidualShort
<1>1. Init => ErrorInv
  BY DEF Init, ErrorInv, InsideAccepted
<1>2. ResidualInv /\ ErrorInv => ResidualShort
  BY ShorterWayTaken DEF ErrorInv, ResidualShort
<1> QED BY <1>1, <1>2, ResidualInit, ResidualStep, ErrorInvStep, PTL DEF Spec

-------------------------------------------------------------------------------
(* ---- least and largest elements --------------------------------------- *)

(* A set of natural numbers has a least element.                           *)
LEMMA LeastNatural ==
  ASSUME NEW T, T \subseteq Nat, T # {}
  PROVE  \E n \in T : \A m \in T : n <= m
<1>1. \E n \in T : \A m \in T : ~(<<m, n>> \in OpToRel(<, Nat))
  BY WFMin, NatLessThanWellFounded, Zenon
<1>2. \A n, m \in T : m < n => <<m, n>> \in OpToRel(<, Nat)
  BY DEF OpToRel
<1>3. PICK n \in T : \A m \in T : ~(m < n)
  BY <1>1, <1>2, Zenon
<1> QED BY <1>3

(* One with a bound has a largest element.                                 *)
LEMMA LargestNatural ==
  ASSUME NEW T, NEW n \in Nat, T \subseteq 0..n, T # {}
  PROVE  \E m \in T : \A k \in T : k <= m
<1> DEFINE U == {k \in 0..n : n - k \in T}
<1>1. U \subseteq Nat
  OBVIOUS
<1>2. PICK t \in T : TRUE
  OBVIOUS
<1>3. n - t \in U /\ n - (n - t) = t
  BY <1>2
<1>4. U # {}
  BY <1>3
<1> HIDE DEF U
<1>5. PICK u \in U : \A k \in U : u <= k
  BY <1>1, <1>4, LeastNatural
<1>6. n - u \in T /\ u \in 0..n
  BY <1>5 DEF U
<1>7. \A k \in T : n - k \in U /\ k \in 0..n
  BY DEF U
<1>8. \A k \in T : k <= n - u
  BY <1>5, <1>6, <1>7
<1> QED BY <1>6, <1>8

LEMMA MinIs ==
  ASSUME NEW T, T \subseteq Nat, T # {}
  PROVE  Box!Min(T) \in T /\ \A m \in T : Box!Min(T) <= m
BY LeastNatural DEF Box!Min

LEMMA MaxIs ==
  ASSUME NEW T, NEW n \in Nat, T \subseteq 0..n, T # {}
  PROVE  Box!Max(T) \in T /\ \A m \in T : m <= Box!Max(T)
<1>1. \E m \in T : \A k \in T : m >= k
  <2>1. PICK m \in T : \A k \in T : k <= m
    BY LargestNatural
  <2>2. \A k \in T : k \in Nat
    OBVIOUS
  <2> QED BY <2>1, <2>2
<1>2. Box!Max(T) \in T /\ \A k \in T : Box!Max(T) >= k
  BY <1>1 DEF Box!Max
<1>3. T \subseteq Nat
  OBVIOUS
<1> QED BY <1>2, <1>3

LEMMA BoxCardinality == \A S : Box!Cardinality(S) = Cardinality(S)
BY DEF Box!Cardinality, Cardinality

-------------------------------------------------------------------------------
(* ---- around the period ------------------------------------------------ *)

BoxPlace == 0..(BoxSide - 1)

LEMMA SideIs == BoxSide \in Nat /\ BoxSide > 0 /\ BoxPlace \subseteq Nat /\ BoxSide - 1 \in Nat
BY LayoutsAssumption DEF Box!LatticeAssumption, BoxPlace

LEMMA AroundIs ==
  ASSUME NEW a \in BoxPlace, NEW s \in BoxPlace
  PROVE  /\ (a + BoxSide - s) % BoxSide = IF a >= s THEN a - s ELSE a + BoxSide - s
         /\ (a + BoxSide - s) % BoxSide \in BoxPlace
<1>1. BoxSide \in Nat /\ BoxSide > 0 /\ a \in 0..(BoxSide - 1) /\ s \in 0..(BoxSide - 1)
  BY SideIs DEF BoxPlace
<1> DEFINE r == IF a >= s THEN a - s ELSE a + BoxSide - s
<1>2. r \in 0..(BoxSide - 1) /\ (a + BoxSide - s = r \/ a + BoxSide - s = BoxSide + r)
  BY <1>1
<1> HIDE DEF r
<1>3. r % BoxSide = r /\ (BoxSide + r) % BoxSide = r
  BY <1>1, <1>2
<1>4. (a + BoxSide - s) % BoxSide = r
  BY <1>2, <1>3
<1> QED BY <1>2, <1>4 DEF r, BoxPlace
(* How far a lies behind s, around the period.                             *)
Around(a, s) == (a + BoxSide - s) % BoxSide

(* Adding a distance and turning back at the period.                       *)
LEMMA AroundAdds ==
  ASSUME NEW a \in BoxPlace, NEW b \in BoxPlace, NEW s \in BoxPlace
  PROVE  /\ Around(a, s) + Around(b, a) < BoxSide => Around(b, s) = Around(a, s) + Around(b, a)
         /\ Around(a, s) >= Around(b, s) => Around(a, b) = Around(a, s) - Around(b, s)
         /\ Around(a, b) # 0 <=> a # b
         /\ a # b => Around(b, a) = BoxSide - Around(a, b)
<1>1. BoxSide \in Nat /\ BoxSide > 0
      /\ a \in 0..(BoxSide - 1) /\ s \in 0..(BoxSide - 1) /\ b \in 0..(BoxSide - 1)
  BY SideIs DEF BoxPlace
<1>2. /\ Around(a, s) = IF a >= s THEN a - s ELSE a + BoxSide - s
      /\ Around(b, s) = IF b >= s THEN b - s ELSE b + BoxSide - s
      /\ Around(b, a) = IF b >= a THEN b - a ELSE b + BoxSide - a
      /\ Around(a, b) = IF a >= b THEN a - b ELSE a + BoxSide - b
  BY AroundIs DEF Around
<1> QED BY <1>1, <1>2

(* The next coordinate, if there is another one: nothing lies between.     *)
LEMMA GapFacts ==
  ASSUME NEW P, P \subseteq BoxPlace, NEW v \in P, NEW u \in P, u # v
  PROVE  /\ Box!Following(P, v) \in P
         /\ Box!Gap(P, v) = Around(Box!Following(P, v), v)
         /\ Box!Gap(P, v) \in 1..(BoxSide - 1)
         /\ \A w \in P : w = v \/ Around(w, v) >= Box!Gap(P, v)
<1> DEFINE y == Box!Following(P, v)
           Behind == {w \in P : w > v}
<1>0. P \subseteq Nat /\ P # {} /\ Behind \subseteq Nat
  BY SideIs
<1>1. y = IF \E w \in P : w > v THEN Box!Min(Behind) ELSE Box!Min(P)
  BY DEF Box!Following
<1>2. /\ y \in P /\ y # v
      /\ \A w \in P : (v < y /\ (w > v => w >= y)) \/ (y < v /\ w <= v /\ w >= y)
  <2>1. CASE \E w \in P : w > v
    <3>1. Behind # {}
      BY <2>1
    <3>2. Box!Min(Behind) \in Behind /\ \A m \in Behind : Box!Min(Behind) <= m
      BY <3>1, <1>0, MinIs
    <3>4. y = Box!Min(Behind)
      BY <2>1, <1>1
    <3>5. \A w : w \in Behind <=> w \in P /\ w > v
      OBVIOUS
    <3> HIDE DEF y, Behind
    <3>6. y \in Behind /\ \A m \in Behind : y <= m
      BY <3>2, <3>4
    <3>3. y \in P /\ y > v /\ \A w \in P : w > v => y <= w
      BY <3>5, <3>6
    <3>7. v \in Nat /\ y \in Nat /\ y # v /\ \A w \in P : w \in Nat
      BY <3>3, <1>0
    <3>8. \A w \in P : v < y /\ (w > v => w >= y)
      BY <3>3, <3>7
    <3> QED BY <3>3, <3>7, <3>8
  <2>2. CASE ~ \E w \in P : w > v
    <3>2. Box!Min(P) \in P /\ \A m \in P : Box!Min(P) <= m
      BY <1>0, MinIs
    <3>6. y = Box!Min(P)
      BY <2>2, <1>1
    <3>3. y \in P /\ \A w \in P : y <= w
      BY <3>2, <3>6
    <3> HIDE DEF y
    <3>4. u <= v /\ y <= u /\ y \in Nat /\ u \in Nat /\ v \in Nat
      BY <3>3, <2>2, <1>0
    <3>5. y < v
      BY <3>4
    <3> QED BY <3>3, <3>5, <2>2, <1>0
  <2> QED BY <2>1, <2>2
<1>3. Box!Gap(P, v) = Around(y, v)
  BY DEF Box!Gap, Around
<1> HIDE DEF y
<1>4. \A w \in P : /\ w \in 0..(BoxSide - 1)
                   /\ Around(w, v) = IF w >= v THEN w - v ELSE w + BoxSide - v
  BY AroundIs DEF Around, BoxPlace
<1>5. Around(y, v) \in 1..(BoxSide - 1)
  BY <1>2, <1>4, SideIs
<1>6. \A w \in P : w = v \/ Around(w, v) >= Around(y, v)
  <2> TAKE w \in P
  <2>1. w \in Nat /\ v \in Nat /\ y \in Nat /\ BoxSide \in Nat /\ w < BoxSide /\ v < BoxSide
        /\ y < BoxSide
    BY <1>2, <1>4, SideIs
  <2>2. /\ Around(w, v) = IF w >= v THEN w - v ELSE w + BoxSide - v
        /\ Around(y, v) = IF y >= v THEN y - v ELSE y + BoxSide - v
    BY <1>2, <1>4
  <2>3. \/ v < y /\ (w > v => w >= y)
        \/ y < v /\ w <= v /\ w >= y
    BY <1>2
  <2> QED BY <2>1, <2>2, <2>3
<1> QED BY <1>2, <1>3, <1>5, <1>6 DEF y

(* The last coordinate around a start is a gap before the start: no start  *)
(* reaches less far than the period without the largest gap.               *)
LEMMA AnyReaches ==
  ASSUME NEW P, P \subseteq BoxPlace, NEW v \in P, NEW u \in P, u # v,
         NEW G \in Nat, \A w \in P : Box!Gap(P, w) <= G,
         NEW s \in BoxPlace
  PROVE  \E x \in P : Around(x, s) + G >= BoxSide
<1> DEFINE T == {Around(x, s) : x \in P}
<1>0. BoxSide \in Nat /\ BoxSide - 1 \in Nat
  BY SideIs
<1>1. T \subseteq 0..(BoxSide - 1) /\ T # {}
  BY <1>0, AroundIs, SMTT(30) DEF Around, BoxPlace
<1>2. PICK m \in T : \A k \in T : k <= m
  <2> HIDE DEF T
  <2> QED BY <1>0, <1>1, LargestNatural
<1>3. PICK x \in P : \A w \in P : Around(w, s) <= Around(x, s)
  BY <1>2
<1> HIDE DEF T
<1>4. \E z \in P : z # x
  OBVIOUS
<1> DEFINE y == Box!Following(P, x)
<1>5. y \in P /\ Box!Gap(P, x) = Around(y, x) /\ Around(y, x) \in 1..(BoxSide - 1)
  BY <1>4, GapFacts
<1> HIDE DEF y
<1>6. Around(y, x) <= G /\ Around(y, s) <= Around(x, s)
  BY <1>3, <1>5
<1>7. Around(x, s) \in 0..(BoxSide - 1) /\ Around(y, s) \in 0..(BoxSide - 1)
  BY <1>5, AroundIs DEF Around, BoxPlace
<1>8. Around(x, s) + Around(y, x) < BoxSide => Around(y, s) = Around(x, s) + Around(y, x)
  BY <1>5, AroundAdds
<1>9. Around(x, s) + Around(y, x) >= BoxSide
  BY <1>0, <1>5, <1>6, <1>7, <1>8
<1> QED BY <1>0, <1>5, <1>6, <1>7, <1>9

(* The coordinate behind a gap reaches the period without that gap.        *)
LEMMA BehindGap ==
  ASSUME NEW P, P \subseteq BoxPlace, NEW v \in P, NEW u \in P, u # v, NEW x \in P
  PROVE  Around(x, Box!Following(P, v)) <= BoxSide - Box!Gap(P, v)
<1> DEFINE y == Box!Following(P, v)
<1>1. y \in P /\ Box!Gap(P, v) = Around(y, v) /\ Around(y, v) \in 1..(BoxSide - 1)
      /\ (x = v \/ Around(x, v) >= Around(y, v))
  BY GapFacts
<1> HIDE DEF y
<1>2. x = v => Around(x, y) = BoxSide - Around(y, v)
  <2>1. Around(v, v) = 0
    BY AroundAdds
  <2>2. y # v
    BY <1>1, <2>1, SideIs
  <2> QED BY <1>1, <2>2, AroundAdds
<1>3. Around(x, v) >= Around(y, v) => Around(x, y) = Around(x, v) - Around(y, v)
  BY <1>1, AroundAdds
<1>4. Around(x, v) \in 0..(BoxSide - 1)
  BY AroundIs DEF Around, BoxPlace
<1>5. Around(x, y) <= BoxSide - Around(y, v)
  BY <1>1, <1>2, <1>3, <1>4, SideIs
<1> QED BY <1>1, <1>5 DEF y
(* The first of the largest gaps.                                          *)
LargestGap(P, v) ==
  \A w \in P : \/ Box!Gap(P, v) > Box!Gap(P, w)
               \/ Box!Gap(P, v) = Box!Gap(P, w) /\ v <= w

LEMMA GapsAre ==
  ASSUME NEW P, P \subseteq BoxPlace, NEW v \in P, NEW u \in P, u # v
  PROVE  Box!Gap(P, v) \in 0..(BoxSide - 1) /\ Box!Gap(P, v) \in Int
<1>1. Box!Gap(P, v) \in 1..(BoxSide - 1)
  BY GapFacts
<1> QED BY <1>1, SideIs

LEMMA LargestGapIs ==
  ASSUME NEW P, P \subseteq BoxPlace, NEW u \in P, NEW z \in P, u # z
  PROVE  \E v \in P : LargestGap(P, v)
<1> DEFINE T == {Box!Gap(P, v) : v \in P}
<1>0. \A v \in P : \E w \in P : w # v
  OBVIOUS
<1>1. \A v \in P : Box!Gap(P, v) \in 0..(BoxSide - 1)
  BY <1>0, GapsAre
<1>2. T \subseteq 0..(BoxSide - 1) /\ T # {}
  BY <1>1
<1>3. PICK G \in T : \A g \in T : g <= G
  <2> HIDE DEF T
  <2> QED BY <1>2, SideIs, LargestNatural
<1> DEFINE First == {v \in P : Box!Gap(P, v) = G}
<1>4. First # {} /\ First \subseteq Nat
  BY <1>3, SideIs
<1>5. PICK v \in First : \A w \in First : v <= w
  <2> HIDE DEF First
  <2> QED BY <1>4, LeastNatural
<1>6. v \in P /\ Box!Gap(P, v) = G
  BY <1>5
<1>7. \A w \in P : Box!Gap(P, w) <= G /\ (Box!Gap(P, w) = G => v <= w)
  BY <1>3, <1>5
<1>8. \A w \in P : Box!Gap(P, w) < G \/ Box!Gap(P, w) = G
  BY <1>1, <1>6, <1>7
<1> QED BY <1>1, <1>6, <1>7, <1>8 DEF LargestGap

LEMMA StartIsBehindGap ==
  ASSUME NEW P, P \subseteq BoxPlace, NEW u \in P, NEW z \in P, u # z,
         Cardinality(P) # 1, Cardinality(P) # BoxSide
  PROVE  \E v \in P : Box!Start(P) = Box!Following(P, v) /\ LargestGap(P, v)
<1> DEFINE v == CHOOSE v \in P : LargestGap(P, v)
<1>1. v \in P /\ LargestGap(P, v)
  BY LargestGapIs
<1>2. Box!Start(P) = Box!Following(P, v)
  BY BoxCardinality DEF Box!Start, LargestGap
<1> QED BY <1>1, <1>2

(* A coordinate set with all places of the period.                         *)
LEMMA FullAxis ==
  ASSUME NEW P, P \subseteq BoxPlace, Cardinality(P) = BoxSide
  PROVE  P = BoxPlace
<1>1. IsFiniteSet(BoxPlace) /\ Cardinality(BoxPlace) = BoxSide
  BY FS_Interval, SideIs DEF BoxPlace
<1> QED BY <1>1, FS_Subset

(* The box of one axis: it holds every coordinate, and from every other    *)
(* start some coordinate is at least as far away.                          *)
LEMMA BoxAxis ==
  ASSUME NEW P, P \subseteq BoxPlace, P # {}
  PROVE  /\ Box!Start(P) \in BoxPlace
         /\ Box!Span(P) \in 1..BoxSide
         /\ \A x \in P : Around(x, Box!Start(P)) + 1 <= Box!Span(P)
         /\ \A s \in BoxPlace : \E x \in P : Box!Span(P) <= Around(x, s) + 1
<1> DEFINE first == Box!Start(P)
           span == Box!Span(P)
           Reach == {Around(x, first) + 1 : x \in P}
<1>0. BoxSide \in Nat /\ BoxSide > 0 /\ P \subseteq Nat
  BY SideIs
<1>a. \A x, s \in BoxPlace : Around(x, s) \in 0..(BoxSide - 1)
  BY AroundIs DEF Around, BoxPlace
<1>f. \A x \in P : x \in BoxPlace
  OBVIOUS
<1>m. Box!Min(P) \in P
  BY <1>0, MinIs
<1>s. span = IF Cardinality(P) = BoxSide THEN BoxSide ELSE Box!Max(Reach)
  BY BoxCardinality DEF Box!Span, Around
<1>1. ASSUME Cardinality(P) = BoxSide PROVE
        /\ first \in P /\ span \in 1..BoxSide
        /\ \A x \in P : Around(x, first) + 1 <= span
        /\ \A s \in BoxPlace : \E x \in P : span <= Around(x, s) + 1
  <2>1. first = Box!Min(P)
    BY <1>1, BoxCardinality DEF Box!Start
  <2>2. span = BoxSide
    BY <1>1, <1>s
  <2> HIDE DEF first, span
  <2>3. \A x \in P : Around(x, first) + 1 <= BoxSide
    <3> TAKE x \in P
    <3>1. Around(x, first) \in 0..(BoxSide - 1)
      BY <1>a, <1>f, <1>m, <2>1
    <3> QED BY <3>1, <1>0
  <2>4. ASSUME NEW s \in BoxPlace PROVE \E x \in P : BoxSide <= Around(x, s) + 1
    <3> DEFINE x == IF s = 0 THEN BoxSide - 1 ELSE s - 1
    <3>1. s \in 0..(BoxSide - 1)
      BY DEF BoxPlace
    <3>2. x \in 0..(BoxSide - 1) /\ (s = 0 => x >= s /\ x - s = BoxSide - 1)
          /\ (s # 0 => ~(x >= s) /\ x + BoxSide - s = BoxSide - 1)
      BY <3>1, <1>0
    <3> HIDE DEF x
    <3>3. x \in BoxPlace /\ x \in P
      BY <3>2, <1>1, FullAxis DEF BoxPlace
    <3>4. Around(x, s) = BoxSide - 1
      BY <3>2, <3>3, AroundIs DEF Around
    <3> QED BY <3>3, <3>4, <1>0
  <2> QED BY <1>0, <1>m, <2>1, <2>2, <2>3, <2>4
<1>r. Cardinality(P) # BoxSide /\ first \in P =>
        /\ span \in Reach /\ span \in 1..BoxSide /\ \A x \in P : Around(x, first) + 1 <= span
  <2> SUFFICES ASSUME Cardinality(P) # BoxSide, first \in P
               PROVE  /\ span \in Reach /\ span \in 1..BoxSide
                      /\ \A x \in P : Around(x, first) + 1 <= span
    OBVIOUS
  <2>1. \A x \in P : Around(x, first) + 1 \in 1..BoxSide
    <3> TAKE x \in P
    <3>1. Around(x, first) \in 0..(BoxSide - 1)
      BY <1>a, <1>f
    <3> QED BY <3>1, <1>0
  <2>2. Reach \subseteq 0..BoxSide /\ Reach # {} /\ Reach \subseteq 1..BoxSide
    BY <2>1
  <2>3. span = Box!Max(Reach)
    BY <1>s
  <2>5. \A x \in P : Around(x, first) + 1 \in Reach
    OBVIOUS
  <2> HIDE DEF Reach, first, span
  <2>4. Box!Max(Reach) \in Reach /\ \A m \in Reach : m <= Box!Max(Reach)
    BY <1>0, <2>2, MaxIs
  <2> QED BY <2>2, <2>3, <2>4, <2>5
<1>2. ASSUME Cardinality(P) # BoxSide, Cardinality(P) = 1 PROVE
        /\ first \in P
        /\ \A s \in BoxPlace : \E x \in P : span <= Around(x, s) + 1
  <2>1. first = Box!Min(P)
    BY <1>2, BoxCardinality DEF Box!Start
  <2>2. IsFiniteSet(P)
    <3>1. IsFiniteSet(BoxPlace)
      BY FS_Interval, SideIs DEF BoxPlace
    <3> QED BY <3>1, FS_Subset
  <2>3. PICK x : P = {x}
    BY <2>2, <1>2, FS_Singleton
  <2>4. first = x
    BY <2>1, <2>3, <1>m
  <2>5. Around(x, x) = 0
    BY <2>3, AroundAdds
  <2>6. span = 1
    BY <1>r, <1>2, <2>3, <2>4, <2>5
  <2> HIDE DEF span, first
  <2>7. \A s \in BoxPlace : 1 <= Around(x, s) + 1
    BY <1>a, <2>3
  <2> QED BY <2>3, <2>4, <2>6, <2>7
<1>3. ASSUME Cardinality(P) # BoxSide, Cardinality(P) # 1 PROVE
        /\ first \in P
        /\ \A s \in BoxPlace : \E x \in P : span <= Around(x, s) + 1
  <2>1. PICK u \in P, z \in P : u # z
    <3>1. P # {Box!Min(P)}
      BY <1>3, FS_Singleton
    <3> QED BY <3>1, <1>m
  <2>2. PICK v \in P : first = Box!Following(P, v) /\ LargestGap(P, v)
    BY <1>3, <2>1, StartIsBehindGap
  <2>3. \A q \in P : \E w \in P : w # q
    BY <2>1
  <2>4. first \in P /\ Box!Gap(P, v) \in 1..(BoxSide - 1)
    BY <2>2, <2>3, GapFacts
  <2>5. \A x \in P : Around(x, first) <= BoxSide - Box!Gap(P, v)
    BY <2>2, <2>3, BehindGap
  <2>6. \A w \in P : Box!Gap(P, w) \in Int
    BY <2>3, GapsAre
  <2>7. \A w \in P : Box!Gap(P, w) <= Box!Gap(P, v)
    BY <2>2, <2>4, <2>6 DEF LargestGap
  <2>8. PICK x \in P : span = Around(x, first) + 1
    BY <1>r, <1>3, <2>4
  <2> HIDE DEF first, span
  <2>9. ASSUME NEW s \in BoxPlace PROVE \E y \in P : span <= Around(y, s) + 1
    <3>1. PICK y \in P : Around(y, s) + Box!Gap(P, v) >= BoxSide
      <4>1. Box!Gap(P, v) \in Nat /\ \E w \in P : w # v
        BY <2>3, <2>4
      <4> QED BY <4>1, <2>7, AnyReaches
    <3>2. Around(y, s) \in 0..(BoxSide - 1) /\ Around(x, first) \in 0..(BoxSide - 1)
      BY <1>a, <1>f, <2>4
    <3>3. Around(x, first) <= BoxSide - Box!Gap(P, v)
      BY <2>5
    <3>4. span <= Around(y, s) + 1
      BY <3>1, <3>2, <3>3, <2>4, <2>8, <1>0
    <3> QED BY <3>4
  <2> QED BY <2>4, <2>9
<1> HIDE DEF first, span, Reach
<1>4. CASE Cardinality(P) = BoxSide
  BY <1>1, <1>4, <1>f DEF first, span
<1>5. CASE Cardinality(P) # BoxSide /\ Cardinality(P) = 1
  BY <1>2, <1>5, <1>f, <1>r DEF first, span
<1>6. CASE Cardinality(P) # BoxSide /\ Cardinality(P) # 1
  BY <1>3, <1>6, <1>f, <1>r DEF first, span
<1> QED BY <1>4, <1>5, <1>6
-------------------------------------------------------------------------------
(* ---- cells ------------------------------------------------------------ *)

LEMMA QuotientIs ==
  ASSUME NEW v \in Nat, NEW d \in Nat, d > 0
  PROVE  v \div d \in Nat /\ v % d \in 0..(d - 1) /\ v = (v \div d) * d + (v % d)
<1>1. v % d \in 0..(d - 1) /\ v \div d \in Int /\ v = (v \div d) * d + (v % d)
  BY Z3
<1> DEFINE q == v \div d
           r == v % d
<1>2. q \in Int /\ r \in 0..(d - 1) /\ v = q * d + r
  BY <1>1
<1> HIDE DEF q, r
<1>3. q >= 0
  <2> SUFFICES ASSUME q <= -1 PROVE FALSE
    BY <1>2
  <2>1. q * d <= 0 - d
    BY <1>2
  <2>2. q * d \in Int
    BY <1>2
  <2> QED BY <1>2, <2>1, <2>2
<1>4. q \in Nat
  BY <1>2, <1>3
<1>5. v \div d \in Nat
  BY <1>4 DEF q
<1> QED BY <1>1, <1>5

LEMMA DivisionBelow ==
  ASSUME NEW v \in Nat, NEW d \in Nat, d > 0, NEW n \in Nat, v < n * d
  PROVE  v \div d < n
<1> DEFINE q == v \div d
           r == v % d
<1>1. q \in Nat /\ r \in Nat /\ v = q * d + r
  BY QuotientIs
<1> HIDE DEF q, r
<1>2. q * d < n * d
  <2>1. q * d \in Int /\ n * d \in Int
    BY <1>1
  <2> QED BY <1>1, <2>1
<1>3. q >= n => q * d >= n * d
  BY <1>1
<1>4. q < n
  <2>1. q * d \in Int /\ n * d \in Int
    BY <1>1
  <2> QED BY <1>1, <1>2, <1>3, <2>1
<1> QED BY <1>4 DEF q

(* The quotient and the remainder are the only such numbers.               *)
LEMMA RowUnique ==
  ASSUME NEW d \in Nat, NEW a \in Nat, NEW b \in Nat, NEW x \in 0..(d - 1), NEW y \in 0..(d - 1),
         a * d + x = b * d + y
  PROVE  a = b /\ x = y
<1>1. a * d \in Int /\ b * d \in Int
  OBVIOUS
<1>2. ASSUME NEW m \in Nat, NEW n \in Nat, m < n PROVE n * d >= m * d + d
  <2>1. n - m \in Nat /\ n - m >= 1 /\ n = m + (n - m)
    BY <1>2
  <2>2. (n - m) * d >= d
    BY <2>1
  <2>3. n * d = m * d + (n - m) * d
    BY <2>1
  <2>4. m * d \in Int /\ n * d \in Int /\ (n - m) * d \in Int
    BY <2>1
  <2> QED BY <2>2, <2>3, <2>4
<1>3. ~(a < b)
  <2> SUFFICES ASSUME a < b PROVE FALSE
    OBVIOUS
  <2>1. b * d >= a * d + d
    BY <1>2
  <2> QED BY <2>1, <1>1
<1>4. ~(b < a)
  <2> SUFFICES ASSUME b < a PROVE FALSE
    OBVIOUS
  <2>1. a * d >= b * d + d
    BY <1>2
  <2> QED BY <2>1, <1>1
<1> QED BY <1>1, <1>3, <1>4

LEMMA RowBelow ==
  ASSUME NEW d \in Nat, NEW n \in Nat, NEW a \in 0..(n - 1), NEW x \in 0..(d - 1)
  PROVE  a * d + x \in 0..(n * d - 1)
<1>1. (n - a) \in Nat /\ n - a >= 1 /\ n = a + (n - a)
  OBVIOUS
<1>2. (n - a) * d >= d
  BY <1>1
<1>3. n * d = a * d + (n - a) * d
  BY <1>1
<1>4. a * d \in Nat /\ n * d \in Nat /\ (n - a) * d \in Int
  BY <1>1
<1> QED BY <1>2, <1>3, <1>4
(* The coordinates of an ID are places on the axes, and say which ID it is.*)
LEMMA CoordinatesAre ==
  ASSUME NEW id \in Nat, NEW b \in Nat, b <= id, id < Box!Total + b
  PROVE  /\ \A k \in Box!Axes : Box!Coordinates(id, b)[k] \in BoxPlace
         /\ id = (Box!Coordinates(id, b)[0] * BoxSide + Box!Coordinates(id, b)[1]) * BoxSide
                   + Box!Coordinates(id, b)[2] + b
<1> DEFINE v == id - b
           q == v \div BoxSide
           c == Box!Coordinates(id, b)
<1>1. BoxSide \in Nat /\ BoxSide > 0 /\ BoxSide * BoxSide \in Nat /\ BoxSide * BoxSide > 0
  BY SideIs
<1>2. v \in Nat /\ v < BoxSide * (BoxSide * BoxSide)
  <2>1. Box!Total = BoxSide * BoxSide * BoxSide
    BY DEF Box!Total
  <2>2. BoxSide * BoxSide * BoxSide = BoxSide * (BoxSide * BoxSide)
    BY <1>1
  <2>3. Box!Total \in Nat
    BY <1>1, <2>1
  <2> QED BY <2>1, <2>2, <2>3
<1>3. c[0] = v \div (BoxSide * BoxSide) /\ c[1] = q % BoxSide /\ c[2] = v % BoxSide
  BY DEF Box!Coordinates, Box!Axes
<1> HIDE DEF c
<1>5. q \in Nat /\ c[2] \in 0..(BoxSide - 1) /\ v = q * BoxSide + c[2]
  BY <1>1, <1>2, <1>3, QuotientIs
<1>6. c[1] \in 0..(BoxSide - 1) /\ q \div BoxSide \in Nat
      /\ q = (q \div BoxSide) * BoxSide + c[1]
  <2>1. q \in Nat
    BY <1>5
  <2> HIDE DEF q
  <2> QED BY <1>1, <1>3, <2>1, QuotientIs
<1>7. c[0] \in Nat /\ c[0] < BoxSide
      /\ v = c[0] * (BoxSide * BoxSide) + (v % (BoxSide * BoxSide))
      /\ v % (BoxSide * BoxSide) \in 0..(BoxSide * BoxSide - 1)
  <2> DEFINE d == BoxSide * BoxSide
  <2>1. v \in Nat /\ d \in Nat /\ d > 0 /\ v < BoxSide * d /\ c[0] = v \div d
    BY <1>1, <1>2, <1>3
  <2> HIDE DEF d, v
  <2>2. v \div d \in Nat /\ v % d \in 0..(d - 1) /\ v = (v \div d) * d + (v % d)
    BY <2>1, QuotientIs
  <2>3. v \div d < BoxSide
    BY <1>1, <2>1, DivisionBelow
  <2> QED BY <2>1, <2>2, <2>3 DEF d
<1>8. c[0] = q \div BoxSide
  <2> DEFINE d == BoxSide * BoxSide
             p == q \div BoxSide
             r == v % d
  <2>1. p \in Nat /\ q = p * BoxSide + c[1]
    BY <1>6
  <2>2. d \in Nat /\ r \in 0..(d - 1) /\ v = c[0] * d + r /\ c[0] \in Nat
    BY <1>1, <1>7
  <2> HIDE DEF p, r, q, v
  <2>3. v = p * d + (c[1] * BoxSide + c[2])
    <3>1. q * BoxSide = (p * BoxSide) * BoxSide + c[1] * BoxSide
      BY <1>1, <1>6, <2>1
    <3>2. (p * BoxSide) * BoxSide = p * (BoxSide * BoxSide)
      BY <1>1, <2>1
    <3>3. q * BoxSide \in Int /\ p * d \in Int /\ c[1] * BoxSide \in Int /\ c[2] \in Int
      BY <1>1, <1>5, <1>6, <2>1, <2>2
    <3> QED BY <1>5, <3>1, <3>2, <3>3
  <2>4. c[1] * BoxSide + c[2] \in 0..(d - 1)
    BY <1>1, <1>5, <1>6, RowBelow
  <2> HIDE DEF d
  <2>5. c[0] = p
    <3> DEFINE x == c[1] * BoxSide + c[2]
    <3>1. c[0] * d + r = p * d + x /\ x \in 0..(d - 1)
      BY <2>2, <2>3, <2>4
    <3> HIDE DEF x
    <3> QED BY <2>1, <2>2, <3>1, RowUnique
  <2> QED BY <2>5 DEF p
<1>9. id = (c[0] * BoxSide + c[1]) * BoxSide + c[2] + b
  <2>1. v = (c[0] * BoxSide + c[1]) * BoxSide + c[2]
    BY <1>5, <1>6, <1>8
  <2>2. (c[0] * BoxSide + c[1]) * BoxSide + c[2] \in Int
    BY <1>1, <1>5, <1>6, <1>7
  <2> QED BY <2>1, <2>2
<1>10. \A k \in Box!Axes : c[k] \in BoxPlace
  <2>1. Box!Axes = {0, 1, 2}
    BY DEF Box!Axes
  <2> QED BY <1>1, <1>5, <1>6, <1>7, <2>1 DEF BoxPlace
<1> QED BY <1>9, <1>10 DEF c
LEMMA AroundInjective ==
  ASSUME NEW a \in BoxPlace, NEW b \in BoxPlace, NEW s \in BoxPlace, Around(a, s) = Around(b, s)
  PROVE  a = b
<1>1. Around(a, s) \in 0..(BoxSide - 1)
  BY AroundIs DEF Around, BoxPlace
<1>2. Around(a, b) = Around(a, s) - Around(b, s)
  BY <1>1, AroundAdds
<1> QED BY <1>1, <1>2, AroundAdds

(* A coordinate inside of the box has a cell there.                        *)
Placed(c, begin, extent) ==
  /\ \A k \in Box!Axes : /\ c[k] \in BoxPlace /\ begin[k] \in BoxPlace
                         /\ extent[k] \in 1..BoxSide
  /\ Box!Inside(c, begin, extent)

LEMMA CellIs ==
  ASSUME NEW c, NEW begin, NEW extent, Placed(c, begin, extent)
  PROVE  /\ \A k \in 0..2 : Around(c[k], begin[k]) \in 0..(extent[k] - 1)
         /\ Box!IndexOf(c, begin, extent)
              = (Around(c[0], begin[0]) * extent[1] + Around(c[1], begin[1])) * extent[2]
                  + Around(c[2], begin[2])
         /\ Box!IndexOf(c, begin, extent) \in 0..(extent[0] * extent[1] * extent[2] - 1)
<1>1. \A k \in 0..2 : /\ Box!LocalOf(c, begin)[k] = Around(c[k], begin[k])
                      /\ Around(c[k], begin[k]) \in 0..(BoxSide - 1)
                      /\ Around(c[k], begin[k]) < extent[k]
                      /\ extent[k] \in 1..BoxSide
  BY AroundIs DEF Placed, Box!Inside, Box!LocalOf, Around, Box!Axes, BoxPlace
<1>2. \A k \in 0..2 : Around(c[k], begin[k]) \in 0..(extent[k] - 1) /\ extent[k] \in Nat
  BY <1>1, SideIs
<1>3. Box!IndexOf(c, begin, extent)
        = (Around(c[0], begin[0]) * extent[1] + Around(c[1], begin[1])) * extent[2]
            + Around(c[2], begin[2])
  BY <1>1 DEF Box!IndexOf
<1>4. Around(c[0], begin[0]) * extent[1] + Around(c[1], begin[1])
        \in 0..(extent[0] * extent[1] - 1)
  BY <1>2, RowBelow
<1>5. extent[0] * extent[1] \in Nat /\ extent[2] \in Nat
  BY <1>2
<1>6. (Around(c[0], begin[0]) * extent[1] + Around(c[1], begin[1])) * extent[2]
         + Around(c[2], begin[2]) \in 0..(extent[0] * extent[1] * extent[2] - 1)
  <2> DEFINE row == Around(c[0], begin[0]) * extent[1] + Around(c[1], begin[1])
             n == extent[0] * extent[1]
             d == extent[2]
             x == Around(c[2], begin[2])
  <2>1. row \in 0..(n - 1) /\ n \in Nat /\ d \in Nat /\ x \in 0..(d - 1)
    BY <1>2, <1>4, <1>5
  <2> HIDE DEF row, n, d, x
  <2>2. row * d + x \in 0..(n * d - 1)
    BY <2>1, RowBelow
  <2> QED BY <2>2 DEF row, n, d, x
<1> QED BY <1>2, <1>3, <1>6

LEMMA CellsDiffer ==
  ASSUME NEW c, NEW e, NEW begin, NEW extent,
         Placed(c, begin, extent), Placed(e, begin, extent),
         Box!IndexOf(c, begin, extent) = Box!IndexOf(e, begin, extent)
  PROVE  \A k \in 0..2 : c[k] = e[k]
<1> DEFINE a(k) == Around(c[k], begin[k])
           b(k) == Around(e[k], begin[k])
<1>1. \A k \in 0..2 : a(k) \in 0..(extent[k] - 1) /\ b(k) \in 0..(extent[k] - 1)
                      /\ extent[k] \in Nat
  <2>1. \A k \in 0..2 : extent[k] \in Nat
    BY SideIs DEF Placed, Box!Axes
  <2> QED BY <2>1, CellIs
<1>2. (a(0) * extent[1] + a(1)) * extent[2] + a(2) = (b(0) * extent[1] + b(1)) * extent[2] + b(2)
  BY CellIs
<1> HIDE DEF a, b
<1>3. a(0) * extent[1] + a(1) \in Nat /\ b(0) * extent[1] + b(1) \in Nat
  BY <1>1
<1>4. a(0) * extent[1] + a(1) = b(0) * extent[1] + b(1) /\ a(2) = b(2)
  <2> DEFINE p == a(0) * extent[1] + a(1)
             q == b(0) * extent[1] + b(1)
             d == extent[2]
  <2>1. p \in Nat /\ q \in Nat /\ d \in Nat /\ a(2) \in 0..(d - 1) /\ b(2) \in 0..(d - 1)
        /\ p * d + a(2) = q * d + b(2)
    BY <1>1, <1>2, <1>3
  <2> HIDE DEF p, q, d
  <2>2. p = q /\ a(2) = b(2)
    BY <2>1, RowUnique
  <2> QED BY <2>2 DEF p, q
<1>5. a(0) = b(0) /\ a(1) = b(1)
  <2>1. a(0) \in Nat /\ b(0) \in Nat /\ extent[1] \in Nat
        /\ a(1) \in 0..(extent[1] - 1) /\ b(1) \in 0..(extent[1] - 1)
    BY <1>1
  <2> QED BY <1>4, <2>1, RowUnique
<1>6. \A k \in 0..2 : a(k) = b(k)
  <2>1. 0..2 = {0, 1, 2}
    OBVIOUS
  <2> QED BY <1>4, <1>5, <2>1
<1> QED BY <1>6, AroundInjective DEF a, b, Placed, Box!Axes
-------------------------------------------------------------------------------
(* ---- the rows by cell ------------------------------------------------- *)

BoxRows == DOMAIN ids
Particles == Len(ids)

IdsInv ==
  /\ Particles \in Nat \ {0} /\ BoxRows = 1..Particles
  /\ \A i \in BoxRows : ids[i] \in Nat
  /\ \A i, j \in BoxRows : ids[i] = ids[j] => i = j

(* Every row has a cell of its own.                                        *)
OwnCells ==
  /\ \A i \in BoxRows : indices[i] \in Nat
  /\ \A i, j \in BoxRows : indices[i] = indices[j] => i = j

UpTo(i) == {j \in BoxRows : indices[j] <= indices[i]}

LEMMA RanksAre ==
  ASSUME IdsInv, OwnCells
  PROVE  /\ \A i \in BoxRows : Cardinality(UpTo(i)) \in 1..Particles
         /\ \A i, j \in BoxRows : indices[i] < indices[j] =>
              Cardinality(UpTo(i)) < Cardinality(UpTo(j))
         /\ \A i, j \in BoxRows : Cardinality(UpTo(i)) = Cardinality(UpTo(j)) => i = j
<1>1. IsFiniteSet(BoxRows) /\ Cardinality(BoxRows) = Particles
  BY FS_Interval DEF IdsInv
<1>2. \A i \in BoxRows : /\ IsFiniteSet(UpTo(i)) /\ i \in UpTo(i)
                         /\ Cardinality(UpTo(i)) \in Nat
                         /\ Cardinality(UpTo(i)) <= Particles
  <2> TAKE i \in BoxRows
  <2>1. UpTo(i) \in SUBSET BoxRows /\ i \in UpTo(i)
    BY DEF UpTo, OwnCells
  <2>2. IsFiniteSet(UpTo(i)) /\ Cardinality(UpTo(i)) <= Particles
    BY <1>1, <2>1, FS_Subset
  <2> QED BY <2>1, <2>2, FS_CardinalityType
<1>3. \A i \in BoxRows : Cardinality(UpTo(i)) # 0
  <2> TAKE i \in BoxRows
  <2>1. UpTo(i) # {} /\ IsFiniteSet(UpTo(i))
    BY <1>2
  <2> QED BY <2>1, FS_EmptySet
<1>4. \A i, j \in BoxRows : indices[i] < indices[j] =>
        Cardinality(UpTo(i)) < Cardinality(UpTo(j))
  <2> SUFFICES ASSUME NEW i \in BoxRows, NEW j \in BoxRows, indices[i] < indices[j]
               PROVE  Cardinality(UpTo(i)) < Cardinality(UpTo(j))
    OBVIOUS
  <2>1. \A k \in BoxRows : indices[k] \in Nat
    BY DEF OwnCells
  <2>2. UpTo(i) \in SUBSET UpTo(j) /\ j \in UpTo(j) /\ j \notin UpTo(i)
    BY <2>1 DEF UpTo
  <2>3. Cardinality(UpTo(i)) <= Cardinality(UpTo(j))
        /\ Cardinality(UpTo(i)) # Cardinality(UpTo(j))
    BY <1>2, <2>2, FS_Subset
  <2> QED BY <1>2, <2>3
<1>5. \A i, j \in BoxRows : Cardinality(UpTo(i)) = Cardinality(UpTo(j)) => i = j
  <2> SUFFICES ASSUME NEW i \in BoxRows, NEW j \in BoxRows,
                      Cardinality(UpTo(i)) = Cardinality(UpTo(j)), i # j
               PROVE  FALSE
    OBVIOUS
  <2>1. indices[i] \in Nat /\ indices[j] \in Nat /\ indices[i] # indices[j]
    BY DEF OwnCells
  <2>2. indices[i] < indices[j] \/ indices[j] < indices[i]
    BY <2>1
  <2> QED BY <1>2, <1>4, <2>2
<1>6. \A i \in BoxRows : Cardinality(UpTo(i)) \in 1..Particles
  <2> TAKE i \in BoxRows
  <2>1. Particles \in Nat
    BY DEF IdsInv
  <2> QED BY <1>2, <1>3, <2>1
<1> QED BY <1>4, <1>5, <1>6

(* The order is one of all rows, by their cells.                           *)
LEMMA OrderIs ==
  ASSUME IdsInv, OwnCells
  PROVE  /\ DOMAIN Box!Order = 1..Particles
         /\ \A m \in 1..Particles : Box!Order[m] \in BoxRows
         /\ \A i \in BoxRows : \E m \in 1..Particles : Box!Order[m] = i
         /\ \A m, n \in 1..Particles : m < n => indices[Box!Order[m]] < indices[Box!Order[n]]
<1> DEFINE rows == Particles
           f == [i \in 1..rows |-> Cardinality(UpTo(i))]
<1>0. rows \in Nat /\ BoxRows = 1..rows /\ \A i \in BoxRows : indices[i] \in Nat
  BY DEF IdsInv, OwnCells
<1>1. \A i \in 1..rows : f[i] \in 1..rows /\ f[i] = Cardinality(UpTo(i))
  BY <1>0, RanksAre
<1>2. f \in [1..rows -> 1..rows] /\ \A i, j \in 1..rows : f[i] = f[j] => i = j
  BY <1>0, <1>1, RanksAre
<1>3. f \in Surjection(1..rows, 1..rows)
  <2>1. f \in Injection(1..rows, 1..rows)
    <3> HIDE DEF f
    <3> QED BY <1>2, Fun_IsInj
  <2>2. IsFiniteSet(1..rows)
    BY <1>0, FS_Interval
  <2> HIDE DEF f
  <2> QED BY <2>1, <2>2, FS_Injection
<1>4. \A m \in 1..rows : \E i \in 1..rows : f[i] = m
  <2> HIDE DEF f
  <2> QED BY <1>3 DEF Surjection
<1>5. Box!Order = [m \in BoxRows |-> CHOOSE i \in BoxRows : Box!Cardinality(UpTo(i)) = m]
  BY DEF Box!Order, UpTo, BoxRows
<1>6. \A m \in 1..rows : Box!Order[m] \in BoxRows /\ Cardinality(UpTo(Box!Order[m])) = m
  <2> TAKE m \in 1..rows
  <2>1. \E i \in BoxRows : Box!Cardinality(UpTo(i)) = m
    BY <1>0, <1>1, <1>4, BoxCardinality
  <2>2. Box!Order[m] = CHOOSE i \in BoxRows : Box!Cardinality(UpTo(i)) = m
    BY <1>0, <1>5
  <2>3. Box!Order[m] \in BoxRows /\ Box!Cardinality(UpTo(Box!Order[m])) = m
    BY <2>1, <2>2
  <2> QED BY <2>3, BoxCardinality
<1>7. \A i \in BoxRows : Box!Order[Cardinality(UpTo(i))] = i
  BY <1>0, <1>6, RanksAre
<1>8. \A i \in BoxRows : \E m \in 1..rows : Box!Order[m] = i
  BY <1>7, RanksAre
<1>9. ASSUME NEW m \in 1..rows, NEW n \in 1..rows, m < n
      PROVE  indices[Box!Order[m]] < indices[Box!Order[n]]
  <2> DEFINE a == Box!Order[m]
             b == Box!Order[n]
  <2>1. a \in BoxRows /\ b \in BoxRows /\ Cardinality(UpTo(a)) = m /\ Cardinality(UpTo(b)) = n
    BY <1>6
  <2> HIDE DEF a, b
  <2>2. indices[a] \in Nat /\ indices[b] \in Nat
    BY <1>0, <2>1
  <2>3. m \in Nat /\ n \in Nat /\ m # n /\ ~(n < m)
    BY <1>9
  <2>4. a # b
    BY <2>1, <2>3
  <2>5. indices[a] # indices[b]
    BY <2>1, <2>4 DEF OwnCells
  <2>6. ~(indices[b] < indices[a])
    BY <2>1, <2>3, RanksAre
  <2>7. indices[a] < indices[b]
    BY <2>2, <2>5, <2>6
  <2> QED BY <2>7 DEF a, b
<1> QED BY <1>0, <1>5, <1>6, <1>8, <1>9
-------------------------------------------------------------------------------
(* ---- the invariant of the box ----------------------------------------- *)

Occupied(k) == Box!Present(base, k)

InferredInv ==
  /\ base \in {0, 1}
  /\ \A i \in BoxRows : ids[i] >= base /\ ids[i] < Box!Total + base
  /\ starts = [k \in Box!Axes |-> Box!Start(Occupied(k))]
  /\ shape = [k \in Box!Axes |-> Box!Span(Occupied(k))]
  /\ indices = [i \in BoxRows |-> Box!IndexOf(Box!Coordinates(ids[i], base), starts, shape)]

(* A cell before `index` is done, and `next` is past the particles there.  *)
FilledInv ==
  /\ dense = [cell \in 0..(Box!DenseCount - 1) |-> dense[cell]]
  /\ \A i \in BoxRows : dense[indices[i]] = {i}
  /\ index \in 0..Box!DenseCount /\ next \in 0..Particles
  /\ \A m \in 1..next : indices[Box!Order[m]] < index
  /\ Box!HolesBetween

BoxInv ==
  /\ IdsInv
  /\ phase \in {"infer", "disabled", "scatter", "fill", "load", "gather", "restored"}
  /\ phase \notin {"infer", "disabled"} => InferredInv
  /\ phase \in {"infer", "disabled", "scatter"} => index = 0 /\ next = 0
  /\ phase \in {"fill", "load", "gather", "restored"} => FilledInv
  /\ phase = "gather" => loaded = indices
  /\ phase = "restored" => taken = [i \in BoxRows |-> {i}]

LEMMA OccupiedIs ==
  ASSUME IdsInv, InferredInv
  PROVE  /\ \A i \in BoxRows, k \in 0..2 : Box!Coordinates(ids[i], base)[k] \in Occupied(k)
         /\ \A k \in 0..2 : Occupied(k) \subseteq BoxPlace /\ Occupied(k) # {}
<1>1. \A i \in BoxRows : \A k \in Box!Axes : Box!Coordinates(ids[i], base)[k] \in BoxPlace
  <2> TAKE i \in BoxRows
  <2>1. ids[i] \in Nat /\ base \in Nat /\ base <= ids[i] /\ ids[i] < Box!Total + base
    BY DEF IdsInv, InferredInv
  <2> QED BY <2>1, CoordinatesAre
<1>2. 1 \in BoxRows
  BY DEF IdsInv
<1>3. \A k : Occupied(k) = {Box!Coordinates(ids[i], base)[k] : i \in BoxRows}
  BY DEF Occupied, Box!Present, BoxRows
<1> QED BY <1>1, <1>2, <1>3 DEF Box!Axes

LEMMA AxesAre ==
  ASSUME IdsInv, InferredInv
  PROVE  \A k \in 0..2 :
           /\ starts[k] = Box!Start(Occupied(k)) /\ shape[k] = Box!Span(Occupied(k))
           /\ starts[k] \in BoxPlace /\ shape[k] \in 1..BoxSide
           /\ \A x \in Occupied(k) : Around(x, starts[k]) + 1 <= shape[k]
           /\ \A s \in BoxPlace : \E x \in Occupied(k) : shape[k] <= Around(x, s) + 1
<1> TAKE k \in 0..2
<1>1. starts[k] = Box!Start(Occupied(k)) /\ shape[k] = Box!Span(Occupied(k))
  BY DEF InferredInv, Box!Axes
<1>2. Occupied(k) \subseteq BoxPlace /\ Occupied(k) # {}
  BY OccupiedIs
<1> QED BY <1>1, <1>2, BoxAxis

LEMMA RowsPlaced ==
  ASSUME IdsInv, InferredInv
  PROVE  \A i \in BoxRows : Placed(Box!Coordinates(ids[i], base), starts, shape)
<1> TAKE i \in BoxRows
<1> DEFINE c == Box!Coordinates(ids[i], base)
<1>1. \A k \in 0..2 : c[k] \in Occupied(k) /\ c[k] \in BoxPlace
  BY OccupiedIs
<1>2. \A k \in 0..2 : /\ starts[k] \in BoxPlace /\ shape[k] \in 1..BoxSide
                      /\ Around(c[k], starts[k]) + 1 <= shape[k]
  BY <1>1, AxesAre
<1> HIDE DEF c
<1>3. \A k \in 0..2 : Around(c[k], starts[k]) \in 0..(BoxSide - 1)
  BY <1>1, <1>2, AroundIs DEF Around, BoxPlace
<1>4. \A k \in 0..2 : Around(c[k], starts[k]) < shape[k]
  BY <1>2, <1>3, SideIs
<1>5. Box!Inside(c, starts, shape)
  BY <1>4 DEF Box!Inside, Box!LocalOf, Box!Axes, Around
<1>6. Placed(c, starts, shape)
  BY <1>1, <1>2, <1>5 DEF Placed, Box!Axes
<1> QED BY <1>6 DEF c

LEMMA CellsAre ==
  ASSUME IdsInv, InferredInv
  PROVE  /\ \A i \in BoxRows : indices[i] \in 0..(Box!DenseCount - 1)
         /\ OwnCells
         /\ Box!DenseCount \in Nat
         /\ \A i \in BoxRows : indices[i] = Box!IndexOf(Box!Coordinates(ids[i], base), starts, shape)
<1>1. \A i \in BoxRows : indices[i] = Box!IndexOf(Box!Coordinates(ids[i], base), starts, shape)
  BY DEF InferredInv
<1>2. \A i \in BoxRows : indices[i] \in 0..(Box!DenseCount - 1)
  BY <1>1, RowsPlaced, CellIs DEF Box!DenseCount
<1>3. Box!DenseCount \in Nat
  <2>1. shape[0] \in Nat /\ shape[1] \in Nat /\ shape[2] \in Nat
    BY AxesAre, SideIs
  <2> QED BY <2>1 DEF Box!DenseCount
<1>4. ASSUME NEW i \in BoxRows, NEW j \in BoxRows, indices[i] = indices[j]
      PROVE  i = j
  <2> DEFINE c == Box!Coordinates(ids[i], base)
             e == Box!Coordinates(ids[j], base)
  <2>1. Placed(c, starts, shape) /\ Placed(e, starts, shape)
    BY RowsPlaced
  <2>2. Box!IndexOf(c, starts, shape) = Box!IndexOf(e, starts, shape)
    BY <1>1, <1>4
  <2>3. \A k \in 0..2 : c[k] = e[k]
    <3> HIDE DEF c, e
    <3> QED BY <2>1, <2>2, CellsDiffer
  <2>4. ids[i] \in Nat /\ ids[j] \in Nat /\ base \in Nat /\ base <= ids[i] /\ base <= ids[j]
        /\ ids[i] < Box!Total + base /\ ids[j] < Box!Total + base
    BY DEF IdsInv, InferredInv
  <2>5. ids[i] = (c[0] * BoxSide + c[1]) * BoxSide + c[2] + base
        /\ ids[j] = (e[0] * BoxSide + e[1]) * BoxSide + e[2] + base
    BY <2>4, CoordinatesAre
  <2> HIDE DEF c, e
  <2>6. c[0] = e[0] /\ c[1] = e[1] /\ c[2] = e[2]
    BY <2>3
  <2>7. ids[i] = ids[j]
    BY <2>5, <2>6
  <2> QED BY <2>7 DEF IdsInv
<1>5. OwnCells
  BY <1>2, <1>3, <1>4 DEF OwnCells
<1> QED BY <1>1, <1>2, <1>3, <1>5
LEMMA InferredSmallest ==
  ASSUME IdsInv, InferredInv
  PROVE  \A k \in Box!Axes :
           LET reach(s) == Box!Max({((x + BoxSide - s) % BoxSide) + 1 : x \in Box!Present(base, k)})
           IN  /\ reach(starts[k]) <= shape[k]
               /\ \A s \in 0..(BoxSide - 1) : shape[k] <= reach(s)
<1> TAKE k \in Box!Axes
<1> DEFINE Reach(s) == {Around(x, s) + 1 : x \in Occupied(k)}
<1>1. k \in 0..2
  BY DEF Box!Axes
<1>2. Occupied(k) \subseteq BoxPlace /\ Occupied(k) # {}
  BY <1>1, OccupiedIs
<1>3. /\ starts[k] \in BoxPlace /\ shape[k] \in 1..BoxSide
      /\ \A x \in Occupied(k) : Around(x, starts[k]) + 1 <= shape[k]
      /\ \A s \in BoxPlace : \E x \in Occupied(k) : shape[k] <= Around(x, s) + 1
  BY <1>1, AxesAre
<1>4. ASSUME NEW s \in BoxPlace
      PROVE  Box!Max(Reach(s)) \in Reach(s) /\ (\A m \in Reach(s) : m <= Box!Max(Reach(s)))
             /\ Reach(s) \subseteq 0..BoxSide
  <2>1. \A x \in Occupied(k) : Around(x, s) + 1 \in 0..BoxSide
    <3> TAKE x \in Occupied(k)
    <3>1. Around(x, s) \in 0..(BoxSide - 1)
      BY <1>2, AroundIs DEF Around, BoxPlace
    <3> QED BY <3>1, SideIs
  <2>2. Reach(s) \subseteq 0..BoxSide /\ Reach(s) # {}
    BY <1>2, <2>1
  <2> HIDE DEF Reach
  <2> QED BY <2>2, SideIs, MaxIs
<1>5. Box!Max(Reach(starts[k])) <= shape[k]
  <2>1. Box!Max(Reach(starts[k])) \in Reach(starts[k])
    BY <1>3, <1>4
  <2> QED BY <1>3, <2>1
<1>6. ASSUME NEW s \in BoxPlace PROVE shape[k] <= Box!Max(Reach(s))
  <2>1. PICK x \in Occupied(k) : shape[k] <= Around(x, s) + 1
    BY <1>3
  <2>2. Around(x, s) + 1 \in Reach(s)
    OBVIOUS
  <2> HIDE DEF Reach
  <2>3. /\ Around(x, s) + 1 <= Box!Max(Reach(s))
        /\ Around(x, s) + 1 \in 0..BoxSide /\ Box!Max(Reach(s)) \in 0..BoxSide
    BY <1>4, <2>2
  <2>4. shape[k] \in Nat /\ BoxSide \in Nat
    BY <1>3, SideIs
  <2> QED BY <2>1, <2>3, <2>4
<1> QED BY <1>5, <1>6 DEF Around, Occupied, BoxPlace

LEMMA InferredFits ==
  ASSUME IdsInv, InferredInv PROVE Box!LoadFits
<1>1. \A k \in Box!Axes : starts[k] < BoxSide /\ shape[k] \in 1..BoxSide
  <2>1. \A k \in 0..2 : starts[k] \in 0..(BoxSide - 1) /\ shape[k] \in 1..BoxSide
    BY AxesAre DEF BoxPlace
  <2> QED BY <2>1, SideIs DEF Box!Axes
<1>2. \A i \in DOMAIN ids : /\ ids[i] >= base /\ ids[i] < Box!Total + base
                            /\ Box!Inside(Box!Coordinates(ids[i], base), starts, shape)
  BY RowsPlaced DEF Placed, InferredInv, BoxRows
<1>3. \A i, j \in DOMAIN ids :
        Box!IndexOf(Box!Coordinates(ids[i], base), starts, shape)
          = Box!IndexOf(Box!Coordinates(ids[j], base), starts, shape) => i = j
  BY CellsAre DEF OwnCells, BoxRows
<1> QED BY <1>1, <1>2, <1>3 DEF Box!LoadFits

LEMMA BoxInitInv ==
  ASSUME Box!Init PROVE BoxInv
<1>1. PICK present \in UNION {Box!kSubset(n, BoxIds) : n \in 1..MaxParticles} :
        ids \in Box!SetToSeqs(present)
  BY DEF Box!Init
<1>2. present \subseteq BoxIds /\ Box!Cardinality(present) \in 1..MaxParticles
  BY <1>1 DEF Box!kSubset
<1>3. MaxParticles \in Nat /\ BoxIds \subseteq Nat
  BY LayoutsAssumption DEF Box!LatticeAssumption
<1> DEFINE n == Box!Cardinality(present)
<1>4. n \in Nat /\ n >= 1
  BY <1>2, <1>3
<1>5. ids \in [1..n -> present] /\ \A i, j \in 1..n : i # j => ids[i] # ids[j]
  BY <1>1 DEF Box!SetToSeqs
<1> HIDE DEF n
<1>6. Len(ids) = n /\ DOMAIN ids = 1..n
  <2>1. ids \in Seq(present)
    BY <1>4, <1>5
  <2> QED BY <1>4, <1>5, <2>1
<1>7. IdsInv
  <2>1. Particles = n /\ BoxRows = 1..n
    BY <1>6 DEF Particles, BoxRows
  <2>2. \A i \in 1..n : ids[i] \in Nat
    BY <1>2, <1>3, <1>5
  <2> QED BY <1>4, <1>5, <2>1, <2>2 DEF IdsInv
<1>8. index = 0 /\ next = 0 /\ phase = "infer"
  BY DEF Box!Init
<1> QED BY <1>7, <1>8 DEF BoxInv
(* ---- the steps of the box --------------------------------------------- *)

LEMMA IdsKept ==
  ASSUME IdsInv, ids' = ids PROVE IdsInv'
BY DEF IdsInv, Particles, BoxRows

LEMMA OrderKeptBy ==
  ASSUME UNCHANGED <<ids, indices>> PROVE Box!Order' = Box!Order
BY DEF Box!Order

LEMMA InferredKept ==
  ASSUME InferredInv, UNCHANGED <<ids, base, starts, shape, indices>> PROVE InferredInv'
BY DEF InferredInv, BoxRows, Occupied, Box!Present, Box!Total

LEMMA FilledKept ==
  ASSUME FilledInv, UNCHANGED <<ids, base, starts, shape, indices, dense, next, index>>
  PROVE  FilledInv'
<1>1. Box!Order' = Box!Order /\ Box!DenseCount' = Box!DenseCount
  BY OrderKeptBy DEF Box!DenseCount
<1>2. Box!HolesBetween'
  BY DEF FilledInv, Box!HolesBetween
<1> QED BY <1>1, <1>2 DEF FilledInv, BoxRows, Particles

LEMMA InferKeepsInv ==
  ASSUME BoxInv, Box!Infer PROVE BoxInv'
<1>1. PICK b \in {0, 1} :
        /\ Box!FitsBase(b) /\ base' = b
        /\ starts' = [k \in Box!Axes |-> Box!Start(Box!Present(b, k))]
        /\ shape' = [k \in Box!Axes |-> Box!Span(Box!Present(b, k))]
        /\ phase' \in {"scatter", "disabled"}
  BY DEF Box!Infer
<1>2. /\ indices' = [i \in DOMAIN ids |->
                       Box!IndexOf(Box!Coordinates(ids[i], base'), starts', shape')]
      /\ UNCHANGED <<ids, dense, next, index, loaded, taken>> /\ phase = "infer"
  BY DEF Box!Infer
<1>3. IdsInv' /\ index' = 0 /\ next' = 0
  BY <1>2, IdsKept DEF BoxInv
<1>4. InferredInv'
  <2>1. base' \in {0, 1} /\ \A i \in BoxRows : ids[i] >= base' /\ ids[i] < Box!Total + base'
    BY <1>1 DEF Box!FitsBase, BoxRows
  <2>2. \A k : Occupied(k)' = Box!Present(b, k)
    BY <1>1, <1>2 DEF Occupied, Box!Present
  <2>3. starts' = [k \in Box!Axes |-> Box!Start(Occupied(k))]'
        /\ shape' = [k \in Box!Axes |-> Box!Span(Occupied(k))]'
    BY <1>1, <2>2
  <2> QED BY <1>2, <2>1, <2>3 DEF InferredInv, BoxRows, Box!Total
<1> QED BY <1>1, <1>3, <1>4 DEF BoxInv

LEMMA ScatterKeepsInv ==
  ASSUME BoxInv, Box!Scatter PROVE BoxInv'
<1>1. /\ phase = "scatter" /\ phase' = "fill"
      /\ dense' = [cell \in 0..(Box!DenseCount - 1) |-> {i \in BoxRows : indices[i] = cell}]
      /\ UNCHANGED <<ids, base, starts, shape, indices, next, index, loaded, taken>>
  BY DEF Box!Scatter, Box!box, BoxRows
<1>2. IdsInv /\ InferredInv /\ index = 0 /\ next = 0
  BY <1>1 DEF BoxInv
<1>3. IdsInv' /\ InferredInv'
  BY <1>1, <1>2, IdsKept, InferredKept
<1>4. FilledInv'
  <2>1. Box!DenseCount' = Box!DenseCount /\ Box!DenseCount \in Nat
    BY <1>1, <1>2, CellsAre DEF Box!DenseCount
  <2>2. \A i \in BoxRows : indices[i] \in 0..(Box!DenseCount - 1)
    BY <1>2, CellsAre
  <2>3. \A i \in BoxRows : dense'[indices[i]] = {i}
    <3> TAKE i \in BoxRows
    <3>1. dense'[indices[i]] = {j \in BoxRows : indices[j] = indices[i]}
      BY <1>1, <2>2
    <3>2. \A j \in BoxRows : indices[j] = indices[i] => j = i
      BY <1>2, CellsAre DEF OwnCells
    <3> QED BY <3>1, <3>2
  <2>4. Particles' \in Nat
    BY <1>3 DEF IdsInv
  <2>5. Box!HolesBetween'
    <3>1. 0..(index' - 1) = {}
      BY <1>1, <1>2
    <3> QED BY <3>1 DEF Box!HolesBetween
  <2>6. 1..next' = {} /\ index' \in 0..Box!DenseCount' /\ next' \in 0..Particles'
    BY <1>1, <1>2, <2>1, <2>4
  <2>7. dense' = [cell \in 0..(Box!DenseCount' - 1) |-> dense'[cell]]
    BY <1>1, <2>1
  <2>8. \A i \in BoxRows' : dense'[indices'[i]] = {i}
    BY <1>1, <2>3 DEF BoxRows
  <2> QED BY <2>5, <2>6, <2>7, <2>8 DEF FilledInv
<1> QED BY <1>1, <1>3, <1>4 DEF BoxInv
(* `next` stops at the first particle that is not before the cell.         *)
LEMMA PassedIs ==
  ASSUME IdsInv, InferredInv, index \in Nat, next \in 0..Particles
  PROVE  /\ Box!Passed(next) \in next..Particles
         /\ Box!Passed(next) < Particles => indices[Box!Order[Box!Passed(next) + 1]] >= index
         /\ \A m \in next..(Box!Passed(next) - 1) : indices[Box!Order[m + 1]] < index
<1> DEFINE Stop(n) == n < Particles => indices[Box!Order[n + 1]] >= index
           T == {n \in next..Particles : Stop(n)}
<1>0. Particles \in Nat /\ next \in Nat /\ next <= Particles
  BY DEF IdsInv
<1>1. T \subseteq Nat /\ Particles \in T
  BY <1>0
<1>2. PICK n \in T : \A m \in T : n <= m
  <2> HIDE DEF T
  <2> QED BY <1>1, LeastNatural
<1>3. n \in next..Particles /\ Stop(n)
  BY <1>2
<1>4. \A m \in next..(n - 1) : m < Particles /\ ~(indices[Box!Order[m + 1]] >= index)
  <2> TAKE m \in next..(n - 1)
  <2>1. m \in next..Particles /\ m < n
    BY <1>0, <1>3
  <2>2. m \notin T
    BY <1>2, <2>1, <1>3, <1>0
  <2> QED BY <2>1, <2>2
<1>5. \A m \in next..(n - 1) : indices[Box!Order[m + 1]] < index
  <2> TAKE m \in next..(n - 1)
  <2>1. m + 1 \in 1..Particles
    BY <1>0, <1>3
  <2>2. Box!Order[m + 1] \in BoxRows
    BY <2>1, OrderIs, CellsAre
  <2>3. indices[Box!Order[m + 1]] \in Nat
    BY <2>2, CellsAre DEF OwnCells
  <2> QED BY <1>4, <2>3
<1> HIDE DEF T
<1>6. Box!Passed(next) =
        CHOOSE p \in next..Particles :
          /\ p < Particles => indices[Box!Order[p + 1]] >= index
          /\ \A m \in next..(p - 1) : indices[Box!Order[m + 1]] < index
  BY DEF Box!Passed, Particles
<1> QED BY <1>3, <1>5, <1>6

(* Where the order stops: the particles before the cell, and the others.   *)
LEMMA StopSplits ==
  ASSUME IdsInv, InferredInv, index \in Nat, NEW n \in 0..Particles,
         n < Particles => indices[Box!Order[n + 1]] >= index,
         \A m \in 1..n : indices[Box!Order[m]] < index
  PROVE  /\ (\E i \in BoxRows : indices[i] = index)
              <=> (n < Particles /\ indices[Box!Order[n + 1]] = index)
         /\ (~\E i \in BoxRows : indices[i] = index) =>
              LET before == {i \in BoxRows : indices[i] < index}
                  behind == {i \in BoxRows : indices[i] > index}
              IN  Box!Neighbours(n) =
                    {i \in before : \A j \in before : indices[j] <= indices[i]}
                    \cup {i \in behind : \A j \in behind : indices[j] >= indices[i]}
<1>0. Particles \in Nat /\ n \in Nat /\ n <= Particles
  BY DEF IdsInv
<1>c. \A i \in BoxRows : indices[i] \in Nat
  BY CellsAre DEF OwnCells
<1>1. /\ DOMAIN Box!Order = 1..Particles
      /\ \A m \in 1..Particles : Box!Order[m] \in BoxRows /\ indices[Box!Order[m]] \in Nat
      /\ \A i \in BoxRows : \E m \in 1..Particles : Box!Order[m] = i
      /\ \A m, k \in 1..Particles : m < k => indices[Box!Order[m]] < indices[Box!Order[k]]
  BY <1>c, CellsAre, OrderIs
<1>2. ASSUME NEW m \in 1..Particles PROVE
        /\ m <= n => indices[Box!Order[m]] < index
        /\ m > n => indices[Box!Order[m]] >= indices[Box!Order[n + 1]]
                    /\ indices[Box!Order[m]] >= index /\ n + 1 \in 1..Particles
                    /\ (m # n + 1 => indices[Box!Order[m]] > indices[Box!Order[n + 1]])
  <2>1. CASE m <= n
    <3>1. m \in 1..n /\ ~(m > n)
      BY <1>0, <2>1
    <3> QED BY <3>1
  <2>2. CASE m > n
    <3>1. n + 1 \in 1..Particles /\ n < Particles /\ ~(m <= n)
      BY <1>0, <2>2
    <3>2. m = n + 1 \/ n + 1 < m
      BY <1>0, <2>2
    <3>3. indices[Box!Order[n + 1]] \in Nat /\ indices[Box!Order[m]] \in Nat
          /\ indices[Box!Order[n + 1]] >= index
      BY <1>1, <3>1
    <3>4. n + 1 < m => indices[Box!Order[n + 1]] < indices[Box!Order[m]]
      BY <1>1, <3>1
    <3> QED BY <3>1, <3>2, <3>3, <3>4
  <2> QED BY <1>0, <2>1, <2>2
<1>3. (\E i \in BoxRows : indices[i] = index)
        <=> (n < Particles /\ indices[Box!Order[n + 1]] = index)
  <2>1. ASSUME NEW i \in BoxRows, indices[i] = index
        PROVE  n < Particles /\ indices[Box!Order[n + 1]] = index
    <3>1. PICK m \in 1..Particles : Box!Order[m] = i
      BY <1>1
    <3>2. ~(m <= n)
      BY <1>1, <1>2, <2>1, <3>1
    <3>3. m > n
      BY <1>0, <3>2
    <3>4. n + 1 \in 1..Particles /\ indices[Box!Order[n + 1]] <= index
      BY <1>2, <2>1, <3>1, <3>3
    <3>5. n < Particles /\ indices[Box!Order[n + 1]] >= index
          /\ indices[Box!Order[n + 1]] \in Nat
      BY <1>0, <1>1, <3>4
    <3> QED BY <3>4, <3>5
  <2>2. ASSUME n < Particles, indices[Box!Order[n + 1]] = index
        PROVE  \E i \in BoxRows : indices[i] = index
    <3>1. n + 1 \in 1..Particles
      BY <1>0, <2>2
    <3> QED BY <1>1, <2>2, <3>1
  <2> QED BY <2>1, <2>2
<1>4. ASSUME ~\E i \in BoxRows : indices[i] = index
      PROVE  Box!Neighbours(n) =
               {i \in {j \in BoxRows : indices[j] < index} :
                  \A j \in {j \in BoxRows : indices[j] < index} : indices[j] <= indices[i]}
               \cup {i \in {j \in BoxRows : indices[j] > index} :
                  \A j \in {j \in BoxRows : indices[j] > index} : indices[j] >= indices[i]}
  <2> DEFINE before == {j \in BoxRows : indices[j] < index}
             behind == {j \in BoxRows : indices[j] > index}
             Last == {i \in before : \A j \in before : indices[j] <= indices[i]}
             First == {i \in behind : \A j \in behind : indices[j] >= indices[i]}
  <2>1. \A m \in 1..Particles : /\ Box!Order[m] \in before <=> m <= n
                                /\ Box!Order[m] \in behind <=> m > n
    <3> TAKE m \in 1..Particles
    <3>1. Box!Order[m] \in BoxRows /\ indices[Box!Order[m]] \in Nat
          /\ indices[Box!Order[m]] # index
      BY <1>1, <1>4
    <3>2. /\ m <= n => indices[Box!Order[m]] < index
          /\ m > n => indices[Box!Order[m]] >= index
      BY <1>2
    <3> QED BY <3>1, <3>2, <1>0
  <2>2. ASSUME NEW i \in Last PROVE i \in Box!Neighbours(n)
    <3>1. PICK m \in 1..Particles : Box!Order[m] = i
      BY <1>1
    <3>2. m <= n
      BY <2>1, <3>1
    <3>3. m = n
      <4> SUFFICES ASSUME m # n PROVE FALSE
        OBVIOUS
      <4>1. n \in 1..Particles /\ m < n /\ n <= n
        BY <1>0, <3>2
      <4>2. Box!Order[n] \in before /\ indices[i] < indices[Box!Order[n]]
        BY <1>1, <2>1, <3>1, <4>1
      <4>3. indices[Box!Order[n]] <= indices[i]
        BY <4>2
      <4> QED BY <1>1, <1>c, <3>1, <4>1, <4>2, <4>3
    <3> QED BY <1>0, <1>1, <3>1, <3>3 DEF Box!Neighbours
  <2>3. ASSUME NEW i \in First PROVE i \in Box!Neighbours(n)
    <3>1. PICK m \in 1..Particles : Box!Order[m] = i
      BY <1>1
    <3>2. m > n
      BY <2>1, <3>1
    <3>3. m = n + 1
      <4> SUFFICES ASSUME m # n + 1 PROVE FALSE
        OBVIOUS
      <4>1. n + 1 \in 1..Particles /\ n + 1 > n
            /\ indices[Box!Order[m]] > indices[Box!Order[n + 1]]
        BY <1>0, <1>2, <3>2
      <4>2. Box!Order[n + 1] \in behind
        BY <2>1, <4>1
      <4>3. indices[Box!Order[n + 1]] >= indices[i]
        BY <4>2
      <4> QED BY <1>1, <3>1, <4>1, <4>3
    <3> QED BY <1>0, <1>1, <3>1, <3>3 DEF Box!Neighbours
  <2>4. ASSUME n \in 1..Particles PROVE Box!Order[n] \in Last
    <3>1. Box!Order[n] \in before
      BY <1>0, <2>1, <2>4
    <3>2. ASSUME NEW j \in before PROVE indices[j] <= indices[Box!Order[n]]
      <4>1. PICK m \in 1..Particles : Box!Order[m] = j
        BY <1>1
      <4>2. m <= n
        BY <2>1, <4>1
      <4>3. m = n \/ m < n
        BY <1>0, <4>2
      <4>4. indices[Box!Order[m]] \in Nat /\ indices[Box!Order[n]] \in Nat
            /\ (m < n => indices[Box!Order[m]] < indices[Box!Order[n]])
        BY <1>1, <2>4
      <4>5. indices[Box!Order[m]] <= indices[Box!Order[n]]
        BY <4>3, <4>4
      <4> QED BY <4>1, <4>5
    <3> QED BY <3>1, <3>2
  <2>5. ASSUME n + 1 \in 1..Particles PROVE Box!Order[n + 1] \in First
    <3>1. Box!Order[n + 1] \in behind
      BY <1>0, <2>1, <2>5
    <3>2. ASSUME NEW j \in behind PROVE indices[j] >= indices[Box!Order[n + 1]]
      <4>1. PICK m \in 1..Particles : Box!Order[m] = j
        BY <1>1
      <4>2. m > n
        BY <2>1, <4>1
      <4> QED BY <1>2, <4>1, <4>2
    <3> QED BY <3>1, <3>2
  <2>6. \A i \in Box!Neighbours(n) : i \in Last \/ i \in First
    <3> TAKE i \in Box!Neighbours(n)
    <3>1. PICK m \in {n, n + 1} \cap DOMAIN Box!Order : i = Box!Order[m]
      BY DEF Box!Neighbours
    <3>2. m \in 1..Particles /\ (m = n \/ m = n + 1)
      BY <1>1, <3>1
    <3> HIDE DEF Last, First
    <3> QED BY <2>4, <2>5, <3>1, <3>2
  <2>7. Box!Neighbours(n) = Last \cup First
    <3> HIDE DEF Last, First
    <3> QED BY <2>2, <2>3, <2>6
  <2> QED BY <2>7
<1> QED BY <1>3, <1>4
LEMMA FillKeepsInv ==
  ASSUME BoxInv, Box!Fill PROVE BoxInv'
<1> DEFINE n == Box!Passed(next)
           D == Box!DenseCount
<1>1. /\ phase = "fill" /\ index < D
      /\ next' = n
      /\ dense' = IF n < Len(ids) /\ indices[Box!Order[n + 1]] = index
                    THEN dense ELSE [dense EXCEPT ![index] = Box!Neighbours(n)]
      /\ index' = index + 1
      /\ UNCHANGED <<ids, base, starts, shape, indices, loaded, taken, phase>>
  BY DEF Box!Fill, Box!box
<1>2. IdsInv /\ InferredInv /\ FilledInv
  BY <1>1 DEF BoxInv
<1>3. /\ dense = [cell \in 0..(D - 1) |-> dense[cell]]
      /\ \A i \in BoxRows : dense[indices[i]] = {i}
      /\ index \in 0..D /\ next \in 0..Particles
      /\ \A m \in 1..next : indices[Box!Order[m]] < index
      /\ Box!HolesBetween
  BY <1>2 DEF FilledInv
<1>4. D \in Nat /\ index \in Nat /\ index \in 0..(D - 1) /\ Particles \in Nat
  BY <1>1, <1>2, <1>3, CellsAre DEF IdsInv
<1>5. /\ n \in next..Particles
      /\ n < Particles => indices[Box!Order[n + 1]] >= index
      /\ \A m \in next..(n - 1) : indices[Box!Order[m + 1]] < index
  BY <1>2, <1>3, <1>4, PassedIs
<1>d. dense' = IF n < Particles /\ indices[Box!Order[n + 1]] = index
                 THEN dense ELSE [dense EXCEPT ![index] = Box!Neighbours(n)]
  BY <1>1 DEF Particles
<1>o. Box!Order' = Box!Order /\ D' = D
  BY <1>1, OrderKeptBy DEF Box!DenseCount
<1> HIDE DEF n, D
<1>6. n \in 0..Particles /\ n \in Nat
  BY <1>3, <1>4, <1>5
<1>7. \A m \in 1..n : indices[Box!Order[m]] < index
  <2> TAKE m \in 1..n
  <2>1. CASE m <= next
    <3>1. m \in 1..next
      BY <2>1, <1>3, <1>4, <1>6
    <3> QED BY <3>1, <1>3
  <2>2. CASE m > next
    <3>1. m - 1 \in next..(n - 1) /\ (m - 1) + 1 = m
      BY <2>2, <1>3, <1>4, <1>6
    <3> QED BY <3>1, <1>5
  <2> QED BY <2>1, <2>2, <1>3, <1>4, <1>6
<1>8. /\ (\E i \in BoxRows : indices[i] = index)
           <=> (n < Particles /\ indices[Box!Order[n + 1]] = index)
      /\ (~\E i \in BoxRows : indices[i] = index) =>
           LET before == {i \in BoxRows : indices[i] < index}
               behind == {i \in BoxRows : indices[i] > index}
           IN  Box!Neighbours(n) =
                 {i \in before : \A j \in before : indices[j] <= indices[i]}
                 \cup {i \in behind : \A j \in behind : indices[j] >= indices[i]}
  BY <1>2, <1>4, <1>5, <1>6, <1>7, StopSplits
<1>9. dense' = IF \E i \in BoxRows : indices[i] = index
                 THEN dense ELSE [dense EXCEPT ![index] = Box!Neighbours(n)]
  BY <1>d, <1>8
<1>10. \A cell \in 0..(D - 1) : cell # index => dense'[cell] = dense[cell]
  BY <1>3, <1>9
<1>11. (~\E i \in BoxRows : indices[i] = index) => dense'[index] = Box!Neighbours(n)
  BY <1>3, <1>4, <1>9
<1>12. dense' = [cell \in 0..(D - 1) |-> dense'[cell]]
  BY <1>3, <1>4, <1>9
<1>13. \A i \in BoxRows : dense'[indices[i]] = {i}
  <2> TAKE i \in BoxRows
  <2>1. indices[i] \in 0..(D - 1)
    BY <1>2, CellsAre DEF D
  <2>2. CASE indices[i] = index
    BY <1>3, <1>9, <2>2
  <2>3. CASE indices[i] # index
    BY <1>3, <1>10, <2>1, <2>3
  <2> QED BY <2>2, <2>3
<1>14. Box!HolesBetween'
  <2> SUFFICES ASSUME NEW hole \in 0..(index' - 1), ~\E i \in BoxRows : indices[i] = hole
               PROVE  LET before == {i \in BoxRows : indices[i] < hole}
                          behind == {i \in BoxRows : indices[i] > hole}
                      IN  dense'[hole] =
                            {i \in before : \A j \in before : indices[j] <= indices[i]}
                            \cup {i \in behind : \A j \in behind : indices[j] >= indices[i]}
    BY <1>1 DEF Box!HolesBetween, BoxRows
  <2>1. CASE hole = index
    BY <1>8, <1>11, <2>1
  <2>2. CASE hole # index
    <3>1. hole \in 0..(index - 1) /\ hole \in 0..(D - 1)
      BY <1>1, <1>4, <2>2
    <3>2. dense'[hole] = dense[hole]
      BY <1>10, <2>2, <3>1
    <3> QED BY <1>3, <3>1, <3>2 DEF Box!HolesBetween, BoxRows
  <2> QED BY <2>1, <2>2
<1>15. index' \in 0..D /\ next' \in 0..Particles /\ \A m \in 1..next' : indices[Box!Order[m]] < index'
  <2>1. index' \in 0..D
    BY <1>1, <1>4
  <2>2. \A m \in 1..n : indices[Box!Order[m]] < index + 1
    <3> TAKE m \in 1..n
    <3>1. m \in 1..Particles
      BY <1>4, <1>6
    <3>2. Box!Order[m] \in BoxRows
      BY <1>2, <3>1, CellsAre, OrderIs
    <3>3. indices[Box!Order[m]] \in Nat
      BY <1>2, <3>2, CellsAre DEF OwnCells
    <3> QED BY <1>4, <1>7, <3>3
  <2> QED BY <1>1, <1>6, <2>1, <2>2
<1>16. FilledInv'
  <2>1. BoxRows' = BoxRows /\ Particles' = Particles
    BY <1>1 DEF BoxRows, Particles
  <2>2. /\ dense' = [cell \in 0..(D' - 1) |-> dense'[cell]]
        /\ \A i \in BoxRows' : dense'[indices'[i]] = {i}
        /\ index' \in 0..D' /\ next' \in 0..Particles'
        /\ \A m \in 1..next' : indices'[Box!Order'[m]] < index'
    BY <1>1, <1>o, <1>12, <1>13, <1>15, <2>1
  <2> QED BY <1>14, <2>2 DEF FilledInv, D
<1>17. IdsInv' /\ InferredInv'
  BY <1>1, <1>2, IdsKept, InferredKept
<1> QED BY <1>1, <1>16, <1>17 DEF BoxInv

LEMMA BoxNextKeepsInv ==
  ASSUME BoxInv, Box!Next PROVE BoxInv'
<1>1. CASE Box!Infer
  BY <1>1, InferKeepsInv
<1>2. CASE Box!InferThrows
  <2>1. UNCHANGED <<ids, base, starts, shape, indices, dense, next, index, loaded, taken>>
        /\ phase = "infer" /\ phase' = "disabled"
    BY <1>2 DEF Box!InferThrows, Box!box
  <2>2. IdsInv' /\ index' = 0 /\ next' = 0
    BY <2>1, IdsKept DEF BoxInv
  <2> QED BY <2>1, <2>2 DEF BoxInv
<1>3. CASE Box!Scatter
  BY <1>3, ScatterKeepsInv
<1>4. CASE Box!Fill
  BY <1>4, FillKeepsInv
<1>5. CASE Box!Filled
  <2>1. UNCHANGED <<ids, base, starts, shape, indices, dense, next, index, loaded, taken>>
        /\ phase = "fill" /\ phase' = "load"
    BY <1>5 DEF Box!Filled, Box!box
  <2>2. IdsInv' /\ InferredInv' /\ FilledInv'
    BY <2>1, IdsKept, InferredKept, FilledKept DEF BoxInv
  <2> QED BY <2>1, <2>2 DEF BoxInv
<1>6. CASE Box!Load
  <2>1. /\ UNCHANGED <<ids, base, starts, shape, indices, dense, next, index, taken>>
        /\ phase = "load" /\ phase' = "gather"
        /\ loaded' = [i \in DOMAIN ids |->
                        Box!IndexOf(Box!Coordinates(ids[i], base), starts, shape)]
    BY <1>6 DEF Box!Load, Box!box
  <2>2. IdsInv' /\ InferredInv' /\ FilledInv' /\ InferredInv
    BY <2>1, IdsKept, InferredKept, FilledKept DEF BoxInv
  <2>3. loaded' = indices'
    BY <2>1, <2>2 DEF InferredInv, BoxRows
  <2> QED BY <2>1, <2>2, <2>3 DEF BoxInv
<1>7. CASE Box!LoadThrows
  <2>1. phase = "load" /\ ~Box!LoadFits
    BY <1>7 DEF Box!LoadThrows
  <2> QED BY <2>1, InferredFits DEF BoxInv
<1>8. CASE Box!Decode
  <2>1. /\ UNCHANGED <<ids, base, starts, shape, indices, dense, next, index, loaded>>
        /\ phase = "gather" /\ phase' = "restored"
        /\ taken' = [i \in DOMAIN ids |-> dense[loaded[i]]]
    BY <1>8 DEF Box!Decode, Box!box
  <2>2. IdsInv' /\ InferredInv' /\ FilledInv' /\ FilledInv /\ loaded = indices
    BY <2>1, IdsKept, InferredKept, FilledKept DEF BoxInv
  <2>3. \A i \in BoxRows : dense[loaded[i]] = {i}
    BY <2>2 DEF FilledInv
  <2>4. taken' = [i \in BoxRows' |-> {i}]
    BY <2>1, <2>3 DEF BoxRows
  <2> QED BY <2>1, <2>2, <2>4 DEF BoxInv
<1>9. CASE Box!Done
  <2>1. UNCHANGED <<ids, base, starts, shape, indices, dense, next, index, loaded, taken, phase>>
    BY <1>9 DEF Box!Done, Box!vars, Box!box
  <2>2. /\ IdsInv'
        /\ InferredInv => InferredInv'
        /\ FilledInv => FilledInv'
    BY <2>1, IdsKept, InferredKept, FilledKept DEF BoxInv
  <2>3. BoxRows' = BoxRows
    BY <2>1 DEF BoxRows
  <2> QED BY <2>1, <2>2, <2>3 DEF BoxInv
<1> QED BY <1>1, <1>2, <1>3, <1>4, <1>5, <1>6, <1>7, <1>8, <1>9 DEF Box!Next
LEMMA BoxStays ==
  ASSUME BoxInv,
         UNCHANGED <<ids, base, starts, shape, indices, dense, next, index, loaded, taken, phase>>
  PROVE  BoxInv'
<1>1. /\ IdsInv'
      /\ InferredInv => InferredInv'
      /\ FilledInv => FilledInv'
  BY IdsKept, InferredKept, FilledKept DEF BoxInv
<1>2. BoxRows' = BoxRows
  BY DEF BoxRows
<1> QED BY <1>1, <1>2 DEF BoxInv

LEMMA BoxInvSmallest == BoxInv => Box!BoxSmallest
<1> SUFFICES ASSUME BoxInv, phase \notin {"infer", "disabled"} PROVE Box!BoxSmallest
  BY DEF Box!BoxSmallest, Box!Inferred
<1>1. IdsInv /\ InferredInv
  BY DEF BoxInv
<1> QED BY <1>1, InferredSmallest DEF Box!BoxSmallest

LEMMA BoxInvKeeps == BoxInv => Box!FieldKept
<1> SUFFICES ASSUME BoxInv PROVE Box!FieldKept
  OBVIOUS
<1>1. Box!CellsOwned
  <2> SUFFICES ASSUME phase \notin {"infer", "disabled"}
               PROVE  /\ \A i \in BoxRows : Box!Inside(Box!Coordinates(ids[i], base), starts, shape)
                      /\ \A i \in BoxRows : indices[i] \in 0..(Box!DenseCount - 1)
                      /\ \A i, j \in BoxRows : indices[i] = indices[j] => i = j
    BY DEF Box!CellsOwned, Box!Inferred, BoxRows
  <2>1. IdsInv /\ InferredInv
    BY DEF BoxInv
  <2> QED BY <2>1, CellsAre, RowsPlaced DEF OwnCells, Placed
<1>2. Box!HolesBetween
  <2>1. CASE phase \in {"infer", "disabled", "scatter"}
    <3>1. 0..(index - 1) = {}
      BY <2>1 DEF BoxInv
    <3> QED BY <3>1 DEF Box!HolesBetween
  <2>2. CASE phase \in {"fill", "load", "gather", "restored"}
    BY <2>2 DEF BoxInv, FilledInv
  <2> QED BY <2>1, <2>2 DEF BoxInv
<1>3. Box!FieldRestored
  BY DEF BoxInv, Box!FieldRestored, BoxRows
<1> QED BY <1>1, <1>2, <1>3 DEF Box!FieldKept

BoxPart == part = "box" => BoxInv

LEMMA BoxPartInvariant == LayoutSpec => []BoxPart
<1>1. LayoutInit => BoxPart
  BY BoxInitInv DEF LayoutInit, BoxPart
<1>2. BoxPart /\ [LayoutNext]_layoutVars => BoxPart'
  <2> SUFFICES ASSUME BoxPart, [LayoutNext]_layoutVars PROVE BoxPart'
    OBVIOUS
  <2>1. CASE part = "box" /\ Box!Next /\ UNCHANGED <<part, vars, searchVars, packVars>>
    BY <2>1, BoxNextKeepsInv DEF BoxPart
  <2>2. CASE LayoutNext /\ part # "box"
    BY <2>2 DEF LayoutNext, BoxPart
  <2>3. CASE UNCHANGED layoutVars
    BY <2>3, BoxStays DEF BoxPart, layoutVars, boxVars, boxOnlyVars
  <2> QED BY <2>1, <2>2, <2>3 DEF LayoutNext
<1> QED BY <1>1, <1>2, PTL DEF LayoutSpec

(* layout.cpp:172: infer_lattice starts the box behind the first of the    *)
(* largest gaps of every axis; no other start holds all the coordinates in *)
(* fewer planes, whatever the IDs and the length of the period are.        *)
THEOREM BoxStaysSmallest == LayoutSpec => []BoxSmallest
<1>1. BoxPart => BoxSmallest
  BY BoxInvSmallest DEF BoxPart, BoxSmallest
<1> QED BY <1>1, BoxPartInvariant, PTL

(* layout.cpp:186, 196, 258, 280: no two particles share a cell of the     *)
(* box, filling the holes takes the nearest particles before and behind    *)
(* and leaves the cells of particles alone, the box of the manifest is     *)
(* never refused, and every particle gets its own value back.              *)
THEOREM FieldStaysKept == LayoutSpec => []FieldKept
<1>1. BoxPart => FieldKept
  BY BoxInvKeeps DEF BoxPart, FieldKept
<1> QED BY <1>1, BoxPartInvariant, PTL

-------------------------------------------------------------------------------
(* ---- the array of the box --------------------------------------------- *)

IsShape(s) == s \in [0..2 -> Nat \ {0}]

LEMMA ThreeAxes == Search!Axes = 0..2 /\ 0..2 = {0, 1, 2}
BY DEF Search!Axes

(* An order of the axes is one of six.                                     *)
LEMMA AxesPermute ==
  ASSUME NEW p, Search!AreAxes(p)
  PROVE  /\ \A k \in 0..2 : p[k] \in 0..2
         /\ \A j, k \in 0..2 : p[j] = p[k] => j = k
         /\ \A j \in 0..2 : \E k \in 0..2 : p[k] = j
<1>1. {p[0], p[1], p[2]} = {0, 1, 2}
  BY ThreeAxes DEF Search!AreAxes
<1>2. p[0] \in {0, 1, 2} /\ p[1] \in {0, 1, 2} /\ p[2] \in {0, 1, 2}
  BY <1>1
<1>3. p[0] # p[1] /\ p[0] # p[2] /\ p[1] # p[2]
  <2>1. 0 \in {p[0], p[1], p[2]} /\ 1 \in {p[0], p[1], p[2]} /\ 2 \in {p[0], p[1], p[2]}
    BY <1>1
  <2> QED BY <1>2, <2>1
<1>4. \A j \in {0, 1, 2} : p[0] = j \/ p[1] = j \/ p[2] = j
  BY <1>1
<1> QED BY <1>2, <1>3, <1>4, ThreeAxes

LEMMA TurnedProduct ==
  ASSUME NEW s, IsShape(s), NEW p, Search!AreAxes(p)
  PROVE  /\ Search!Product(Search!Turned(s, p)) = Search!Product(s)
         /\ Search!Product(s) \in Nat \ {0}
         /\ IsShape(Search!Turned(s, p))
         /\ \A k \in 0..2 : Search!Turned(s, p)[k] = s[p[k]]
<1>1. \A k \in 0..2 : p[k] \in 0..2 /\ Search!Turned(s, p)[k] = s[p[k]] /\ s[p[k]] \in Nat \ {0}
  BY AxesPermute, ThreeAxes DEF Search!Turned, IsShape
<1>2. Search!Turned(s, p) = [k \in 0..2 |-> s[p[k]]]
  BY ThreeAxes DEF Search!Turned
<1>3. IsShape(Search!Turned(s, p))
  BY <1>1, <1>2 DEF IsShape
<1>4. s[0] \in Nat \ {0} /\ s[1] \in Nat \ {0} /\ s[2] \in Nat \ {0}
  BY ThreeAxes DEF IsShape
<1>5. Search!Product(s) = s[0] * s[1] * s[2]
      /\ Search!Product(Search!Turned(s, p)) = s[p[0]] * s[p[1]] * s[p[2]]
  BY <1>1 DEF Search!Product
<1>6. s[0] * s[1] * s[2] \in Nat \ {0}
  <2>1. s[0] * s[1] \in Nat \ {0}
    BY <1>4
  <2> QED BY <1>4, <2>1
<1>7. s[p[0]] * s[p[1]] * s[p[2]] = s[0] * s[1] * s[2]
  <2>1. ASSUME NEW a \in Nat, NEW b \in Nat, NEW c \in Nat
        PROVE  /\ a * c * b = a * b * c /\ b * a * c = a * b * c /\ b * c * a = a * b * c
               /\ c * a * b = a * b * c /\ c * b * a = a * b * c
    BY Z3
  <2>2. \/ p[0] = 0 /\ p[1] = 1 /\ p[2] = 2
        \/ p[0] = 0 /\ p[1] = 2 /\ p[2] = 1
        \/ p[0] = 1 /\ p[1] = 0 /\ p[2] = 2
        \/ p[0] = 1 /\ p[1] = 2 /\ p[2] = 0
        \/ p[0] = 2 /\ p[1] = 0 /\ p[2] = 1
        \/ p[0] = 2 /\ p[1] = 1 /\ p[2] = 0
    BY AxesPermute, ThreeAxes
  <2>3. s[0] \in Nat /\ s[1] \in Nat /\ s[2] \in Nat
    BY <1>4
  <2>4. /\ s[0] * s[2] * s[1] = s[0] * s[1] * s[2] /\ s[1] * s[0] * s[2] = s[0] * s[1] * s[2]
        /\ s[1] * s[2] * s[0] = s[0] * s[1] * s[2] /\ s[2] * s[0] * s[1] = s[0] * s[1] * s[2]
        /\ s[2] * s[1] * s[0] = s[0] * s[1] * s[2]
    BY <2>1, <2>3, Zenon
  <2> QED BY <2>2, <2>4
<1> QED BY <1>1, <1>3, <1>5, <1>6, <1>7
(* The coordinates of an encoded place, and the ones they stand for.       *)
Digits(dims, i) ==
  [k \in 0..2 |-> CASE k = 0 -> i \div (dims[1] * dims[2])
                    [] k = 1 -> (i \div dims[2]) % dims[1]
                    [] k = 2 -> i % dims[2]]

BaseAt(dims, p, f, i, j) ==
  LET K == {k \in 0..2 : p[k] = j}
      k == CHOOSE k \in K : TRUE
  IN  IF K = {} THEN 0 ELSE Search!Coordinate(dims[k], f[k], Digits(dims, i)[k])

LEMMA TransposeOrderIs ==
  ASSUME NEW s, NEW p, NEW f
  PROVE  LET dims == Search!Turned(s, p)
         IN  Search!TransposeOrder(s, p, f) =
               [i \in 0..(Search!Product(dims) - 1) |->
                  (BaseAt(dims, p, f, i, 0) * s[1] + BaseAt(dims, p, f, i, 1)) * s[2]
                     + BaseAt(dims, p, f, i, 2)]
BY DEF Search!TransposeOrder, BaseAt, Digits, Search!Axes

LEMMA DigitsAre ==
  ASSUME NEW dims, IsShape(dims), NEW i \in 0..(Search!Product(dims) - 1)
  PROVE  /\ \A k \in 0..2 : Digits(dims, i)[k] \in 0..(dims[k] - 1)
         /\ i = (Digits(dims, i)[0] * dims[1] + Digits(dims, i)[1]) * dims[2] + Digits(dims, i)[2]
<1> DEFINE a == dims[0]
           b == dims[1]
           c == dims[2]
           x == Digits(dims, i)[0]
           y == Digits(dims, i)[1]
           z == Digits(dims, i)[2]
           q == i \div c
           d == b * c
           r == i % d
           p == q \div b
<1>d. x = i \div d /\ y = q % b /\ z = i % c
  BY ThreeAxes DEF Digits
<1>n. a \in Nat \ {0} /\ b \in Nat \ {0} /\ c \in Nat \ {0} /\ i \in 0..(a * b * c - 1)
  BY ThreeAxes DEF IsShape, Search!Product
<1> HIDE DEF a, b, c, x, y, z
<1>0. d \in Nat /\ d > 0 /\ a * d = a * b * c /\ a * d \in Nat
  <2>1. d \in Nat /\ d > 0
    BY <1>n
  <2>2. a * (b * c) = (a * b) * c
    BY <1>n
  <2> QED BY <1>n, <2>1, <2>2
<1>1. i \in Nat /\ i < a * d
  <2>1. a * b * c \in Nat
    BY <1>n
  <2> QED BY <1>n, <1>0, <2>1
<1>2. q \in Nat /\ z \in 0..(c - 1) /\ i = q * c + z
  BY <1>n, <1>1, <1>d, QuotientIs
<1>3. x \in Nat /\ r \in 0..(d - 1) /\ i = x * d + r /\ x < a
  <2>1. x = i \div d
    BY <1>n, <1>d
  <2> HIDE DEF d
  <2> QED BY <1>n, <1>0, <1>1, <2>1, QuotientIs, DivisionBelow
<1>4. p \in Nat /\ y \in 0..(b - 1) /\ q = p * b + y
  <2>1. q \in Nat /\ y = q % b
    BY <1>n, <1>2, <1>d
  <2> HIDE DEF q
  <2> QED BY <1>n, <2>1, QuotientIs
<1> HIDE DEF q, r, p
<1>5. i = p * d + (y * c + z)
  <2>1. q * c = (p * b) * c + y * c
    BY <1>n, <1>2, <1>4
  <2>2. (p * b) * c = p * (b * c)
    BY <1>n, <1>4
  <2>3. q * c \in Int /\ p * d \in Int /\ y * c \in Int /\ z \in Int
    BY <1>n, <1>0, <1>2, <1>4
  <2> QED BY <1>n, <1>2, <2>1, <2>2, <2>3
<1>6. y * c + z \in 0..(d - 1)
  BY <1>n, <1>2, <1>4, RowBelow
<1>7. x = p
  <2> DEFINE w == y * c + z
  <2>1. x * d + r = p * d + w /\ w \in 0..(d - 1)
    BY <1>n, <1>3, <1>5, <1>6
  <2> HIDE DEF w, d
  <2> QED BY <1>n, <1>0, <1>3, <1>4, <2>1, RowUnique
<1>8. i = (x * b + y) * c + z
  BY <1>n, <1>2, <1>4, <1>7
<1>9. /\ x \in 0..(a - 1) /\ y \in 0..(b - 1) /\ z \in 0..(c - 1)
      /\ i = (x * b + y) * c + z
  BY <1>n, <1>2, <1>3, <1>4, <1>8
<1> QED BY <1>9, ThreeAxes DEF a, b, c, x, y, z

LEMMA BaseIs ==
  ASSUME NEW s, IsShape(s), NEW p, Search!AreAxes(p), NEW f, \A k \in 0..2 : f[k] \in BOOLEAN,
         NEW i \in 0..(Search!Product(s) - 1)
  PROVE  LET dims == Search!Turned(s, p)
         IN  /\ \A k \in 0..2 : BaseAt(dims, p, f, i, p[k])
                                  = Search!Coordinate(dims[k], f[k], Digits(dims, i)[k])
             /\ \A j \in 0..2 : BaseAt(dims, p, f, i, j) \in 0..(s[j] - 1)
<1> DEFINE dims == Search!Turned(s, p)
           B(j) == BaseAt(dims, p, f, i, j)
           C(k) == Search!Coordinate(dims[k], f[k], Digits(dims, i)[k])
<1>1. IsShape(dims) /\ i \in 0..(Search!Product(dims) - 1) /\ \A k \in 0..2 : dims[k] = s[p[k]]
  BY TurnedProduct
<1>2. \A k \in 0..2 : Digits(dims, i)[k] \in 0..(dims[k] - 1) /\ dims[k] \in Nat
  <2>1. \A k \in 0..2 : dims[k] \in Nat
    BY <1>1 DEF IsShape
  <2> HIDE DEF dims
  <2> QED BY <1>1, <2>1, DigitsAre
<1>3. ASSUME NEW j \in 0..2
      PROVE  \E k \in 0..2 : p[k] = j /\ B(j) = C(k)
  <2> DEFINE K == {k \in 0..2 : p[k] = j}
             h == CHOOSE k \in K : TRUE
  <2>1. K # {}
    BY AxesPermute
  <2>2. h \in K
    BY <2>1
  <2>3. B(j) = IF K = {} THEN 0 ELSE C(h)
    BY DEF BaseAt
  <2> HIDE DEF h, B, C
  <2> QED BY <2>1, <2>2, <2>3
<1>4. \A k \in 0..2 : C(k) \in 0..(dims[k] - 1)
  BY <1>2 DEF Search!Coordinate
<1> HIDE DEF dims, B, C
<1>5. ASSUME NEW k \in 0..2 PROVE B(p[k]) = C(k)
  <2>1. p[k] \in 0..2
    BY AxesPermute
  <2>2. PICK h \in 0..2 : p[h] = p[k] /\ B(p[k]) = C(h)
    BY <1>3, <2>1
  <2> QED BY <2>2, AxesPermute
<1>6. ASSUME NEW j \in 0..2 PROVE B(j) \in 0..(s[j] - 1)
  <2>1. PICK k \in 0..2 : p[k] = j /\ B(j) = C(k)
    BY <1>3
  <2> QED BY <1>1, <1>4, <2>1
<1> QED BY <1>5, <1>6 DEF dims, B, C

(* Turning and mirroring the box takes every cell once.                    *)
LEMMA TransposeIs ==
  ASSUME NEW s, IsShape(s), NEW p, Search!AreAxes(p), NEW f, \A k \in 0..2 : f[k] \in BOOLEAN
  PROVE  LET order == Search!TransposeOrder(s, p, f)
             cells == 0..(Search!Product(s) - 1)
         IN  /\ order \in [cells -> cells]
             /\ \A i, j \in cells : order[i] = order[j] => i = j
             /\ \A cell \in cells : \E i \in cells : order[i] = cell
<1> DEFINE order == Search!TransposeOrder(s, p, f)
           cells == 0..(Search!Product(s) - 1)
           dims == Search!Turned(s, p)
           B(i, j) == BaseAt(dims, p, f, i, j)
<1>1. /\ Search!Product(dims) = Search!Product(s) /\ Search!Product(s) \in Nat \ {0}
      /\ IsShape(dims)
  BY TurnedProduct
<1>2. order = [i \in cells |-> (B(i, 0) * s[1] + B(i, 1)) * s[2] + B(i, 2)]
  BY <1>1, TransposeOrderIs, Zenon
<1>3. \A i \in cells : /\ \A k \in 0..2 : B(i, p[k]) = Search!Coordinate(dims[k], f[k], Digits(dims, i)[k])
                       /\ \A j \in 0..2 : B(i, j) \in 0..(s[j] - 1)
  BY BaseIs
<1>4. s[0] \in Nat /\ s[1] \in Nat /\ s[2] \in Nat /\ Search!Product(s) = s[0] * s[1] * s[2]
  BY ThreeAxes DEF IsShape, Search!Product
<1> HIDE DEF B
<1>5. \A i \in cells : B(i, 0) \in 0..(s[0] - 1) /\ B(i, 1) \in 0..(s[1] - 1)
                       /\ B(i, 2) \in 0..(s[2] - 1)
  BY <1>3
<1>6. \A i \in cells : B(i, 0) * s[1] + B(i, 1) \in 0..(s[0] * s[1] - 1)
  <2> HIDE DEF cells
  <2> QED BY <1>4, <1>5, RowBelow
<1>n. s[0] * s[1] \in Nat
  BY <1>4
<1>7. \A i \in cells : order[i] \in cells
  <2> TAKE i \in cells
  <2> DEFINE row == B(i, 0) * s[1] + B(i, 1)
             n == s[0] * s[1]
             x == B(i, 2)
  <2>1. row \in 0..(n - 1) /\ x \in 0..(s[2] - 1) /\ n \in Nat
    BY <1>5, <1>6, <1>n
  <2>2. order[i] = row * s[2] + x
    BY <1>2
  <2>4. cells = 0..(n * s[2] - 1)
    BY <1>4
  <2> HIDE DEF row, n, x, order, cells
  <2>3. row * s[2] + x \in 0..(n * s[2] - 1)
    BY <1>4, <2>1, RowBelow
  <2> QED BY <2>2, <2>3, <2>4
<1>8. ASSUME NEW i \in cells, NEW j \in cells, order[i] = order[j]
      PROVE  i = j
  <2> DEFINE v == B(i, 0) * s[1] + B(i, 1)
             w == B(j, 0) * s[1] + B(j, 1)
  <2>0. v \in Nat /\ w \in Nat
    BY <1>6, <1>n
  <2>1. v * s[2] + B(i, 2) = w * s[2] + B(j, 2)
    BY <1>2, <1>8
  <2> HIDE DEF v, w, order, cells
  <2>2. v = w /\ B(i, 2) = B(j, 2)
    <3> DEFINE x == B(i, 2)
               y == B(j, 2)
    <3>1. x \in 0..(s[2] - 1) /\ y \in 0..(s[2] - 1) /\ v * s[2] + x = w * s[2] + y
      BY <1>5, <2>1
    <3> HIDE DEF x, y
    <3>2. v = w /\ x = y
      BY <1>4, <2>0, <3>1, RowUnique
    <3> QED BY <3>2 DEF x, y
  <2>3. B(i, 0) = B(j, 0) /\ B(i, 1) = B(j, 1)
    <3>1. B(i, 0) * s[1] + B(i, 1) = B(j, 0) * s[1] + B(j, 1)
      BY <2>2 DEF v, w
    <3>2. B(i, 0) \in Nat /\ B(j, 0) \in Nat
      BY <1>5
    <3> QED BY <1>4, <1>5, <3>1, <3>2, RowUnique
  <2>4. \A k \in 0..2 : B(i, k) = B(j, k)
    BY <2>2, <2>3, ThreeAxes
  <2> DEFINE c == Digits(dims, i)
             e == Digits(dims, j)
  <2>6. /\ \A k \in 0..2 : c[k] \in 0..(dims[k] - 1) /\ e[k] \in 0..(dims[k] - 1)
        /\ i = (c[0] * dims[1] + c[1]) * dims[2] + c[2]
        /\ j = (e[0] * dims[1] + e[1]) * dims[2] + e[2]
    <3>1. i \in 0..(Search!Product(dims) - 1) /\ j \in 0..(Search!Product(dims) - 1)
      BY <1>1 DEF cells
    <3> HIDE DEF dims
    <3> QED BY <1>1, <3>1, DigitsAre
  <2>7. \A k \in 0..2 : c[k] = e[k]
    <3> TAKE k \in 0..2
    <3>1. p[k] \in 0..2
      BY AxesPermute
    <3>2. Search!Coordinate(dims[k], f[k], c[k]) = Search!Coordinate(dims[k], f[k], e[k])
      BY <1>3, <2>4, <3>1
    <3>3. dims[k] \in Nat
      BY <1>1 DEF IsShape
    <3> HIDE DEF dims, c, e
    <3> QED BY <2>6, <3>2, <3>3 DEF Search!Coordinate
  <2> HIDE DEF c, e
  <2>8. c[0] = e[0] /\ c[1] = e[1] /\ c[2] = e[2]
    BY <2>7
  <2> QED BY <2>6, <2>8
<1>9. order \in [cells -> cells]
  BY <1>2, <1>7
<1>10. \A cell \in cells : \E i \in cells : order[i] = cell
  <2> HIDE DEF order
  <2>1. order \in Injection(cells, cells)
    BY <1>8, <1>9, Fun_IsInj
  <2>2. IsFiniteSet(cells)
    BY <1>1, FS_Interval
  <2>3. order \in Surjection(cells, cells)
    BY <2>1, <2>2, FS_Injection
  <2> QED BY <2>3 DEF Surjection
<1> QED BY <1>8, <1>9, <1>10
-------------------------------------------------------------------------------
(* ---- the search ------------------------------------------------------- *)

AxisOrders == Search!Bijection(Search!Axes, Search!Axes)
Directions == [Search!Axes -> BOOLEAN]

LEMMA PermutationsAre ==
  /\ \A p : p \in AxisOrders <=> p \in [0..2 -> 0..2] /\ p[0] # p[1] /\ p[0] # p[2] /\ p[1] # p[2]
  /\ \A p \in AxisOrders : Search!AreAxes(p)
  /\ Search!Identity \in AxisOrders
<1>1. ASSUME NEW p \in AxisOrders
      PROVE  p \in [0..2 -> 0..2] /\ p[0] # p[1] /\ p[0] # p[2] /\ p[1] # p[2]
  <2>1. p \in [0..2 -> 0..2] /\ \A j, k \in 0..2 : p[j] = p[k] => j = k
    BY DEF AxisOrders, Search!Bijection, Search!Injection, Search!IsInjective, Search!Axes
  <2> QED BY <2>1, ThreeAxes
<1>2. ASSUME NEW p \in [0..2 -> 0..2], p[0] # p[1], p[0] # p[2], p[1] # p[2]
      PROVE  p \in AxisOrders /\ Search!AreAxes(p)
  <2>1. p[0] \in {0, 1, 2} /\ p[1] \in {0, 1, 2} /\ p[2] \in {0, 1, 2}
    BY ThreeAxes
  <2>2. \A j \in {0, 1, 2} : p[0] = j \/ p[1] = j \/ p[2] = j
    BY <1>2, <2>1
  <2>3. \A j \in 0..2 : \E k \in 0..2 : p[k] = j
    BY <2>2, ThreeAxes
  <2>4. \A j, k \in 0..2 : p[j] = p[k] => j = k
    BY <1>2, ThreeAxes
  <2>5. p \in AxisOrders
    BY <2>3, <2>4 DEF AxisOrders, Search!Bijection, Search!Injection, Search!Surjection,
                      Search!IsInjective, Search!Axes
  <2>6. {p[k] : k \in 0..2} = 0..2
    BY <2>3
  <2> QED BY <2>5, <2>6 DEF Search!AreAxes, Search!Axes
<1>3. Search!Identity \in [0..2 -> 0..2] /\ Search!Identity[0] = 0 /\ Search!Identity[1] = 1
      /\ Search!Identity[2] = 2
  BY ThreeAxes DEF Search!Identity
<1> QED BY <1>1, <1>2, <1>3

LEMMA RanksOrder ==
  /\ \A p \in AxisOrders : Search!Rank(p) \in Nat
  /\ \A p, q \in AxisOrders : Search!Rank(p) = Search!Rank(q) => p = q
  /\ \A p \in AxisOrders : Search!Rank(Search!Identity) <= Search!Rank(p)
<1>1. \A p \in AxisOrders : p \in [0..2 -> 0..2] /\ p[0] \in 0..2 /\ p[1] \in 0..2 /\ p[2] \in 0..2
                              /\ p[0] # p[1] /\ p[0] # p[2] /\ p[1] # p[2]
  BY PermutationsAre, ThreeAxes
<1>2. \A p \in AxisOrders : Search!Rank(p) \in Nat
  BY <1>1 DEF Search!Rank
<1>3. ASSUME NEW p \in AxisOrders, NEW q \in AxisOrders, Search!Rank(p) = Search!Rank(q)
      PROVE  p = q
  <2>1. p[0] = q[0] /\ p[1] = q[1] /\ p[2] = q[2]
    BY <1>1, <1>3 DEF Search!Rank
  <2> QED BY <1>1, <2>1, ThreeAxes
<1>4. Search!Rank(Search!Identity) = 5
  <2>1. Search!Identity[0] = 0 /\ Search!Identity[1] = 1 /\ Search!Identity[2] = 2
    BY ThreeAxes DEF Search!Identity
  <2> QED BY <2>1 DEF Search!Rank
<1>5. \A p \in AxisOrders : 5 <= Search!Rank(p)
  BY <1>1 DEF Search!Rank
<1> QED BY <1>2, <1>3, <1>4, <1>5

LEMMA BitsOrder ==
  /\ \A f \in Directions : Search!Bits(f) \in Nat
  /\ \A f, g \in Directions : Search!Bits(f) = Search!Bits(g) => f = g
  /\ Search!Unflipped \in Directions
  /\ \A f \in Directions : Search!Bits(Search!Unflipped) <= Search!Bits(f)
<1> DEFINE B(f) == [k \in Search!Axes |-> IF f[k] THEN 1 ELSE 0]
<1>1. \A f \in Directions : /\ B(f)[0] = IF f[0] THEN 1 ELSE 0
                            /\ B(f)[1] = IF f[1] THEN 1 ELSE 0
                            /\ B(f)[2] = IF f[2] THEN 1 ELSE 0
                            /\ Search!Bits(f) = 9 * B(f)[0] + 3 * B(f)[1] + B(f)[2]
  BY ThreeAxes DEF Search!Bits, Search!Rank
<1> HIDE DEF B
<1>b. \A f \in Directions : /\ B(f)[0] \in {0, 1} /\ B(f)[1] \in {0, 1} /\ B(f)[2] \in {0, 1}
  BY <1>1
<1>2. \A f \in Directions : Search!Bits(f) \in Nat
  <2> TAKE f \in Directions
  <2> DEFINE x == B(f)[0]
             y == B(f)[1]
             z == B(f)[2]
  <2>1. x \in {0, 1} /\ y \in {0, 1} /\ z \in {0, 1} /\ Search!Bits(f) = 9 * x + 3 * y + z
    BY <1>1, <1>b
  <2> HIDE DEF x, y, z
  <2> QED BY <2>1
<1>3. ASSUME NEW f \in Directions, NEW g \in Directions, Search!Bits(f) = Search!Bits(g)
      PROVE  f = g
  <2> DEFINE x == B(f)[0]
             y == B(f)[1]
             z == B(f)[2]
             u == B(g)[0]
             v == B(g)[1]
             w == B(g)[2]
  <2>1. /\ x \in {0, 1} /\ y \in {0, 1} /\ z \in {0, 1}
        /\ u \in {0, 1} /\ v \in {0, 1} /\ w \in {0, 1}
        /\ 9 * x + 3 * y + z = 9 * u + 3 * v + w
    BY <1>1, <1>b, <1>3
  <2> HIDE DEF x, y, z, u, v, w
  <2>2. x = u /\ y = v /\ z = w
    BY <2>1
  <2>3. f[0] \in BOOLEAN /\ f[1] \in BOOLEAN /\ f[2] \in BOOLEAN
        /\ g[0] \in BOOLEAN /\ g[1] \in BOOLEAN /\ g[2] \in BOOLEAN
    BY ThreeAxes DEF Directions
  <2>4. f[0] = g[0] /\ f[1] = g[1] /\ f[2] = g[2]
    BY <1>1, <2>2, <2>3 DEF x, y, z, u, v, w
  <2> QED BY <2>4, ThreeAxes DEF Directions
<1>4. Search!Unflipped \in Directions
  BY DEF Search!Unflipped, Directions
<1>5. Search!Bits(Search!Unflipped) = 0
  <2>1. ~Search!Unflipped[0] /\ ~Search!Unflipped[1] /\ ~Search!Unflipped[2]
    BY ThreeAxes DEF Search!Unflipped
  <2>2. B(Search!Unflipped)[0] = 0 /\ B(Search!Unflipped)[1] = 0 /\ B(Search!Unflipped)[2] = 0
    BY <1>1, <1>4, <2>1
  <2> QED BY <1>1, <1>4, <2>2
<1>6. \A f \in Directions : Search!Bits(Search!Unflipped) <= Search!Bits(f)
  <2>1. \A f \in Directions : Search!Bits(f) >= 0
    BY <1>2
  <2> QED BY <1>5, <2>1
<1> QED BY <1>2, <1>3, <1>4, <1>6

(* The following order is the only one between: the orders tried so far.        *)
LEMMA NextPermutationIs ==
  ASSUME NEW p \in AxisOrders
  PROVE  /\ Search!Later(p) = {} => \A q \in AxisOrders : Search!Rank(q) <= Search!Rank(p)
         /\ Search!Later(p) # {} =>
              /\ Search!NextPermutation(p) \in AxisOrders
              /\ \A q \in AxisOrders :
                   Search!Rank(q) < Search!Rank(Search!NextPermutation(p))
                     <=> Search!Rank(q) <= Search!Rank(p)
<1> DEFINE Later == {q \in AxisOrders : Search!Rank(q) > Search!Rank(p)}
           T == {Search!Rank(q) : q \in Later}
<1>0. Search!Later(p) = Later
  BY DEF Search!Later, AxisOrders
<1>1. \A q \in AxisOrders : Search!Rank(q) \in Nat
  BY RanksOrder
<1>2. Later = {} => \A q \in AxisOrders : Search!Rank(q) <= Search!Rank(p)
  BY <1>1
<1>3. ASSUME Later # {}
      PROVE  LET successor == CHOOSE q \in Later : \A r \in Later : Search!Rank(q) <= Search!Rank(r)
             IN  /\ successor \in AxisOrders
                 /\ \A q \in AxisOrders :
                      Search!Rank(q) < Search!Rank(successor) <=> Search!Rank(q) <= Search!Rank(p)
  <2>1. T \subseteq Nat /\ T # {}
    BY <1>1, <1>3
  <2>2. \E n \in T : \A m \in T : n <= m
    <3> HIDE DEF T
    <3> QED BY <2>1, LeastNatural
  <2>3. \E q \in Later : \A r \in Later : Search!Rank(q) <= Search!Rank(r)
    BY <2>2
  <2> DEFINE n == CHOOSE q \in Later : \A r \in Later : Search!Rank(q) <= Search!Rank(r)
  <2>4. n \in Later /\ \A r \in Later : Search!Rank(n) <= Search!Rank(r)
    BY <2>3
  <2> HIDE DEF n
  <2>5. n \in AxisOrders /\ Search!Rank(n) > Search!Rank(p)
        /\ \A q \in AxisOrders : Search!Rank(q) > Search!Rank(p) => Search!Rank(n) <= Search!Rank(q)
    BY <2>4
  <2> HIDE DEF Later
  <2>6. \A q \in AxisOrders : Search!Rank(q) < Search!Rank(n) <=> Search!Rank(q) <= Search!Rank(p)
    BY <1>1, <2>5
  <2> QED BY <2>5, <2>6 DEF n
<1>4. Search!NextPermutation(p)
        = CHOOSE q \in Later : \A r \in Later : Search!Rank(q) <= Search!Rank(r)
  BY <1>0 DEF Search!NextPermutation
<1> HIDE DEF Later
<1> QED BY <1>0, <1>2, <1>3, <1>4

LEMMA NextFlipsIs ==
  ASSUME NEW f \in Directions
  PROVE  /\ Search!MoreFlips(f) = {} => \A g \in Directions : Search!Bits(g) <= Search!Bits(f)
         /\ Search!MoreFlips(f) # {} =>
              /\ Search!NextFlips(f) \in Directions
              /\ \A g \in Directions :
                   Search!Bits(g) < Search!Bits(Search!NextFlips(f))
                     <=> Search!Bits(g) <= Search!Bits(f)
<1> DEFINE More == {g \in Directions : Search!Bits(g) > Search!Bits(f)}
           T == {Search!Bits(g) : g \in More}
<1>0. Search!MoreFlips(f) = More
  BY DEF Search!MoreFlips, Directions
<1>1. \A g \in Directions : Search!Bits(g) \in Nat
  BY BitsOrder
<1>2. More = {} => \A g \in Directions : Search!Bits(g) <= Search!Bits(f)
  BY <1>1
<1>3. ASSUME More # {}
      PROVE  LET successor == CHOOSE g \in More : \A h \in More : Search!Bits(g) <= Search!Bits(h)
             IN  /\ successor \in Directions
                 /\ \A g \in Directions :
                      Search!Bits(g) < Search!Bits(successor) <=> Search!Bits(g) <= Search!Bits(f)
  <2>1. T \subseteq Nat /\ T # {}
    BY <1>1, <1>3
  <2>2. \E n \in T : \A m \in T : n <= m
    <3> HIDE DEF T
    <3> QED BY <2>1, LeastNatural
  <2>3. \E g \in More : \A h \in More : Search!Bits(g) <= Search!Bits(h)
    BY <2>2
  <2> DEFINE n == CHOOSE g \in More : \A h \in More : Search!Bits(g) <= Search!Bits(h)
  <2>4. n \in More /\ \A h \in More : Search!Bits(n) <= Search!Bits(h)
    BY <2>3
  <2> HIDE DEF n
  <2>5. n \in Directions /\ Search!Bits(n) > Search!Bits(f)
        /\ \A g \in Directions : Search!Bits(g) > Search!Bits(f) => Search!Bits(n) <= Search!Bits(g)
    BY <2>4
  <2> HIDE DEF More
  <2>6. \A g \in Directions : Search!Bits(g) < Search!Bits(n) <=> Search!Bits(g) <= Search!Bits(f)
    BY <1>1, <2>5
  <2> QED BY <2>5, <2>6 DEF n
<1>4. Search!NextFlips(f)
        = CHOOSE g \in More : \A h \in More : Search!Bits(g) <= Search!Bits(h)
  BY <1>0 DEF Search!NextFlips
<1> HIDE DEF More
<1> QED BY <1>0, <1>2, <1>3, <1>4
LEMMA FlipsAreLeft ==
  Search!MoreFlips(Search!Unflipped) # {}
<1> DEFINE g == [k \in Search!Axes |-> k = 2]
           b == [k \in Search!Axes |-> IF g[k] THEN 1 ELSE 0]
           c == [k \in Search!Axes |-> IF Search!Unflipped[k] THEN 1 ELSE 0]
<1>1. g \in [Search!Axes -> BOOLEAN]
  OBVIOUS
<1>2. ~g[0] /\ ~g[1] /\ g[2]
  <2>1. 0 \in Search!Axes /\ 1 \in Search!Axes /\ 2 \in Search!Axes /\ 0 # 2 /\ 1 # 2
    BY ThreeAxes
  <2> QED BY <2>1, Zenon
<1>3. b[0] = 0 /\ b[1] = 0 /\ b[2] = 1
  BY <1>2, ThreeAxes
<1>4. c[0] = 0 /\ c[1] = 0 /\ c[2] = 0
  BY ThreeAxes DEF Search!Unflipped
<1>5. Search!Bits(g) = 9 * b[0] + 3 * b[1] + b[2]
      /\ Search!Bits(Search!Unflipped) = 9 * c[0] + 3 * c[1] + c[2]
  BY DEF Search!Bits, Search!Rank
<1>6. Search!Bits(g) > Search!Bits(Search!Unflipped)
  <2> HIDE DEF g, b, c
  <2> QED BY <1>3, <1>4, <1>5
<1> HIDE DEF g
<1>7. g \in Search!MoreFlips(Search!Unflipped)
  BY <1>1, <1>6 DEF Search!MoreFlips
<1> QED BY <1>7

Chosen == <<selected, selectedFlips>>
Transposed(p, f) == Search!TransposeOrder(shape, p, f)

TrialTypes ==
  /\ IsShape(shape) /\ shape \in Shapes /\ search \in BOOLEAN
  /\ permutation \in AxisOrders /\ flips \in Directions
  /\ selected \in AxisOrders /\ selectedFlips \in Directions

(* The smallest of the streams so far, and its values.                     *)
BestInv ==
  /\ \A trial \in DOMAIN tried : tried[trial] \in Nat
  /\ Chosen \in DOMAIN tried
  /\ \A trial \in DOMAIN tried : tried[Chosen] <= tried[trial]
  /\ best = Transposed(selected, selectedFlips)

(* All orders of the axes before this one, and all directions of the best  *)
(* order before these.                                                     *)
Before(p) == {<<q, Search!Unflipped>> : q \in {r \in AxisOrders : Search!Rank(r) < Search!Rank(p)}}
AllOrders == {<<q, Search!Unflipped>> : q \in AxisOrders}
Flipped(p, f) == {<<p, g>> : g \in {h \in Directions : Search!Bits(h) < Search!Bits(f)}}

PermutationInv ==
  /\ flips = Search!Unflipped /\ selectedFlips = Search!Unflipped
  /\ DOMAIN tried = Before(permutation)
  /\ ~search => permutation = Search!Identity
  /\ IF best = <<>> THEN DOMAIN tried = {} ELSE BestInv

Wanted ==
  IF search
  THEN (AxisOrders \X {Search!Unflipped}) \cup ({selected} \X Directions)
  ELSE {<<Search!Identity, Search!Unflipped>>}

TriedInv ==
  /\ phase = "permutations" => PermutationInv
  /\ phase = "best" => /\ search /\ BestInv /\ selectedFlips = Search!Unflipped
                       /\ DOMAIN tried = AllOrders
  /\ phase = "flips" => /\ search /\ BestInv /\ selected = permutation
                        /\ flips # Search!Unflipped
                        /\ DOMAIN tried = AllOrders \cup Flipped(permutation, flips)
  /\ phase \in {"store", "stored"} => BestInv /\ Wanted \subseteq DOMAIN tried

LEMMA TransposedWhole ==
  ASSUME TrialTypes, NEW p \in AxisOrders, NEW f \in Directions
  PROVE  /\ Search!Product(shape) \in Nat \ {0}
         /\ Transposed(p, f) # <<>>
         /\ Transposed(p, f) \in [0..(Search!Product(shape) - 1) -> 0..(Search!Product(shape) - 1)]
         /\ \A i, j \in 0..(Search!Product(shape) - 1) :
              Transposed(p, f)[i] = Transposed(p, f)[j] => i = j
         /\ \A cell \in 0..(Search!Product(shape) - 1) :
              \E i \in 0..(Search!Product(shape) - 1) : Transposed(p, f)[i] = cell
<1>1. IsShape(shape) /\ Search!AreAxes(p) /\ \A k \in 0..2 : f[k] \in BOOLEAN
  BY PermutationsAre, ThreeAxes DEF TrialTypes, Directions
<1>2. Search!Product(shape) \in Nat \ {0}
  BY <1>1, TurnedProduct
<1>3. /\ Transposed(p, f) \in [0..(Search!Product(shape) - 1) -> 0..(Search!Product(shape) - 1)]
      /\ \A i, j \in 0..(Search!Product(shape) - 1) :
           Transposed(p, f)[i] = Transposed(p, f)[j] => i = j
      /\ \A cell \in 0..(Search!Product(shape) - 1) :
           \E i \in 0..(Search!Product(shape) - 1) : Transposed(p, f)[i] = cell
  BY <1>1, TransposeIs DEF Transposed
<1>4. DOMAIN Transposed(p, f) # {}
  <2>1. 0 \in 0..(Search!Product(shape) - 1)
    BY <1>2
  <2> QED BY <1>3, <2>1
<1>5. DOMAIN <<>> = {}
  OBVIOUS
<1> QED BY <1>2, <1>3, <1>4, <1>5

(* A trial keeps the smaller of its stream and the smallest so far.        *)
LEMMA TrialKeepsBest ==
  ASSUME TrialTypes, Search!Trial, UNCHANGED shape, <<permutation, flips>> \notin DOMAIN tried,
         IF best = <<>> THEN DOMAIN tried = {} ELSE BestInv
  PROVE  /\ BestInv' /\ best' # <<>>
         /\ DOMAIN tried' = DOMAIN tried \cup {<<permutation, flips>>}
         /\ \/ selected' = permutation /\ selectedFlips' = flips
            \/ best # <<>> /\ selected' = selected /\ selectedFlips' = selectedFlips
         /\ selected' \in AxisOrders /\ selectedFlips' \in Directions
<1> DEFINE t == <<permutation, flips>>
<1>1. PICK size \in Sizes :
        /\ tried' = [trial \in DOMAIN tried \cup {t} |-> IF trial = t THEN size ELSE tried[trial]]
        /\ IF best = <<>> \/ size < tried[Chosen]
           THEN /\ best' = Transposed(permutation, flips)
                /\ selected' = permutation /\ selectedFlips' = flips
           ELSE UNCHANGED <<best, selected, selectedFlips>>
  BY DEF Search!Trial, Chosen, Transposed
<1>2. size \in Nat
  BY LayoutsAssumption DEF Search!ShapedAssumption
<1> HIDE DEF t
<1>3. /\ DOMAIN tried' = DOMAIN tried \cup {t} /\ tried'[t] = size
      /\ \A trial \in DOMAIN tried : trial # t /\ tried'[trial] = tried[trial]
  BY <1>1 DEF t
<1>4. \A p, f : Transposed(p, f)' = Transposed(p, f)
  BY DEF Transposed
<1>5. CASE best = <<>> \/ size < tried[Chosen]
  <2>1. best' = Transposed(permutation, flips) /\ selected' = permutation /\ selectedFlips' = flips
    BY <1>1, <1>5
  <2>2. Chosen' = t /\ best' # <<>>
    BY <2>1, TransposedWhole DEF Chosen, t, TrialTypes
  <2>3. best' = Transposed(selected, selectedFlips)'
    BY <2>1 DEF Transposed
  <2>4. \A trial \in DOMAIN tried : tried[trial] \in Nat /\ size <= tried[trial]
    <3>1. CASE best = <<>>
      BY <3>1
    <3>2. CASE best # <<>>
      BY <1>2, <1>5, <3>2 DEF BestInv
    <3> QED BY <3>1, <3>2
  <2>5. \A trial \in DOMAIN tried' : tried'[trial] \in Nat /\ tried'[Chosen'] <= tried'[trial]
    BY <1>2, <1>3, <2>2, <2>4
  <2>6. BestInv'
    BY <1>3, <2>2, <2>3, <2>5 DEF BestInv
  <2> QED BY <1>3, <2>1, <2>2, <2>6 DEF t, TrialTypes
<1>6. CASE ~(best = <<>> \/ size < tried[Chosen])
  <2>1. UNCHANGED <<best, selected, selectedFlips>> /\ best # <<>> /\ BestInv
    BY <1>1, <1>6
  <2>2. Chosen' = Chosen /\ Chosen \in DOMAIN tried /\ tried[Chosen] \in Nat
        /\ tried[Chosen] <= size
    BY <1>2, <1>6, <2>1 DEF Chosen, BestInv
  <2>3. \A trial \in DOMAIN tried' : tried'[trial] \in Nat /\ tried'[Chosen'] <= tried'[trial]
    BY <1>2, <1>3, <2>1, <2>2 DEF BestInv
  <2>4. best' = Transposed(selected, selectedFlips)'
    BY <2>1 DEF Transposed, BestInv
  <2>5. BestInv'
    BY <1>3, <2>2, <2>3, <2>4 DEF BestInv
  <2> QED BY <1>3, <2>1, <2>5 DEF t, TrialTypes
<1> QED BY <1>5, <1>6
-------------------------------------------------------------------------------
(* ---- the metadata ----------------------------------------------------- *)

Named ==
  [count |-> Search!Product(shape), base |-> shape,
   encoded |-> Search!Turned(shape, selected),
   axes |-> selected, flips |-> selectedFlips]

OneDamaged ==
  \/ \E n \in Lengths : metadata = [Named EXCEPT !.count = n]
  \/ \E s \in [Search!Axes -> Lengths] : \/ metadata = [Named EXCEPT !.base = s]
                                         \/ metadata = [Named EXCEPT !.encoded = s]
  \/ \E p \in [Search!Axes -> 0..3] : metadata = [Named EXCEPT !.axes = p]
  \/ \E f \in [Search!Axes -> BOOLEAN] : metadata = [Named EXCEPT !.flips = f]

Gathered(m) ==
  LET order == Search!TransposeOrder(m.base, m.axes, m.flips)
  IN  [cell \in 0..(m.count - 1) |->
         LET I == {i \in DOMAIN order : order[i] = cell}
         IN  best[IF I = {} THEN 0 ELSE CHOOSE i \in I : \A j \in I : j <= i]]

(* Metadata that are accepted still describe a box of as many cells.       *)
LEMMA AcceptedIs ==
  ASSUME TrialTypes, metadata = Named \/ OneDamaged, Search!Accepts(metadata)
  PROVE  /\ metadata.count = Search!Product(shape)
         /\ IsShape(metadata.base) /\ Search!Product(metadata.base) = Search!Product(shape)
         /\ Search!AreAxes(metadata.axes)
         /\ metadata.axes \in AxisOrders
         /\ \A k \in 0..2 : metadata.flips[k] \in BOOLEAN
         /\ metadata.flips \in Directions
<1>0. /\ IsShape(shape) /\ selected \in AxisOrders /\ selectedFlips \in Directions
  BY DEF TrialTypes
<1>1. /\ \A k \in 0..2 : metadata.base[k] > 0
      /\ Search!Product(metadata.base) = metadata.count
      /\ Search!AreAxes(metadata.axes)
  BY DEF Search!Accepts, Search!Axes
<1>2. metadata.count = Search!Product(shape) \/ metadata.base = shape
  BY DEF Named, OneDamaged
<1>3. metadata.count = Search!Product(shape)
  BY <1>1, <1>2
<1>4. metadata.base \in [0..2 -> Nat]
  <2>1. shape \in [0..2 -> Nat]
    BY <1>0 DEF IsShape
  <2>2. Lengths \subseteq Nat
    BY LayoutsAssumption DEF Search!ShapedAssumption
  <2>3. \A s \in [Search!Axes -> Lengths] : s \in [0..2 -> Nat]
    BY <2>2 DEF Search!Axes
  <2>4. metadata.base = shape \/ metadata.base \in [Search!Axes -> Lengths]
    BY DEF Named, OneDamaged
  <2> QED BY <2>1, <2>3, <2>4
<1>5. IsShape(metadata.base)
  BY <1>1, <1>4 DEF IsShape
<1>6. metadata.flips \in Directions
  BY <1>0 DEF Named, OneDamaged, Directions
<1>7. metadata.axes \in AxisOrders
  <2>1. metadata.axes \in AxisOrders \/ metadata.axes \in [0..2 -> 0..3]
    BY <1>0 DEF Named, OneDamaged, Search!Axes
  <2>2. \A k \in 0..2 : metadata.axes[k] \in 0..2
    BY <1>1, AxesPermute
  <2>3. \A j, k \in 0..2 : metadata.axes[j] = metadata.axes[k] => j = k
    BY <1>1, AxesPermute
  <2>4. metadata.axes \in [0..2 -> 0..3] => metadata.axes \in AxisOrders
    <3> SUFFICES ASSUME metadata.axes \in [0..2 -> 0..3] PROVE metadata.axes \in AxisOrders
      OBVIOUS
    <3>1. metadata.axes \in [0..2 -> 0..2]
      BY <2>2
    <3>2. metadata.axes[0] # metadata.axes[1] /\ metadata.axes[0] # metadata.axes[2]
          /\ metadata.axes[1] # metadata.axes[2]
      BY <2>3, ThreeAxes
    <3> QED BY <3>1, <3>2, PermutationsAre
  <2> QED BY <2>1, <2>4
<1>8. \A k \in 0..2 : metadata.flips[k] \in BOOLEAN
  BY <1>6 DEF Directions, Search!Axes
<1> QED BY <1>1, <1>3, <1>5, <1>6, <1>7, <1>8

(* What comes back: every cell the value at the place that stands for it.  *)
LEMMA GatheredIs ==
  ASSUME TrialTypes, metadata = Named \/ OneDamaged, Search!Accepts(metadata),
         best = Transposed(selected, selectedFlips)
  PROVE  LET cells == 0..(Search!Product(shape) - 1)
             order == Search!TransposeOrder(metadata.base, metadata.axes, metadata.flips)
         IN  /\ order \in [cells -> cells]
             /\ \A cell \in cells : \E i \in cells : order[i] = cell
             /\ Gathered(metadata) = [cell \in cells |-> Gathered(metadata)[cell]]
             /\ \A i \in cells : Gathered(metadata)[order[i]] = best[i]
<1> DEFINE cells == 0..(Search!Product(shape) - 1)
           order == Search!TransposeOrder(metadata.base, metadata.axes, metadata.flips)
           I(cell) == {i \in DOMAIN order : order[i] = cell}
           At(cell) == best[IF I(cell) = {} THEN 0
                            ELSE CHOOSE i \in I(cell) : \A j \in I(cell) : j <= i]
<1>1. /\ metadata.count = Search!Product(shape)
      /\ IsShape(metadata.base) /\ Search!Product(metadata.base) = Search!Product(shape)
      /\ Search!AreAxes(metadata.axes)
      /\ \A k \in 0..2 : metadata.flips[k] \in BOOLEAN
  BY AcceptedIs
<1>2. /\ order \in [cells -> cells]
      /\ \A i, j \in cells : order[i] = order[j] => i = j
      /\ \A cell \in cells : \E i \in cells : order[i] = cell
  BY <1>1, TransposeIs
<1>3. Gathered(metadata) = [cell \in cells |-> At(cell)]
  BY <1>1 DEF Gathered
<1> HIDE DEF order
<1>4. ASSUME NEW i \in cells PROVE At(order[i]) = best[i]
  <2>1. I(order[i]) = {i}
    BY <1>2
  <2>2. i \in Nat
    OBVIOUS
  <2>3. (CHOOSE h \in {i} : \A j \in {i} : j <= h) = i
    BY <2>2
  <2> HIDE DEF I
  <2> QED BY <2>1, <2>3
<1> HIDE DEF At, cells
<1>5. \A i \in cells : Gathered(metadata)[order[i]] = best[i]
  BY <1>2, <1>3, <1>4
<1> QED BY <1>2, <1>3, <1>5 DEF cells, order

LEMMA StoredAccepted ==
  ASSUME TrialTypes, metadata = Named PROVE Search!Accepts(metadata)
<1>1. IsShape(shape) /\ Search!AreAxes(selected)
  BY PermutationsAre DEF TrialTypes
<1>2. /\ Search!Product(Search!Turned(shape, selected)) = Search!Product(shape)
      /\ IsShape(Search!Turned(shape, selected))
  BY <1>1, TurnedProduct
<1>3. /\ metadata.count = Search!Product(shape) /\ metadata.base = shape
      /\ metadata.encoded = Search!Turned(shape, selected) /\ metadata.axes = selected
  BY DEF Named
<1> QED BY <1>1, <1>2, <1>3 DEF Search!Accepts, Search!EncodedAgrees, IsShape, Search!Axes

(* Without other directions, and with three different lengths, accepted    *)
(* metadata name the axes and the box that were stored.                    *)
LEMMA AxesNamed ==
  ASSUME TrialTypes, metadata = Named \/ OneDamaged, Search!Accepts(metadata),
         metadata.flips = selectedFlips, Search!IsInjective(shape)
  PROVE  metadata.base = shape /\ metadata.axes = selected
<1>1. IsShape(shape) /\ selected \in AxisOrders /\ Search!AreAxes(selected)
  BY PermutationsAre DEF TrialTypes
<1>2. /\ IsShape(metadata.base) /\ metadata.axes \in AxisOrders
      /\ Search!AreAxes(metadata.axes)
      /\ metadata.encoded = Search!Turned(metadata.base, metadata.axes)
  BY AcceptedIs DEF Search!Accepts, Search!EncodedAgrees
<1>3. /\ metadata.base = shape \/ metadata.axes = selected
      /\ \/ metadata.encoded = Search!Turned(shape, selected)
         \/ metadata.base = shape /\ metadata.axes = selected
  BY DEF Named, OneDamaged
<1>4. SUFFICES ASSUME metadata.encoded = Search!Turned(shape, selected)
               PROVE  metadata.base = shape /\ metadata.axes = selected
  BY <1>3
<1>5. \A k \in 0..2 : metadata.base[metadata.axes[k]] = shape[selected[k]]
  <2> TAKE k \in 0..2
  <2>1. Search!Turned(metadata.base, metadata.axes)[k] = metadata.base[metadata.axes[k]]
    BY <1>2, TurnedProduct
  <2>2. Search!Turned(shape, selected)[k] = shape[selected[k]]
    BY <1>1, TurnedProduct
  <2> QED BY <1>2, <1>4, <2>1, <2>2
<1>6. CASE metadata.axes = selected
  <2>1. \A j \in 0..2 : metadata.base[j] = shape[j]
    <3> TAKE j \in 0..2
    <3>1. PICK k \in 0..2 : selected[k] = j
      BY <1>1, AxesPermute
    <3> QED BY <1>5, <1>6, <3>1
  <2> QED BY <1>1, <1>2, <1>6, <2>1 DEF IsShape
<1>7. CASE metadata.base = shape
  <2>1. \A k \in 0..2 : metadata.axes[k] \in 0..2 /\ selected[k] \in 0..2
    BY <1>1, <1>2, AxesPermute
  <2>2. \A i, j \in 0..2 : shape[i] = shape[j] => i = j
    BY <1>1 DEF Search!IsInjective, IsShape
  <2>3. \A k \in 0..2 : metadata.axes[k] = selected[k]
    BY <1>5, <1>7, <2>1, <2>2
  <2>4. metadata.axes \in [0..2 -> 0..2] /\ selected \in [0..2 -> 0..2]
    BY <1>1, <1>2, PermutationsAre
  <2> QED BY <1>7, <2>3, <2>4
<1> QED BY <1>3, <1>6, <1>7
-------------------------------------------------------------------------------
(* ---- the invariant of the search -------------------------------------- *)

ShapedInv ==
  /\ TrialTypes
  /\ phase \in {"permutations", "best", "flips", "store", "stored", "damaged",
                "decoded", "accepted", "error"}
  /\ TriedInv
  /\ phase # "permutations" => best = Transposed(selected, selectedFlips)
  /\ phase = "stored" => metadata = Named
  /\ phase \in {"damaged", "accepted"} => OneDamaged
  /\ phase = "decoded" => taken = [cell \in 0..(Search!Product(shape) - 1) |-> cell]
  /\ phase = "accepted" => Search!Accepts(metadata) /\ taken = Gathered(metadata)

LEMMA ShapedInitInv ==
  ASSUME Search!Init PROVE ShapedInv
<1>1. /\ shape \in Shapes /\ search \in BOOLEAN
      /\ permutation = Search!Identity /\ flips = Search!Unflipped
      /\ tried = <<>> /\ best = <<>>
      /\ selected = Search!Identity /\ selectedFlips = Search!Unflipped
      /\ phase = "permutations"
  BY DEF Search!Init
<1>2. IsShape(shape)
  BY <1>1, LayoutsAssumption DEF Search!ShapedAssumption, IsShape, Search!Axes
<1>3. TrialTypes
  BY <1>1, <1>2, PermutationsAre, BitsOrder DEF TrialTypes
<1>4. Before(Search!Identity) = {}
  <2>1. \A r \in AxisOrders : ~(Search!Rank(r) < Search!Rank(Search!Identity))
    <3> TAKE r \in AxisOrders
    <3>1. Search!Rank(r) \in Nat /\ Search!Rank(Search!Identity) \in Nat
          /\ Search!Rank(Search!Identity) <= Search!Rank(r)
      BY RanksOrder, PermutationsAre
    <3> QED BY <3>1
  <2> QED BY <2>1 DEF Before
<1>5. DOMAIN tried = {}
  BY <1>1
<1> QED BY <1>1, <1>3, <1>4, <1>5 DEF ShapedInv, TriedInv, PermutationInv

LEMMA PermutationKeepsInv ==
  ASSUME ShapedInv, Search!TryPermutation PROVE ShapedInv'
<1> DEFINE p == permutation
           more == search /\ Search!Later(p) # {}
<1>1. /\ phase = "permutations" /\ Search!Trial
      /\ more => permutation' = Search!NextPermutation(p) /\ phase' = "permutations"
      /\ ~more => permutation' = p /\ phase' = IF search THEN "best" ELSE "store"
      /\ UNCHANGED <<shape, search, flips, metadata, taken>>
  BY DEF Search!TryPermutation, Search!box
<1>2. /\ TrialTypes /\ flips = Search!Unflipped /\ selectedFlips = Search!Unflipped
      /\ DOMAIN tried = Before(p)
      /\ ~search => p = Search!Identity
      /\ IF best = <<>> THEN DOMAIN tried = {} ELSE BestInv
  BY <1>1 DEF ShapedInv, TriedInv, PermutationInv
<1>3. p \in AxisOrders /\ search \in BOOLEAN
  BY <1>2 DEF TrialTypes
<1>r. \A q \in AxisOrders : Search!Rank(q) \in Nat
  BY RanksOrder
<1>4. <<p, flips>> \notin DOMAIN tried
  BY <1>2, <1>3, <1>r DEF Before
<1>5. /\ BestInv' /\ best' # <<>>
      /\ DOMAIN tried' = DOMAIN tried \cup {<<p, flips>>}
      /\ selectedFlips' = Search!Unflipped
      /\ selected' = p \/ (best # <<>> /\ selected' = selected)
      /\ selected' \in AxisOrders /\ selectedFlips' \in Directions
  BY <1>1, <1>2, <1>4, TrialKeepsBest
<1>6. DOMAIN tried' =
        {<<q, Search!Unflipped>> : q \in {r \in AxisOrders : Search!Rank(r) <= Search!Rank(p)}}
  <2>1. \A r \in AxisOrders :
          Search!Rank(r) <= Search!Rank(p) <=> Search!Rank(r) < Search!Rank(p) \/ r = p
    BY <1>3, <1>r, RanksOrder
  <2> QED BY <1>2, <1>3, <1>5, <2>1 DEF Before
<1>7. TrialTypes' /\ best' = Transposed(selected, selectedFlips)'
  <2>1. permutation' \in AxisOrders
    BY <1>1, <1>3, NextPermutationIs
  <2> QED BY <1>1, <1>2, <1>5, <2>1 DEF TrialTypes, BestInv, IsShape
<1>8. CASE more
  <2>1. permutation' = Search!NextPermutation(p) /\ phase' = "permutations" /\ search
    BY <1>1, <1>8
  <2>2. \A q \in AxisOrders :
          Search!Rank(q) < Search!Rank(Search!NextPermutation(p)) <=> Search!Rank(q) <= Search!Rank(p)
    BY <1>3, <1>8, NextPermutationIs
  <2>3. DOMAIN tried' = Before(permutation')
    BY <1>6, <2>1, <2>2 DEF Before
  <2>4. Before(permutation') = Before(permutation)'
    BY DEF Before
  <2>5. PermutationInv'
    BY <1>1, <1>2, <1>5, <2>1, <2>3, <2>4 DEF PermutationInv
  <2> QED BY <1>7, <2>1, <2>5 DEF ShapedInv, TriedInv
<1>9. CASE ~more /\ search
  <2>1. \A q \in AxisOrders : Search!Rank(q) <= Search!Rank(p)
    BY <1>3, <1>9, NextPermutationIs
  <2>2. DOMAIN tried' = AllOrders
    BY <1>6, <2>1 DEF AllOrders
  <2>3. phase' = "best" /\ search'
    BY <1>1, <1>9
  <2>4. AllOrders' = AllOrders
    BY DEF AllOrders
  <2>5. TriedInv'
    BY <1>5, <2>2, <2>3, <2>4 DEF TriedInv
  <2> QED BY <1>7, <2>3, <2>5 DEF ShapedInv
<1>10. CASE ~search
  <2>1. phase' = "store" /\ ~search'
    BY <1>1, <1>10
  <2>2. Wanted' \subseteq DOMAIN tried'
    BY <1>2, <1>5, <1>10, <2>1 DEF Wanted
  <2>3. TriedInv'
    BY <1>5, <2>1, <2>2 DEF TriedInv
  <2> QED BY <1>7, <2>1, <2>3 DEF ShapedInv
<1> QED BY <1>3, <1>8, <1>9, <1>10

LEMMA FlipBestKeepsInv ==
  ASSUME ShapedInv, Search!FlipBest PROVE ShapedInv'
<1>1. /\ phase = "best" /\ phase' = "flips"
      /\ permutation' = selected /\ flips' = Search!NextFlips(Search!Unflipped)
      /\ UNCHANGED <<shape, search, tried, best, selected, selectedFlips, metadata, taken>>
  BY DEF Search!FlipBest, Search!box
<1>2. /\ TrialTypes /\ search /\ BestInv /\ selectedFlips = Search!Unflipped
      /\ DOMAIN tried = AllOrders /\ best = Transposed(selected, selectedFlips)
  BY <1>1 DEF ShapedInv, TriedInv
<1>3. /\ flips' \in Directions
      /\ \A g \in Directions : Search!Bits(g) < Search!Bits(flips')
                                 <=> Search!Bits(g) <= Search!Bits(Search!Unflipped)
  BY <1>1, BitsOrder, FlipsAreLeft, NextFlipsIs
<1>4. \A g \in Directions : Search!Bits(g) < Search!Bits(flips') <=> g = Search!Unflipped
  <2> TAKE g \in Directions
  <2>1. Search!Bits(g) \in Nat /\ Search!Bits(Search!Unflipped) \in Nat
        /\ Search!Bits(Search!Unflipped) <= Search!Bits(g)
    BY BitsOrder
  <2>2. Search!Bits(g) = Search!Bits(Search!Unflipped) <=> g = Search!Unflipped
    BY BitsOrder
  <2> QED BY <1>3, <2>1, <2>2
<1>5. Flipped(permutation', flips') = {<<selected, Search!Unflipped>>}
  BY <1>1, <1>4, BitsOrder DEF Flipped
<1>6. DOMAIN tried' = AllOrders \cup Flipped(permutation', flips')
  BY <1>1, <1>2, <1>5 DEF AllOrders, TrialTypes
<1>7. AllOrders' = AllOrders /\ Flipped(permutation', flips') = Flipped(permutation, flips)'
  BY DEF AllOrders, Flipped
<1>n. flips' # Search!Unflipped
  BY <1>3, <1>4, BitsOrder
<1>8. BestInv' /\ TrialTypes' /\ best' = Transposed(selected, selectedFlips)'
  BY <1>1, <1>2, <1>3 DEF BestInv, Chosen, Transposed, TrialTypes, IsShape
<1>9. TriedInv'
  BY <1>1, <1>2, <1>6, <1>7, <1>8, <1>n DEF TriedInv
<1> QED BY <1>1, <1>8, <1>9 DEF ShapedInv

LEMMA FlipsKeepInv ==
  ASSUME ShapedInv, Search!TryFlips PROVE ShapedInv'
<1> DEFINE p == permutation
           f == flips
           more == Search!MoreFlips(f) # {}
<1>1. /\ phase = "flips" /\ Search!Trial
      /\ more => flips' = Search!NextFlips(f) /\ phase' = "flips"
      /\ ~more => flips' = f /\ phase' = "store"
      /\ UNCHANGED <<shape, search, permutation, metadata, taken>>
  BY DEF Search!TryFlips, Search!box
<1>2. /\ TrialTypes /\ search /\ BestInv /\ selected = p
      /\ DOMAIN tried = AllOrders \cup Flipped(p, f)
      /\ best = Transposed(selected, selectedFlips)
  BY <1>1 DEF ShapedInv, TriedInv
<1>3. p \in AxisOrders /\ f \in Directions /\ best # <<>>
  BY <1>2, TransposedWhole DEF TrialTypes
<1>b. \A g \in Directions : Search!Bits(g) \in Nat
  BY BitsOrder
<1>u. f # Search!Unflipped
  BY <1>1 DEF ShapedInv, TriedInv
<1>4. <<p, f>> \notin DOMAIN tried
  BY <1>2, <1>3, <1>b, <1>u DEF AllOrders, Flipped
<1>5. /\ BestInv'
      /\ DOMAIN tried' = DOMAIN tried \cup {<<p, f>>}
      /\ selected' = p
      /\ selected' \in AxisOrders /\ selectedFlips' \in Directions
  BY <1>1, <1>2, <1>3, <1>4, TrialKeepsBest
<1>6. DOMAIN tried' = AllOrders \cup
        {<<p, g>> : g \in {h \in Directions : Search!Bits(h) <= Search!Bits(f)}}
  <2>1. \A h \in Directions :
          Search!Bits(h) <= Search!Bits(f) <=> Search!Bits(h) < Search!Bits(f) \/ h = f
    BY <1>3, <1>b, BitsOrder
  <2> QED BY <1>2, <1>3, <1>5, <2>1 DEF Flipped
<1>7. TrialTypes' /\ best' = Transposed(selected, selectedFlips)'
  <2>1. flips' \in Directions
    BY <1>1, <1>3, NextFlipsIs
  <2> QED BY <1>1, <1>2, <1>5, <2>1 DEF TrialTypes, BestInv, IsShape
<1>8. CASE more
  <2>1. flips' = Search!NextFlips(f) /\ phase' = "flips" /\ search'
    BY <1>1, <1>2, <1>8
  <2>2. \A g \in Directions :
          Search!Bits(g) < Search!Bits(Search!NextFlips(f)) <=> Search!Bits(g) <= Search!Bits(f)
    BY <1>3, <1>8, NextFlipsIs
  <2>3. flips' # Search!Unflipped
    <3>1. Search!Unflipped \in Directions /\ Search!Bits(Search!Unflipped) <= Search!Bits(f)
      BY <1>3, BitsOrder
    <3>2. Search!Bits(Search!Unflipped) < Search!Bits(flips') /\ Search!Bits(Search!Unflipped) \in Nat
      BY <1>b, <2>1, <2>2, <3>1
    <3> QED BY <3>2
  <2>4. DOMAIN tried' = AllOrders \cup Flipped(p, flips')
    BY <1>6, <2>1, <2>2 DEF Flipped
  <2>5. AllOrders' = AllOrders /\ Flipped(p, flips') = Flipped(permutation, flips)'
    BY <1>1 DEF AllOrders, Flipped
  <2>6. TriedInv'
    BY <1>1, <1>5, <2>1, <2>3, <2>4, <2>5 DEF TriedInv
  <2> QED BY <1>7, <2>1, <2>6 DEF ShapedInv
<1>9. CASE ~more
  <2>1. phase' = "store" /\ search'
    BY <1>1, <1>2, <1>9
  <2>2. \A g \in Directions : Search!Bits(g) <= Search!Bits(f)
    BY <1>3, <1>9, NextFlipsIs
  <2>3. Wanted' = (AxisOrders \X {Search!Unflipped}) \cup ({p} \X Directions)
    BY <1>5, <2>1 DEF Wanted
  <2>4. Wanted' \subseteq DOMAIN tried'
    BY <1>6, <2>2, <2>3 DEF AllOrders
  <2>5. TriedInv'
    BY <1>5, <2>1, <2>4 DEF TriedInv
  <2> QED BY <1>7, <2>1, <2>5 DEF ShapedInv
<1> QED BY <1>8, <1>9

LEMMA TriedKept ==
  ASSUME BestInv, Wanted \subseteq DOMAIN tried,
         UNCHANGED <<shape, search, permutation, flips, tried, best, selected, selectedFlips>>
  PROVE  BestInv' /\ Wanted' \subseteq DOMAIN tried'
BY DEF BestInv, Chosen, Transposed, Wanted

LEMMA ShapedNextKeepsInv ==
  ASSUME ShapedInv, Search!Next PROVE ShapedInv'
<1>1. CASE Search!TryPermutation
  BY <1>1, PermutationKeepsInv
<1>2. CASE Search!FlipBest
  BY <1>2, FlipBestKeepsInv
<1>3. CASE Search!TryFlips
  BY <1>3, FlipsKeepInv
<1>4. CASE Search!Store
  <2>1. /\ phase = "store" /\ phase' = "stored" /\ metadata' = Named
        /\ UNCHANGED <<shape, search, permutation, flips, tried, best, selected, selectedFlips, taken>>
    BY <1>4 DEF Search!Store, Search!box, Search!trials, Named
  <2>2. BestInv' /\ Wanted' \subseteq DOMAIN tried'
    BY <2>1, TriedKept DEF ShapedInv, TriedInv
  <2>3. TriedInv'
    BY <2>1, <2>2 DEF TriedInv
  <2>4. metadata' = Named'
    BY <2>1 DEF Named
  <2>5. TrialTypes' /\ best' = Transposed(selected, selectedFlips)'
    BY <2>1 DEF ShapedInv, TrialTypes, IsShape, Transposed
  <2> QED BY <2>1, <2>3, <2>4, <2>5 DEF ShapedInv
<1>5. CASE Search!Damage
  <2>1. /\ phase = "stored" /\ phase' = "damaged"
        /\ UNCHANGED <<shape, search, permutation, flips, best, selected, selectedFlips, taken>>
    BY <1>5 DEF Search!Damage, Search!box
  <2>2. metadata = Named /\ Named' = Named
    BY <2>1 DEF ShapedInv, Named
  <2>3. OneDamaged'
    BY <1>5, <2>2 DEF Search!Damage, OneDamaged
  <2>4. TrialTypes' /\ best' = Transposed(selected, selectedFlips)' /\ TriedInv'
    BY <2>1 DEF ShapedInv, TrialTypes, IsShape, Transposed, TriedInv
  <2> QED BY <2>1, <2>3, <2>4 DEF ShapedInv
<1>6. CASE Search!Decode
  <2>1. /\ phase \in {"stored", "damaged"} /\ Search!Accepts(metadata)
        /\ taken' = Gathered(metadata)
        /\ phase' = IF phase = "stored" THEN "decoded" ELSE "accepted"
        /\ UNCHANGED <<shape, search, permutation, flips, tried, best, selected, selectedFlips,
                       metadata>>
    BY <1>6 DEF Search!Decode, Search!box, Search!trials, Gathered
  <2>2. /\ TrialTypes /\ best = Transposed(selected, selectedFlips)
        /\ phase = "stored" => metadata = Named
        /\ phase = "damaged" => OneDamaged
    BY <2>1 DEF ShapedInv
  <2>3. TrialTypes' /\ best' = Transposed(selected, selectedFlips)' /\ TriedInv'
        /\ (OneDamaged => OneDamaged')
    BY <2>1, <2>2 DEF TrialTypes, IsShape, Transposed, TriedInv, OneDamaged, Named
  <2>4. CASE phase = "stored"
    <3> DEFINE cells == 0..(Search!Product(shape) - 1)
               order == Search!TransposeOrder(metadata.base, metadata.axes, metadata.flips)
    <3>1. order = best
      BY <2>2, <2>4 DEF Named, Transposed
    <3>2. /\ \A cell \in cells : \E i \in cells : order[i] = cell
          /\ Gathered(metadata) = [cell \in cells |-> Gathered(metadata)[cell]]
          /\ \A i \in cells : Gathered(metadata)[order[i]] = best[i]
      BY <2>1, <2>2, <2>4, GatheredIs
    <3> HIDE DEF order
    <3>3. \A cell \in cells : Gathered(metadata)[cell] = cell
      BY <3>1, <3>2
    <3>4. taken' = [cell \in cells |-> cell]
      BY <2>1, <3>2, <3>3
    <3>5. phase' = "decoded" /\ Search!Product(shape)' = Search!Product(shape)
      BY <2>1, <2>4 DEF Search!Product
    <3>6. taken' = [cell \in 0..(Search!Product(shape)' - 1) |-> cell]
      BY <3>4, <3>5
    <3> QED BY <2>3, <3>5, <3>6 DEF ShapedInv
  <2>5. CASE phase = "damaged"
    <3>1. phase' = "accepted" /\ OneDamaged'
      BY <2>1, <2>2, <2>3, <2>5
    <3>2. Search!Accepts(metadata)' /\ taken' = Gathered(metadata)'
      BY <2>1 DEF Search!Accepts, Search!EncodedAgrees, Search!AreAxes, Search!Product,
                  Search!Turned, Gathered
    <3> QED BY <2>3, <3>1, <3>2 DEF ShapedInv
  <2> QED BY <2>1, <2>4, <2>5
<1>7. CASE Search!DecodeThrows
  <2>1. /\ phase \in {"stored", "damaged"} /\ ~Search!Accepts(metadata)
        /\ phase' = IF phase = "stored" THEN "refused" ELSE "error"
        /\ UNCHANGED <<shape, search, permutation, flips, tried, best, selected, selectedFlips,
                       metadata, taken>>
    BY <1>7 DEF Search!DecodeThrows, Search!box, Search!trials
  <2>2. phase # "stored"
    BY <2>1, StoredAccepted DEF ShapedInv
  <2>3. phase' = "error"
    BY <2>1, <2>2
  <2>4. TrialTypes' /\ best' = Transposed(selected, selectedFlips)' /\ TriedInv'
    BY <2>1, <2>3 DEF ShapedInv, TrialTypes, IsShape, Transposed, TriedInv
  <2> QED BY <2>3, <2>4 DEF ShapedInv
<1>8. CASE Search!Done
  <2>1. /\ phase \in {"decoded", "accepted", "refused", "error"}
        /\ UNCHANGED <<shape, search, permutation, flips, tried, best, selected, selectedFlips,
                       metadata, taken, phase>>
    BY <1>8 DEF Search!Done, Search!vars, Search!box, Search!trials
  <2>2. TrialTypes' /\ best' = Transposed(selected, selectedFlips)' /\ TriedInv'
        /\ (OneDamaged => OneDamaged') /\ Search!Product(shape)' = Search!Product(shape)
    BY <2>1 DEF ShapedInv, TrialTypes, IsShape, Transposed, TriedInv, OneDamaged, Named,
                Search!Product
  <2>3. /\ Search!Accepts(metadata) => Search!Accepts(metadata)'
        /\ Gathered(metadata)' = Gathered(metadata)
    BY <2>1 DEF Search!Accepts, Search!EncodedAgrees, Search!AreAxes, Search!Product,
                Search!Turned, Gathered
  <2> QED BY <2>1, <2>2, <2>3 DEF ShapedInv
<1> QED BY <1>1, <1>2, <1>3, <1>4, <1>5, <1>6, <1>7, <1>8 DEF Search!Next

LEMMA ShapedStays ==
  ASSUME ShapedInv,
         UNCHANGED <<shape, search, permutation, flips, tried, best, selected, selectedFlips,
                     metadata, taken, phase>>
  PROVE  ShapedInv'
<1>1. /\ TrialTypes'
      /\ phase # "permutations" => best' = Transposed(selected, selectedFlips)'
  BY DEF ShapedInv, TrialTypes, IsShape, Transposed
<1>2. /\ (BestInv => BestInv') /\ (PermutationInv => PermutationInv')
      /\ Wanted' = Wanted /\ AllOrders' = AllOrders
      /\ Flipped(permutation, flips)' = Flipped(permutation, flips)
  BY DEF BestInv, Chosen, Transposed, PermutationInv, Before, Wanted, AllOrders, Flipped
<1>3. TriedInv'
  BY <1>2 DEF ShapedInv, TriedInv
<1>4. /\ Named' = Named /\ Search!Product(shape)' = Search!Product(shape)
      /\ (OneDamaged => OneDamaged')
  BY DEF OneDamaged, Named, Search!Product, Search!Turned
<1>5. /\ Search!Accepts(metadata) => Search!Accepts(metadata)'
      /\ Gathered(metadata)' = Gathered(metadata)
  BY DEF Search!Accepts, Search!EncodedAgrees, Search!AreAxes, Search!Product,
         Search!Turned, Gathered
<1> QED BY <1>1, <1>3, <1>4, <1>5 DEF ShapedInv

(* What the invariant says of the stream, and of what comes back.          *)
LEMMA ShapedInvKept == ASSUME ShapedInv PROVE Search!ShapedKept
<1> DEFINE cells == 0..(Search!Product(shape) - 1)
           order == Search!TransposeOrder(metadata.base, metadata.axes, metadata.flips)
<1>1. Search!CellsBack
  BY DEF ShapedInv, Search!CellsBack
<1>2. Search!SearchWhole
  <2>1. phase = "stored" => BestInv /\ Wanted \subseteq DOMAIN tried
    BY DEF ShapedInv, TriedInv
  <2> QED BY <2>1 DEF Search!SearchWhole, BestInv, Chosen, Wanted, AxisOrders, Directions
<1>3. ASSUME phase = "accepted"
      PROVE  /\ taken = [cell \in cells |-> taken[cell]]
             /\ order \in [cells -> cells]
             /\ \A cell \in cells : \E i \in cells : order[i] = cell
             /\ \A i \in cells : taken[order[i]] = best[i]
             /\ best \in [cells -> cells]
             /\ \A cell \in cells : \E i \in cells : best[i] = cell
  <2>1. /\ TrialTypes /\ best = Transposed(selected, selectedFlips)
        /\ OneDamaged /\ Search!Accepts(metadata) /\ taken = Gathered(metadata)
    BY <1>3 DEF ShapedInv
  <2>2. best \in [cells -> cells] /\ \A cell \in cells : \E i \in cells : best[i] = cell
    <3>1. selected \in AxisOrders /\ selectedFlips \in Directions
      BY <2>1 DEF TrialTypes
    <3> QED BY <2>1, <3>1, TransposedWhole
  <2>3. /\ order \in [cells -> cells]
        /\ \A cell \in cells : \E i \in cells : order[i] = cell
        /\ Gathered(metadata) = [cell \in cells |-> Gathered(metadata)[cell]]
        /\ \A i \in cells : Gathered(metadata)[order[i]] = best[i]
    BY <2>1, GatheredIs
  <2> HIDE DEF order, cells
  <2> QED BY <2>1, <2>2, <2>3
<1>4. Search!CellsOnce
  <2> SUFFICES ASSUME phase = "accepted"
               PROVE  {taken[cell] : cell \in DOMAIN taken} = cells
    BY DEF Search!CellsOnce
  <2> HIDE DEF order, cells
  <2>1. DOMAIN taken = cells
    BY <1>3
  <2>2. ASSUME NEW cell \in cells PROVE taken[cell] \in cells
    <3>1. PICK i \in cells : order[i] = cell
      BY <1>3
    <3> QED BY <1>3, <3>1
  <2>3. ASSUME NEW v \in cells PROVE \E cell \in cells : taken[cell] = v
    <3>1. PICK i \in cells : best[i] = v
      BY <1>3
    <3>2. order[i] \in cells /\ taken[order[i]] = v
      BY <1>3, <3>1
    <3> QED BY <3>2
  <2> QED BY <2>1, <2>2, <2>3
<1>5. Search!AxesJudged
  <2> SUFFICES ASSUME phase = "accepted", metadata.flips = selectedFlips,
                      Search!IsInjective(shape)
               PROVE  taken = [cell \in cells |-> cell]
    BY DEF Search!AxesJudged
  <2>1. metadata.base = shape /\ metadata.axes = selected
    BY AxesNamed DEF ShapedInv
  <2>2. order = best
    BY <2>1 DEF ShapedInv, Transposed
  <2> HIDE DEF order, cells
  <2>3. \A cell \in cells : taken[cell] = cell
    BY <1>3, <2>2
  <2> QED BY <1>3, <2>3
<1> QED BY <1>1, <1>2, <1>4, <1>5 DEF Search!ShapedKept

SearchPart == part = "search" => ShapedInv

LEMMA SearchPartInvariant == LayoutSpec => []SearchPart
<1>1. LayoutInit => SearchPart
  BY ShapedInitInv DEF LayoutInit, SearchPart
<1>2. SearchPart /\ [LayoutNext]_layoutVars => SearchPart'
  <2> SUFFICES ASSUME SearchPart, [LayoutNext]_layoutVars PROVE SearchPart'
    OBVIOUS
  <2>1. CASE part = "search" /\ Search!Next /\ UNCHANGED <<part, vars, boxVars, packVars>>
    BY <2>1, ShapedNextKeepsInv DEF SearchPart
  <2>2. CASE LayoutNext /\ part # "search"
    BY <2>2 DEF LayoutNext, SearchPart
  <2>3. CASE UNCHANGED layoutVars
    BY <2>3, ShapedStays DEF SearchPart, layoutVars, searchVars
  <2> QED BY <2>1, <2>2, <2>3 DEF LayoutNext
<1> QED BY <1>1, <1>2, PTL DEF LayoutSpec

(* shaped.cpp:58-85: what encode_shaped stores is the smallest stream of   *)
(* all six orders of the axes and all eight directions of the best order,  *)
(* and decode_shaped returns every value to its cell.  Metadata with one   *)
(* damaged entry, once accepted, still lose no value, and with the stored  *)
(* directions and three different lengths they move none.                  *)
THEOREM ShapedStaysKept == LayoutSpec => []ShapedKept
<1>1. SearchPart => ShapedKept
  BY ShapedInvKept DEF SearchPart, ShapedKept
<1> QED BY <1>1, SearchPartInvariant, PTL
-------------------------------------------------------------------------------
(* ---- recursive functions ---------------------------------------------- *)

(* f is defined by its value at zero and by a step.                        *)
Recursive(f, D, a, g) == \A k \in D : f[k] = IF k = 0 THEN a ELSE g[k][f[k - 1]]

(* Such a function exists.                                                 *)
LEMMA RecursionExists ==
  ASSUME NEW D, D \subseteq Nat, NEW T, NEW a \in T, NEW g \in [Nat -> [T -> T]],
         \A k \in D : k > 0 => k - 1 \in D
  PROVE  \E f \in [D -> T] : Recursive(f, D, a, g)
<1> DEFINE Partial(k) == {f \in [0..k -> T] :
                            \A j \in 0..k : f[j] = IF j = 0 THEN a ELSE g[j][f[j - 1]]}
<1>1. \A k \in Nat : Partial(k) # {}
  <2> DEFINE Without == {k \in Nat : Partial(k) = {}}
  <2> SUFFICES ASSUME Without # {} PROVE FALSE
    OBVIOUS
  <2> HIDE DEF Partial
  <2>1. PICK k \in Without : \A j \in Without : k <= j
    <3>1. Without \subseteq Nat
      OBVIOUS
    <3> QED BY <3>1, LeastNatural
  <2>2. k \in Nat /\ Partial(k) = {}
    OBVIOUS
  <2>3. k # 0
    <3>1. [j \in 0..0 |-> a] \in Partial(0)
      BY DEF Partial
    <3> QED BY <2>2, <3>1
  <2>4. k - 1 \in Nat /\ k - 1 \notin Without
    <3>1. k - 1 \in Nat /\ ~(k <= k - 1)
      BY <2>2, <2>3
    <3> HIDE DEF Without
    <3> QED BY <2>1, <3>1
  <2>5. PICK f \in Partial(k - 1) : TRUE
    <3>1. \A j \in Nat : j \notin Without => Partial(j) # {}
      OBVIOUS
    <3> HIDE DEF Without
    <3>2. Partial(k - 1) # {}
      BY <2>4, <3>1
    <3> QED BY <3>2
  <2> DEFINE h == [j \in 0..k |-> IF j = k THEN g[k][f[k - 1]] ELSE f[j]]
  <2>6. /\ f \in [0..(k - 1) -> T]
        /\ \A j \in 0..(k - 1) : f[j] = IF j = 0 THEN a ELSE g[j][f[j - 1]]
    BY DEF Partial
  <2>7. f[k - 1] \in T /\ g[k][f[k - 1]] \in T
    BY <2>2, <2>4, <2>6
  <2>8. h \in [0..k -> T]
    BY <2>2, <2>6, <2>7
  <2>9. \A j \in 0..k : h[j] = IF j = 0 THEN a ELSE g[j][h[j - 1]]
    BY <2>2, <2>3, <2>6
  <2>10. h \in Partial(k)
    <3> HIDE DEF h
    <3> QED BY <2>8, <2>9 DEF Partial
  <2> QED BY <2>2, <2>10
<1>2. ASSUME NEW k \in Nat, NEW l \in Nat, NEW f \in Partial(k), NEW h \in Partial(l)
      PROVE  \A j \in Nat : j <= k /\ j <= l => f[j] = h[j]
  <2> DEFINE Apart == {j \in Nat : j <= k /\ j <= l /\ f[j] # h[j]}
  <2> SUFFICES ASSUME Apart # {} PROVE FALSE
    OBVIOUS
  <2>1. PICK j \in Apart : \A i \in Apart : j <= i
    <3>1. Apart \subseteq Nat
      OBVIOUS
    <3> HIDE DEF Apart
    <3> QED BY <3>1, LeastNatural
  <2>2. j \in Nat /\ j \in 0..k /\ j \in 0..l /\ f[j] # h[j]
    OBVIOUS
  <2>3. /\ f[j] = IF j = 0 THEN a ELSE g[j][f[j - 1]]
        /\ h[j] = IF j = 0 THEN a ELSE g[j][h[j - 1]]
    BY <2>2
  <2>4. j # 0
    BY <2>2, <2>3
  <2>5. f[j - 1] = h[j - 1]
    <3>1. j - 1 \in Nat /\ j - 1 <= k /\ j - 1 <= l /\ ~(j <= j - 1)
      BY <2>2, <2>4
    <3>2. j - 1 \notin Apart
      BY <2>1, <3>1
    <3> QED BY <3>1, <3>2
  <2> QED BY <2>2, <2>3, <2>4, <2>5
<1> DEFINE Some(k) == CHOOSE f \in Partial(k) : TRUE
           F == [k \in D |-> Some(k)[k]]
<1>3. \A k \in Nat : Some(k) \in Partial(k)
  BY <1>1
<1>4. \A k \in Nat : /\ Some(k) \in [0..k -> T]
                     /\ \A j \in 0..k : Some(k)[j] = IF j = 0 THEN a ELSE g[j][Some(k)[j - 1]]
  <2> HIDE DEF Some
  <2> QED BY <1>3
<1>5. \A k \in Nat : k > 0 => Some(k)[k - 1] = Some(k - 1)[k - 1]
  <2> HIDE DEF Some, Partial
  <2> TAKE k \in Nat
  <2> HAVE k > 0
  <2>1. k - 1 \in Nat /\ k - 1 <= k /\ k - 1 <= k - 1
    OBVIOUS
  <2> QED BY <1>2, <1>3, <2>1
<1> HIDE DEF Some, Partial
<1>6. F \in [D -> T]
  BY <1>4
<1>7. \A k \in D : F[k] = IF k = 0 THEN a ELSE g[k][F[k - 1]]
  <2> TAKE k \in D
  <2>1. k \in Nat /\ k \in 0..k
    OBVIOUS
  <2>2. F[k] = IF k = 0 THEN a ELSE g[k][Some(k)[k - 1]]
    BY <1>4, <2>1
  <2>3. k # 0 => k - 1 \in D /\ k > 0
    BY <2>1
  <2>4. k # 0 => F[k - 1] = Some(k)[k - 1]
    BY <1>5, <2>1, <2>3
  <2> QED BY <2>2, <2>4
<1> HIDE DEF F
<1> QED BY <1>6, <1>7 DEF Recursive

(* Powers of two.                                                          *)
LEMMA PowersAre ==
  /\ PowerOfTwo \in [Nat -> Nat]
  /\ PowerOfTwo[0] = 1
  /\ \A k \in Nat : PowerOfTwo[k] > 0 /\ PowerOfTwo[k + 1] = 2 * PowerOfTwo[k]
<1> DEFINE Doubles(f) == f = [k \in Nat |-> IF k = 0 THEN 1 ELSE 2 * f[k - 1]]
<1>1. \E f : Doubles(f)
  <2> DEFINE g == [k \in Nat |-> [x \in Nat |-> 2 * x]]
  <2>1. g \in [Nat -> [Nat -> Nat]] /\ \A k, x \in Nat : g[k][x] = 2 * x
    OBVIOUS
  <2> HIDE DEF g
  <2>2. PICK f \in [Nat -> Nat] : Recursive(f, Nat, 1, g)
    <3>1. Nat \subseteq Nat /\ 1 \in Nat /\ \A k \in Nat : k > 0 => k - 1 \in Nat
      OBVIOUS
    <3> QED BY <2>1, <3>1, RecursionExists, Zenon
  <2>3. \A k \in Nat : k # 0 => k - 1 \in Nat
    OBVIOUS
  <2>4. \A k \in Nat : f[k] = IF k = 0 THEN 1 ELSE 2 * f[k - 1]
    BY <2>1, <2>2, <2>3 DEF Recursive
  <2>5. f = [k \in Nat |-> IF k = 0 THEN 1 ELSE 2 * f[k - 1]]
    BY <2>4
  <2> QED BY <2>5
<1>2. Doubles(PowerOfTwo)
  <2>1. PowerOfTwo = CHOOSE f : Doubles(f)
    BY DEF PowerOfTwo
  <2> HIDE DEF Doubles
  <2> QED BY <1>1, <2>1
<1>3. /\ DOMAIN PowerOfTwo = Nat
      /\ \A k \in Nat : PowerOfTwo[k] = IF k = 0 THEN 1 ELSE 2 * PowerOfTwo[k - 1]
  BY <1>2
<1>4. \A k \in Nat : PowerOfTwo[k] \in Nat /\ PowerOfTwo[k] > 0
  <2> DEFINE Bad == {k \in Nat : ~(PowerOfTwo[k] \in Nat /\ PowerOfTwo[k] > 0)}
  <2> SUFFICES ASSUME Bad # {} PROVE FALSE
    OBVIOUS
  <2>1. PICK k \in Bad : \A j \in Bad : k <= j
    <3>1. Bad \subseteq Nat
      OBVIOUS
    <3> HIDE DEF Bad
    <3> QED BY <3>1, LeastNatural
  <2>2. k # 0
    BY <1>3
  <2>3. k - 1 \in Nat /\ k - 1 \notin Bad
    BY <2>1, <2>2
  <2> QED BY <1>3, <2>2, <2>3
<1>5. \A k \in Nat : PowerOfTwo[k + 1] = 2 * PowerOfTwo[k]
  BY <1>3
<1>6. PowerOfTwo = [k \in Nat |-> PowerOfTwo[k]] /\ PowerOfTwo[0] = 1
  BY <1>2
<1>7. PowerOfTwo \in [Nat -> Nat]
  BY <1>4, <1>6
<1> QED BY <1>4, <1>5, <1>6, <1>7

(* A running sum starts at zero and takes one number after the other.      *)
LEMMA SumsAre ==
  ASSUME NEW numbers \in Seq(Nat)
  PROVE  /\ Sums(numbers) \in [0..Len(numbers) -> Nat]
         /\ Sums(numbers)[0] = 0
         /\ \A k \in 1..Len(numbers) : Sums(numbers)[k] = Sums(numbers)[k - 1] + numbers[k]
<1> DEFINE D == 0..Len(numbers)
           Adds(f) == f = [k \in D |-> IF k = 0 THEN 0 ELSE f[k - 1] + numbers[k]]
<1>0. Len(numbers) \in Nat /\ \A k \in 1..Len(numbers) : numbers[k] \in Nat
  OBVIOUS
<1>1. \E f \in [D -> Nat] : Adds(f)
  <2> DEFINE g == [k \in Nat |-> [x \in Nat |-> IF k \in 1..Len(numbers) THEN x + numbers[k] ELSE x]]
  <2>1. g \in [Nat -> [Nat -> Nat]]
    BY <1>0
  <2>2. \A k \in 1..Len(numbers), x \in Nat : g[k][x] = x + numbers[k]
    BY <1>0
  <2> HIDE DEF g
  <2>3. D \subseteq Nat /\ \A k \in D : k > 0 => k - 1 \in D
    BY <1>0
  <2>4. PICK f \in [D -> Nat] : Recursive(f, D, 0, g)
    <3> HIDE DEF D
    <3>1. 0 \in Nat
      OBVIOUS
    <3> QED BY <2>1, <2>3, <3>1, RecursionExists, Zenon
  <2>5. \A k \in D : f[k] = IF k = 0 THEN 0 ELSE f[k - 1] + numbers[k]
    <3> TAKE k \in D
    <3>1. k # 0 => k \in 1..Len(numbers) /\ k - 1 \in D
      BY <1>0
    <3>2. k # 0 => f[k - 1] \in Nat
      BY <3>1
    <3> QED BY <2>2, <2>4, <3>1, <3>2 DEF Recursive
  <2>6. Adds(f)
    <3> HIDE DEF D
    <3> QED BY <2>5
  <2> QED BY <2>6
<1>2. \A f : Adds(f) => f \in [D -> Nat]
  <2> SUFFICES ASSUME NEW f, Adds(f) PROVE f \in [D -> Nat]
    OBVIOUS
  <2>1. /\ DOMAIN f = D
        /\ \A k \in D : f[k] = IF k = 0 THEN 0 ELSE f[k - 1] + numbers[k]
    <3> HIDE DEF D
    <3> QED OBVIOUS
  <2>2. f = [k \in D |-> f[k]]
    <3> HIDE DEF D
    <3> QED BY <2>1
  <2>3. \A k \in D : f[k] \in Nat
    <3> DEFINE Bad == {k \in D : f[k] \notin Nat}
    <3> SUFFICES ASSUME Bad # {} PROVE FALSE
      OBVIOUS
    <3>1. PICK k \in Bad : \A j \in Bad : k <= j
      <4>1. Bad \subseteq Nat
        BY <1>0
      <4> HIDE DEF Bad
      <4> QED BY <4>1, LeastNatural
    <3>2. k # 0 /\ k \in D
      BY <2>1
    <3>3. k - 1 \in D /\ k \in 1..Len(numbers) /\ k \in Nat /\ ~(k <= k - 1)
      BY <1>0, <3>2
    <3>4. f[k - 1] \in Nat
      BY <3>1, <3>3
    <3> QED BY <1>0, <2>1, <3>2, <3>3, <3>4, SMTT(30)
  <2> HIDE DEF D
  <2> QED BY <2>2, <2>3
<1>3. Adds(Sums(numbers)) /\ Sums(numbers) \in [D -> Nat]
  <2>1. Sums(numbers) = CHOOSE f : Adds(f)
    BY DEF Sums
  <2> HIDE DEF Adds
  <2> QED BY <1>1, <1>2, <2>1
<1>4. \A k \in D : Sums(numbers)[k] = IF k = 0 THEN 0 ELSE Sums(numbers)[k - 1] + numbers[k]
  <2> HIDE DEF D
  <2> QED BY <1>3
<1> QED BY <1>0, <1>3, <1>4, SMTT(30)

(* The sums never fall.                                                    *)
LEMMA SumsGrow ==
  ASSUME NEW numbers \in Seq(Nat)
  PROVE  \A k, l \in 0..Len(numbers) : k <= l => Sums(numbers)[k] <= Sums(numbers)[l]
<1> DEFINE Falls(k) == {l \in 0..Len(numbers) : k <= l /\ ~(Sums(numbers)[k] <= Sums(numbers)[l])}
<1>1. SUFFICES ASSUME NEW k \in 0..Len(numbers), Falls(k) # {} PROVE FALSE
  OBVIOUS
<1>2. Len(numbers) \in Nat /\ Falls(k) \subseteq Nat /\ \A j \in 1..Len(numbers) : numbers[j] \in Nat
  OBVIOUS
<1>3. PICK l \in Falls(k) : \A m \in Falls(k) : l <= m
  <2> HIDE DEF Falls
  <2> QED BY <1>1, <1>2, LeastNatural
<1>4. l \in 0..Len(numbers) /\ k <= l /\ ~(Sums(numbers)[k] <= Sums(numbers)[l])
  OBVIOUS
<1>5. k # l /\ l \in 1..Len(numbers) /\ l - 1 \in 0..Len(numbers) /\ k <= l - 1 /\ ~(l <= l - 1)
  BY <1>2, <1>4, SumsAre
<1>6. Sums(numbers)[k] <= Sums(numbers)[l - 1]
  BY <1>3, <1>5
<1>7. Sums(numbers)[l] = Sums(numbers)[l - 1] + numbers[l]
  BY <1>5, SumsAre
<1>8. Sums(numbers)[k] \in Nat /\ Sums(numbers)[l] \in Nat /\ Sums(numbers)[l - 1] \in Nat
  <2>1. Sums(numbers) \in [0..Len(numbers) -> Nat]
    BY SumsAre
  <2> QED BY <1>4, <1>5, <2>1
<1>9. numbers[l] \in Nat
  BY <1>2, <1>5
<1> QED BY <1>4, <1>6, <1>7, <1>8, <1>9

(* Powers of two pass every number.                                        *)
LEMMA PowersPass == \A n \in Nat : n <= PowerOfTwo[n]
<1> DEFINE Short == {n \in Nat : ~(n <= PowerOfTwo[n])}
<1>1. SUFFICES ASSUME Short # {} PROVE FALSE
  OBVIOUS
<1>2. PICK n \in Short : \A m \in Short : n <= m
  <2>1. Short \subseteq Nat
    OBVIOUS
  <2> HIDE DEF Short
  <2> QED BY <1>1, <2>1, LeastNatural
<1>3. n \in Nat /\ ~(n <= PowerOfTwo[n])
  OBVIOUS
<1>4. n # 0 /\ n - 1 \in Nat /\ ~(n <= n - 1)
  BY <1>3, PowersAre
<1>5. n - 1 <= PowerOfTwo[n - 1]
  BY <1>2, <1>4
<1>6. PowerOfTwo[n] = 2 * PowerOfTwo[n - 1] /\ PowerOfTwo[n - 1] \in Nat /\ PowerOfTwo[n - 1] > 0
  <2>1. (n - 1) + 1 = n
    BY <1>4
  <2> QED BY <1>4, <2>1, PowersAre
<1> QED BY <1>3, <1>4, <1>5, <1>6

(* Larger exponents have larger powers.                                    *)
LEMMA PowersGrow == \A k, l \in Nat : k <= l => PowerOfTwo[k] <= PowerOfTwo[l]
<1> DEFINE Falls(k) == {l \in Nat : k <= l /\ ~(PowerOfTwo[k] <= PowerOfTwo[l])}
<1>1. SUFFICES ASSUME NEW k \in Nat, Falls(k) # {} PROVE FALSE
  OBVIOUS
<1>2. PICK l \in Falls(k) : \A m \in Falls(k) : l <= m
  <2>1. Falls(k) \subseteq Nat
    OBVIOUS
  <2> HIDE DEF Falls
  <2> QED BY <1>1, <2>1, LeastNatural
<1>3. l \in Nat /\ k <= l /\ ~(PowerOfTwo[k] <= PowerOfTwo[l])
  OBVIOUS
<1>4. k # l /\ l - 1 \in Nat /\ k <= l - 1 /\ ~(l <= l - 1) /\ (l - 1) + 1 = l
  <2>1. PowerOfTwo[k] \in Nat
    BY PowersAre
  <2>2. k # l
    BY <1>3, <2>1
  <2> QED BY <1>3, <2>2
<1>5. PowerOfTwo[k] <= PowerOfTwo[l - 1]
  BY <1>2, <1>4
<1>6. PowerOfTwo[l] = 2 * PowerOfTwo[l - 1] /\ PowerOfTwo[l - 1] \in Nat /\ PowerOfTwo[k] \in Nat
  BY <1>4, PowersAre
<1> QED BY <1>3, <1>5, <1>6, PowersAre

(* The instances count in the same numbers.                                *)
LEMMA BlocksNumbers ==
  /\ Blocks!PowerOfTwo = PowerOfTwo
  /\ \A s : Blocks!Sums(s) = Sums(s)
  /\ \A s : Blocks!SumOf(s) = Sums(s)[Len(s)]
<1>1. Blocks!PowerOfTwo = PowerOfTwo
  BY DEF Blocks!PowerOfTwo, PowerOfTwo
<1>2. \A s : Blocks!Sums(s) = Sums(s)
  BY DEF Blocks!Sums, Sums
<1> QED BY <1>1, <1>2 DEF Blocks!SumOf

(* A width has room for as many places as it is asked for.                 *)
LEMMA WidthIs ==
  ASSUME NEW n \in Nat
  PROVE  Blocks!Width(n) \in Nat /\ n <= PowerOfTwo[Blocks!Width(n)]
<1> DEFINE Wide == {w \in Nat : n <= PowerOfTwo[w]}
           Least(w) == PowerOfTwo[w] >= n /\ \A v \in 0..(w - 1) : PowerOfTwo[v] < n
<1>1. n \in Wide
  BY PowersPass
<1>2. PICK w \in Wide : \A v \in Wide : w <= v
  <2>1. Wide \subseteq Nat
    OBVIOUS
  <2> HIDE DEF Wide
  <2> QED BY <1>1, <2>1, LeastNatural
<1>3. w \in 0..n
  BY <1>1, <1>2
<1>4. Least(w)
  <2>1. PowerOfTwo[w] >= n
    BY PowersAre
  <2>2. ASSUME NEW v \in 0..(w - 1) PROVE PowerOfTwo[v] < n
    <3>1. v \in Nat /\ ~(w <= v)
      BY <1>3
    <3>2. v \notin Wide
      BY <1>2, <3>1
    <3> QED BY <3>1, <3>2, PowersAre
  <2> QED BY <2>1, <2>2
<1>5. Blocks!Width(n) = CHOOSE v \in 0..n : Least(v)
  BY BlocksNumbers DEF Blocks!Width
<1> HIDE DEF Least
<1>6. Blocks!Width(n) \in 0..n /\ Least(Blocks!Width(n))
  BY <1>3, <1>4, <1>5
<1>7. PowerOfTwo[Blocks!Width(n)] \in Nat
  BY <1>6, PowersAre
<1> QED BY <1>6, <1>7 DEF Least

(* Whole words have room for the bits.                                     *)
LEMMA PaddedIs ==
  ASSUME NEW n \in Nat
  PROVE  /\ Blocks!Padded(n) \in Nat /\ n <= Blocks!Padded(n)
         /\ WordBits \in Nat /\ WordBits > 0
         /\ \E q \in Nat : Blocks!Padded(n) = q * WordBits
<1>1. WordBits \in Nat /\ WordBits > 0
  BY LayoutsAssumption DEF Blocks!BlockwiseAssumption
<1> DEFINE v == n + WordBits - 1
           q == v \div WordBits
<1>2. v \in Nat /\ n = v + 1 - WordBits
  BY <1>1
<1> HIDE DEF v
<1>3. q \in Nat /\ v % WordBits \in 0..(WordBits - 1) /\ v = q * WordBits + (v % WordBits)
  BY <1>1, <1>2, QuotientIs
<1>4. Blocks!Padded(n) = q * WordBits
  BY DEF Blocks!Padded, v
<1> HIDE DEF q
<1>5. q * WordBits \in Nat
  BY <1>1, <1>3
<1>6. v % WordBits <= WordBits - 1 /\ v % WordBits \in Int
  BY <1>1, <1>3
<1>7. n <= q * WordBits
  BY <1>1, <1>2, <1>3, <1>5, <1>6
<1> QED BY <1>1, <1>3, <1>4, <1>5, <1>7

(* One more binary digit.                                                  *)
LEMMA OneMoreDigit ==
  ASSUME NEW v \in Nat, NEW d \in Nat, d > 0
  PROVE  v % (2 * d) = ((v \div d) % 2) * d + (v % d)
<1> DEFINE q == v \div d
           r == v % d
           h == q \div 2
           b == q % 2
           Q == v \div (2 * d)
           R == v % (2 * d)
<1>1. q \in Nat /\ r \in 0..(d - 1) /\ v = q * d + r
  BY QuotientIs
<1>2. h \in Nat /\ b \in 0..1 /\ q = h * 2 + b
  <2> HIDE DEF q
  <2> QED BY <1>1, QuotientIs
<1>3. Q \in Nat /\ R \in 0..(2 * d - 1) /\ v = Q * (2 * d) + R
  <2> DEFINE D == 2 * d
  <2>1. D \in Nat /\ D > 0
    OBVIOUS
  <2> HIDE DEF D
  <2>2. v \div D \in Nat /\ v % D \in 0..(D - 1) /\ v = (v \div D) * D + (v % D)
    BY <2>1, QuotientIs
  <2> QED BY <2>2 DEF D
<1> HIDE DEF q, r, h, b, Q, R
<1>4. b * d + r \in 0..(2 * d - 1)
  <2>1. b = 0 \/ b = 1
    BY <1>2
  <2> QED BY <1>1, <2>1
<1>5. v = h * (2 * d) + (b * d + r)
  <2>1. q * d = (h * 2) * d + b * d
    BY <1>2
  <2>2. (h * 2) * d = h * (2 * d)
    BY <1>2
  <2>3. q * d \in Int /\ b * d \in Int /\ h * (2 * d) \in Int /\ r \in Int
    BY <1>1, <1>2
  <2> QED BY <1>1, <2>1, <2>2, <2>3
<1>6. R = b * d + r
  <2> DEFINE D == 2 * d
             x == b * d + r
  <2>1. D \in Nat
    OBVIOUS
  <2>2. x \in 0..(D - 1) /\ R \in 0..(D - 1) /\ h * D + x = Q * D + R
    BY <1>3, <1>4, <1>5
  <2> HIDE DEF D, x
  <2>3. x = R
    BY <1>2, <1>3, <2>1, <2>2, RowUnique
  <2> QED BY <2>3 DEF x
<1> QED BY <1>6 DEF R, q, r, b

(* The bits of a number that fits into them are that number.               *)
LEMMA BitsAre ==
  ASSUME NEW w \in Nat, NEW v \in Nat, v < PowerOfTwo[w],
         NEW s \in Seq({0, 1}), Len(s) = w, \A k \in 1..w : s[k] = Blocks!BitOf(v, k - 1)
  PROVE  Blocks!FromBits(s) = v
<1> DEFINE numbers == [k \in DOMAIN s |-> s[k] * PowerOfTwo[k - 1]]
<1>1. \A k \in 1..w : s[k] \in {0, 1} /\ k - 1 \in Nat /\ PowerOfTwo[k - 1] \in Nat
  <2>1. PowerOfTwo \in [Nat -> Nat]
    BY PowersAre
  <2>2. \A k \in 1..w : k \in 1..Len(s) /\ k - 1 \in Nat
    OBVIOUS
  <2>3. \A k \in 1..Len(s) : s[k] \in {0, 1}
    OBVIOUS
  <2> QED BY <2>1, <2>2, <2>3
<1>2. \A k \in 1..w : numbers[k] = s[k] * PowerOfTwo[k - 1] /\ numbers[k] \in Nat
  <2> TAKE k \in 1..w
  <2>1. k \in DOMAIN s /\ (s[k] = 0 \/ s[k] = 1)
    BY <1>1
  <2> QED BY <1>1, <2>1
<1>3. numbers \in Seq(Nat) /\ Len(numbers) = w
  <2>1. numbers \in [1..w -> Nat]
    BY <1>2
  <2> HIDE DEF numbers
  <2> QED BY <2>1
<1>4. Blocks!FromBits(s) = Sums(numbers)[w]
  BY <1>3, BlocksNumbers DEF Blocks!FromBits
<1> HIDE DEF numbers
<1> DEFINE Wrong == {k \in 0..w : Sums(numbers)[k] # v % PowerOfTwo[k]}
<1>5. Wrong = {}
  <2> SUFFICES ASSUME Wrong # {} PROVE FALSE
    OBVIOUS
  <2>1. PICK k \in Wrong : \A j \in Wrong : k <= j
    <3>1. Wrong \subseteq Nat
      OBVIOUS
    <3> HIDE DEF Wrong
    <3> QED BY <3>1, LeastNatural
  <2>2. k \in 0..w /\ Sums(numbers)[k] # v % PowerOfTwo[k]
    OBVIOUS
  <2>3. k # 0
    <3>1. v % 1 = 0
      OBVIOUS
    <3> QED BY <1>3, <2>2, <3>1, SumsAre, PowersAre
  <2>4. k \in 1..w /\ k - 1 \in 0..w /\ k - 1 \in Nat /\ ~(k <= k - 1) /\ (k - 1) + 1 = k
    BY <2>2, <2>3
  <2>5. Sums(numbers)[k - 1] = v % PowerOfTwo[k - 1]
    BY <2>1, <2>4
  <2> DEFINE d == PowerOfTwo[k - 1]
  <2>6. d \in Nat /\ d > 0 /\ PowerOfTwo[k] = 2 * d
    BY <2>4, PowersAre
  <2>7. Sums(numbers)[k] = Sums(numbers)[k - 1] + numbers[k]
    BY <1>3, <2>4, SumsAre
  <2>8. numbers[k] = ((v \div d) % 2) * d
    BY <1>2, <2>4, BlocksNumbers DEF Blocks!BitOf
  <2> HIDE DEF d
  <2>9. v % (2 * d) = ((v \div d) % 2) * d + (v % d)
    BY <2>6, OneMoreDigit
  <2>10. Sums(numbers)[k - 1] = v % d
    BY <2>5 DEF d
  <2>11. Sums(numbers)[k - 1] \in Nat /\ numbers[k] \in Nat
    BY <1>2, <1>3, <2>4, SumsAre
  <2>12. Sums(numbers)[k] = v % (2 * d)
    BY <2>7, <2>8, <2>9, <2>10, <2>11
  <2> QED BY <2>2, <2>6, <2>12
<1>6. Sums(numbers)[w] = v % PowerOfTwo[w]
  <2>1. w \in 0..w
    OBVIOUS
  <2> QED BY <1>5, <2>1
<1>7. v % PowerOfTwo[w] = v
  <2> DEFINE d == PowerOfTwo[w]
  <2>1. d \in Nat /\ d > 0 /\ v < d
    BY PowersAre
  <2> HIDE DEF d
  <2>2. v \div d \in Nat /\ v % d \in 0..(d - 1) /\ v = (v \div d) * d + (v % d)
    BY <2>1, QuotientIs
  <2>3. v \in 0..(d - 1) /\ 0 * d + v = (v \div d) * d + (v % d) /\ 0 \in Nat
    BY <2>1, <2>2
  <2>4. v = v % d
    BY <2>1, <2>2, <2>3, RowUnique
  <2> QED BY <2>4 DEF d
<1> QED BY <1>4, <1>6, <1>7

(* Bits always stand for a natural number.                                 *)
LEMMA FromBitsType ==
  ASSUME NEW s \in Seq({0, 1})
  PROVE  Blocks!FromBits(s) \in Nat
<1> DEFINE numbers == [k \in DOMAIN s |-> s[k] * PowerOfTwo[k - 1]]
<1>1. \A k \in 1..Len(s) : s[k] \in {0, 1} /\ k - 1 \in Nat /\ PowerOfTwo[k - 1] \in Nat
  <2>1. PowerOfTwo \in [Nat -> Nat]
    BY PowersAre
  <2> QED BY <2>1, SMTT(30)
<1>2. \A k \in 1..Len(s) : numbers[k] \in Nat
  <2> TAKE k \in 1..Len(s)
  <2>1. k \in DOMAIN s /\ (s[k] = 0 \/ s[k] = 1)
    BY <1>1
  <2> QED BY <1>1, <2>1
<1>3. numbers \in Seq(Nat) /\ Len(numbers) = Len(s) /\ Len(s) \in Nat
  <2>1. DOMAIN s = 1..Len(s) /\ Len(s) \in Nat
    OBVIOUS
  <2>2. numbers \in [1..Len(s) -> Nat] /\ Len(s) \in Nat
    BY <1>2, <2>1
  <2> HIDE DEF numbers
  <2> QED BY <2>2
<1>4. Blocks!FromBits(s) = Sums(numbers)[Len(s)]
  BY <1>3, BlocksNumbers DEF Blocks!FromBits
<1> HIDE DEF numbers
<1> QED BY <1>3, <1>4, SumsAre

-------------------------------------------------------------------------------
(* ---- blocks of rows --------------------------------------------------- *)

LEMMA BlocksCardinality == \A S : Blocks!Cardinality(S) = Cardinality(S)
BY DEF Blocks!Cardinality, Cardinality

LEMMA BlocksAssumed ==
  /\ N \in Nat /\ N > 0 /\ None \notin Nat
  /\ Blocks!Rows = 0..(N - 1) /\ IsFiniteSet(Blocks!Rows) /\ Cardinality(Blocks!Rows) = N
<1>1. N \in Nat /\ N > 0 /\ None \notin Nat
  BY LayoutsAssumption DEF Blocks!BlockwiseAssumption
<1>2. Blocks!Rows = 0..(N - 1)
  BY DEF Blocks!Rows
<1>3. IsFiniteSet(0..(N - 1)) /\ Cardinality(0..(N - 1)) = N
  BY <1>1, FS_Interval
<1> QED BY <1>1, <1>2, <1>3

(* The rows of a block when o tells the block of a row, and the place of a *)
(* row among them.                                                         *)
MembersOf(o, b) == {row \in Blocks!Rows : o[row] = b}
PlaceOf(o, row) == Cardinality({r \in MembersOf(o, o[row]) : r < row})

LEMMA MembersAre ==
  /\ \A b : Blocks!Members(b) = MembersOf(ids, b)
  /\ \A row : Blocks!Local(row) = PlaceOf(ids, row)
<1>1. \A b : Blocks!Members(b) = MembersOf(ids, b)
  BY DEF Blocks!Members, MembersOf
<1> QED BY <1>1, BlocksCardinality DEF Blocks!Local, PlaceOf

(* Every place of a block belongs to exactly one of its rows.              *)
LEMMA PlacesOfBlock ==
  ASSUME NEW o \in [Blocks!Rows -> BlockIds], NEW b
  PROVE  /\ IsFiniteSet(MembersOf(o, b)) /\ Cardinality(MembersOf(o, b)) \in 0..N
         /\ \A row \in MembersOf(o, b) : PlaceOf(o, row) \in 0..(Cardinality(MembersOf(o, b)) - 1)
         /\ \A r, s \in MembersOf(o, b) : PlaceOf(o, r) = PlaceOf(o, s) => r = s
         /\ \A q \in 0..(Cardinality(MembersOf(o, b)) - 1) :
              \E row \in MembersOf(o, b) : PlaceOf(o, row) = q
<1> DEFINE M == MembersOf(o, b)
           c == Cardinality(M)
           Below(r) == {x \in M : x < r}
<1>1. M \subseteq Blocks!Rows /\ M \subseteq Nat
  BY BlocksAssumed DEF MembersOf
<1>2. IsFiniteSet(M) /\ c \in Nat /\ c <= N
  <2> HIDE DEF M
  <2>1. M \in SUBSET Blocks!Rows
    BY <1>1
  <2>2. IsFiniteSet(M) /\ Cardinality(M) <= Cardinality(Blocks!Rows)
    BY <2>1, BlocksAssumed, FS_Subset
  <2>3. Cardinality(M) \in Nat
    BY <2>2, FS_CardinalityType
  <2> QED BY <2>2, <2>3, BlocksAssumed
<1>3. \A row \in M : PlaceOf(o, row) = Cardinality(Below(row))
  BY DEF MembersOf, PlaceOf
<1> HIDE DEF M
<1>4. \A r \in M : IsFiniteSet(Below(r)) /\ Cardinality(Below(r)) \in 0..(c - 1)
  <2> TAKE r \in M
  <2>1. r \in Nat /\ Below(r) \in SUBSET (M \ {r})
    BY <1>1
  <2>2. IsFiniteSet(M \ {r}) /\ Cardinality(M \ {r}) = c - 1
    BY <1>2, FS_RemoveElement
  <2> HIDE DEF Below, c
  <2>3. IsFiniteSet(Below(r)) /\ Cardinality(Below(r)) <= c - 1
    BY <2>1, <2>2, FS_Subset
  <2>4. Cardinality(Below(r)) \in Nat
    BY <2>3, FS_CardinalityType
  <2> QED BY <1>2, <2>3, <2>4
<1>5. ASSUME NEW r \in M, NEW s \in M, r < s PROVE Cardinality(Below(r)) < Cardinality(Below(s))
  <2>1. r \in Nat /\ s \in Nat /\ r \notin Below(r) /\ Below(r) \cup {r} \in SUBSET Below(s)
    <3>1. r \in Nat /\ s \in Nat /\ r \notin Below(r) /\ r \in Below(s)
      BY <1>1, <1>5
    <3>2. ASSUME NEW x \in Below(r) PROVE x \in Below(s)
      <4>1. x \in M /\ x \in Nat /\ x < r
        BY <1>1
      <4> QED BY <1>5, <3>1, <4>1
    <3> HIDE DEF Below
    <3> QED BY <3>1, <3>2
  <2> HIDE DEF Below
  <2>2. Cardinality(Below(r) \cup {r}) = Cardinality(Below(r)) + 1
    BY <1>4, <2>1, FS_AddElement
  <2>3. Cardinality(Below(r) \cup {r}) <= Cardinality(Below(s))
    BY <1>4, <2>1, FS_Subset
  <2>4. Cardinality(Below(r)) \in Nat /\ Cardinality(Below(s)) \in Nat
    BY <1>4, FS_CardinalityType
  <2> QED BY <2>2, <2>3, <2>4
<1>6. ASSUME NEW r \in M, NEW s \in M, PlaceOf(o, r) = PlaceOf(o, s) PROVE r = s
  <2>1. r \in Nat /\ s \in Nat /\ Cardinality(Below(r)) = Cardinality(Below(s))
    BY <1>1, <1>3, <1>6
  <2>2. Cardinality(Below(r)) \in Nat /\ Cardinality(Below(s)) \in Nat
    BY <1>4, FS_CardinalityType
  <2> HIDE DEF Below
  <2>3. ~(r < s) /\ ~(s < r)
    BY <1>5, <2>1, <2>2
  <2> QED BY <2>1, <2>3
<1> DEFINE f == [r \in M |-> PlaceOf(o, r)]
           T == 0..(c - 1)
<1>7. \A r \in M : f[r] = PlaceOf(o, r) /\ f[r] \in T
  <2> HIDE DEF Below
  <2> QED BY <1>3, <1>4
<1>8. f \in Injection(M, T)
  <2>1. f \in [M -> T] /\ \A r, s \in M : f[r] = f[s] => r = s
    <3>1. f = [r \in M |-> f[r]]
      OBVIOUS
    <3>2. \A r, s \in M : f[r] = f[s] => PlaceOf(o, r) = PlaceOf(o, s)
      BY <1>7
    <3> HIDE DEF f, T
    <3> QED BY <1>6, <1>7, <3>1, <3>2
  <2> HIDE DEF f, T
  <2> QED BY <2>1, Fun_IsInj
<1>9. IsFiniteSet(T) /\ Cardinality(T) = c
  <2>1. c \in Nat
    BY <1>2
  <2> HIDE DEF c
  <2> QED BY <2>1, FS_Interval
<1>10. f \in Surjection(M, T)
  <2> HIDE DEF f, T
  <2>1. Cardinality(M) = Cardinality(T)
    BY <1>9
  <2> QED BY <1>8, <1>9, <2>1, FS_Injection
<1>11. \A q \in T : \E r \in M : f[r] = q
  <2> HIDE DEF f, T
  <2> QED BY <1>10 DEF Surjection
<1>12. c \in 0..N
  BY <1>2, BlocksAssumed
<1>13. \A q \in T : \E r \in M : PlaceOf(o, r) = q
  <2> HIDE DEF f, T
  <2> QED BY <1>7, <1>11
<1>14. \A row \in M : PlaceOf(o, row) \in T
  BY <1>7
<1> QED BY <1>2, <1>6, <1>12, <1>13, <1>14 DEF M

(* The bits of the blocks.                                                 *)
BitsOf(cs) == [k \in DOMAIN cs |-> cs[k] * Blocks!Width(cs[k])]

LEMMA BitsOfAre ==
  ASSUME NEW cs \in Seq(1..N)
  PROVE  /\ BitsOf(cs) \in Seq(Nat) /\ Len(BitsOf(cs)) = Len(cs)
         /\ cs \in Seq(Nat) /\ Len(cs) \in Nat
         /\ \A k \in 1..Len(cs) : /\ cs[k] \in 1..N /\ Blocks!Width(cs[k]) \in Nat
                                  /\ BitsOf(cs)[k] = cs[k] * Blocks!Width(cs[k])
         /\ Blocks!Bits(cs) = Sums(BitsOf(cs))[Len(cs)]
<1>1. Len(cs) \in Nat /\ DOMAIN cs = 1..Len(cs)
      /\ \A k \in 1..Len(cs) : cs[k] \in 1..N /\ cs[k] \in Nat
  BY BlocksAssumed
<1>2. \A k \in 1..Len(cs) : Blocks!Width(cs[k]) \in Nat /\ cs[k] * Blocks!Width(cs[k]) \in Nat
  <2> TAKE k \in 1..Len(cs)
  <2>1. cs[k] \in Nat /\ Blocks!Width(cs[k]) \in Nat
    BY <1>1, WidthIs
  <2> QED BY <2>1
<1>3. BitsOf(cs) \in [1..Len(cs) -> Nat]
  BY <1>1, <1>2 DEF BitsOf
<1>4. BitsOf(cs) \in Seq(Nat) /\ Len(BitsOf(cs)) = Len(cs)
  BY <1>1, <1>3
<1>5. cs \in [1..Len(cs) -> Nat]
  BY <1>1
<1>6. cs \in Seq(Nat)
  BY <1>1, <1>5
<1>7. \A k \in 1..Len(cs) : BitsOf(cs)[k] = cs[k] * Blocks!Width(cs[k])
  BY <1>1 DEF BitsOf
<1>8. Blocks!Bits(cs) = Sums(BitsOf(cs))[Len(BitsOf(cs))]
  BY BlocksNumbers DEF Blocks!Bits, BitsOf
<1> QED BY <1>1, <1>2, <1>4, <1>6, <1>7, <1>8

(* What LCP writes: the blocks of o in any order, their populations, and   *)
(* the rows of one block after the other.                                  *)
StreamOf(o, bs, cs, ws) ==
  /\ bs \in Seq(BlockIds) /\ cs \in Seq(1..N) /\ ws \in Seq(Blocks!Rows)
  /\ Len(cs) = Len(bs) /\ Len(ws) = N /\ Len(bs) = Cardinality(Blocks!Range(o))
  /\ \A j, k \in 1..Len(bs) : bs[j] = bs[k] => j = k
  /\ \A row \in Blocks!Rows : \E k \in 1..Len(bs) : bs[k] = o[row]
  /\ \A k \in 1..Len(bs) : cs[k] = Cardinality(MembersOf(o, bs[k]))
  /\ \A i, j \in 1..N : ws[i] = ws[j] => i = j
  /\ Sums(cs)[Len(bs)] = N
  /\ \A k \in 1..Len(bs) : \A i \in 1..cs[k] : o[ws[Sums(cs)[k - 1] + i]] = bs[k]

(* The populations of the blocks add up to the rows.                       *)
LEMMA PopulationsAddUp ==
  ASSUME NEW o \in [Blocks!Rows -> BlockIds], NEW bs \in Seq(BlockIds), NEW cs \in Seq(Nat),
         Len(cs) = Len(bs),
         \A j, k \in 1..Len(bs) : bs[j] = bs[k] => j = k,
         \A row \in Blocks!Rows : \E k \in 1..Len(bs) : bs[k] = o[row],
         \A k \in 1..Len(bs) : cs[k] = Cardinality(MembersOf(o, bs[k]))
  PROVE  Sums(cs)[Len(bs)] = N
<1> DEFINE Upto(k) == {row \in Blocks!Rows : \E j \in 1..k : bs[j] = o[row]}
           Wrong == {k \in 0..Len(bs) : Sums(cs)[k] # Cardinality(Upto(k))}
<1>0. Len(bs) \in Nat
  OBVIOUS
<1>1. Wrong = {}
  <2> SUFFICES ASSUME Wrong # {} PROVE FALSE
    OBVIOUS
  <2>1. PICK k \in Wrong : \A j \in Wrong : k <= j
    <3>1. Wrong \subseteq Nat
      BY <1>0
    <3> HIDE DEF Wrong
    <3> QED BY <3>1, LeastNatural
  <2>2. k \in 0..Len(bs) /\ Sums(cs)[k] # Cardinality(Upto(k))
    OBVIOUS
  <2>3. k # 0
    <3>1. Upto(0) = {}
      OBVIOUS
    <3> QED BY <2>2, <3>1, FS_EmptySet, SumsAre
  <2>4. k \in 1..Len(bs) /\ k \in 1..Len(cs) /\ k - 1 \in 0..Len(bs) /\ ~(k <= k - 1)
    BY <1>0, <2>2, <2>3
  <2>5. Sums(cs)[k - 1] = Cardinality(Upto(k - 1))
    <3>1. k - 1 \notin Wrong
      <4> HIDE DEF Wrong
      <4> QED BY <2>1, <2>4
    <3> QED BY <2>4, <3>1
  <2>6. Upto(k) = Upto(k - 1) \cup MembersOf(o, bs[k]) /\ Upto(k - 1) \cap MembersOf(o, bs[k]) = {}
    <3>1. ASSUME NEW row \in Blocks!Rows
          PROVE  (\E j \in 1..k : bs[j] = o[row]) <=> ((\E j \in 1..(k - 1) : bs[j] = o[row]) \/ o[row] = bs[k])
      BY <2>4
    <3>2. ASSUME NEW j \in 1..(k - 1) PROVE bs[j] # bs[k]
      BY <1>0, <2>4
    <3> QED BY <3>1, <3>2, SMTT(30) DEF MembersOf
  <2>7. Upto(k - 1) \in SUBSET Blocks!Rows
    OBVIOUS
  <2> HIDE DEF Upto
  <2>8. IsFiniteSet(Upto(k - 1)) /\ Cardinality(Upto(k - 1)) \in Nat
    BY <2>7, BlocksAssumed, FS_Subset, FS_CardinalityType
  <2>9. IsFiniteSet(MembersOf(o, bs[k])) /\ Cardinality(MembersOf(o, bs[k])) \in Nat
    BY PlacesOfBlock, FS_CardinalityType
  <2>10. Cardinality(Upto(k)) = Cardinality(Upto(k - 1)) + Cardinality(MembersOf(o, bs[k]))
    <3> DEFINE A == Upto(k - 1)
               B == MembersOf(o, bs[k])
    <3>1. Upto(k) = A \cup B /\ A \cap B = {} /\ IsFiniteSet(A) /\ IsFiniteSet(B)
          /\ Cardinality(A) \in Nat /\ Cardinality(B) \in Nat
      BY <2>6, <2>8, <2>9
    <3> HIDE DEF A, B
    <3>2. Cardinality(A \cup B) = Cardinality(A) + Cardinality(B) - Cardinality(A \cap B)
      BY <3>1, FS_Union
    <3>3. Cardinality(A \cap B) = 0 /\ Cardinality(Upto(k)) = Cardinality(A \cup B)
      <4>1. A \cap B = {} /\ Upto(k) = A \cup B
        BY <3>1
      <4>2. Cardinality({}) = 0
        BY FS_EmptySet
      <4> QED BY <4>1, <4>2
    <3>4. Cardinality(Upto(k)) = Cardinality(A) + Cardinality(B)
      BY <3>1, <3>2, <3>3
    <3> QED BY <3>4 DEF A, B
  <2>11. Sums(cs)[k] = Sums(cs)[k - 1] + cs[k]
    BY <2>4, SumsAre
  <2>12. cs[k] = Cardinality(MembersOf(o, bs[k]))
    BY <2>4
  <2> QED BY <2>2, <2>5, <2>10, <2>11, <2>12
<1>2. Upto(Len(bs)) = Blocks!Rows
  OBVIOUS
<1>3. Sums(cs)[Len(bs)] = Cardinality(Upto(Len(bs)))
  <2>1. Len(bs) \in 0..Len(bs)
    BY <1>0
  <2> HIDE DEF Upto
  <2> QED BY <1>1, <2>1
<1> QED BY <1>2, <1>3, BlocksAssumed

LEMMA RangeFinite ==
  ASSUME NEW o \in [Blocks!Rows -> BlockIds]
  PROVE  /\ IsFiniteSet(Blocks!Range(o)) /\ Blocks!Range(o) \subseteq BlockIds
         /\ \A row \in Blocks!Rows : o[row] \in Blocks!Range(o)
         /\ \A b \in Blocks!Range(o) : \E row \in Blocks!Rows : o[row] = b
<1> DEFINE R == Blocks!Range(o)
<1>1. R \subseteq BlockIds /\ \A row \in Blocks!Rows : o[row] \in R
  BY DEF Blocks!Range
<1>2. \A b \in R : \E row \in Blocks!Rows : o[row] = b
  BY DEF Blocks!Range
<1> HIDE DEF R
<1>3. o \in Surjection(Blocks!Rows, R)
  <2>1. o \in [Blocks!Rows -> R]
    BY <1>1
  <2> QED BY <1>2, <2>1, Fun_IsSurj
<1>4. IsFiniteSet(R)
  BY <1>3, BlocksAssumed, FS_Surjection
<1> QED BY <1>1, <1>2, <1>4 DEF R

(* An order of a set lists each of its elements once.                      *)
LEMMA OrdersAre ==
  ASSUME NEW S, IsFiniteSet(S), NEW s \in Blocks!SetToSeqs(S)
  PROVE  /\ s \in Seq(S) /\ Len(s) = Cardinality(S) /\ DOMAIN s = 1..Cardinality(S)
         /\ \A i, j \in 1..Cardinality(S) : s[i] = s[j] => i = j
         /\ \A x \in S : \E i \in 1..Cardinality(S) : s[i] = x
<1> DEFINE c == Cardinality(S)
           D == 1..c
<1>1. c \in Nat
  BY FS_CardinalityType
<1>2. s \in [D -> S] /\ \A i, j \in D : i # j => s[i] # s[j]
  BY BlocksCardinality DEF Blocks!SetToSeqs
<1>3. IsFiniteSet(D) /\ Cardinality(D) = c
  <2> HIDE DEF c
  <2> QED BY <1>1, FS_Interval
<1>4. s \in Seq(S) /\ Len(s) = c
  <2> HIDE DEF c
  <2> QED BY <1>1, <1>2
<1>5. s \in Injection(D, S)
  <2> HIDE DEF D
  <2> QED BY <1>2, Fun_IsInj
<1>6. s \in Surjection(D, S)
  <2> HIDE DEF D
  <2> QED BY <1>3, <1>5, FS_Injection
<1>7. \A x \in S : \E i \in D : s[i] = x
  <2> HIDE DEF D
  <2> QED BY <1>6 DEF Surjection
<1> QED BY <1>2, <1>4, <1>7

(* Compress chooses such a stream.                                         *)
LEMMA StreamIs ==
  ASSUME NEW o \in [Blocks!Rows -> BlockIds],
         NEW bs \in Blocks!SetToSeqs(Blocks!Range(o)), NEW ws \in Blocks!SetToSeqs(Blocks!Rows),
         NEW cs, cs = [k \in DOMAIN bs |-> Cardinality(MembersOf(o, bs[k]))],
         \A k \in DOMAIN bs : \A i \in 1..cs[k] : o[ws[Sums(cs)[k - 1] + i]] = bs[k]
  PROVE  StreamOf(o, bs, cs, ws)
<1> DEFINE R == Blocks!Range(o)
           n == Cardinality(R)
<1>1. IsFiniteSet(R) /\ R \subseteq BlockIds /\ n \in Nat
  BY RangeFinite, FS_CardinalityType
<1>2. /\ bs \in Seq(R) /\ Len(bs) = n /\ DOMAIN bs = 1..n
      /\ \A i, j \in 1..n : bs[i] = bs[j] => i = j
      /\ \A x \in R : \E i \in 1..n : bs[i] = x
  <2> HIDE DEF R
  <2> QED BY <1>1, OrdersAre DEF R
<1>3. /\ ws \in Seq(Blocks!Rows) /\ Len(ws) = N
      /\ \A i, j \in 1..N : ws[i] = ws[j] => i = j
  BY OrdersAre, BlocksAssumed
<1> HIDE DEF n
<1>4. bs \in Seq(BlockIds) /\ \A k \in 1..n : bs[k] \in R
  <2> HIDE DEF R
  <2>1. \A k \in 1..n : bs[k] \in R
    BY <1>1, <1>2
  <2>2. bs \in [1..n -> BlockIds]
    <3>1. bs \in [1..n -> R]
      BY <1>2
    <3> QED BY <1>1, <3>1
  <2> QED BY <1>1, <2>1, <2>2
<1>5. \A row \in Blocks!Rows : \E k \in 1..n : bs[k] = o[row]
  BY <1>2, RangeFinite
<1>6. \A k \in 1..n : cs[k] = Cardinality(MembersOf(o, bs[k])) /\ cs[k] \in 1..N
  <2> TAKE k \in 1..n
  <2>1. cs[k] = Cardinality(MembersOf(o, bs[k]))
    BY <1>2
  <2>2. PICK row \in Blocks!Rows : o[row] = bs[k]
    BY <1>4, RangeFinite
  <2>3. row \in MembersOf(o, bs[k])
    BY <2>2 DEF MembersOf
  <2>4. IsFiniteSet(MembersOf(o, bs[k])) /\ Cardinality(MembersOf(o, bs[k])) \in 0..N
    BY PlacesOfBlock
  <2>5. Cardinality(MembersOf(o, bs[k])) # 0
    BY <2>3, <2>4, FS_EmptySet
  <2> QED BY <2>1, <2>4, <2>5, BlocksAssumed
<1>7. cs \in Seq(1..N) /\ cs \in Seq(Nat) /\ Len(cs) = n
  <2>1. cs \in [1..n -> 1..N] /\ cs \in [1..n -> Nat]
    BY <1>2, <1>6, BlocksAssumed
  <2> QED BY <1>1, <2>1
<1>8. Sums(cs)[n] = N
  <2>1. \A k \in 1..Len(bs) : cs[k] = Cardinality(MembersOf(o, bs[k]))
    BY <1>2, <1>6
  <2>2. /\ Len(cs) = Len(bs) /\ \A j, k \in 1..Len(bs) : bs[j] = bs[k] => j = k
        /\ \A row \in Blocks!Rows : \E k \in 1..Len(bs) : bs[k] = o[row]
    BY <1>2, <1>5, <1>7
  <2>3. Sums(cs)[Len(bs)] = N
    BY <1>4, <1>7, <2>1, <2>2, PopulationsAddUp
  <2> QED BY <1>2, <2>3
<1>9. \A k \in 1..n : \A i \in 1..cs[k] : o[ws[Sums(cs)[k - 1] + i]] = bs[k]
  BY <1>2
<1>10. n = Cardinality(Blocks!Range(o))
  BY DEF n
<1> HIDE DEF R
<1> QED BY <1>2, <1>3, <1>4, <1>5, <1>6, <1>7, <1>8, <1>9, <1>10 DEF StreamOf

(* The position of the i-th row of a block, and of the j-th bit of its     *)
(* place.                                                                  *)
Spot(cs, k, i) == Sums(cs)[k - 1] + i
BitSpot(cs, k, i, j) == Sums(BitsOf(cs))[k - 1] + ((i - 1) * Blocks!Width(cs[k]) + j)

LEMMA SpotsAre ==
  ASSUME NEW cs \in Seq(1..N), Sums(cs)[Len(cs)] = N, NEW k \in 1..Len(cs)
  PROVE  /\ Sums(cs)[k - 1] \in 0..N /\ Sums(cs)[k] = Sums(cs)[k - 1] + cs[k]
         /\ Sums(cs)[k] \in 0..N
         /\ Sums(BitsOf(cs))[k - 1] \in Nat
         /\ Sums(BitsOf(cs))[k] = Sums(BitsOf(cs))[k - 1] + cs[k] * Blocks!Width(cs[k])
         /\ Sums(BitsOf(cs))[k] \in 0..Sums(BitsOf(cs))[Len(cs)]
         /\ \A i \in 1..cs[k] : Spot(cs, k, i) \in 1..N
         /\ \A i \in 1..cs[k], j \in 1..Blocks!Width(cs[k]) :
              BitSpot(cs, k, i, j) \in (Sums(BitsOf(cs))[k - 1] + 1)..Sums(BitsOf(cs))[k]
<1> DEFINE B == BitsOf(cs)
           s == Sums(cs)
           t == Sums(B)
           n == Len(cs)
           w == Blocks!Width(cs[k])
<1>1. /\ B \in Seq(Nat) /\ Len(B) = n /\ cs \in Seq(Nat) /\ n \in Nat
      /\ cs[k] \in 1..N /\ w \in Nat /\ B[k] = cs[k] * w /\ N \in Nat
  BY BitsOfAre, BlocksAssumed
<1> HIDE DEF B
<1>2. /\ s[k - 1] \in Nat /\ s[k] \in Nat /\ s[k] = s[k - 1] + cs[k] /\ s[k] <= s[n] /\ s[n] = N
  <2>1. s \in [0..n -> Nat] /\ s[k] = s[k - 1] + cs[k]
    BY <1>1, SumsAre
  <2>2. k \in 0..n /\ n \in 0..n /\ k - 1 \in 0..n /\ k <= n
    BY <1>1
  <2>3. s[k] <= s[n]
    BY <1>1, <2>2, SumsGrow
  <2> QED BY <2>1, <2>2, <2>3
<1>3. /\ t[k - 1] \in Nat /\ t[k] \in Nat /\ t[k] = t[k - 1] + cs[k] * w /\ t[k] <= t[n] /\ t[n] \in Nat
  <2>1. t \in [0..n -> Nat] /\ t[k] = t[k - 1] + B[k]
    BY <1>1, SumsAre
  <2>2. k \in 0..n /\ n \in 0..n /\ k - 1 \in 0..n /\ k <= n
    BY <1>1
  <2>3. t[k] <= t[n]
    BY <1>1, <2>2, SumsGrow
  <2> QED BY <1>1, <2>1, <2>2, <2>3
<1> HIDE DEF s, t, n, w
<1>4. \A i \in 1..cs[k] : s[k - 1] + i \in 1..N
  <2> TAKE i \in 1..cs[k]
  <2>1. i \in Nat /\ 1 <= i /\ i <= cs[k] /\ cs[k] \in Nat
    BY <1>1
  <2>2. s[k - 1] \in Nat /\ s[k - 1] + cs[k] <= N /\ N \in Nat
    BY <1>1, <1>2
  <2>3. \A a, c, x, m \in Nat : 1 <= x /\ x <= c /\ a + c <= m => a + x \in 1..m
    OBVIOUS
  <2> QED BY <2>1, <2>2, <2>3
<1>5. ASSUME NEW i \in 1..cs[k], NEW j \in 1..w
      PROVE  t[k - 1] + ((i - 1) * w + j) \in (t[k - 1] + 1)..t[k]
  <2>1. cs[k] \in Nat /\ i - 1 \in 0..(cs[k] - 1) /\ j - 1 \in 0..(w - 1)
    BY <1>1
  <2>2. (i - 1) * w + (j - 1) \in 0..(cs[k] * w - 1)
    BY <1>1, <2>1, RowBelow
  <2>3. (i - 1) * w \in Int /\ cs[k] * w \in Int
    BY <1>1, <2>1
  <2>4. j \in Int /\ t[k - 1] \in Nat /\ t[k] = t[k - 1] + cs[k] * w
    BY <1>3
  <2>5. (i - 1) * w + j >= 1 /\ (i - 1) * w + j <= cs[k] * w
    BY <2>2, <2>3, <2>4
  <2> QED BY <2>3, <2>4, <2>5
<1>6. s[k - 1] \in 0..N /\ s[k] \in 0..N
  BY <1>1, <1>2
<1>7. t[k] \in 0..t[n]
  BY <1>3
<1> QED BY <1>2, <1>3, <1>4, <1>5, <1>6, <1>7 DEF s, t, n, w, B, Spot, BitSpot

(* The first m blocks are packed: bit for bit, the places of the rows.     *)
Holds(o, cs, ws, sent, m) ==
  \A k \in 1..m : \A i \in 1..cs[k], j \in 1..Blocks!Width(cs[k]) :
    sent[BitSpot(cs, k, i, j)] = Blocks!BitOf(PlaceOf(o, ws[Spot(cs, k, i)]), j - 1)

LEMMA BitIsBit ==
  ASSUME NEW v \in Nat, NEW k \in Nat
  PROVE  Blocks!BitOf(v, k) \in {0, 1}
<1> DEFINE d == PowerOfTwo[k]
           q == v \div d
<1>1. d \in Nat /\ d > 0
  BY PowersAre
<1> HIDE DEF d
<1>2. q \in Nat
  BY <1>1, QuotientIs
<1> HIDE DEF q
<1>3. q % 2 \in {0, 1}
  BY <1>2
<1> QED BY <1>3, BlocksNumbers DEF Blocks!BitOf, q, d

(* What is behind a block does not change it.                              *)
LEMMA HoldsLater ==
  ASSUME NEW o, NEW cs \in Seq(1..N), Sums(cs)[Len(cs)] = N, NEW ws,
         NEW sent, NEW other, NEW m \in 0..Len(cs), Holds(o, cs, ws, sent, m),
         \A q \in 1..Sums(BitsOf(cs))[m] : other[q] = sent[q]
  PROVE  Holds(o, cs, ws, other, m)
<1> SUFFICES ASSUME NEW k \in 1..m, NEW i \in 1..cs[k], NEW j \in 1..Blocks!Width(cs[k])
             PROVE  other[BitSpot(cs, k, i, j)] = sent[BitSpot(cs, k, i, j)]
  BY DEF Holds
<1>1. k \in 1..Len(cs) /\ k \in 0..Len(cs) /\ k <= m /\ Len(cs) \in Nat
  OBVIOUS
<1>2. /\ BitSpot(cs, k, i, j) \in (Sums(BitsOf(cs))[k - 1] + 1)..Sums(BitsOf(cs))[k]
      /\ Sums(BitsOf(cs))[k - 1] \in Nat /\ Sums(BitsOf(cs))[k] \in Nat
  BY <1>1, SpotsAre
<1>3. Sums(BitsOf(cs))[k] <= Sums(BitsOf(cs))[m] /\ Sums(BitsOf(cs))[m] \in Nat
  <2>1. BitsOf(cs) \in Seq(Nat) /\ Len(BitsOf(cs)) = Len(cs)
    BY BitsOfAre
  <2>2. Sums(BitsOf(cs)) \in [0..Len(cs) -> Nat]
    BY <2>1, SumsAre
  <2> QED BY <1>1, <2>1, <2>2, SumsGrow
<1> QED BY <1>2, <1>3

-------------------------------------------------------------------------------
(* ---- encode_blockwise and decode_blockwise ---------------------------- *)

(* What happened to the block numbers o of the rows.                       *)
Damaged(o) ==
  /\ damage # "ids" => ids = o
  /\ damage = "ids" =>
       \E row \in Blocks!Rows : ids[row] # o[row] /\ \A r \in Blocks!Rows \ {row} : ids[r] = o[r]

(* The rows of the blocks that decode_blockwise has passed.                *)
PassedRows == {row \in Blocks!Rows : \E k \in 1..block : blocks[k] = ids[row]}

Packing(o) ==
  /\ damage = "none" /\ bit = 0
  /\ index = Sums(counts)[block] /\ Len(packed) = Sums(BitsOf(counts))[block]
  /\ Holds(o, counts, written, packed, block)

Progress ==
  /\ index = Sums(counts)[block] /\ bit = Sums(BitsOf(counts))[block]
  /\ \A k \in 1..block : Cardinality(MembersOf(ids, blocks[k])) = counts[k]
  /\ damage # "ids" =>
       /\ \A row \in PassedRows : \E i \in 1..index : taken[row] = written[i]
       /\ \A i \in 1..index : \E row \in PassedRows : taken[row] = written[i]
  /\ damage \in {"none", "padding"} => \A row \in PassedRows : taken[row] = row

Unpacking(o) ==
  /\ damage = "words" <=> Len(packed) # Blocks!Padded(Blocks!Bits(counts))
  /\ damage \in {"none", "padding", "ids"} => Holds(o, counts, written, packed, Len(blocks))
  /\ phase = "damage" => damage = "none"
  /\ phase \in {"damage", "check"} => block = 0 /\ bit = 0 /\ index = 0
  /\ phase \in {"blocks", "accepted"} => damage # "words" /\ Progress
  /\ phase = "accepted" => block = Len(blocks)
  /\ phase = "rejected" => damage \notin {"none", "padding"}

BlockInv ==
  /\ Blocks!TypeOK
  /\ phase = "encode" =>
       packed = <<>> /\ damage = "none" /\ block = 0 /\ bit = 0 /\ index = 0
  /\ phase # "encode" =>
       \E o \in [Blocks!Rows -> BlockIds] :
         /\ StreamOf(o, blocks, counts, written) /\ Damaged(o)
         /\ phase = "pack" => Packing(o)
         /\ phase # "pack" => Unpacking(o)

LEMMA BlockInitInv == Blocks!Init => BlockInv
<1> SUFFICES ASSUME Blocks!Init PROVE BlockInv
  OBVIOUS
<1>1. N \in Nat /\ 0 \in 0..N
  BY BlocksAssumed
<1>2. taken \in [Blocks!Rows -> Blocks!Rows \cup {None}]
  BY DEF Blocks!Init
<1>3. Blocks!TypeOK
  BY <1>1, <1>2 DEF Blocks!Init, Blocks!TypeOK, Blocks!Bit
<1> QED BY <1>3 DEF BlockInv, Blocks!Init

LEMMA CompressKeepsInv == BlockInv /\ Blocks!Compress => BlockInv'
<1> SUFFICES ASSUME BlockInv, Blocks!Compress PROVE BlockInv'
  OBVIOUS
<1>1. /\ Blocks!TypeOK /\ phase = "encode"
      /\ packed = <<>> /\ damage = "none" /\ block = 0 /\ bit = 0 /\ index = 0
  BY DEF BlockInv, Blocks!Compress
<1>2. /\ ids' = ids /\ packed' = packed /\ damage' = damage
      /\ block' = block /\ bit' = bit /\ index' = index /\ taken' = taken /\ phase' = "pack"
  BY DEF Blocks!Compress, Blocks!sidecars, Blocks!reader
<1>3. ids \in [Blocks!Rows -> BlockIds] /\ taken \in [Blocks!Rows -> Blocks!Rows \cup {None}]
  BY <1>1 DEF Blocks!TypeOK
<1>4. /\ blocks' \in Blocks!SetToSeqs(Blocks!Range(ids)) /\ written' \in Blocks!SetToSeqs(Blocks!Rows)
      /\ counts' = [k \in DOMAIN blocks' |-> Cardinality(MembersOf(ids, blocks'[k]))]
      /\ \A k \in DOMAIN blocks' : \A i \in 1..counts'[k] :
           ids[written'[Sums(counts')[k - 1] + i]] = blocks'[k]
  BY BlocksNumbers, BlocksCardinality, MembersAre DEF Blocks!Compress
<1>5. StreamOf(ids, blocks', counts', written')
  BY <1>3, <1>4, StreamIs
<1>6. /\ counts' \in Seq(1..N) /\ blocks' \in Seq(BlockIds) /\ written' \in Seq(Blocks!Rows)
      /\ Len(counts') = Len(blocks')
  BY <1>5 DEF StreamOf
<1>7. Sums(counts')[0] = 0 /\ Sums(BitsOf(counts'))[0] = 0
  <2>1. counts' \in Seq(Nat) /\ BitsOf(counts') \in Seq(Nat)
    BY <1>6, BitsOfAre
  <2> QED BY <2>1, SumsAre
<1>8. Packing(ids)'
  <2>1. Holds(ids, counts', written', packed', 0)
    BY DEF Holds
  <2> QED BY <1>1, <1>2, <1>7, <2>1 DEF Packing
<1>9. Damaged(ids)'
  BY <1>1, <1>2 DEF Damaged
<1>10. Blocks!TypeOK'
  BY <1>1, <1>2, <1>3, <1>6 DEF Blocks!TypeOK
<1> QED BY <1>2, <1>3, <1>5, <1>8, <1>9, <1>10 DEF BlockInv

(* PackBlock writes the places of the rows of the next block.              *)
LEMMA BlockBitsAre ==
  ASSUME ids \in [Blocks!Rows -> BlockIds], StreamOf(ids, blocks, counts, written),
         NEW k \in 1..Len(blocks), block = k - 1, index = Sums(counts)[k - 1]
  PROVE  /\ Blocks!BlockBits \in Seq({0, 1}) /\ Len(Blocks!BlockBits) = counts[k] * Blocks!Width(counts[k])
         /\ \A i \in 1..counts[k], j \in 1..Blocks!Width(counts[k]) :
              Blocks!BlockBits[(i - 1) * Blocks!Width(counts[k]) + j]
                = Blocks!BitOf(PlaceOf(ids, written[Spot(counts, k, i)]), j - 1)
<1> DEFINE c == counts[k]
           w == Blocks!Width(c)
           first == Sums(counts)[k - 1]
           BitAt(q) == Blocks!BitOf(PlaceOf(ids, written[first + (q - 1) \div w + 1]), (q - 1) % w)
<1>1. /\ counts \in Seq(1..N) /\ Len(counts) = Len(blocks) /\ Sums(counts)[Len(counts)] = N
      /\ written \in [1..N -> Blocks!Rows] /\ k \in 1..Len(counts)
  BY DEF StreamOf
<1>2. c \in 1..N /\ w \in Nat /\ c \in Nat /\ first \in Nat
  <2>1. c \in 1..N /\ w \in Nat
    BY <1>1, BitsOfAre
  <2>2. first \in 0..N
    BY <1>1, SpotsAre
  <2> QED BY <2>1, <2>2, BlocksAssumed
<1>3. Blocks!Count = c
  <2>1. block + 1 = k
    OBVIOUS
  <2> QED BY <2>1 DEF Blocks!Count
<1>4. Blocks!BlockBits = [q \in 1..(c * w) |-> BitAt(q)]
  BY <1>3, MembersAre DEF Blocks!BlockBits
<1>5. \A i \in 1..c : first + i \in 1..N
  BY <1>1, SpotsAre DEF Spot
<1> HIDE DEF c, w, first
<1>6. ASSUME NEW q \in 1..(c * w)
      PROVE  BitAt(q) \in {0, 1}
  <2>1. c * w \in Nat /\ w > 0
    <3>1. w = 0 => c * w = 0
      BY <1>2
    <3>2. c * w \in Nat
      BY <1>2
    <3> QED BY <1>2, <3>1, <3>2
  <2>2. q - 1 \in Nat /\ q - 1 < c * w
    BY <2>1
  <2>3. (q - 1) \div w \in Nat /\ (q - 1) % w \in Nat
    <3> DEFINE v == q - 1
    <3>1. v \in Nat
      BY <2>2
    <3> HIDE DEF v
    <3>2. v \div w \in Nat /\ v % w \in 0..(w - 1)
      BY <1>2, <2>1, <3>1, QuotientIs
    <3> QED BY <3>2, <1>2 DEF v
  <2>4. (q - 1) \div w < c
    <3> DEFINE v == q - 1
    <3>1. v \in Nat /\ v < c * w
      BY <2>2
    <3> HIDE DEF v
    <3>2. v \div w < c
      BY <1>2, <2>1, <3>1, DivisionBelow
    <3> QED BY <3>2 DEF v
  <2> DEFINE i == (q - 1) \div w + 1
  <2>5. i \in 1..c /\ first + (q - 1) \div w + 1 = first + i
    BY <1>2, <2>3, <2>4
  <2> HIDE DEF i
  <2>6. written[first + i] \in Blocks!Rows
    BY <1>1, <1>5, <2>5
  <2>7. PlaceOf(ids, written[first + i]) \in Nat
    <3> DEFINE row == written[first + i]
    <3>1. row \in MembersOf(ids, ids[row])
      BY <2>6 DEF MembersOf
    <3> HIDE DEF row
    <3>2. PlaceOf(ids, row) \in 0..(Cardinality(MembersOf(ids, ids[row])) - 1)
      BY <3>1, PlacesOfBlock
    <3> QED BY <3>2 DEF row
  <2> QED BY <2>3, <2>5, <2>7, BitIsBit
<1>7. c * w \in Nat
  BY <1>2
<1>8. Blocks!BlockBits \in Seq({0, 1}) /\ Len(Blocks!BlockBits) = c * w
  <2>1. Blocks!BlockBits \in [1..(c * w) -> {0, 1}]
    <3> HIDE DEF BitAt
    <3> QED BY <1>4, <1>6
  <2> QED BY <1>7, <2>1
<1>9. ASSUME NEW i \in 1..c, NEW j \in 1..w
      PROVE  Blocks!BlockBits[(i - 1) * w + j] = Blocks!BitOf(PlaceOf(ids, written[first + i]), j - 1)
  <2> DEFINE v == (i - 1) * w + (j - 1)
  <2>1. i - 1 \in 0..(c - 1) /\ j - 1 \in 0..(w - 1) /\ w > 0 /\ i - 1 \in Nat /\ (i - 1) * w \in Int
    BY <1>2
  <2>2. v \in 0..(c * w - 1)
    BY <1>2, <2>1, RowBelow
  <2>3. (i - 1) * w + j = v + 1
    BY <2>1
  <2>4. v \in Nat /\ v = (i - 1) * w + (j - 1)
    BY <1>7, <2>2
  <2> HIDE DEF v
  <2>5. v \div w \in Nat /\ v % w \in 0..(w - 1) /\ v = (v \div w) * w + (v % w)
    BY <1>2, <2>1, <2>4, QuotientIs
  <2>6. v \div w = i - 1 /\ v % w = j - 1
    BY <1>2, <2>1, <2>4, <2>5, RowUnique
  <2>7. v + 1 \in 1..(c * w) /\ (v + 1) - 1 = v
    BY <1>7, <2>2, <2>4
  <2>8. Blocks!BlockBits[v + 1] = BitAt(v + 1)
    <3> HIDE DEF BitAt
    <3> QED BY <1>4, <2>7
  <2>9. first + ((v + 1) - 1) \div w + 1 = first + i
    BY <1>2, <2>1, <2>6, <2>7
  <2> QED BY <2>3, <2>6, <2>7, <2>8, <2>9
<1> QED BY <1>8, <1>9 DEF c, w, first, Spot

LEMMA Concatenation ==
  ASSUME NEW S, NEW s \in Seq(S), NEW t \in Seq(S)
  PROVE  /\ s \o t \in Seq(S) /\ Len(s \o t) = Len(s) + Len(t)
         /\ \A q \in 1..Len(s) : (s \o t)[q] = s[q]
         /\ \A q \in 1..Len(t) : (s \o t)[Len(s) + q] = t[q]
OBVIOUS

LEMMA FirstPart ==
  ASSUME NEW S, NEW s \in Seq(S), NEW m \in 0..Len(s)
  PROVE  /\ SubSeq(s, 1, m) \in Seq(S) /\ Len(SubSeq(s, 1, m)) = m
         /\ \A q \in 1..m : SubSeq(s, 1, m)[q] = s[q]
<1>1. Len(s) \in Nat /\ m \in Nat /\ m <= Len(s) /\ \A q \in 1..Len(s) : s[q] \in S
  OBVIOUS
<1>2. SubSeq(s, 1, m) = [q \in 1..m |-> s[q]]
  BY <1>1
<1>3. [q \in 1..m |-> s[q]] \in [1..m -> S]
  BY <1>1
<1> DEFINE t == [q \in 1..m |-> s[q]]
<1>4. t \in Seq(S) /\ Len(t) = m
  BY <1>1, <1>3
<1> QED BY <1>2, <1>4

LEMMA PackBlockKeepsInv == BlockInv /\ Blocks!PackBlock => BlockInv'
<1> SUFFICES ASSUME BlockInv, Blocks!PackBlock PROVE BlockInv'
  OBVIOUS
<1>1. /\ Blocks!TypeOK /\ phase = "pack" /\ block < Len(blocks)
      /\ packed' = packed \o Blocks!BlockBits /\ block' = block + 1 /\ index' = index + Blocks!Count
      /\ ids' = ids /\ damage' = damage /\ written' = written /\ counts' = counts /\ blocks' = blocks
      /\ bit' = bit /\ taken' = taken /\ phase' = "pack"
  BY DEF BlockInv, Blocks!PackBlock, Blocks!native
<1>2. PICK o \in [Blocks!Rows -> BlockIds] :
        StreamOf(o, blocks, counts, written) /\ Damaged(o) /\ Packing(o)
  BY <1>1 DEF BlockInv
<1>3. damage = "none" /\ ids = o /\ ids \in [Blocks!Rows -> BlockIds]
  BY <1>2 DEF Packing, Damaged
<1> DEFINE k == block + 1
           B == BitsOf(counts)
           m == Sums(B)[block]
<1>4. /\ counts \in Seq(1..N) /\ Len(counts) = Len(blocks) /\ Sums(counts)[Len(counts)] = N
      /\ block \in 0..Len(blocks) /\ Len(blocks) \in Nat /\ packed \in Seq({0, 1})
  BY <1>1, <1>2 DEF StreamOf, Blocks!TypeOK, Blocks!Bit
<1>5. k \in 1..Len(blocks) /\ k - 1 = block
  BY <1>1, <1>4
<1>6. index = Sums(counts)[block] /\ Len(packed) = m /\ bit = 0 /\ Holds(o, counts, written, packed, block)
  BY <1>2 DEF Packing
<1>7. /\ Blocks!BlockBits \in Seq({0, 1}) /\ Len(Blocks!BlockBits) = counts[k] * Blocks!Width(counts[k])
      /\ \A i \in 1..counts[k], j \in 1..Blocks!Width(counts[k]) :
           Blocks!BlockBits[(i - 1) * Blocks!Width(counts[k]) + j]
             = Blocks!BitOf(PlaceOf(ids, written[Spot(counts, k, i)]), j - 1)
  <2> HIDE DEF k
  <2>1. block = k - 1 /\ index = Sums(counts)[k - 1]
    BY <1>5, <1>6
  <2> QED BY <1>2, <1>3, <1>5, <2>1, BlockBitsAre
<1>8. /\ Sums(counts)[k - 1] \in 0..N /\ Sums(counts)[k] = Sums(counts)[k - 1] + counts[k]
      /\ Sums(counts)[k] \in 0..N
      /\ Sums(B)[k - 1] \in Nat /\ Sums(B)[k] = Sums(B)[k - 1] + counts[k] * Blocks!Width(counts[k])
      /\ \A i \in 1..counts[k], j \in 1..Blocks!Width(counts[k]) :
           BitSpot(counts, k, i, j) \in (Sums(B)[k - 1] + 1)..Sums(B)[k]
  <2> HIDE DEF k
  <2>1. k \in 1..Len(counts)
    BY <1>4, <1>5
  <2> QED BY <1>4, <2>1, SpotsAre
<1>9. Blocks!Count = counts[k]
  BY DEF Blocks!Count
<1>10. m \in Nat /\ m = Sums(B)[k - 1]
  BY <1>5, <1>8
<1> HIDE DEF k, m
<1>11. index' = Sums(counts)[k]
  BY <1>1, <1>5, <1>6, <1>8, <1>9
<1>12. Len(packed') = Sums(B)[k] /\ packed' \in Seq({0, 1})
  BY <1>1, <1>4, <1>6, <1>7, <1>8, <1>10
<1>13. /\ \A q \in 1..m : packed'[q] = packed[q]
       /\ \A q \in 1..(counts[k] * Blocks!Width(counts[k])) : packed'[m + q] = Blocks!BlockBits[q]
  BY <1>1, <1>4, <1>6, <1>7, Concatenation, SMTT(30)
<1>14. Holds(o, counts, written, packed', block)
  <2>1. block \in 0..Len(counts)
    BY <1>4
  <2>2. \A q \in 1..Sums(BitsOf(counts))[block] : packed'[q] = packed[q]
    BY <1>13 DEF m
  <2> QED BY <1>4, <1>6, <2>1, <2>2, HoldsLater
<1>15. ASSUME NEW i \in 1..counts[k], NEW j \in 1..Blocks!Width(counts[k])
       PROVE  packed'[BitSpot(counts, k, i, j)]
                = Blocks!BitOf(PlaceOf(o, written[Spot(counts, k, i)]), j - 1)
  <2> DEFINE q == (i - 1) * Blocks!Width(counts[k]) + j
  <2>1. BitSpot(counts, k, i, j) = m + q
    BY <1>10 DEF BitSpot
  <2>2. BitSpot(counts, k, i, j) \in (m + 1)..(m + counts[k] * Blocks!Width(counts[k]))
    BY <1>8, <1>10
  <2>3. q \in 1..(counts[k] * Blocks!Width(counts[k]))
    <3>1. counts[k] * Blocks!Width(counts[k]) \in Nat
      BY <1>7
    <3>2. q \in Int
      <4>1. Blocks!Width(counts[k]) \in Int
        BY <1>4, <1>5, BitsOfAre
      <4> QED BY <4>1
    <3> HIDE DEF q
    <3> QED BY <1>10, <2>1, <2>2, <3>1, <3>2
  <2>4. packed'[m + q] = Blocks!BlockBits[q]
    <3> HIDE DEF q
    <3> QED BY <1>13, <2>3
  <2>5. Blocks!BlockBits[q] = Blocks!BitOf(PlaceOf(o, written[Spot(counts, k, i)]), j - 1)
    BY <1>3, <1>7
  <2> QED BY <2>1, <2>4, <2>5
<1>16. Holds(o, counts, written, packed', k)
  <2> SUFFICES ASSUME NEW l \in 1..k, NEW i \in 1..counts[l], NEW j \in 1..Blocks!Width(counts[l])
               PROVE  packed'[BitSpot(counts, l, i, j)]
                        = Blocks!BitOf(PlaceOf(o, written[Spot(counts, l, i)]), j - 1)
    BY DEF Holds
  <2>1. CASE l = k
    BY <1>15, <2>1
  <2>2. CASE l # k
    <3>1. l \in 1..block
      BY <1>4, <1>5, <2>2
    <3> QED BY <1>14, <3>1 DEF Holds
  <2> QED BY <2>1, <2>2
<1>17. block' = k /\ k \in 0..Len(blocks)
  BY <1>1, <1>5 DEF k
<1>18. Packing(o)'
  BY <1>1, <1>3, <1>6, <1>11, <1>12, <1>16, <1>17 DEF Packing, B
<1>19. Damaged(o)'
  BY <1>1, <1>2 DEF Damaged
<1>20. StreamOf(o, blocks', counts', written')
  BY <1>1, <1>2
<1>21. Blocks!TypeOK'
  <2>1. bit' \in 0..Len(packed')
    BY <1>1, <1>6, <1>12
  <2>2. index' \in 0..N
    BY <1>8, <1>11
  <2> QED BY <1>1, <1>12, <1>17, <2>1, <2>2 DEF Blocks!TypeOK, Blocks!Bit
<1> QED BY <1>1, <1>18, <1>19, <1>20, <1>21 DEF BlockInv

LEMMA PackDoneKeepsInv == BlockInv /\ Blocks!PackDone => BlockInv'
<1> SUFFICES ASSUME BlockInv, Blocks!PackDone PROVE BlockInv'
  OBVIOUS
<1> DEFINE n == Len(packed)
           room == Blocks!Padded(n)
           padding == [k \in 1..(room - n) |-> 0]
<1>1. /\ Blocks!TypeOK /\ phase = "pack" /\ block = Len(blocks)
      /\ packed' = packed \o padding
      /\ block' = 0 /\ index' = 0 /\ phase' = "damage"
      /\ ids' = ids /\ damage' = damage /\ written' = written /\ counts' = counts /\ blocks' = blocks
      /\ bit' = bit /\ taken' = taken
  BY DEF BlockInv, Blocks!PackDone, Blocks!native
<1>2. PICK o \in [Blocks!Rows -> BlockIds] :
        StreamOf(o, blocks, counts, written) /\ Damaged(o) /\ Packing(o)
  BY <1>1 DEF BlockInv
<1>3. /\ counts \in Seq(1..N) /\ Len(counts) = Len(blocks) /\ Sums(counts)[Len(counts)] = N
      /\ Len(blocks) \in Nat /\ packed \in Seq({0, 1}) /\ n \in Nat
  BY <1>1, <1>2 DEF StreamOf, Blocks!TypeOK, Blocks!Bit
<1>4. /\ n = Sums(BitsOf(counts))[Len(blocks)] /\ bit = 0 /\ damage = "none"
      /\ Holds(o, counts, written, packed, Len(blocks))
  BY <1>1, <1>2 DEF Packing
<1>5. Blocks!Bits(counts) = n
  BY <1>3, <1>4, BitsOfAre
<1>6. room \in Nat /\ n <= room
  BY <1>3, PaddedIs
<1> HIDE DEF n, room
<1>7. padding \in Seq({0, 1}) /\ Len(padding) = room - n
  <2>1. room - n \in Nat
    BY <1>3, <1>6
  <2>2. padding \in [1..(room - n) -> {0, 1}]
    OBVIOUS
  <2> HIDE DEF padding
  <2> QED BY <2>1, <2>2
<1> HIDE DEF padding
<1>8. packed' \in Seq({0, 1}) /\ Len(packed') = room /\ \A q \in 1..n : packed'[q] = packed[q]
  <2>1. packed' \in Seq({0, 1}) /\ Len(packed') = Len(packed) + Len(padding)
        /\ \A q \in 1..Len(packed) : packed'[q] = packed[q]
    BY <1>1, <1>3, <1>7, Concatenation
  <2> QED BY <1>3, <1>6, <1>7, <2>1 DEF n
<1>9. Holds(o, counts, written, packed', Len(blocks))
  <2>1. Len(blocks) \in 0..Len(counts)
    BY <1>3
  <2>2. \A q \in 1..Sums(BitsOf(counts))[Len(blocks)] : packed'[q] = packed[q]
    BY <1>4, <1>8
  <2> QED BY <1>3, <1>4, <2>1, <2>2, HoldsLater
<1>10. Unpacking(o)'
  <2>1. Len(packed') = Blocks!Padded(Blocks!Bits(counts))
    BY <1>5, <1>8 DEF room
  <2>2. Len(packed)' = Blocks!Padded(Blocks!Bits(counts))'
    BY <1>1, <2>1
  <2> QED BY <1>1, <1>4, <1>9, <2>2 DEF Unpacking
<1>11. Damaged(o)'
  BY <1>1, <1>2 DEF Damaged
<1>12. StreamOf(o, blocks', counts', written')
  BY <1>1, <1>2
<1>13. Blocks!TypeOK'
  <2>1. 0 \in 0..Len(packed') /\ 0 \in 0..Len(blocks') /\ 0 \in 0..N
    BY <1>1, <1>3, <1>6, <1>8, BlocksAssumed
  <2> QED BY <1>1, <1>4, <1>8, <2>1 DEF Blocks!TypeOK, Blocks!Bit
<1> QED BY <1>1, <1>10, <1>11, <1>12, <1>13 DEF BlockInv

(* What one of the damages leaves alone.                                   *)
LEMMA DamageKeeps ==
  ASSUME BlockInv, phase = "damage", phase' = "check",
         UNCHANGED <<Blocks!native, Blocks!reader>>,
         damage' \in {"none", "padding", "order", "words", "ids"},
         ids' \in [Blocks!Rows -> BlockIds], packed' \in Seq({0, 1}),
         damage' # "ids" => ids' = ids,
         damage' = "ids" => \E row \in Blocks!Rows :
           ids'[row] # ids[row] /\ \A r \in Blocks!Rows \ {row} : ids'[r] = ids[r],
         damage' = "words" <=> Len(packed') # Len(packed),
         damage' \in {"none", "padding", "ids"} =>
           \A q \in 1..Blocks!Bits(counts) : packed'[q] = packed[q]
  PROVE  BlockInv'
<1>1. /\ Blocks!TypeOK
      /\ written' = written /\ counts' = counts /\ blocks' = blocks
      /\ block' = block /\ bit' = bit /\ index' = index /\ taken' = taken
  BY DEF BlockInv, Blocks!native, Blocks!reader
<1>2. PICK o \in [Blocks!Rows -> BlockIds] :
        StreamOf(o, blocks, counts, written) /\ Damaged(o) /\ Unpacking(o)
  BY DEF BlockInv
<1>3. /\ damage = "none" /\ ids = o /\ block = 0 /\ bit = 0 /\ index = 0
      /\ Len(packed) = Blocks!Padded(Blocks!Bits(counts))
      /\ Holds(o, counts, written, packed, Len(blocks))
  BY <1>2 DEF Unpacking, Damaged
<1>4. counts \in Seq(1..N) /\ Len(counts) = Len(blocks) /\ Sums(counts)[Len(counts)] = N
      /\ Len(blocks) \in Nat
  BY <1>2 DEF StreamOf
<1>5. damage' \in {"none", "padding", "ids"} => Holds(o, counts, written, packed', Len(blocks))
  <2> SUFFICES ASSUME damage' \in {"none", "padding", "ids"}
               PROVE  Holds(o, counts, written, packed', Len(blocks))
    OBVIOUS
  <2>1. Len(blocks) \in 0..Len(counts)
    BY <1>4
  <2>2. Blocks!Bits(counts) = Sums(BitsOf(counts))[Len(blocks)]
    BY <1>4, BitsOfAre
  <2>3. \A q \in 1..Sums(BitsOf(counts))[Len(blocks)] : packed'[q] = packed[q]
    BY <2>2
  <2> QED BY <1>3, <1>4, <2>1, <2>3, HoldsLater
<1>6. Unpacking(o)'
  <2>1. damage' = "words" <=> Len(packed') # Blocks!Padded(Blocks!Bits(counts))
    BY <1>3
  <2>2. Blocks!Padded(Blocks!Bits(counts))' = Blocks!Padded(Blocks!Bits(counts))
    BY <1>1
  <2> QED BY <1>1, <1>3, <1>5, <2>1, <2>2 DEF Unpacking
<1>7. Damaged(o)'
  BY <1>3 DEF Damaged
<1>8. StreamOf(o, blocks', counts', written')
  BY <1>1, <1>2
<1>9. Blocks!TypeOK'
  <2>1. bit' \in 0..Len(packed')
    BY <1>1, <1>3
  <2> QED BY <1>1, <2>1 DEF Blocks!TypeOK, Blocks!Bit
<1> QED BY <1>6, <1>7, <1>8, <1>9 DEF BlockInv

LEMMA DamagesKeepInv ==
  BlockInv /\ (Blocks!Intact \/ Blocks!BadBit \/ Blocks!BadWords \/ Blocks!BadId) => BlockInv'
<1> SUFFICES ASSUME BlockInv, Blocks!Intact \/ Blocks!BadBit \/ Blocks!BadWords \/ Blocks!BadId
             PROVE  BlockInv'
  OBVIOUS
<1>1. /\ phase = "damage" /\ phase' = "check" /\ UNCHANGED <<Blocks!native, Blocks!reader>>
  BY DEF Blocks!Intact, Blocks!BadBit, Blocks!BadWords, Blocks!BadId, Blocks!Damage
<1>2. /\ ids \in [Blocks!Rows -> BlockIds] /\ packed \in Seq({0, 1}) /\ Len(packed) \in Nat
      /\ DOMAIN packed = 1..Len(packed)
  BY DEF BlockInv, Blocks!TypeOK, Blocks!Bit
<1>3. CASE Blocks!Intact
  <2>1. damage' = "none" /\ ids' = ids /\ packed' = packed
    BY <1>3 DEF Blocks!Intact, Blocks!Damage
  <2> QED BY <1>1, <1>2, <2>1, DamageKeeps
<1>4. CASE Blocks!BadBit
  <2>1. PICK k \in DOMAIN packed :
          /\ damage' = IF k > Blocks!Bits(counts) THEN "padding" ELSE "order"
          /\ packed' = [packed EXCEPT ![k] = 1 - @] /\ ids' = ids
    BY <1>4 DEF Blocks!BadBit, Blocks!Damage
  <2>2. packed' \in Seq({0, 1}) /\ Len(packed') = Len(packed)
        /\ \A q \in 1..Len(packed) : q # k => packed'[q] = packed[q]
    <3>1. packed[k] \in {0, 1}
      BY <1>2
    <3>2. 1 - packed[k] \in {0, 1}
      BY <3>1
    <3>3. packed \in [1..Len(packed) -> {0, 1}]
      BY <1>2
    <3>4. packed' \in [1..Len(packed) -> {0, 1}]
      BY <2>1, <3>2, <3>3
    <3>5. packed' \in Seq({0, 1}) /\ Len(packed') = Len(packed)
      BY <1>2, <3>4
    <3> QED BY <1>2, <2>1, <3>5
  <2>3. Blocks!Bits(counts) \in Nat /\ Blocks!Bits(counts) <= Len(packed)
    <3>1. PICK o \in [Blocks!Rows -> BlockIds] :
            StreamOf(o, blocks, counts, written) /\ Damaged(o) /\ Unpacking(o)
      BY <1>1 DEF BlockInv
    <3>2. Len(packed) = Blocks!Padded(Blocks!Bits(counts))
      BY <1>1, <3>1 DEF Unpacking
    <3>3. counts \in Seq(1..N)
      BY <3>1 DEF StreamOf
    <3>4. Blocks!Bits(counts) \in Nat
      <4>1. BitsOf(counts) \in Seq(Nat) /\ Len(BitsOf(counts)) = Len(counts) /\ Len(counts) \in Nat
            /\ Blocks!Bits(counts) = Sums(BitsOf(counts))[Len(counts)]
        BY <3>3, BitsOfAre
      <4>2. Sums(BitsOf(counts)) \in [0..Len(counts) -> Nat]
        BY <4>1, SumsAre
      <4> QED BY <4>1, <4>2
    <3> QED BY <3>2, <3>4, PaddedIs
  <2>4. damage' \in {"padding", "order"}
        /\ (damage' = "padding" => \A q \in 1..Blocks!Bits(counts) : packed'[q] = packed[q])
    <3>1. k > Blocks!Bits(counts) => \A q \in 1..Blocks!Bits(counts) : packed'[q] = packed[q]
      BY <1>2, <2>2, <2>3
    <3> QED BY <2>1, <3>1
  <2> QED BY <1>1, <1>2, <2>1, <2>2, <2>4, DamageKeeps
<1>5. CASE Blocks!BadWords
  <2>1. /\ damage' = "words" /\ ids' = ids
        /\ \/ packed' = packed \o [k \in 1..WordBits |-> 0]
           \/ packed # <<>> /\ packed' = SubSeq(packed, 1, Len(packed) - WordBits)
    BY <1>5 DEF Blocks!BadWords, Blocks!Damage
  <2>2. WordBits \in Nat /\ WordBits > 0
    BY PaddedIs
  <2>3. packed' \in Seq({0, 1}) /\ Len(packed') # Len(packed)
    <3>1. CASE packed' = packed \o [k \in 1..WordBits |-> 0]
      <4> DEFINE zeros == [k \in 1..WordBits |-> 0]
      <4>1. zeros \in [1..WordBits -> {0, 1}]
        OBVIOUS
      <4> HIDE DEF zeros
      <4>2. zeros \in Seq({0, 1}) /\ Len(zeros) = WordBits
        BY <2>2, <4>1
      <4>3. packed' = packed \o zeros
        BY <3>1 DEF zeros
      <4>4. packed \o zeros \in Seq({0, 1}) /\ Len(packed \o zeros) = Len(packed) + Len(zeros)
        BY <1>2, <4>2, Concatenation
      <4>5. Len(packed) + Len(zeros) # Len(packed)
        <5> DEFINE n == Len(packed)
        <5>1. n \in Nat
          BY <1>2
        <5> HIDE DEF n
        <5>2. n + WordBits # n
          BY <2>2, <5>1
        <5> QED BY <4>2, <5>2 DEF n
      <4> QED BY <4>3, <4>4, <4>5
    <3>2. CASE packed # <<>> /\ packed' = SubSeq(packed, 1, Len(packed) - WordBits)
      <4>1. Len(packed) >= WordBits
        <5>1. PICK o \in [Blocks!Rows -> BlockIds] :
                StreamOf(o, blocks, counts, written) /\ Damaged(o) /\ Unpacking(o)
          BY <1>1 DEF BlockInv
        <5>2. Len(packed) = Blocks!Padded(Blocks!Bits(counts)) /\ counts \in Seq(1..N)
          BY <1>1, <5>1 DEF Unpacking, StreamOf
        <5>3. Blocks!Bits(counts) \in Nat
          <6>1. BitsOf(counts) \in Seq(Nat) /\ Len(BitsOf(counts)) = Len(counts) /\ Len(counts) \in Nat
                /\ Blocks!Bits(counts) = Sums(BitsOf(counts))[Len(counts)]
            BY <5>2, BitsOfAre
          <6>2. Sums(BitsOf(counts)) \in [0..Len(counts) -> Nat]
            BY <6>1, SumsAre
          <6> QED BY <6>1, <6>2
        <5>4. PICK q \in Nat : Len(packed) = q * WordBits
          BY <5>2, <5>3, PaddedIs
        <5>5. q # 0
          BY <1>2, <2>2, <3>2, <5>4
        <5> QED BY <2>2, <5>4, <5>5
      <4>2. Len(packed) - WordBits \in 0..Len(packed) /\ Len(packed) - WordBits # Len(packed)
        <5> DEFINE n == Len(packed)
        <5>1. n \in Nat /\ n >= WordBits
          BY <1>2, <4>1
        <5> HIDE DEF n
        <5>2. n - WordBits \in 0..n /\ n - WordBits # n
          BY <2>2, <5>1
        <5> QED BY <5>2 DEF n
      <4> DEFINE m == Len(packed) - WordBits
      <4>3. m \in 0..Len(packed) /\ m # Len(packed) /\ packed' = SubSeq(packed, 1, m)
        BY <3>2, <4>2, SMTT(30)
      <4> HIDE DEF m
      <4>4. SubSeq(packed, 1, m) \in Seq({0, 1}) /\ Len(SubSeq(packed, 1, m)) = m
        BY <1>2, <4>3, FirstPart
      <4> QED BY <4>3, <4>4
    <3> QED BY <2>1, <3>1, <3>2
  <2> QED BY <1>1, <1>2, <2>1, <2>3, DamageKeeps
<1>6. CASE Blocks!BadId
  <2>1. PICK row \in Blocks!Rows, b \in BlockIds :
          b # ids[row] /\ damage' = "ids" /\ ids' = [ids EXCEPT ![row] = b] /\ packed' = packed
    BY <1>6 DEF Blocks!BadId, Blocks!Damage
  <2>2. ids' \in [Blocks!Rows -> BlockIds]
    BY <1>2, <2>1
  <2>3. ids'[row] # ids[row] /\ \A r \in Blocks!Rows \ {row} : ids'[r] = ids[r]
    BY <1>2, <2>1
  <2> QED BY <1>1, <1>2, <2>1, <2>2, <2>3, DamageKeeps
<1> QED BY <1>3, <1>4, <1>5, <1>6

LEMMA CheckKeepsInv == BlockInv /\ (Blocks!Check \/ Blocks!CheckFails) => BlockInv'
<1> SUFFICES ASSUME BlockInv, Blocks!Check \/ Blocks!CheckFails PROVE BlockInv'
  OBVIOUS
<1>1. /\ Blocks!TypeOK /\ phase = "check" /\ phase' \in {"blocks", "rejected"}
      /\ ids' = ids /\ packed' = packed /\ damage' = damage
      /\ written' = written /\ counts' = counts /\ blocks' = blocks
      /\ block' = block /\ bit' = bit /\ index' = index /\ taken' = taken
  BY DEF BlockInv, Blocks!Check, Blocks!CheckFails, Blocks!Reject, Blocks!sidecars, Blocks!native,
         Blocks!reader
<1>2. PICK o \in [Blocks!Rows -> BlockIds] :
        StreamOf(o, blocks, counts, written) /\ Damaged(o) /\ Unpacking(o)
  BY <1>1 DEF BlockInv
<1>3. /\ damage = "words" <=> Len(packed) # Blocks!Padded(Blocks!Bits(counts))
      /\ damage \in {"none", "padding", "ids"} => Holds(o, counts, written, packed, Len(blocks))
      /\ block = 0 /\ bit = 0 /\ index = 0
  BY <1>1, <1>2 DEF Unpacking
<1>4. counts \in Seq(1..N) /\ Len(counts) = Len(blocks)
      /\ Len(blocks) = Cardinality(Blocks!Range(o))
  BY <1>2 DEF StreamOf
<1>5. phase' = "blocks" => damage # "words" /\ Progress
  <2> SUFFICES ASSUME phase' = "blocks" PROVE damage # "words" /\ Progress
    OBVIOUS
  <2>1. Blocks!SizesFit
    BY <1>1 DEF Blocks!Check, Blocks!CheckFails, Blocks!Reject
  <2>2. Len(packed) = Blocks!Padded(Blocks!Bits(counts))
    BY <2>1 DEF Blocks!SizesFit
  <2>3. Sums(counts)[0] = 0 /\ Sums(BitsOf(counts))[0] = 0
    <3>1. counts \in Seq(Nat) /\ BitsOf(counts) \in Seq(Nat)
      BY <1>4, BitsOfAre
    <3> QED BY <3>1, SumsAre
  <2>4. PassedRows = {}
    BY <1>3 DEF PassedRows
  <2> QED BY <1>3, <2>2, <2>3, <2>4 DEF Progress
<1>6. phase' = "rejected" => damage \notin {"none", "padding"}
  <2> SUFFICES ASSUME phase' = "rejected", damage \in {"none", "padding"} PROVE FALSE
    OBVIOUS
  <2>1. ~Blocks!SizesFit
    BY <1>1 DEF Blocks!Check, Blocks!CheckFails, Blocks!Reject
  <2>2. ids = o
    BY <1>2 DEF Damaged
  <2>3. Blocks!Cardinality(Blocks!Range(ids)) = Len(blocks)
    BY <1>4, <2>2, BlocksCardinality
  <2> QED BY <1>3, <2>1, <2>3 DEF Blocks!SizesFit
<1>7. Progress' <=> Progress
  BY <1>1 DEF Progress, PassedRows
<1>8. Unpacking(o)'
  BY <1>1, <1>3, <1>5, <1>6, <1>7 DEF Unpacking
<1>9. Damaged(o)'
  BY <1>1, <1>2 DEF Damaged
<1>10. StreamOf(o, blocks', counts', written')
  BY <1>1, <1>2
<1>11. Blocks!TypeOK'
  BY <1>1 DEF Blocks!TypeOK, Blocks!Bit
<1> QED BY <1>1, <1>8, <1>9, <1>10, <1>11 DEF BlockInv

(* What decode_blockwise is about to read, whatever the bits are.          *)
LEMMA PlacesType ==
  ASSUME BlockInv, Blocks!AtBlock,
         NEW o \in [Blocks!Rows -> BlockIds], StreamOf(o, blocks, counts, written), Unpacking(o)
  PROVE  /\ block + 1 \in 1..Len(blocks) /\ block \in 0..Len(blocks) /\ Len(blocks) \in Nat
         /\ Blocks!Count = counts[block + 1] /\ Blocks!Count \in 1..N /\ Blocks!Count \in Nat
         /\ Blocks!Width(Blocks!Count) \in Nat
         /\ index \in 0..N /\ index + Blocks!Count = Sums(counts)[block + 1]
         /\ index + Blocks!Count \in 0..N
         /\ bit \in Nat
         /\ bit + Blocks!Count * Blocks!Width(Blocks!Count) = Sums(BitsOf(counts))[block + 1]
         /\ bit + Blocks!Count * Blocks!Width(Blocks!Count) \in 0..Len(packed)
         /\ \A i \in 1..Blocks!Count : /\ index + i = Spot(counts, block + 1, i)
                                       /\ index + i \in 1..N /\ written[index + i] \in Blocks!Rows
         /\ \A i \in 1..Blocks!Count, j \in 1..Blocks!Width(Blocks!Count) :
              /\ bit + (i - 1) * Blocks!Width(Blocks!Count) + j = BitSpot(counts, block + 1, i, j)
              /\ packed[bit + (i - 1) * Blocks!Width(Blocks!Count) + j] \in {0, 1}
         /\ \A i \in 1..Blocks!Count : Blocks!Places[i] \in Nat
<1> DEFINE k == block + 1
           c == Blocks!Count
           w == Blocks!Width(c)
           B == BitsOf(counts)
           n == Len(blocks)
<1>1. /\ phase = "blocks" /\ block < n /\ block \in 0..n /\ n \in Nat /\ index \in 0..N
      /\ packed \in Seq({0, 1}) /\ Len(packed) \in Nat
  BY DEF BlockInv, Blocks!AtBlock, Blocks!TypeOK, Blocks!Bit
<1>2. /\ index = Sums(counts)[block] /\ bit = Sums(B)[block]
      /\ Len(packed) = Blocks!Padded(Blocks!Bits(counts))
  BY <1>1 DEF Unpacking, Progress
<1>3. counts \in Seq(1..N) /\ Len(counts) = n /\ Sums(counts)[n] = N /\ written \in [1..N -> Blocks!Rows]
  BY DEF StreamOf
<1>4. k \in 1..n /\ k - 1 = block /\ k \in 1..Len(counts)
  BY <1>1, <1>3
<1>5. c = counts[k]
  BY DEF Blocks!Count
<1> HIDE DEF k, c
<1>6. c \in 1..N /\ c \in Nat /\ w \in Nat /\ Blocks!Bits(counts) = Sums(B)[n]
  <2>1. c \in 1..N /\ w \in Nat /\ Blocks!Bits(counts) = Sums(B)[n]
    BY <1>3, <1>4, <1>5, BitsOfAre
  <2>2. c \in Nat
    BY <2>1, BlocksAssumed
  <2> QED BY <2>1, <2>2
<1>7. /\ Sums(counts)[k] = Sums(counts)[k - 1] + c /\ Sums(counts)[k] \in 0..N
      /\ Sums(B)[k - 1] \in Nat /\ Sums(B)[k] = Sums(B)[k - 1] + c * w
      /\ Sums(B)[k] \in 0..Sums(B)[n]
      /\ \A i \in 1..c : Spot(counts, k, i) \in 1..N
      /\ \A i \in 1..c, j \in 1..w :
           BitSpot(counts, k, i, j) \in (Sums(B)[k - 1] + 1)..Sums(B)[k]
  BY <1>3, <1>4, <1>5, SpotsAre
<1>8. Sums(B)[n] \in Nat /\ Sums(B)[n] <= Len(packed)
  <2>1. B \in Seq(Nat) /\ Len(B) = n
    BY <1>3, BitsOfAre
  <2>2. Sums(B) \in [0..n -> Nat]
    BY <2>1, SumsAre
  <2>3. Sums(B)[n] \in Nat
    BY <1>1, <2>2
  <2> QED BY <1>2, <1>6, <2>3, PaddedIs
<1>9. bit \in Nat /\ index = Sums(counts)[k - 1] /\ bit = Sums(B)[k - 1]
  BY <1>2, <1>4, <1>7
<1>10. index + c = Sums(counts)[k] /\ index + c \in 0..N
  BY <1>7, <1>9
<1>11. bit + c * w = Sums(B)[k] /\ bit + c * w \in 0..Len(packed)
  BY <1>7, <1>8, <1>9, <1>1
<1>12. ASSUME NEW i \in 1..c
       PROVE  index + i = Spot(counts, k, i) /\ index + i \in 1..N /\ written[index + i] \in Blocks!Rows
  BY <1>3, <1>7, <1>9 DEF Spot
<1>13. ASSUME NEW i \in 1..c, NEW j \in 1..w
       PROVE  /\ bit + (i - 1) * w + j = BitSpot(counts, k, i, j)
              /\ packed[bit + (i - 1) * w + j] \in {0, 1}
  <2>1. (i - 1) * w \in Int /\ j \in Int
    BY <1>6
  <2>2. BitSpot(counts, k, i, j) = bit + ((i - 1) * w + j)
    BY <1>5, <1>9 DEF BitSpot
  <2>3. bit + (i - 1) * w + j = BitSpot(counts, k, i, j)
    BY <1>9, <2>1, <2>2
  <2>4. BitSpot(counts, k, i, j) \in 1..Len(packed)
    BY <1>1, <1>7, <1>8
  <2> QED BY <1>1, <2>3, <2>4
<1>14. ASSUME NEW i \in 1..c PROVE Blocks!Places[i] \in Nat
  <2> DEFINE s == [j \in 1..w |-> packed[bit + (i - 1) * w + j]]
  <2>1. Blocks!Places[i] = Blocks!FromBits(s)
    BY DEF Blocks!Places, c
  <2>2. s \in [1..w -> {0, 1}]
    BY <1>13
  <2> HIDE DEF s
  <2>3. s \in Seq({0, 1})
    BY <1>6, <2>2
  <2> QED BY <2>1, <2>3, FromBitsType
<1> QED BY <1>1, <1>4, <1>5, <1>6, <1>9, <1>10, <1>11, <1>12, <1>13, <1>14 DEF k, c, w, B, n

(* The places that were written are read.                                  *)
LEMMA PlacesAreRead ==
  ASSUME BlockInv, Blocks!AtBlock,
         NEW o \in [Blocks!Rows -> BlockIds], StreamOf(o, blocks, counts, written), Unpacking(o),
         damage \in {"none", "padding", "ids"}
  PROVE  /\ \A i \in 1..Blocks!Count : Blocks!Places[i] = PlaceOf(o, written[index + i])
         /\ Blocks!PlacesFit(Blocks!Places)
<1> DEFINE k == block + 1
           c == Blocks!Count
           w == Blocks!Width(c)
           b == blocks[k]
           row(i) == written[index + i]
<1>1. /\ k \in 1..Len(blocks) /\ c = counts[k] /\ c \in 1..N /\ c \in Nat /\ w \in Nat
      /\ \A i \in 1..c : index + i = Spot(counts, k, i) /\ index + i \in 1..N /\ row(i) \in Blocks!Rows
      /\ \A i \in 1..c, j \in 1..w :
           /\ bit + (i - 1) * w + j = BitSpot(counts, k, i, j)
           /\ packed[bit + (i - 1) * w + j] \in {0, 1}
  BY PlacesType
<1>2. Holds(o, counts, written, packed, Len(blocks))
  BY DEF Unpacking
<1>3. /\ c = Cardinality(MembersOf(o, b))
      /\ \A i \in 1..c : o[row(i)] = b
      /\ \A i, j \in 1..N : written[i] = written[j] => i = j
  <2>1. \A i \in 1..counts[k] : o[written[Sums(counts)[k - 1] + i]] = blocks[k]
    BY <1>1 DEF StreamOf
  <2>2. \A i \in 1..c : Sums(counts)[k - 1] + i = index + i
    BY <1>1 DEF Spot
  <2> QED BY <1>1, <2>1, <2>2 DEF StreamOf
<1>4. \A i \in 1..c : row(i) \in MembersOf(o, b)
  BY <1>1, <1>3 DEF MembersOf
<1>5. /\ \A r \in MembersOf(o, b) : PlaceOf(o, r) \in 0..(c - 1)
      /\ \A r, s \in MembersOf(o, b) : PlaceOf(o, r) = PlaceOf(o, s) => r = s
  BY <1>3, PlacesOfBlock
<1>6. c <= PowerOfTwo[w] /\ PowerOfTwo[w] \in Nat
  <2>1. PowerOfTwo \in [Nat -> Nat]
    BY PowersAre
  <2> HIDE DEF c
  <2> QED BY <1>1, <2>1, WidthIs
<1> HIDE DEF k, c, row, b
<1>7. ASSUME NEW i \in 1..c PROVE Blocks!Places[i] = PlaceOf(o, row(i))
  <2> DEFINE s == [j \in 1..w |-> packed[bit + (i - 1) * w + j]]
             v == PlaceOf(o, row(i))
  <2>1. Blocks!Places[i] = Blocks!FromBits(s)
    BY DEF Blocks!Places, c
  <2>2. s \in [1..w -> {0, 1}] /\ \A j \in 1..w : s[j] = packed[bit + (i - 1) * w + j]
    BY <1>1
  <2>3. v \in Nat /\ v < PowerOfTwo[w]
    <3>1. v \in 0..(c - 1)
      BY <1>4, <1>5
    <3> HIDE DEF v
    <3> QED BY <1>1, <1>6, <3>1
  <2>4. ASSUME NEW j \in 1..w PROVE s[j] = Blocks!BitOf(v, j - 1)
    <3>1. packed[BitSpot(counts, k, i, j)] = Blocks!BitOf(PlaceOf(o, written[Spot(counts, k, i)]), j - 1)
      <4>1. i \in 1..counts[k] /\ j \in 1..Blocks!Width(counts[k])
        BY <1>1
      <4> QED BY <1>1, <1>2, <4>1 DEF Holds
    <3>2. s[j] = packed[BitSpot(counts, k, i, j)]
      BY <1>1, <2>2
    <3>3. written[Spot(counts, k, i)] = row(i)
      BY <1>1 DEF row
    <3> QED BY <3>1, <3>2, <3>3
  <2> HIDE DEF s, v
  <2>5. s \in Seq({0, 1}) /\ Len(s) = w
    BY <1>1, <2>2
  <2>6. Blocks!FromBits(s) = v
    BY <1>1, <2>3, <2>4, <2>5, BitsAre
  <2> QED BY <2>1, <2>6 DEF v
<1>8. \A i \in 1..c : Blocks!Places[i] < c
  <2> TAKE i \in 1..c
  <2>1. PlaceOf(o, row(i)) \in 0..(c - 1)
    BY <1>4, <1>5
  <2> QED BY <1>1, <1>7, <2>1
<1>9. ASSUME NEW i \in 1..c, NEW j \in 1..c, Blocks!Places[i] = Blocks!Places[j] PROVE i = j
  <2>1. row(i) = row(j)
    BY <1>4, <1>5, <1>7, <1>9
  <2>2. index + i = index + j
    BY <1>1, <1>3, <2>1 DEF row
  <2>3. index \in Int
    BY DEF BlockInv, Blocks!TypeOK
  <2> QED BY <2>2, <2>3
<1>10. Blocks!PlacesFit(Blocks!Places)
  BY <1>8, <1>9 DEF Blocks!PlacesFit, c
<1> QED BY <1>7, <1>10 DEF c, row

(* Which particle a row gets.                                              *)
LEMMA SourceIs ==
  ASSUME NEW places, NEW row, Blocks!Receives(places, row)
  PROVE  /\ Blocks!Source(places, row) \in 1..Blocks!Count
         /\ places[Blocks!Source(places, row)] = PlaceOf(ids, row)
<1>1. \E i \in 1..Blocks!Count : places[i] = Blocks!Local(row)
  BY DEF Blocks!Receives
<1>2. Blocks!Source(places, row) = CHOOSE i \in 1..Blocks!Count : places[i] = Blocks!Local(row)
  BY DEF Blocks!Source
<1> DEFINE Here(i) == places[i] = Blocks!Local(row)
<1>3. Here(CHOOSE i \in 1..Blocks!Count : Here(i))
      /\ (CHOOSE i \in 1..Blocks!Count : Here(i)) \in 1..Blocks!Count
  <2> HIDE DEF Here
  <2>1. \E i \in 1..Blocks!Count : Here(i)
    BY <1>1 DEF Here
  <2> QED BY <2>1
<1> QED BY <1>2, <1>3, MembersAre

(* Every place of the block is used.                                       *)
LEMMA PlacesUsed ==
  ASSUME NEW places, NEW c \in Nat, \A i \in 1..c : places[i] \in Nat,
         \A i \in 1..c : places[i] < c,
         \A i, j \in 1..c : places[i] = places[j] => i = j
  PROVE  \A q \in 0..(c - 1) : \E i \in 1..c : places[i] = q
<1> DEFINE D == 1..c
           T == 0..(c - 1)
           f == [i \in D |-> places[i]]
<1>1. f \in [D -> T] /\ \A i, j \in D : f[i] = f[j] => i = j
  OBVIOUS
<1>2. IsFiniteSet(D) /\ IsFiniteSet(T) /\ Cardinality(D) = c /\ Cardinality(T) = c
  BY FS_Interval
<1>3. \A i \in D : f[i] = places[i]
  OBVIOUS
<1> HIDE DEF D, T, f
<1>4. f \in Injection(D, T)
  BY <1>1, Fun_IsInj
<1>5. f \in Surjection(D, T)
  <2>1. Cardinality(D) = Cardinality(T)
    BY <1>2
  <2> QED BY <1>2, <1>4, <2>1, FS_Injection
<1>6. \A q \in T : \E i \in D : f[i] = q
  BY <1>5 DEF Surjection
<1> QED BY <1>3, <1>6 DEF D, T

LEMMA DecodeBlockKeepsInv == BlockInv /\ Blocks!DecodeBlock => BlockInv'
<1> SUFFICES ASSUME BlockInv, Blocks!DecodeBlock PROVE BlockInv'
  OBVIOUS
<1> DEFINE places == Blocks!Places
           c == Blocks!Count
           k == block + 1
           b == blocks[k]
<1>1. /\ Blocks!AtBlock /\ Blocks!PopulationFits /\ Blocks!PlacesFit(places)
      /\ taken' = [row \in Blocks!Rows |->
                     IF Blocks!Receives(places, row)
                     THEN written[index + Blocks!Source(places, row)] ELSE taken[row]]
      /\ block' = k /\ bit' = bit + c * Blocks!Width(c) /\ index' = index + c
      /\ ids' = ids /\ packed' = packed /\ damage' = damage
      /\ written' = written /\ counts' = counts /\ blocks' = blocks /\ phase' = phase
  BY DEF Blocks!DecodeBlock, Blocks!sidecars, Blocks!native
<1>2. phase = "blocks" /\ Blocks!TypeOK
  BY <1>1 DEF Blocks!AtBlock, BlockInv
<1>3. PICK o \in [Blocks!Rows -> BlockIds] :
        StreamOf(o, blocks, counts, written) /\ Damaged(o) /\ Unpacking(o)
  BY <1>2 DEF BlockInv
<1>4. /\ k \in 1..Len(blocks) /\ block \in 0..Len(blocks) /\ Len(blocks) \in Nat
      /\ c = counts[k] /\ c \in 1..N /\ c \in Nat
      /\ index \in 0..N /\ index + c = Sums(counts)[k] /\ index + c \in 0..N
      /\ bit + c * Blocks!Width(c) = Sums(BitsOf(counts))[k]
      /\ bit + c * Blocks!Width(c) \in 0..Len(packed)
      /\ \A i \in 1..c : index + i \in 1..N /\ written[index + i] \in Blocks!Rows
      /\ \A i \in 1..c : places[i] \in Nat
  BY <1>1, <1>3, PlacesType
<1>5. damage # "words" /\ Progress
  BY <1>2, <1>3 DEF Unpacking
<1>6. /\ ids \in [Blocks!Rows -> BlockIds] /\ taken \in [Blocks!Rows -> Blocks!Rows \cup {None}]
      /\ damage \in {"none", "padding", "order", "words", "ids"}
  BY <1>2 DEF Blocks!TypeOK
<1>7. Cardinality(MembersOf(ids, b)) = c
  BY <1>1, MembersAre, BlocksCardinality DEF Blocks!PopulationFits
<1>8. /\ \A i \in 1..c : places[i] < c
      /\ \A i, j \in 1..c : places[i] = places[j] => i = j
  BY <1>1 DEF Blocks!PlacesFit
<1>9. \A row \in Blocks!Rows :
        Blocks!Receives(places, row) =>
          /\ Blocks!Source(places, row) \in 1..c
          /\ places[Blocks!Source(places, row)] = PlaceOf(ids, row)
          /\ ids[row] = b
  BY SourceIs DEF Blocks!Receives
<1> HIDE DEF places, c, k, b
<1>10. ASSUME NEW row \in MembersOf(ids, b)
       PROVE  row \in Blocks!Rows /\ ids[row] = b /\ Blocks!Receives(places, row)
              /\ PlaceOf(ids, row) \in 0..(c - 1)
  <2>1. row \in Blocks!Rows /\ ids[row] = b
    BY DEF MembersOf
  <2>2. PlaceOf(ids, row) \in 0..(c - 1)
    BY <1>6, <1>7, PlacesOfBlock
  <2>3. \E i \in 1..c : places[i] = PlaceOf(ids, row)
    BY <1>4, <1>8, <2>2, PlacesUsed
  <2>4. Blocks!Receives(places, row)
    BY <2>1, <2>3, MembersAre DEF Blocks!Receives, c, b, k
  <2> QED BY <2>1, <2>2, <2>4
<1>11. \A row \in Blocks!Rows :
         /\ row \in MembersOf(ids, b) => taken'[row] = written[index + Blocks!Source(places, row)]
         /\ row \notin MembersOf(ids, b) => taken'[row] = taken[row]
  <2> TAKE row \in Blocks!Rows
  <2>1. row \notin MembersOf(ids, b) => ~Blocks!Receives(places, row)
    BY <1>9 DEF MembersOf
  <2> QED BY <1>1, <1>10, <2>1
<1>12. taken' \in [Blocks!Rows -> Blocks!Rows \cup {None}]
  <2>1. \A row \in Blocks!Rows : taken'[row] \in Blocks!Rows \cup {None}
    BY <1>4, <1>6, <1>9, <1>10, <1>11
  <2> QED BY <1>1, <2>1
<1>13. /\ index = Sums(counts)[block] /\ \A l \in 1..block : Cardinality(MembersOf(ids, blocks[l])) = counts[l]
       /\ damage # "ids" =>
            /\ \A row \in PassedRows : \E i \in 1..index : taken[row] = written[i]
            /\ \A i \in 1..index : \E row \in PassedRows : taken[row] = written[i]
       /\ damage \in {"none", "padding"} => \A row \in PassedRows : taken[row] = row
  BY <1>5 DEF Progress
<1>14. \A l \in 1..k : l \in 1..block \/ l = k
  BY <1>4 DEF k
<1>15. \A l \in 1..k : Cardinality(MembersOf(ids, blocks[l])) = counts[l]
  BY <1>4, <1>7, <1>13, <1>14 DEF b
<1>16. /\ PassedRows' = PassedRows \cup MembersOf(ids, b)
       /\ PassedRows \cap MembersOf(ids, b) = {}
  <2>1. \A l \in 1..block : l \in 1..k /\ l \in 1..Len(blocks) /\ l # k
    BY <1>4 DEF k
  <2>2. k \in 1..k
    BY <1>4
  <2>3. PassedRows' = {row \in Blocks!Rows : \E l \in 1..k : blocks[l] = ids[row]}
    BY <1>1 DEF PassedRows
  <2>4. \A row \in Blocks!Rows :
          (\E l \in 1..k : blocks[l] = ids[row]) <=> ((\E l \in 1..block : blocks[l] = ids[row]) \/ ids[row] = b)
    BY <1>14, <2>1, <2>2 DEF b
  <2>5. \A l \in 1..block : blocks[l] # b
    BY <1>3, <1>4, <2>1 DEF StreamOf, b
  <2> QED BY <2>3, <2>4, <2>5 DEF PassedRows, MembersOf
<1>17. PassedRows \subseteq Blocks!Rows /\ MembersOf(ids, b) \subseteq Blocks!Rows
  BY DEF PassedRows, MembersOf
<1>18. ASSUME damage # "ids", NEW row \in PassedRows'
       PROVE  \E i \in 1..(index + c) : taken'[row] = written[i]
  <2>1. CASE row \in MembersOf(ids, b)
    <3>1. taken'[row] = written[index + Blocks!Source(places, row)]
          /\ Blocks!Source(places, row) \in 1..c
      BY <1>9, <1>10, <1>11, <1>17, <2>1
    <3>2. index + Blocks!Source(places, row) \in 1..(index + c)
      BY <1>4, <3>1
    <3> QED BY <3>1, <3>2
  <2>2. CASE row \notin MembersOf(ids, b)
    <3>1. row \in PassedRows /\ taken'[row] = taken[row]
      BY <1>11, <1>16, <1>17, <2>2
    <3>2. PICK i \in 1..index : taken[row] = written[i]
      BY <1>13, <1>18, <3>1
    <3>3. i \in 1..(index + c)
      BY <1>4
    <3> QED BY <3>1, <3>2, <3>3
  <2> QED BY <2>1, <2>2
<1>19. ASSUME damage # "ids", NEW i \in 1..(index + c)
       PROVE  \E row \in PassedRows' : taken'[row] = written[i]
  <2>1. CASE i \in 1..index
    <3>1. PICK row \in PassedRows : taken[row] = written[i]
      BY <1>13, <1>19, <2>1
    <3>2. row \notin MembersOf(ids, b) /\ row \in Blocks!Rows
      BY <1>16, <1>17
    <3> QED BY <1>11, <1>16, <3>1, <3>2
  <2>2. CASE i \notin 1..index
    <3> DEFINE m == i - index
    <3>1. m \in 1..c /\ i = index + m
      BY <1>4, <2>2
    <3> HIDE DEF m
    <3>2. places[m] \in 0..(c - 1)
      BY <1>4, <1>8, <3>1, SMTT(30)
    <3>3. PICK row \in MembersOf(ids, b) : PlaceOf(ids, row) = places[m]
      BY <1>6, <1>7, <3>2, PlacesOfBlock
    <3>4. Blocks!Source(places, row) \in 1..c /\ places[Blocks!Source(places, row)] = places[m]
      BY <1>9, <1>10, <3>3
    <3>5. Blocks!Source(places, row) = m
      BY <1>8, <3>1, <3>4
    <3>6. row \in PassedRows' /\ taken'[row] = written[index + m]
      BY <1>11, <1>16, <1>17, <3>5
    <3> QED BY <3>1, <3>6
  <2> QED BY <2>1, <2>2
<1>20. ASSUME damage \in {"none", "padding"}, NEW row \in PassedRows'
       PROVE  taken'[row] = row
  <2>1. CASE row \in MembersOf(ids, b)
    <3> DEFINE s == Blocks!Source(places, row)
    <3>1. /\ taken'[row] = written[index + s] /\ s \in 1..c
          /\ places[s] = PlaceOf(ids, row)
      BY <1>9, <1>10, <1>11, <1>17, <2>1
    <3>2. ids = o
      BY <1>3, <1>20 DEF Damaged
    <3>3. places[s] = PlaceOf(o, written[index + s])
      BY <1>1, <1>3, <1>20, <3>1, PlacesAreRead DEF places, c
    <3>4. written[index + s] \in MembersOf(o, b)
      <4>1. o[written[index + s]] = b
        <5>1. \A i \in 1..counts[k] : o[written[Sums(counts)[k - 1] + i]] = blocks[k]
          BY <1>3, <1>4 DEF StreamOf
        <5>2. k - 1 = block
          BY <1>4 DEF k
        <5> QED BY <1>4, <1>13, <3>1, <5>1, <5>2 DEF b
      <4>2. written[index + s] \in Blocks!Rows
        BY <1>4, <3>1
      <4> QED BY <4>1, <4>2 DEF MembersOf
    <3> HIDE DEF s
    <3>5. written[index + s] = row
      BY <2>1, <3>1, <3>2, <3>3, <3>4, PlacesOfBlock
    <3> QED BY <3>1, <3>5
  <2>2. CASE row \notin MembersOf(ids, b)
    <3>1. row \in PassedRows /\ taken'[row] = taken[row]
      BY <1>11, <1>16, <1>17, <2>2
    <3> QED BY <1>13, <1>20, <3>1
  <2> QED BY <2>1, <2>2
<1>21. Progress'
  <2>1. index' = Sums(counts')[block'] /\ bit' = Sums(BitsOf(counts'))[block']
    BY <1>1, <1>4
  <2>2. \A l \in 1..block' : Cardinality(MembersOf(ids', blocks'[l])) = counts'[l]
    BY <1>1, <1>15
  <2>3. damage' # "ids" =>
          /\ \A row \in PassedRows' : \E i \in 1..index' : taken'[row] = written'[i]
          /\ \A i \in 1..index' : \E row \in PassedRows' : taken'[row] = written'[i]
    BY <1>1, <1>18, <1>19
  <2>4. damage' \in {"none", "padding"} => \A row \in PassedRows' : taken'[row] = row
    BY <1>1, <1>20
  <2> QED BY <2>1, <2>2, <2>3, <2>4 DEF Progress
<1>22. Unpacking(o)'
  <2>1. Blocks!Padded(Blocks!Bits(counts))' = Blocks!Padded(Blocks!Bits(counts))
    BY <1>1
  <2>2. Holds(o, counts, written, packed, Len(blocks))' <=> Holds(o, counts, written, packed, Len(blocks))
    BY <1>1
  <2> QED BY <1>1, <1>2, <1>3, <1>5, <1>21, <2>1, <2>2 DEF Unpacking
<1>23. Damaged(o)'
  BY <1>1, <1>3 DEF Damaged
<1>24. StreamOf(o, blocks', counts', written')
  BY <1>1, <1>3
<1>25. Blocks!TypeOK'
  <2>1. block' \in 0..Len(blocks') /\ bit' \in 0..Len(packed') /\ index' \in 0..N
    BY <1>1, <1>4
  <2> QED BY <1>1, <1>2, <1>12, <2>1 DEF Blocks!TypeOK, Blocks!Bit
<1> QED BY <1>1, <1>2, <1>22, <1>23, <1>24, <1>25 DEF BlockInv


(* Intact places are never refused: their populations are those of LCP.    *)
LEMMA RejectBlockKeepsInv == BlockInv /\ Blocks!RejectBlock => BlockInv'
<1> SUFFICES ASSUME BlockInv, Blocks!RejectBlock PROVE BlockInv'
  OBVIOUS
<1>1. /\ Blocks!TypeOK /\ Blocks!AtBlock /\ phase = "blocks" /\ phase' = "rejected"
      /\ ~(Blocks!PopulationFits /\ Blocks!PlacesFit(Blocks!Places))
      /\ ids' = ids /\ packed' = packed /\ damage' = damage
      /\ written' = written /\ counts' = counts /\ blocks' = blocks
      /\ block' = block /\ bit' = bit /\ index' = index /\ taken' = taken
  BY DEF BlockInv, Blocks!RejectBlock, Blocks!AtBlock, Blocks!Reject, Blocks!sidecars,
         Blocks!native, Blocks!reader
<1>2. PICK o \in [Blocks!Rows -> BlockIds] :
        StreamOf(o, blocks, counts, written) /\ Damaged(o) /\ Unpacking(o)
  BY <1>1 DEF BlockInv
<1>3. damage \notin {"none", "padding"}
  <2> SUFFICES ASSUME damage \in {"none", "padding"} PROVE FALSE
    OBVIOUS
  <2>1. Blocks!PlacesFit(Blocks!Places)
    BY <1>1, <1>2, PlacesAreRead
  <2>2. block + 1 \in 1..Len(blocks) /\ Blocks!Count = counts[block + 1]
    BY <1>1, <1>2, PlacesType
  <2>3. ids = o
    BY <1>2 DEF Damaged
  <2>4. Blocks!PopulationFits
    BY <1>2, <2>2, <2>3, MembersAre, BlocksCardinality DEF StreamOf, Blocks!PopulationFits
  <2> QED BY <1>1, <2>1, <2>4
<1>4. Unpacking(o)'
  BY <1>1, <1>2, <1>3 DEF Unpacking
<1>5. Damaged(o)' /\ StreamOf(o, blocks', counts', written')
  BY <1>1, <1>2 DEF Damaged
<1>6. Blocks!TypeOK'
  BY <1>1 DEF Blocks!TypeOK, Blocks!Bit
<1> QED BY <1>1, <1>4, <1>5, <1>6 DEF BlockInv

LEMMA DecodeDoneKeepsInv == BlockInv /\ Blocks!DecodeDone => BlockInv'
<1> SUFFICES ASSUME BlockInv, Blocks!DecodeDone PROVE BlockInv'
  OBVIOUS
<1>1. /\ Blocks!TypeOK /\ phase = "blocks" /\ block = Len(blocks)
      /\ phase' = IF index = N THEN "accepted" ELSE "rejected"
      /\ ids' = ids /\ packed' = packed /\ damage' = damage
      /\ written' = written /\ counts' = counts /\ blocks' = blocks
      /\ block' = block /\ bit' = bit /\ index' = index /\ taken' = taken
  BY DEF BlockInv, Blocks!DecodeDone, Blocks!sidecars, Blocks!native, Blocks!reader
<1>2. PICK o \in [Blocks!Rows -> BlockIds] :
        StreamOf(o, blocks, counts, written) /\ Damaged(o) /\ Unpacking(o)
  BY <1>1 DEF BlockInv
<1>3. damage # "words" /\ Progress
  BY <1>1, <1>2 DEF Unpacking
<1>4. index = N
  BY <1>1, <1>2, <1>3 DEF Progress, StreamOf
<1>5. phase' = "accepted"
  BY <1>1, <1>4
<1>6. Progress' <=> Progress
  BY <1>1 DEF Progress, PassedRows
<1>7. Unpacking(o)'
  BY <1>1, <1>2, <1>3, <1>5, <1>6 DEF Unpacking
<1>8. Damaged(o)' /\ StreamOf(o, blocks', counts', written')
  BY <1>1, <1>2 DEF Damaged
<1>9. Blocks!TypeOK'
  BY <1>1 DEF Blocks!TypeOK, Blocks!Bit
<1> QED BY <1>5, <1>7, <1>8, <1>9 DEF BlockInv

LEMMA BlockStays == BlockInv /\ UNCHANGED Blocks!vars => BlockInv'
<1> SUFFICES ASSUME BlockInv, UNCHANGED Blocks!vars PROVE BlockInv'
  OBVIOUS
<1>1. /\ ids' = ids /\ packed' = packed /\ damage' = damage /\ phase' = phase
      /\ written' = written /\ counts' = counts /\ blocks' = blocks
      /\ block' = block /\ bit' = bit /\ index' = index /\ taken' = taken
  BY DEF Blocks!vars, Blocks!sidecars, Blocks!native, Blocks!reader
<1>2. Progress' <=> Progress
  BY <1>1 DEF Progress, PassedRows
<1>3. ASSUME NEW o
      PROVE  /\ StreamOf(o, blocks, counts, written)' <=> StreamOf(o, blocks, counts, written)
             /\ Damaged(o)' <=> Damaged(o)
             /\ Packing(o)' <=> Packing(o)
             /\ Unpacking(o)' <=> Unpacking(o)
  BY <1>1, <1>2 DEF Damaged, Packing, Unpacking
<1>4. Blocks!TypeOK'
  BY <1>1 DEF BlockInv, Blocks!TypeOK, Blocks!Bit
<1>5. phase' = "encode" =>
        packed' = <<>> /\ damage' = "none" /\ block' = 0 /\ bit' = 0 /\ index' = 0
  BY <1>1 DEF BlockInv
<1>6. phase' # "encode" =>
        \E o \in [Blocks!Rows -> BlockIds] :
          /\ StreamOf(o, blocks, counts, written)' /\ Damaged(o)'
          /\ phase' = "pack" => Packing(o)'
          /\ phase' # "pack" => Unpacking(o)'
  BY <1>1, <1>3 DEF BlockInv
<1> QED BY <1>4, <1>5, <1>6 DEF BlockInv

LEMMA BlockNextKeepsInv == BlockInv /\ Blocks!Next => BlockInv'
BY CompressKeepsInv, PackBlockKeepsInv, PackDoneKeepsInv, DamagesKeepInv, CheckKeepsInv,
   DecodeBlockKeepsInv, RejectBlockKeepsInv, DecodeDoneKeepsInv, BlockStays
   DEF Blocks!Next, Blocks!Done

(* A row that changed its block leaves the old one short of a row.         *)
LEMMA BlockInvKept == BlockInv => Blocks!OrderKept
<1> SUFFICES ASSUME BlockInv PROVE Blocks!OrderKept
  OBVIOUS
<1>1. CASE phase = "accepted"
  <2>1. PICK o \in [Blocks!Rows -> BlockIds] :
          StreamOf(o, blocks, counts, written) /\ Damaged(o) /\ Unpacking(o)
    BY <1>1 DEF BlockInv
  <2>2. damage # "words" /\ Progress /\ block = Len(blocks)
    BY <1>1, <2>1 DEF Unpacking
  <2>3. \A row \in Blocks!Rows : \E k \in 1..block : blocks[k] = o[row]
    BY <2>1, <2>2 DEF StreamOf
  <2>4. damage # "ids"
    <3> SUFFICES ASSUME damage = "ids" PROVE FALSE
      OBVIOUS
    <3>1. PICK row \in Blocks!Rows :
            ids[row] # o[row] /\ \A r \in Blocks!Rows \ {row} : ids[r] = o[r]
      BY <2>1 DEF Damaged
    <3>2. PICK k \in 1..block : blocks[k] = o[row]
      BY <2>3
    <3> DEFINE S == MembersOf(o, o[row])
               T == MembersOf(ids, o[row])
    <3>3. Cardinality(T) = counts[k] /\ Cardinality(S) = counts[k]
      BY <2>1, <2>2, <3>2 DEF Progress, StreamOf
    <3>4. row \in S /\ T \subseteq S \ {row}
      BY <3>1 DEF MembersOf
    <3>5. IsFiniteSet(S) /\ Cardinality(S) \in Nat
      BY PlacesOfBlock
    <3> HIDE DEF S, T
    <3>6. IsFiniteSet(S \ {row}) /\ Cardinality(S \ {row}) = Cardinality(S) - 1
      BY <3>4, <3>5, FS_RemoveElement
    <3>7. T \in SUBSET (S \ {row})
      BY <3>4
    <3>8. Cardinality(T) <= Cardinality(S \ {row})
      BY <3>6, <3>7, FS_Subset
    <3> QED BY <3>3, <3>5, <3>6, <3>8
  <2>5. ids = o
    BY <2>1, <2>4 DEF Damaged
  <2>6. PassedRows = Blocks!Rows
    BY <2>3, <2>5 DEF PassedRows
  <2>7. /\ written \in [1..N -> Blocks!Rows] /\ index = N
        /\ \A i, j \in 1..N : written[i] = written[j] => i = j
    <3>1. written \in Seq(Blocks!Rows) /\ Len(written) = N
      BY <2>1 DEF StreamOf
    <3>2. index = N
      BY <2>1, <2>2 DEF Progress, StreamOf
    <3> QED BY <2>1, <3>1, <3>2 DEF StreamOf
  <2>8. \A row \in Blocks!Rows : \E i \in 1..N : written[i] = row
    <3>1. written \in Injection(1..N, Blocks!Rows)
      BY <2>7, Fun_IsInj
    <3>2. IsFiniteSet(1..N) /\ Cardinality(1..N) = N
      BY BlocksAssumed, FS_Interval
    <3>3. Cardinality(1..N) = Cardinality(Blocks!Rows)
      BY <3>2, BlocksAssumed
    <3>4. written \in Surjection(1..N, Blocks!Rows)
      BY <3>1, <3>2, <3>3, BlocksAssumed, FS_Injection
    <3> QED BY <3>4 DEF Surjection
  <2>9. /\ \A row \in Blocks!Rows : \E i \in 1..N : taken[row] = written[i]
        /\ \A i \in 1..N : \E row \in Blocks!Rows : taken[row] = written[i]
    BY <2>2, <2>4, <2>6, <2>7 DEF Progress
  <2>10. {taken[row] : row \in Blocks!Rows} = Blocks!Rows
    <3>1. \A row \in Blocks!Rows : taken[row] \in Blocks!Rows
      BY <2>7, <2>9
    <3>2. \A row \in Blocks!Rows : \E r \in Blocks!Rows : taken[r] = row
      BY <2>8, <2>9
    <3> QED BY <3>1, <3>2
  <2>11. damage \in {"none", "padding"} => \A row \in Blocks!Rows : taken[row] = row
    BY <2>2, <2>6 DEF Progress
  <2> QED BY <1>1, <2>2, <2>4, <2>10, <2>11
       DEF Blocks!OrderKept, Blocks!RowsRestored, Blocks!EveryParticleOnce, Blocks!SidecarChecked
<1>2. CASE phase = "rejected"
  <2>1. damage \notin {"none", "padding"}
    BY <1>2 DEF BlockInv, Unpacking
  <2> QED BY <1>2, <2>1
       DEF Blocks!OrderKept, Blocks!RowsRestored, Blocks!EveryParticleOnce, Blocks!SidecarChecked
<1>3. CASE phase \notin {"accepted", "rejected"}
  BY <1>3 DEF Blocks!OrderKept, Blocks!RowsRestored, Blocks!EveryParticleOnce, Blocks!SidecarChecked
<1> QED BY <1>1, <1>2, <1>3

BlocksPart == part = "blocks" => BlockInv

LEMMA BlocksPartInvariant == LayoutSpec => []BlocksPart
<1>1. LayoutInit => BlocksPart
  BY BlockInitInv DEF LayoutInit, BlocksPart
<1>2. BlocksPart /\ [LayoutNext]_layoutVars => BlocksPart'
  <2> SUFFICES ASSUME BlocksPart, [LayoutNext]_layoutVars PROVE BlocksPart'
    OBVIOUS
  <2>1. CASE part = "blocks" /\ Blocks!Next
             /\ UNCHANGED <<part, vars, boxOnlyVars, searchVars, shape>>
    BY <2>1, BlockNextKeepsInv DEF BlocksPart
  <2>2. CASE LayoutNext /\ part # "blocks"
    BY <2>2 DEF LayoutNext, BlocksPart
  <2>3. CASE UNCHANGED layoutVars
    BY <2>3, BlockStays DEF BlocksPart, layoutVars, boxVars, packVars, blockVars, Blocks!vars,
       Blocks!sidecars, Blocks!native, Blocks!reader
  <2> QED BY <2>1, <2>2, <2>3 DEF LayoutNext
<1> QED BY <1>1, <1>2, PTL DEF LayoutSpec

(* triplets.cpp:318-341: whatever happens to one of the order sidecars,    *)
(* what decode_blockwise accepts has every particle exactly once, and a    *)
(* row that changed its block, or another number of words, is refused.     *)
(* With intact sidecars, or a changed bit in the padding, it does not      *)
(* refuse, and every particle returns to its row.                          *)
THEOREM OrderStaysKept == LayoutSpec => []OrderKept
<1>1. BlocksPart => OrderKept
  BY BlockInvKept DEF BlocksPart, OrderKept, BlockInv
<1> QED BY <1>1, BlocksPartInvariant, PTL
===============================================================================
