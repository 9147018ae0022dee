-------------------------- MODULE ErrorBudgetProofs --------------------------
(***************************************************************************)
(* What a user asks for is what a user gets, for the codecs that bound     *)
(* every component and for xnyzip, which bounds the vector: for all        *)
(* sources, units, float grids and bounds.  What no budget sets aside is   *)
(* the last rounding of scaled floating-point positions (Lost).            *)
(***************************************************************************)
EXTENDS ErrorBudget, WellFoundedInduction, TLAPS

(* ---- arithmetic ------------------------------------------------------- *)

LEMMA AbsType ==
  ASSUME NEW a \in Int
  PROVE  Abs(a) \in Nat /\ a <= Abs(a) /\ -a <= Abs(a)
BY DEF Abs

LEMMA AbsBelow ==
  ASSUME NEW a \in Int, NEW b \in Int, a <= b, -a <= b
  PROVE  Abs(a) <= b
BY DEF Abs

(* Half of an even unit.                                                   *)
LEMMA HalfUnit ==
  Unit \div 2 \in Nat /\ 2 * (Unit \div 2) = Unit
BY ErrorBudgetAssumption

(* Clamping a value brings it no farther from any value of the range.      *)
LEMMA ClampApproaches ==
  ASSUME NEW n \in Int, NEW s \in 0..High
  PROVE  Clamped(n) \in Int /\ Abs(Clamped(n) - s) <= Abs(n - s)
BY ErrorBudgetAssumption DEF Clamped, Abs

(* The errors of cast, codec and rounding add up.                          *)
LEMMA ErrorsAddUp ==
  ASSUME NEW s \in Int, NEW p \in Int, NEW d \in Int, NEW r \in Int,
         NEW c \in Int, NEW g \in Int, NEW h \in Int,
         Abs(p - s) <= c, Abs(d - p) <= g, Abs(r - d) <= h
  PROVE  Abs(r - s) <= g + c + h
<1>1. Abs(p - s) \in Nat /\ p - s <= Abs(p - s) /\ -(p - s) <= Abs(p - s)
  BY AbsType
<1>2. Abs(d - p) \in Nat /\ d - p <= Abs(d - p) /\ -(d - p) <= Abs(d - p)
  BY AbsType
<1>3. Abs(r - d) \in Nat /\ r - d <= Abs(r - d) /\ -(r - d) <= Abs(r - d)
  BY AbsType
<1>4. r - s <= g + c + h /\ -(r - s) <= g + c + h
  BY <1>1, <1>2, <1>3
<1> QED BY <1>4, AbsBelow

LEMMA NearestIsNear ==
  ASSUME NEW v \in Int, NEW width \in Nat \ {0}, NEW n \in Nearest(v, width)
  PROVE  n \in Int /\ n % width = 0 /\ Abs(n - v) <= width \div 2
<1>1. n \in Int /\ n % width = 0 /\ 2 * Abs(n - v) <= width
  BY DEF Nearest
<1>2. Abs(n - v) \in Nat
  BY <1>1, AbsType
<1>3. width = 2 * (width \div 2) \/ width = 2 * (width \div 2) + 1
  OBVIOUS
<1>4. width \div 2 \in Nat
  OBVIOUS
<1> QED BY <1>1, <1>2, <1>3, <1>4

(* A multiple of the grid is a multiple of every width that divides it.    *)
LEMMA GridOfWidths ==
  ASSUME NEW v \in Int, NEW width \in Nat \ {0}, v % Grid = 0, Grid % width = 0
  PROVE  v % width = 0
<1>1. Grid \in Nat /\ Grid > 0 /\ width \in Nat /\ width > 0
  BY ErrorBudgetAssumption
<1> DEFINE a == v \div Grid
           b == Grid \div width
<1>2. a \in Int /\ b \in Int /\ v = Grid * a /\ Grid = width * b
  BY <1>1, Z3
<1> HIDE DEF a, b
<1> DEFINE q == b * a
<1>3. q \in Int /\ v = width * q
  BY <1>1, <1>2, Z3
<1> HIDE DEF q
<1>4. (width * q) % width = 0
  BY <1>1, <1>3, Z3
<1> QED BY <1>3, <1>4

(* A multiple of the width is its own nearest multiple.                    *)
LEMMA NearestIsSame ==
  ASSUME NEW v \in Int, NEW width \in Nat \ {0}, v % width = 0,
         NEW n \in Nearest(v, width)
  PROVE  n = v
<1>1. n \in Int /\ n % width = 0 /\ 2 * Abs(n - v) <= width
  BY DEF Nearest
<1>2. width \in Nat /\ width > 0
  OBVIOUS
<1> DEFINE a == n \div width
           b == v \div width
<1>3. a \in Int /\ b \in Int /\ n = width * a /\ v = width * b
  BY <1>1, <1>2, Z3
<1> HIDE DEF a, b
<1>4. n - v < width /\ v - n < width
  BY <1>1, <1>2, AbsType DEF Abs
<1>5. a = b
  <2>1. a >= b + 1 => width * a >= width * b + width
    BY <1>2, <1>3, Z3
  <2>2. b >= a + 1 => width * b >= width * a + width
    BY <1>2, <1>3, Z3
  <2>3. width * a \in Int /\ width * b \in Int
    BY <1>1, <1>3
  <2> QED BY <1>2, <1>3, <1>4, <2>1, <2>2, <2>3
<1> QED BY <1>3, <1>5

LEMMA CastsAreIntegers ==
  ASSUME NEW v \in Int PROVE Nearest(v, Grid) \subseteq Int
BY ErrorBudgetAssumption DEF Nearest

LEMMA OptionsAreIntegers ==
  Bounds \subseteq Int /\ Shares \subseteq Int /\ Parts \in Nat \ {0}
BY ErrorBudgetAssumption

(* ---- the invariant ---------------------------------------------------- *)

Bounding == codec \in {"lcp", "sz3"}

SourceInv ==
  /\ integer \in BOOLEAN
  /\ source \in [Rows -> [Axes -> Int]]
  /\ integer => \A j \in Rows, k \in Axes : source[j][k] \in Integral
  /\ row \in Rows
  /\ group \in {"positions", "velocities"}
  /\ integer => group = "positions"
  /\ step \in Nat \ {0}
  /\ integer => step = Unit
  /\ codec \in {"lcp", "xnyzip", "sz3", "pcodec"}
  /\ stage \in {"select", "preprocess", "encode", "decoded", "restored", "judged", "error"}

RequestInv ==
  /\ requested \in [Axes -> Int]
  /\ Bounding /\ stage \notin {"select", "error"} => mode \in {"relative", "absolute"}

PreparedInv ==
  stage \in {"encode", "decoded", "restored", "judged"} =>
    /\ prepared \in [Rows -> [Axes -> Int]]
    /\ cast \in [Axes -> Int]
    /\ bound \in [Axes -> Int]
    /\ least \in Int
    /\ \A j \in Rows, k \in Axes : Abs(prepared[j][k] - source[j][k]) <= cast[k]
    /\ Bounding => \A k \in Axes : Given(k) <= Remaining(k, cast)
    /\ ~IsCast => \A k \in Axes : cast[k] = 0

DecodedInv ==
  Bounding /\ stage \in {"decoded", "restored", "judged"} =>
    /\ decoded \in [Axes -> Int]
    /\ \A k \in Axes : Abs(decoded[k] - prepared[row][k]) <= Given(k)
    /\ IsCast => \A k \in Axes : decoded[k] % Grid = 0

RestoredInv ==
  Bounding /\ Over =>
    /\ restored \in [Axes -> Int]
    /\ \A k \in Axes : Error(k) <= Given(k) + cast[k] + (Rounding + Lost)
    /\ integer => \A k \in Axes : restored[k] % Unit = 0

BudgetInv == SourceInv /\ RequestInv /\ PreparedInv /\ DecodedInv /\ RestoredInv

LEMMA RoundingType == Rounding \in Nat
BY HalfUnit DEF Rounding

LEMMA LostType == SourceInv => Lost \in Nat
BY DEF SourceInv, Lost

LEMMA InitInv == Init => BudgetInv
<1> SUFFICES ASSUME Init PROVE BudgetInv
  OBVIOUS
<1>1. SourceInv
  <2>1. Integral \subseteq Int /\ Reals \subseteq Int
    BY ErrorBudgetAssumption DEF Integral
  <2>2. Floating(step) \subseteq Int
    BY <2>1 DEF Floating
  <2>3. integer => step = Unit
    BY DEF Init
  <2>4. step \in Nat \ {0}
    BY ErrorBudgetAssumption DEF Init, Spacings
  <2>5. \A j \in Rows, k \in Axes :
          source[j][k] \in IF integer THEN Integral ELSE Floating(step)
    BY DEF Init
  <2>6. source \in [Rows -> [Axes -> Int]]
    BY <2>1, <2>2 DEF Init
  <2> QED BY <2>3, <2>4, <2>5, <2>6 DEF Init, SourceInv
<1>2. RequestInv
  BY DEF Init, RequestInv, Zero
<1> QED
  BY <1>1, <1>2 DEF Init, BudgetInv, PreparedInv, DecodedInv, RestoredInv, Over

LEMMA SelectKeepsInv == BudgetInv /\ Select => BudgetInv'
<1> SUFFICES ASSUME BudgetInv, Select PROVE BudgetInv'
  OBVIOUS
<1>1. SourceInv'
  BY DEF BudgetInv, SourceInv, Select, sources, results
<1>2. requested' \in [Axes -> Int] /\ mode' \in {"relative", "absolute"}
  <2>0. mode' \in {"relative", "absolute"}
    BY DEF Select
  <2>1. PICK field, overall \in (Bounds \cup {None}) \X (Shares \cup {None}),
              low, high \in Corners :
          LET given == IF field = <<None, None>> THEN overall ELSE field
              range == [k \in Axes |-> high[k] - low[k]]
          IN  /\ given # <<None, None>>
              /\ IF given[2] # None
                 THEN requested' = [k \in Axes |-> (given[2] * range[k]) \div Parts]
                 ELSE requested' = [k \in Axes |-> given[1]]
    BY DEF Select
  <2> DEFINE given == IF field = <<None, None>> THEN overall ELSE field
  <2>2. given \in (Bounds \cup {None}) \X (Shares \cup {None})
    OBVIOUS
  <2>3. given = <<given[1], given[2]>> /\ given[1] \in Bounds \cup {None}
                                       /\ given[2] \in Shares \cup {None}
    BY <2>2
  <2> HIDE DEF given
  <2>4. CASE given[2] # None
    <3>1. given[2] \in Int /\ Parts \in Nat \ {0}
      BY <2>3, <2>4, OptionsAreIntegers
    <3>2. \A k \in Axes : high[k] - low[k] \in Int
      <4> TAKE k \in Axes
      <4>1. UNION {Column(j) : j \in Axes} \subseteq Int
        BY DEF BudgetInv, SourceInv, Column
      <4>2. low[k] \in Int /\ high[k] \in Int
        BY <4>1, <2>1 DEF Corners
      <4> QED BY <4>2
    <3>3. \A k \in Axes : (given[2] * (high[k] - low[k])) \div Parts \in Int
      <4> TAKE k \in Axes
      <4> DEFINE product == given[2] * (high[k] - low[k])
      <4>1. product \in Int
        BY <3>1, <3>2
      <4> HIDE DEF product
      <4>2. product \div Parts \in Int
        BY <4>1, <3>1
      <4> QED BY <4>2 DEF product
    <3>4. requested' = [k \in Axes |-> (given[2] * (high[k] - low[k])) \div Parts]
      BY <2>1, <2>4 DEF given
    <3> QED BY <2>0, <3>3, <3>4
  <2>5. CASE given[2] = None
    <3>1. given[1] \in Bounds
      BY <2>1, <2>3, <2>5 DEF given
    <3>2. requested' = [k \in Axes |-> given[1]]
      BY <2>1, <2>5 DEF given
    <3>3. given[1] \in Int
      BY <3>1, OptionsAreIntegers
    <3> QED BY <2>0, <3>2, <3>3
  <2> QED BY <2>4, <2>5
<1>3. stage' = "preprocess"
  BY DEF Select
<1> QED
  BY <1>1, <1>2, <1>3 DEF BudgetInv, RequestInv, PreparedInv, DecodedInv, RestoredInv, Over

LEMMA PreprocessKeepsInv == BudgetInv /\ Preprocess => BudgetInv'
<1> SUFFICES ASSUME BudgetInv, Preprocess PROVE BudgetInv'
  OBVIOUS
<1>1. SourceInv' /\ RequestInv'
  BY DEF BudgetInv, SourceInv, RequestInv, Preprocess, sources, asked, results,
     Bounding
<1>2. source \in [Rows -> [Axes -> Int]] /\ requested \in [Axes -> Int]
  BY DEF BudgetInv, SourceInv, RequestInv
<1>3. prepared' \in [Rows -> [Axes -> Int]] /\ (~IsCast => prepared' = source)
  <2>1. CASE IsCast
    <3>1. Floats \subseteq Int
      BY <1>2, CastsAreIntegers DEF Floats
    <3>2. prepared' \in [Rows -> [Axes -> Floats]]
      BY <2>1 DEF Preprocess, Prepared
    <3> QED BY <2>1, <3>1, <3>2
  <2>2. CASE ~IsCast
    BY <2>2, <1>2 DEF Preprocess, Prepared
  <2> QED BY <2>1, <2>2
<1>4. \A j \in Rows, k \in Axes : Abs(prepared'[j][k] - source[j][k]) \in Int
  BY <1>2, <1>3, AbsType
<1>5. cast' \in [Axes -> Int]
  BY <1>4 DEF Preprocess
<1>6. \A j \in Rows, k \in Axes : Abs(prepared'[j][k] - source[j][k]) <= cast'[k]
  BY DEF Preprocess, IsLargest
<1>7. \A k \in Axes : Remaining(k, cast') \in Int
  BY <1>2, <1>5, RoundingType DEF Remaining, Preparation, Positive
<1>8. least' \in Int
  BY <1>7 DEF Preprocess
<1>9. /\ bound' \in [Axes -> Int]
      /\ \A k \in Axes : bound'[k] = IF group = "velocities" /\ codec = "lcp"
                                     THEN least' ELSE Remaining(k, cast')
  BY <1>7, <1>8 DEF Preprocess
<1>10. \A k \in Axes : Remaining(k, cast)' = Remaining(k, cast')
  BY DEF Preprocess, sources, asked, Remaining, Reduced, Preparation, Rounding
<1>11. Bounding => \A k \in Axes : Given(k)' <= Remaining(k, cast')
  <2> SUFFICES ASSUME Bounding, NEW k \in Axes PROVE Given(k)' <= Remaining(k, cast')
    OBVIOUS
  <2>1. CASE codec = "lcp"
    BY <2>1 DEF Preprocess, sources, Given
  <2>2. CASE codec = "sz3"
    <3>1. Given(k)' = Remaining(k, cast')
      BY <2>2, <1>9 DEF Preprocess, sources, Given
    <3> QED BY <3>1, <1>7
  <2> QED BY <2>1, <2>2 DEF Bounding
<1>12. PreparedInv'
  <2>1. IsCast' = IsCast /\ Bounding' = Bounding /\ source' = source
    BY DEF Preprocess, sources, IsCast, Bounding
  <2>2. ~IsCast => \A k \in Axes : cast'[k] = 0
    <3> SUFFICES ASSUME ~IsCast, NEW k \in Axes PROVE cast'[k] = 0
      OBVIOUS
    <3>1. PICK j \in Rows : cast'[k] = Abs(prepared'[j][k] - source[j][k])
      BY DEF Preprocess, IsLargest
    <3>2. prepared'[j][k] = source[j][k] /\ source[j][k] \in Int
      BY <1>2, <1>3
    <3> QED BY <3>1, <3>2 DEF Abs
  <2> QED
    BY <2>1, <2>2, <1>3, <1>5, <1>6, <1>8, <1>9, <1>10, <1>11 DEF PreparedInv
<1>13. stage' \in {"encode", "error"}
  BY DEF Preprocess
<1> QED
  BY <1>1, <1>12, <1>13 DEF BudgetInv, DecodedInv, RestoredInv, Over

LEMMA DecodeKeepsInv == BudgetInv /\ Decode => BudgetInv'
<1> SUFFICES ASSUME BudgetInv, Decode PROVE BudgetInv'
  OBVIOUS
<1>0. /\ stage = "encode" /\ stage' = "decoded"
      /\ UNCHANGED <<sources, asked, budget, row>>
  BY DEF Decode
<1>1. SourceInv' /\ RequestInv' /\ PreparedInv'
  BY <1>0 DEF BudgetInv, SourceInv, RequestInv, PreparedInv, sources, asked, budget,
     Bounding, Given, Remaining, Reduced, Preparation, Rounding, IsCast
<1>2. Bounding =>
        /\ decoded' \in [Axes -> Int]
        /\ \A k \in Axes : Abs(decoded'[k] - prepared[row][k]) <= Given(k)
        /\ IsCast => \A k \in Axes : decoded'[k] % Grid = 0
  <2> SUFFICES ASSUME Bounding
               PROVE  /\ decoded' \in [Axes -> Int]
                      /\ \A k \in Axes : Abs(decoded'[k] - prepared[row][k]) <= Given(k)
                      /\ IsCast => \A k \in Axes : decoded'[k] % Grid = 0
    OBVIOUS
  <2>1. PICK d \in [Axes -> UNION {Returned(prepared[row][k],
                              IF codec = "xnyzip" THEN vectorAsked ELSE Given(k)) : k \in Axes}] :
          /\ \A k \in Axes : d[k] \in Returned(prepared[row][k], Given(k))
          /\ decoded' = d
    BY DEF Decode, Bounding
  <2>2. \A k \in Axes : prepared[row][k] \in Int /\ Given(k) \in Int
    BY <1>0 DEF BudgetInv, SourceInv, PreparedInv, Given
  <2>3. \A k \in Axes : d[k] \in Int /\ Abs(d[k] - prepared[row][k]) <= Given(k)
    <3> TAKE k \in Axes
    <3>1. d[k] \in (prepared[row][k] - Given(k))..(prepared[row][k] + Given(k))
      BY <2>1 DEF Returned
    <3>2. d[k] \in Int /\ d[k] - prepared[row][k] <= Given(k)
                       /\ -(d[k] - prepared[row][k]) <= Given(k)
      BY <3>1, <2>2
    <3> QED BY <3>2, <2>2, AbsBelow
  <2>4. IsCast => \A k \in Axes : d[k] % Grid = 0
    BY <2>1 DEF Returned
  <2> QED BY <2>1, <2>3, <2>4
<1>3. DecodedInv'
  <2>1. /\ Bounding' = Bounding /\ IsCast' = IsCast /\ prepared' = prepared /\ row' = row
        /\ \A k \in Axes : Given(k)' = Given(k)
    BY <1>0 DEF Bounding, IsCast, sources, budget, Given
  <2> QED BY <1>2, <2>1 DEF DecodedInv
<1> QED
  BY <1>0, <1>1, <1>3 DEF BudgetInv, RestoredInv, Over

(* decompress brings a component to within the two roundings of what the   *)
(* codec returned, and clamping takes it no farther from the source.       *)
LEMMA RestoredFromDecoded ==
  ASSUME SourceInv, Restore, decoded \in [Axes -> Int],
         IsCast => \A k \in Axes : decoded[k] % Grid = 0
  PROVE  /\ restored' \in [Axes -> Int]
         /\ \A k \in Axes :
              /\ integer /\ codec # "pcodec" => restored'[k] % Unit = 0
              /\ \E n \in Int :
                   /\ Abs(n - decoded[k]) <= Rounding + Lost
                   /\ Abs(restored'[k] - source[row][k]) <= Abs(n - source[row][k])
<1>0. /\ Rounding \in Nat /\ Lost \in Nat /\ step \in Nat \ {0} /\ row \in Rows
      /\ \A k \in Axes : source[row][k] \in Int
  BY RoundingType, LostType DEF SourceInv
<1>1. CASE group = "positions" /\ codec # "pcodec"
  <2>1. PICK n \in [Axes -> UNION {Rounded(decoded[k]) : k \in Axes}] :
          /\ \A k \in Axes : n[k] \in Rounded(decoded[k])
          /\ restored' = [k \in Axes |-> IF integer THEN Clamped(n[k]) ELSE n[k]]
    BY <1>1 DEF Restore
  <2>2. \A k \in Axes : /\ n[k] \in Int /\ n[k] % step = 0
                        /\ Abs(n[k] - decoded[k]) <= Rounding + Lost
    <3> TAKE k \in Axes
    <3>1. /\ n[k] \in Int /\ n[k] % step = 0
          /\ Abs(n[k] - decoded[k]) <= step \div 2
      BY <1>0, <2>1, NearestIsNear DEF Rounded
    <3>2. CASE integer
      <4>1. Rounding = step \div 2
        BY <1>1, <3>2 DEF Rounding, SourceInv
      <4>2. Lost = 0
        BY <3>2 DEF Lost
      <4> QED BY <1>0, <3>1, <4>1, <4>2
    <3>3. CASE ~integer /\ Grid % step # 0
      <4>1. Lost = step \div 2 /\ Rounding = 0
        BY <1>1, <3>3 DEF Lost, Rounding
      <4> QED BY <1>0, <3>1, <4>1
    <3>4. CASE ~integer /\ Grid % step = 0
      <4>1. decoded[k] % Grid = 0
        BY <1>1 DEF IsCast
      <4>2. decoded[k] % step = 0
        BY <1>0, <3>4, <4>1, GridOfWidths
      <4>3. n[k] = decoded[k]
        BY <1>0, <2>1, <4>2, NearestIsSame DEF Rounded
      <4>4. Abs(n[k] - decoded[k]) = 0
        BY <3>1, <4>3 DEF Abs
      <4> QED BY <1>0, <3>1, <4>4
    <3> QED BY <3>2, <3>3, <3>4
  <2>3. CASE integer
    <3>1. \A k \in Axes :
            /\ Clamped(n[k]) \in Int /\ Clamped(n[k]) % Unit = 0
            /\ Abs(Clamped(n[k]) - source[row][k]) <= Abs(n[k] - source[row][k])
      <4> TAKE k \in Axes
      <4>1. source[row][k] \in 0..High /\ step = Unit
        BY <1>0, <2>3 DEF SourceInv, Integral
      <4>2. n[k] % Unit = 0
        BY <2>2, <4>1
      <4>3. Clamped(n[k]) % Unit = 0
        BY <2>2, <4>2, ErrorBudgetAssumption DEF Clamped
      <4> QED BY <2>2, <4>1, <4>3, ClampApproaches
    <3>2. restored' = [k \in Axes |-> Clamped(n[k])]
      BY <2>1, <2>3
    <3> QED BY <2>2, <3>1, <3>2
  <2>4. CASE ~integer
    <3>1. restored' = [k \in Axes |-> n[k]]
      BY <2>1, <2>4
    <3>2. \A k \in Axes : Abs(n[k] - source[row][k]) \in Int
      BY <1>0, <2>2, AbsType
    <3> QED BY <2>2, <2>4, <3>1, <3>2
  <2> QED BY <2>3, <2>4
<1>2. CASE ~(group = "positions" /\ codec # "pcodec")
  <2>1. restored' = decoded
    BY <1>2 DEF Restore
  <2>2. ~(integer /\ codec # "pcodec")
    BY <1>2 DEF SourceInv
  <2>3. \A k \in Axes : /\ Abs(decoded[k] - decoded[k]) <= Rounding + Lost
                        /\ Abs(decoded[k] - source[row][k]) \in Int
    BY <1>0, AbsType DEF Abs
  <2>4. \A k \in Axes : \E n \in Int :
          /\ Abs(n - decoded[k]) <= Rounding + Lost
          /\ Abs(restored'[k] - source[row][k]) <= Abs(n - source[row][k])
    <3> TAKE k \in Axes
    <3> WITNESS decoded[k] \in Int
    <3> QED BY <2>1, <2>3
  <2> QED BY <2>1, <2>2, <2>4
<1> QED BY <1>1, <1>2

(* What cast, codec and the two roundings add up to.                       *)
LEMMA RestoredError ==
  ASSUME SourceInv, Restore, decoded \in [Axes -> Int],
         IsCast => \A j \in Axes : decoded[j] % Grid = 0,
         NEW k \in Axes, NEW g \in Int,
         prepared[row][k] \in Int, cast[k] \in Int,
         Abs(prepared[row][k] - source[row][k]) <= cast[k],
         Abs(decoded[k] - prepared[row][k]) <= g
  PROVE  Abs(restored'[k] - source[row][k]) <= g + cast[k] + (Rounding + Lost)
<1>1. PICK n \in Int : /\ Abs(n - decoded[k]) <= Rounding + Lost
                       /\ Abs(restored'[k] - source[row][k]) <= Abs(n - source[row][k])
  BY RestoredFromDecoded
<1>2. /\ source[row][k] \in Int /\ decoded[k] \in Int /\ restored'[k] \in Int
      /\ Rounding + Lost \in Int
  BY RoundingType, LostType, RestoredFromDecoded DEF SourceInv
<1> DEFINE s == source[row][k]
           p == prepared[row][k]
           d == decoded[k]
           c == cast[k]
           h == Rounding + Lost
           e == Abs(restored'[k] - source[row][k])
<1>3. /\ s \in Int /\ p \in Int /\ d \in Int /\ c \in Int /\ h \in Int /\ e \in Int
      /\ Abs(p - s) <= c /\ Abs(d - p) <= g /\ Abs(n - d) <= h
      /\ e <= Abs(n - s)
  BY <1>1, <1>2, AbsType
<1> HIDE DEF s, p, d, c, h, e
<1>4. Abs(n - s) <= g + c + h
  BY <1>3, ErrorsAddUp
<1>5. n - s \in Int
  BY <1>3
<1>6. Abs(n - s) \in Int
  BY <1>5, AbsType
<1>7. e <= g + c + h
  BY <1>3, <1>4, <1>6
<1> QED BY <1>7 DEF c, h, e

LEMMA RestoreKeepsInv == BudgetInv /\ Restore => BudgetInv'
<1> SUFFICES ASSUME BudgetInv, Restore PROVE BudgetInv'
  OBVIOUS
<1>0. /\ stage = "decoded" /\ stage' = "restored"
      /\ UNCHANGED <<sources, asked, budget, row, decoded>>
  BY DEF Restore
<1>1. SourceInv' /\ RequestInv' /\ PreparedInv' /\ DecodedInv'
  BY <1>0 DEF BudgetInv, SourceInv, RequestInv, PreparedInv, DecodedInv, sources,
     asked, budget, Bounding, Given, Remaining, Reduced, Preparation, Rounding, IsCast
<1>2. Bounding =>
        /\ restored' \in [Axes -> Int]
        /\ \A k \in Axes :
             /\ Abs(restored'[k] - source[row][k]) <= Given(k) + cast[k] + (Rounding + Lost)
             /\ integer => restored'[k] % Unit = 0
  <2> SUFFICES ASSUME Bounding
               PROVE  /\ restored' \in [Axes -> Int]
                      /\ \A k \in Axes :
                           /\ Abs(restored'[k] - source[row][k])
                                <= Given(k) + cast[k] + (Rounding + Lost)
                           /\ integer => restored'[k] % Unit = 0
    OBVIOUS
  <2>1. /\ SourceInv /\ decoded \in [Axes -> Int] /\ codec # "pcodec"
        /\ IsCast => \A k \in Axes : decoded[k] % Grid = 0
    BY <1>0 DEF BudgetInv, DecodedInv, Bounding
  <2>2. \A k \in Axes :
          /\ prepared[row][k] \in Int /\ cast[k] \in Int /\ Given(k) \in Int
          /\ Abs(prepared[row][k] - source[row][k]) <= cast[k]
          /\ Abs(decoded[k] - prepared[row][k]) <= Given(k)
    BY <1>0 DEF BudgetInv, SourceInv, PreparedInv, DecodedInv, Given
  <2>3. \A k \in Axes :
          Abs(restored'[k] - source[row][k]) <= Given(k) + cast[k] + (Rounding + Lost)
    BY <2>1, <2>2, RestoredError
  <2> QED BY <2>1, <2>3, RestoredFromDecoded
<1>3. RestoredInv'
  <2>1. /\ Bounding' = Bounding /\ source' = source /\ row' = row /\ cast' = cast
        /\ integer' = integer /\ Rounding' = Rounding /\ Lost' = Lost
        /\ \A k \in Axes : Given(k)' = Given(k)
    BY <1>0 DEF sources, budget, Bounding, Given, Rounding, Lost
  <2> QED BY <1>2, <2>1 DEF RestoredInv, Error
<1> QED
  BY <1>1, <1>3 DEF BudgetInv

LEMMA OthersKeepInv ==
  BudgetInv /\ (SelectLossless \/ SelectThrows \/ Judge \/ UNCHANGED vars) => BudgetInv'
<1> SUFFICES ASSUME BudgetInv PROVE SelectLossless \/ SelectThrows \/ Judge \/ UNCHANGED vars
                                     => BudgetInv'
  OBVIOUS
<1>1. ASSUME SelectLossless \/ SelectThrows PROVE BudgetInv'
  <2>1. /\ (stage' = "preprocess" /\ ~Bounding) \/ stage' = "error"
        /\ UNCHANGED <<sources, asked, results>>
    BY <1>1 DEF SelectLossless, SelectThrows, Bounding
  <2> QED
    BY <2>1 DEF BudgetInv, SourceInv, RequestInv, PreparedInv, DecodedInv, RestoredInv,
       Over, sources, asked, results, Bounding
<1>2. ASSUME /\ UNCHANGED <<sources, asked, budget, row, decoded, restored>>
             /\ stage' = stage \/ (stage = "restored" /\ stage' = "judged")
      PROVE  BudgetInv'
  BY <1>2 DEF BudgetInv, SourceInv, RequestInv, PreparedInv, DecodedInv, RestoredInv,
     Over, sources, asked, budget, Bounding, Given, Remaining, Reduced, Preparation,
     Rounding, IsCast, Error, Lost
<1>3. ASSUME Judge PROVE BudgetInv'
  <2>1. UNCHANGED <<sources, asked, budget, row, decoded, restored>>
    BY <1>3 DEF Judge
  <2>2. stage = "restored" /\ stage' = "judged"
    BY <1>3 DEF Judge
  <2> QED BY <1>2, <2>1, <2>2
<1>4. ASSUME UNCHANGED vars PROVE BudgetInv'
  <2>1. UNCHANGED <<sources, asked, budget, row, decoded, restored>>
    BY <1>4 DEF vars, results
  <2>2. stage' = stage
    BY <1>4 DEF vars
  <2> QED BY <1>2, <2>1, <2>2
<1> QED BY <1>1, <1>3, <1>4

LEMMA NextKeepsInv == BudgetInv /\ [Next]_vars => BudgetInv'
BY SelectKeepsInv, PreprocessKeepsInv, DecodeKeepsInv, RestoreKeepsInv, OthersKeepInv
   DEF Next, Done

LEMMA BudgetInvariant == Spec => []BudgetInv
BY InitInv, NextKeepsInv, PTL DEF Spec

(* ---- what follows ----------------------------------------------------- *)

LEMMA WholeUnits ==
  ASSUME NEW q \in Int, NEW b \in Int, Unit * q <= b
  PROVE  Unit * q <= Unit * (b \div Unit)
<1>1. Unit \in Nat /\ Unit > 0
  BY ErrorBudgetAssumption
<1> DEFINE t == b \div Unit
<1>2. t \in Int /\ b < Unit * t + Unit
  BY <1>1, Z3
<1> HIDE DEF t
<1>3. q <= t
  <2> SUFFICES ASSUME q >= t + 1 PROVE FALSE
    BY <1>2
  <2>1. Unit * q >= Unit * (t + 1)
    BY <1>1, <1>2, Z3
  <2>2. Unit * (t + 1) = Unit * t + Unit
    BY <1>1, <1>2, Z3
  <2> QED BY <1>1, <1>2, <2>1, <2>2
<1>4. Unit * q <= Unit * t
  BY <1>1, <1>2, <1>3, Z3
<1> QED BY <1>4 DEF t

LEMMA ErrorInUnits ==
  ASSUME NEW a \in Int, NEW b \in Int, a % Unit = 0, b % Unit = 0
  PROVE  \E q \in Int : Abs(a - b) = Unit * q
<1>1. Unit \in Nat /\ Unit > 0
  BY ErrorBudgetAssumption
<1> DEFINE m == a \div Unit
           n == b \div Unit
<1>2. m \in Int /\ n \in Int /\ a = Unit * m /\ b = Unit * n
  BY <1>1, Z3
<1> HIDE DEF m, n
<1>3. a - b = Unit * (m - n) /\ b - a = Unit * (n - m)
  BY <1>1, <1>2, Z3
<1>4. Abs(a - b) = a - b \/ Abs(a - b) = b - a
  BY DEF Abs
<1> QED BY <1>2, <1>3, <1>4

LEMMA Arithmetic ==
  ASSUME NEW e \in Int, NEW given \in Int, NEW most \in Int, NEW c \in Int, NEW h \in Nat,
         e <= given + c + h
  PROVE  /\ given <= most => e <= most + (c + h)
         /\ given <= Positive(most - (c + h)) /\ most >= c + h => e <= most
BY DEF Positive

(* A bound a user asks for reaches the reconstruction, wherever it leaves  *)
(* room for the preparation (see RequestKept in ErrorBudget): the casts of *)
(* preprocess, the codec, rounding and clamping of decompress.             *)
LEMMA RequestsKept == BudgetInv => RequestKept
<1> SUFFICES ASSUME BudgetInv, Over, Bounding, NEW k \in Axes
             PROVE  LET reserve == IF group = "positions" THEN Preparation(k, cast)
                                   ELSE Allowance(k)
                    IN  IF group = "positions" /\ mode = "absolute"
                        THEN Error(k) <= requested[k] + reserve + Lost
                        ELSE requested[k] >= reserve => Error(k) <= requested[k] + Lost
  BY DEF RequestKept, Bounding
<1>0. mode \in {"relative", "absolute"} /\ group \in {"positions", "velocities"}
  BY DEF BudgetInv, SourceInv, RequestInv, Over
<1>1. /\ requested[k] \in Int /\ cast[k] \in Int /\ Given(k) \in Int /\ Rounding \in Nat
      /\ source[row][k] \in Int /\ restored[k] \in Int /\ Lost \in Nat
      /\ Given(k) <= Remaining(k, cast)
      /\ Error(k) <= Given(k) + cast[k] + (Rounding + Lost)
  BY RoundingType, LostType
     DEF BudgetInv, SourceInv, RequestInv, PreparedInv, RestoredInv, Over, Given
<1>2. Error(k) \in Int
  BY <1>1, AbsType DEF Error
<1> DEFINE e == Error(k) - Lost
           g == Given(k)
           a == requested[k]
           c == cast[k]
           h == Rounding
<1>3. /\ e \in Int /\ g \in Int /\ a \in Int /\ c \in Int /\ h \in Nat
      /\ e <= g + c + h
  BY <1>1, <1>2
<1>4. \A most \in Int : e <= most => Error(k) <= most + Lost
  BY <1>1, <1>2
<1>5. CASE group = "positions"
  <2>1. CASE mode = "absolute"
    <3>1. g <= a
      BY <1>1, <1>5, <2>1 DEF Remaining, Reduced
    <3>2. e <= a + (c + h) /\ a + (c + h) \in Int
      <4> HIDE DEF e, g, a, c, h
      <4> QED BY <1>3, <3>1, Arithmetic
    <3>3. Error(k) <= requested[k] + Preparation(k, cast) + Lost
      BY <1>4, <3>2 DEF Preparation
    <3> QED BY <1>5, <2>1, <3>3
  <2>2. CASE mode # "absolute"
    <3>1. g <= Positive(a - (c + h))
      BY <1>0, <1>1, <1>5, <2>2 DEF Remaining, Reduced, Preparation
    <3>2. a >= c + h => e <= a
      <4> HIDE DEF e, g, a, c, h
      <4> QED BY <1>3, <3>1, Arithmetic
    <3>3. requested[k] >= Preparation(k, cast) => Error(k) <= requested[k] + Lost
      BY <1>1, <1>4, <3>2 DEF Preparation
    <3> QED BY <1>5, <2>2, <3>3
  <2> QED BY <2>1, <2>2
<1>6. CASE group = "velocities"
  <2>1. h = 0
    BY <1>6 DEF Rounding
  <2>2. CASE codec = "lcp"
    <3>1. g <= Positive(a - (c + h))
      BY <1>1, <1>6, <2>2 DEF Remaining, Reduced, Preparation
    <3>2. a >= c => e <= a
      <4> HIDE DEF e, g, a, c, h
      <4>1. a >= c + h => e <= a
        BY <1>3, <3>1, Arithmetic
      <4> QED BY <1>3, <2>1, <4>1
    <3>3. requested[k] >= Allowance(k) => Error(k) <= requested[k] + Lost
      BY <1>1, <1>4, <2>2, <3>2 DEF Allowance
    <3> QED BY <1>6, <3>3
  <2>3. CASE codec = "sz3"
    <3>1. g <= a /\ c = 0
      BY <1>1, <1>6, <2>3 DEF Remaining, Reduced, IsCast, BudgetInv, PreparedInv, Over
    <3>2. e <= a
      <4> HIDE DEF e, g, a, c, h
      <4> QED BY <1>3, <2>1, <3>1
    <3>3. Error(k) <= requested[k] + Lost
      BY <1>1, <1>4, <3>2
    <3> QED BY <1>6, <3>3
  <2> QED BY <2>2, <2>3 DEF Bounding
<1> QED BY <1>0, <1>5, <1>6

(* RequestKept holds in every state, for all values and bounds.            *)
THEOREM RequestsAreKept == Spec => []RequestKept
BY RequestsKept, BudgetInvariant, PTL

(* Integer positions come back within the nearest number of whole units    *)
(* (see IntegersTight in ErrorBudget).                                     *)
THEOREM IntegersAreTight == Spec => []IntegersTight
<1>1. BudgetInv => IntegersTight
  <2> SUFFICES ASSUME BudgetInv, Over, integer, Bounding, NEW k \in Axes
               PROVE  Error(k) <= Unit * ((Given(k) + cast[k] + Unit \div 2) \div Unit)
    BY DEF IntegersTight, Bounding
  <2>1. /\ cast[k] \in Int /\ Given(k) \in Int
        /\ source[row][k] \in Int /\ restored[k] \in Int
        /\ source[row][k] % Unit = 0 /\ restored[k] % Unit = 0
        /\ Error(k) <= Given(k) + cast[k] + (Rounding + Lost)
    BY DEF BudgetInv, SourceInv, PreparedInv, RestoredInv, Over, Given, Integral
  <2>2. Lost = 0 /\ Rounding = Unit \div 2 /\ Unit \div 2 \in Nat
    BY HalfUnit DEF BudgetInv, SourceInv, Rounding, Lost
  <2>3. PICK q \in Int : Error(k) = Unit * q
    BY <2>1, ErrorInUnits DEF Error
  <2> DEFINE b == Given(k) + cast[k] + Unit \div 2
  <2>4. b \in Int /\ Unit * q <= b
    BY <2>1, <2>2, <2>3
  <2> HIDE DEF b
  <2>5. Error(k) <= Unit * (b \div Unit)
    BY <2>3, <2>4, WholeUnits
  <2> QED BY <2>5 DEF b
<1> QED BY <1>1, BudgetInvariant, PTL

(* ---- vectors ---------------------------------------------------------- *)

(* A set of natural numbers has a least element.                           *)
LEMMA LeastNatural ==
  ASSUME NEW T, T \subseteq Nat, T # {}
  PROVE  \E n \in T : \A m \in T : n <= m
<1>1. \E n \in T : \A m \in T : ~(<<m, n>> \in OpToRel(<, Nat))
  BY WFMin, NatLessThanWellFounded, Zenon
<1>2. \A n, m \in T : m < n => <<m, n>> \in OpToRel(<, Nat)
  BY DEF OpToRel
<1>3. PICK n \in T : \A m \in T : ~(m < n)
  BY <1>1, <1>2, Zenon
<1> QED BY <1>3

LEMMA SquareType ==
  ASSUME NEW a \in Int
  PROVE  a * a \in Nat
BY Z3

LEMMA SquaresAreOrdered ==
  ASSUME NEW a \in Nat, NEW b \in Nat, a * a <= b * b
  PROVE  a <= b
<1> SUFFICES ASSUME a >= b + 1 PROVE FALSE
  OBVIOUS
<1>1. a * a >= (b + 1) * (b + 1)
  BY Z3
<1>2. (b + 1) * (b + 1) = b * b + 2 * b + 1
  BY Z3
<1> QED BY <1>1, <1>2, SquareType

LEMMA SquaresGrow ==
  ASSUME NEW a \in Nat, NEW b \in Nat, a <= b
  PROVE  a * a <= b * b
BY Z3

(* The inequality of Cauchy and Schwarz in three dimensions: what is       *)
(* missing is Lagrange's sum of three squares.                             *)
LEMMA InnerProductBounded ==
  ASSUME NEW a \in Int, NEW b \in Int, NEW c \in Int,
         NEW x \in Int, NEW y \in Int, NEW z \in Int
  PROVE  (a * x + b * y + c * z) * (a * x + b * y + c * z)
           <= (a * a + b * b + c * c) * (x * x + y * y + z * z)
<1> DEFINE u == a * y - b * x
           v == a * z - c * x
           w == b * z - c * y
<1>1. u \in Int /\ v \in Int /\ w \in Int
  BY Z3
<1>2. (a * a + b * b + c * c) * (x * x + y * y + z * z)
        = (a * x + b * y + c * z) * (a * x + b * y + c * z) + u * u + v * v + w * w
  BY Z3
<1>3. (a * x + b * y + c * z) * (a * x + b * y + c * z) \in Int
  BY Z3
<1>4. (a * a + b * b + c * c) * (x * x + y * y + z * z) \in Int
  BY Z3
<1> HIDE DEF u, v, w
<1>5. u * u \in Nat /\ v * v \in Nat /\ w * w \in Nat
  BY <1>1, SquareType
<1> DEFINE p == (a * x + b * y + c * z) * (a * x + b * y + c * z)
           q == (a * a + b * b + c * c) * (x * x + y * y + z * z)
           uu == u * u
           vv == v * v
           ww == w * w
<1>6. p \in Int /\ q \in Int /\ uu \in Nat /\ vv \in Nat /\ ww \in Nat
      /\ q = p + uu + vv + ww
  BY <1>2, <1>3, <1>4, <1>5
<1> HIDE DEF p, q, uu, vv, ww
<1>7. p <= q
  BY <1>6
<1> QED BY <1>7 DEF p, q

LEMMA LengthsAddUp ==
  ASSUME NEW a \in Nat, NEW b \in Nat, NEW c \in Nat,
         NEW x \in Nat, NEW y \in Nat, NEW z \in Nat,
         NEW u \in Nat, NEW v \in Nat, NEW w \in Nat, NEW most \in Int,
         u <= a + x, v <= b + y, w <= c + z,
         WithinVector(a * a + b * b + c * c, x * x + y * y + z * z, most)
  PROVE  u * u + v * v + w * w <= most * most
<1> DEFINE e == a * a + b * b + c * c
           p == x * x + y * y + z * z
           i == a * x + b * y + c * z
           left == most * most - e - p
<1>1. e \in Nat /\ p \in Nat /\ i \in Nat /\ left \in Int
  <2>1. /\ a * a \in Nat /\ b * b \in Nat /\ c * c \in Nat
        /\ x * x \in Nat /\ y * y \in Nat /\ z * z \in Nat /\ most * most \in Nat
    BY SquareType
  <2>2. a * x \in Nat /\ b * y \in Nat /\ c * z \in Nat
    BY Z3
  <2> QED BY <2>1, <2>2
<1>2. left >= 0 /\ 4 * e * p <= left * left
  BY DEF WithinVector
<1>3. i * i <= e * p
  BY InnerProductBounded
<1>4. u * u + v * v + w * w <= e + 2 * i + p
  <2>1. /\ u * u <= (a + x) * (a + x)
        /\ v * v <= (b + y) * (b + y)
        /\ w * w <= (c + z) * (c + z)
    BY SquaresGrow
  <2>2. /\ (a + x) * (a + x) = a * a + 2 * (a * x) + x * x
        /\ (b + y) * (b + y) = b * b + 2 * (b * y) + y * y
        /\ (c + z) * (c + z) = c * c + 2 * (c * z) + z * z
    BY Z3
  <2>3. /\ u * u \in Nat /\ v * v \in Nat /\ w * w \in Nat
        /\ a * a \in Nat /\ b * b \in Nat /\ c * c \in Nat
        /\ x * x \in Nat /\ y * y \in Nat /\ z * z \in Nat
    BY SquareType
  <2>4. a * x \in Nat /\ b * y \in Nat /\ c * z \in Nat
    BY Z3
  <2> QED BY <2>1, <2>2, <2>3, <2>4
<1>5. most * most = left + e + p
  BY <1>1, SquareType
<1>6. u * u + v * v + w * w \in Int
  BY SquareType
<1> HIDE DEF e, p, i, left
<1>7. (2 * i) * (2 * i) <= left * left
  <2>1. (2 * i) * (2 * i) = 4 * (i * i) /\ 4 * e * p = 4 * (e * p)
    BY <1>1, Z3
  <2>2. i * i \in Int /\ e * p \in Int /\ left * left \in Int
    BY <1>1, Z3
  <2> QED BY <1>2, <1>3, <2>1, <2>2
<1>8. 2 * i <= left
  BY <1>1, <1>2, <1>7, SquaresAreOrdered
<1> QED BY <1>1, <1>4, <1>5, <1>6, <1>8

(* SumOfSquares, component by component.                                   *)
Component(f, k) == IF k \in Axes THEN f[k] ELSE 0

LEMMA SumByComponents ==
  ASSUME NEW f
  PROVE  SumOfSquares(f) =   Component(f, 0) * Component(f, 0)
                           + Component(f, 1) * Component(f, 1)
                           + Component(f, 2) * Component(f, 2)
BY DEF SumOfSquares, Component

(* The errors of codec and preparation add up within the vector's bound.   *)
LEMMA VectorsAddUp ==
  ASSUME NEW e, NEW p, NEW r, NEW most \in Int,
         \A k \in Axes : e[k] \in Nat /\ p[k] \in Nat /\ r[k] \in Nat,
         \A k \in Axes : r[k] <= e[k] + p[k],
         WithinVector(SumOfSquares(e), SumOfSquares(p), most)
  PROVE  SumOfSquares(r) <= most * most
<1>1. \A k \in 0..2 : /\ Component(e, k) \in Nat /\ Component(p, k) \in Nat
                      /\ Component(r, k) \in Nat
                      /\ Component(r, k) <= Component(e, k) + Component(p, k)
  BY DEF Component
<1>2. 0 \in 0..2 /\ 1 \in 0..2 /\ 2 \in 0..2
  OBVIOUS
<1>3. WithinVector(  Component(e, 0) * Component(e, 0)
                   + Component(e, 1) * Component(e, 1)
                   + Component(e, 2) * Component(e, 2),
                     Component(p, 0) * Component(p, 0)
                   + Component(p, 1) * Component(p, 1)
                   + Component(p, 2) * Component(p, 2), most)
  BY SumByComponents
<1>4.   Component(r, 0) * Component(r, 0) + Component(r, 1) * Component(r, 1)
      + Component(r, 2) * Component(r, 2) <= most * most
  <2>1. /\ Component(e, 0) \in Nat /\ Component(e, 1) \in Nat /\ Component(e, 2) \in Nat
        /\ Component(p, 0) \in Nat /\ Component(p, 1) \in Nat /\ Component(p, 2) \in Nat
        /\ Component(r, 0) \in Nat /\ Component(r, 1) \in Nat /\ Component(r, 2) \in Nat
        /\ Component(r, 0) <= Component(e, 0) + Component(p, 0)
        /\ Component(r, 1) <= Component(e, 1) + Component(p, 1)
        /\ Component(r, 2) <= Component(e, 2) + Component(p, 2)
    BY <1>1, <1>2
  <2> HIDE DEF Component
  <2> QED BY <2>1, <1>3, LengthsAddUp, ZenonT(60)
<1> QED BY <1>4, SumByComponents

(* No component is longer than the vector.                                 *)
LEMMA ComponentWithinVector ==
  ASSUME NEW r, NEW most \in Nat, \A k \in Axes : r[k] \in Nat,
         SumOfSquares(r) <= most * most, NEW k \in Axes
  PROVE  r[k] <= most
<1>1. \A j \in 0..2 : Component(r, j) \in Nat
  BY DEF Component
<1>2. \A j \in 0..2 : Component(r, j) * Component(r, j) \in Nat
  BY <1>1, SquareType
<1>3. k \in 0..2 /\ r[k] = Component(r, k)
  BY ErrorBudgetAssumption DEF Component
<1>4. Component(r, k) * Component(r, k) <= SumOfSquares(r)
  <2> DEFINE s(j) == Component(r, j) * Component(r, j)
  <2>1. s(0) \in Nat /\ s(1) \in Nat /\ s(2) \in Nat
    BY <1>2
  <2>2. SumOfSquares(r) = s(0) + s(1) + s(2)
    BY SumByComponents
  <2>3. k = 0 \/ k = 1 \/ k = 2
    BY <1>3
  <2> HIDE DEF s
  <2>4. s(k) <= s(0) + s(1) + s(2)
    BY <2>1, <2>3
  <2> QED BY <2>2, <2>4 DEF s
<1>5. Component(r, k) * Component(r, k) <= most * most
  <2>1. most * most \in Nat /\ SumOfSquares(r) \in Nat
    BY <1>2, SumByComponents, SquareType
  <2> QED BY <1>2, <1>3, <1>4, <2>1
<1> QED BY <1>1, <1>3, <1>5, SquaresAreOrdered

(* Two vectors within two bounds are together within their sum.            *)
LEMMA BoundsAddUp ==
  ASSUME NEW e \in Nat, NEW p \in Nat, NEW a \in Nat, NEW t \in Nat,
         e <= a * a, p <= t * t
  PROVE  WithinVector(e, p, a + t)
<1> DEFINE aa == a * a
           tt == t * t
           at == a * t
           left == (a + t) * (a + t) - e - p
<1>1. /\ aa \in Nat /\ tt \in Nat /\ at \in Nat
      /\ (a + t) * (a + t) = aa + tt + 2 * at
  BY Z3
<1>2. e <= aa /\ p <= tt /\ aa * tt = at * at
  BY Z3
<1>3. left = (a + t) * (a + t) - e - p /\ (a + t) * (a + t) \in Int
  BY Z3
<1> HIDE DEF aa, tt, at, left
<1>4. left \in Int /\ left >= 2 * at /\ 2 * at \in Nat
  BY <1>1, <1>2, <1>3
<1>5. e * p <= aa * tt
  <2>1. e * p <= aa * p /\ aa * p <= aa * tt
    BY <1>1, <1>2, Z3
  <2>2. e * p \in Int /\ aa * p \in Int /\ aa * tt \in Int
    BY <1>1, Z3
  <2> QED BY <2>1, <2>2
<1>6. (2 * at) * (2 * at) <= left * left
  BY <1>4, SquaresGrow
<1>7. 4 * e * p <= left * left
  <2>1. 4 * e * p = 4 * (e * p) /\ (2 * at) * (2 * at) = 4 * (at * at)
    BY <1>1, Z3
  <2>2. e * p \in Int /\ at * at \in Int /\ left * left \in Int
    BY <1>1, <1>4, Z3
  <2> QED BY <1>2, <1>5, <1>6, <2>1, <2>2
<1>8. left >= 0
  BY <1>4
<1> QED BY <1>3, <1>7, <1>8 DEF WithinVector

LEMMA SumOfSquaresType ==
  ASSUME NEW f, \A k \in Axes : f[k] \in Int
  PROVE  SumOfSquares(f) \in Nat
<1>1. \A k \in 0..2 : Component(f, k) \in Int
  BY DEF Component
<1>2. \A k \in 0..2 : Component(f, k) * Component(f, k) \in Nat
  BY <1>1, SquareType
<1> QED BY <1>2, SumByComponents

(* The root of the diagonal that selection computes exists.                *)
LEMMA DiagonalType ==
  ASSUME NEW share \in Int, NEW range, \A k \in Axes : range[k] \in Int
  PROVE  OfDiagonal(share, range) \in Nat
<1> DEFINE square == share * share * SumOfSquares(range)
<1>1. square \in Nat
  <2>1. share * share \in Nat /\ SumOfSquares(range) \in Nat
    BY SquareType, SumOfSquaresType
  <2> QED BY <2>1, Z3
<1>2. OfDiagonal(share, range) =
        CHOOSE r \in 0..square : /\ r * r * Parts * Parts <= square
                                 /\ square < (r + 1) * (r + 1) * Parts * Parts
  BY DEF OfDiagonal
<1> HIDE DEF square
<1> DEFINE Above == {n \in Nat : square < (n + 1) * (n + 1) * Parts * Parts}
<1>3. Parts \in Nat /\ Parts >= 1
  BY ErrorBudgetAssumption
<1>4. \A n \in Nat : n * n * Parts * Parts \in Nat /\ n * n * Parts * Parts >= n
  <2> TAKE n \in Nat
  <2> DEFINE m == n * Parts
  <2>1. m \in Nat /\ m >= n
    BY <1>3, Z3
  <2>2. n * n * Parts * Parts = m * m
    BY <1>3, Z3
  <2> HIDE DEF m
  <2>3. m * m \in Nat /\ m * m >= m
    BY <2>1, Z3
  <2> QED BY <2>1, <2>2, <2>3
<1>5. square \in Above
  <2> DEFINE scaled(n) == n * n * Parts * Parts
  <2>1. square + 1 \in Nat
    BY <1>1
  <2>2. \A n \in Nat : scaled(n) \in Nat /\ scaled(n) >= n
    BY <1>4
  <2> HIDE DEF scaled
  <2>3. square < scaled(square + 1)
    BY <1>1, <2>1, <2>2
  <2> QED BY <1>1, <2>3 DEF scaled
<1>6. PICK r \in Above : \A n \in Above : r <= n
  BY <1>5, LeastNatural
<1>7. r \in 0..square
  BY <1>1, <1>5, <1>6, SMTT(30)
<1>8. r * r * Parts * Parts <= square
  <2>1. CASE r = 0
    <3>1. r * r * Parts * Parts = 0
      BY <2>1, <1>3, Z3
    <3> QED BY <3>1, <1>1
  <2>2. CASE r # 0
    <3>1. r - 1 \in Nat /\ r - 1 \notin Above
      BY <2>2, <1>6
    <3>2. ~(square < ((r - 1) + 1) * ((r - 1) + 1) * Parts * Parts)
      BY <3>1
    <3>3. (r - 1) + 1 = r
      BY <1>6
    <3>4. ~(square < r * r * Parts * Parts)
      BY <3>2, <3>3
    <3> DEFINE scaled == r * r * Parts * Parts
    <3>5. scaled \in Nat /\ ~(square < scaled)
      BY <3>4, <1>4, <1>6
    <3> HIDE DEF scaled
    <3>6. scaled <= square
      BY <3>5, <1>1
    <3> QED BY <3>6 DEF scaled
  <2> QED BY <2>1, <2>2
<1>9. square < (r + 1) * (r + 1) * Parts * Parts
  BY <1>6
<1>10. OfDiagonal(share, range) \in 0..square
  BY <1>2, <1>7, <1>8, <1>9
<1> QED BY <1>1, <1>10

(* ---- the invariant of vectors and verdicts ---------------------------- *)

Prepares == stage \in {"encode", "decoded", "restored", "judged"}
Decodes == stage \in {"decoded", "restored", "judged"}
CodecError(k) == decoded[k] - prepared[row][k]

(* xnyzip leaves what the preparation needs of the vector's bound, and the *)
(* error of a component is that of the codec, of the preparation and of    *)
(* the last rounding.                                                      *)
VectorInv ==
  /\ vectorAsked \in Nat
  /\ codec = "xnyzip" =>
       /\ Decodes => /\ decoded \in [Axes -> Int]
                     /\ WithinBudget([k \in Axes |-> CodecError(k)])
                     /\ IsCast => \A k \in Axes : decoded[k] % Grid = 0
       /\ Over => /\ restored \in [Axes -> Int]
                  /\ \A k \in Axes :
                       Error(k) <= Abs(CodecError(k)) + Preparation(k, cast) + Lost

(* pcodec asks for nothing and loses nothing.                              *)
LosslessInv ==
  codec = "pcodec" =>
    /\ mode = "lossless" /\ requested = Zero
    /\ Prepares => bound = Zero /\ prepared = source
    /\ Decodes => decoded = source[row]
    /\ Over => restored = source[row]

(* No codec is given more than the bound the manifest records.             *)
GivenInv == Bounding /\ Prepares => \A k \in Axes : Given(k) <= bound[k]

Judgement(k) ==
  /\ Error(k) <= Tolerated(Effective(k))
  /\ codec = "xnyzip" =>
       ErrorSquares <= Tolerated(vectorAsked) * Tolerated(vectorAsked)

JudgedInv == stage = "judged" => \A k \in Axes : satisfied[k] = Judgement(k)

VerdictInv == VectorInv /\ LosslessInv /\ GivenInv /\ JudgedInv

LEMMA VerdictInit == Init => VerdictInv
<1> SUFFICES ASSUME Init PROVE VerdictInv
  OBVIOUS
<1>1. /\ stage = "select" /\ mode = "lossless" /\ requested = Zero /\ vectorAsked = 0
  BY DEF Init
<1> QED
  BY <1>1 DEF VerdictInv, VectorInv, LosslessInv, GivenInv, JudgedInv, Prepares, Decodes, Over

LEMMA VerdictSelect == BudgetInv /\ VerdictInv /\ Select => VerdictInv'
<1> SUFFICES ASSUME BudgetInv, VerdictInv, Select PROVE VerdictInv'
  OBVIOUS
<1>1. stage' = "preprocess" /\ codec # "pcodec" /\ UNCHANGED <<sources, budget, results>>
  BY DEF Select
<1>2. vectorAsked' \in Nat
  <2>1. PICK field, overall \in (Bounds \cup {None}) \X (Shares \cup {None}),
              low, high \in Corners :
          LET given == IF field = <<None, None>> THEN overall ELSE field
              range == [k \in Axes |-> high[k] - low[k]]
          IN  /\ IsBox(low, high)
              /\ field[1] = None \/ field[2] = None
              /\ given # <<None, None>>
              /\ IF given[2] # None
                 THEN /\ mode' = "relative"
                      /\ requested' = [k \in Axes |-> (given[2] * range[k]) \div Parts]
                      /\ vectorAsked' = OfDiagonal(given[2], range)
                 ELSE /\ mode' = "absolute"
                      /\ requested' = [k \in Axes |-> given[1]]
                      /\ vectorAsked' = given[1]
    BY Zenon DEF Select
  <2> DEFINE given == IF field = <<None, None>> THEN overall ELSE field
             range == [k \in Axes |-> high[k] - low[k]]
  <2>2. /\ given = <<given[1], given[2]>> /\ given[1] \in Bounds \cup {None}
        /\ given[2] \in Shares \cup {None}
    OBVIOUS
  <2>3. given # <<None, None>>
    BY <2>1
  <2>4. vectorAsked' = IF given[2] # None THEN OfDiagonal(given[2], range) ELSE given[1]
    BY <2>1
  <2>5. \A k \in Axes : range[k] \in Int
    <3> TAKE k \in Axes
    <3>1. UNION {Column(j) : j \in Axes} \subseteq Int
      BY DEF BudgetInv, SourceInv, Column
    <3>2. low[k] \in Int /\ high[k] \in Int
      BY <3>1, <2>1 DEF Corners
    <3> QED BY <3>2
  <2> HIDE DEF given, range
  <2>6. CASE given[2] # None
    <3>1. given[2] \in Int
      BY <2>2, <2>6, OptionsAreIntegers
    <3> QED BY <3>1, <2>4, <2>5, <2>6, DiagonalType
  <2>7. CASE given[2] = None
    <3>1. given[1] \in Bounds
      BY <2>2, <2>3, <2>7
    <3> QED BY <3>1, <2>4, <2>7, ErrorBudgetAssumption
  <2> QED BY <2>6, <2>7
<1>3. codec' = codec
  BY <1>1 DEF sources
<1> QED
  BY <1>1, <1>2, <1>3
     DEF VerdictInv, VectorInv, LosslessInv, GivenInv, JudgedInv, Prepares, Decodes, Over

LEMMA VerdictPreprocess == BudgetInv /\ VerdictInv /\ Preprocess => VerdictInv'
<1> SUFFICES ASSUME BudgetInv, VerdictInv, Preprocess PROVE VerdictInv'
  OBVIOUS
<1>1. /\ stage = "preprocess" /\ stage' \in {"encode", "error"}
      /\ UNCHANGED <<sources, asked, results>>
  BY DEF Preprocess
<1>2. BudgetInv'
  BY PreprocessKeepsInv
<1>3. VectorInv'
  BY <1>1 DEF VerdictInv, VectorInv, Decodes, Over, asked, sources
<1>4. \A k \in Axes : bound'[k] = IF group = "velocities" /\ codec = "lcp"
                                  THEN least' ELSE Remaining(k, cast')
  BY DEF Preprocess
<1>5. LosslessInv'
  <2> SUFFICES ASSUME codec = "pcodec" PROVE LosslessInv'
    BY <1>1 DEF LosslessInv, sources
  <2>1. mode = "lossless" /\ requested = Zero /\ ~IsCast /\ ~Reduced
    BY DEF VerdictInv, LosslessInv, IsCast, Reduced, BudgetInv, SourceInv
  <2>2. prepared' = source
    BY <2>1 DEF Preprocess, Prepared
  <2>3. bound' = Zero
    <3>1. bound' = [k \in Axes |-> IF group = "velocities" /\ codec = "lcp"
                                   THEN least' ELSE Remaining(k, cast')]
      BY DEF Preprocess
    <3>2. \A k \in Axes : Remaining(k, cast') = 0
      BY <2>1 DEF Remaining, Zero
    <3> QED BY <3>1, <3>2 DEF Zero
  <2> QED BY <1>1, <2>1, <2>2, <2>3 DEF LosslessInv, Decodes, Over, asked, sources, Zero
<1>6. GivenInv'
  <2> SUFFICES ASSUME Bounding, Prepares', NEW k \in Axes PROVE Given(k)' <= bound'[k]
    BY <1>1 DEF GivenInv, Bounding, sources
  <2>1. requested \in [Axes -> Int] /\ cast' \in [Axes -> Int] /\ least' \in Int
    BY <1>2 DEF BudgetInv, RequestInv, PreparedInv, Prepares
  <2>2. Remaining(k, cast') \in Int
    BY <2>1, RoundingType DEF Remaining, Preparation, Positive
  <2>3. least' <= Remaining(k, cast')
    BY DEF Preprocess
  <2>4. codec' = codec
    BY <1>1 DEF sources
  <2> QED BY <1>4, <2>1, <2>2, <2>3, <2>4 DEF Given
<1>7. JudgedInv'
  BY <1>1 DEF JudgedInv
<1> QED BY <1>3, <1>5, <1>6, <1>7 DEF VerdictInv

LEMMA VerdictDecode == BudgetInv /\ VerdictInv /\ Decode => VerdictInv'
<1> SUFFICES ASSUME BudgetInv, VerdictInv, Decode PROVE VerdictInv'
  OBVIOUS
<1>1. /\ stage = "encode" /\ stage' = "decoded"
      /\ UNCHANGED <<sources, asked, budget, row>>
  BY DEF Decode
<1>2. /\ prepared[row] \in [Axes -> Int] /\ row \in Rows /\ source[row] \in [Axes -> Int]
  BY <1>1 DEF BudgetInv, SourceInv, PreparedInv
<1>3. PICK d \in [Axes -> UNION {Returned(prepared[row][k],
                            IF codec = "xnyzip" THEN vectorAsked ELSE Given(k)) : k \in Axes}] :
        /\ IF codec = "xnyzip"
           THEN WithinBudget([k \in Axes |-> d[k] - prepared[row][k]])
           ELSE \A k \in Axes : d[k] \in Returned(prepared[row][k], Given(k))
        /\ decoded' = d
  BY DEF Decode
<1>4. VectorInv'
  <2> SUFFICES ASSUME codec = "xnyzip"
               PROVE  /\ decoded' \in [Axes -> Int]
                      /\ WithinBudget([k \in Axes |-> CodecError(k)])'
                      /\ IsCast => \A k \in Axes : decoded'[k] % Grid = 0
    <3>1. codec' = codec /\ IsCast' = IsCast /\ vectorAsked' = vectorAsked
      BY <1>1 DEF sources, asked, IsCast
    <3> QED BY <1>1, <3>1 DEF VerdictInv, VectorInv, Decodes, Over
  <2>1. \A k \in Axes : Returned(prepared[row][k], vectorAsked) \subseteq Int
    BY <1>2 DEF Returned, VerdictInv, VectorInv
  <2>2. decoded' \in [Axes -> Int]
    BY <1>3, <2>1
  <2>3. WithinBudget([k \in Axes |-> decoded'[k] - prepared[row][k]])
    BY <1>3
  <2>5. IsCast => \A k \in Axes : decoded'[k] % Grid = 0
    BY <1>3 DEF Returned
  <2>4. prepared' = prepared /\ row' = row /\ cast' = cast /\ vectorAsked' = vectorAsked
        /\ Rounding' = Rounding
    BY <1>1 DEF budget, asked, sources, Rounding
  <2>6. WithinBudget([k \in Axes |-> CodecError(k)])'
    BY <2>3, <2>4 DEF WithinBudget, CodecError, PreparedSquares, Preparation
  <2> QED BY <2>2, <2>5, <2>6
<1>5. LosslessInv'
  <2> SUFFICES ASSUME codec = "pcodec" PROVE decoded' = source[row]
    BY <1>1 DEF VerdictInv, LosslessInv, Prepares, Over, asked, sources, budget
  <2>1. bound = Zero /\ prepared = source
    BY <1>1 DEF VerdictInv, LosslessInv, Prepares
  <2>2. \A k \in Axes : d[k] = source[row][k]
    <3> TAKE k \in Axes
    <3>1. d[k] \in (source[row][k] - 0)..(source[row][k] + 0)
      BY <1>3, <2>1 DEF Returned, Given, Zero
    <3> QED BY <3>1, <1>2
  <2> QED BY <1>2, <1>3, <2>2
<1>6. GivenInv'
  BY <1>1 DEF VerdictInv, GivenInv, Prepares, Bounding, Given, sources, budget
<1>7. JudgedInv'
  BY <1>1 DEF JudgedInv
<1> QED BY <1>4, <1>5, <1>6, <1>7 DEF VerdictInv

(* What rounding and clamping add to the error of a component.             *)
LEMMA RestoredNear ==
  ASSUME BudgetInv, VerdictInv, Restore, codec = "xnyzip"
  PROVE  /\ restored' \in [Axes -> Int]
         /\ \A k \in Axes : Abs(restored'[k] - source[row][k])
                              <= Abs(CodecError(k)) + Preparation(k, cast) + Lost
<1>1. stage = "decoded"
  BY DEF Restore
<1>2. /\ SourceInv /\ decoded \in [Axes -> Int]
      /\ IsCast => \A k \in Axes : decoded[k] % Grid = 0
  BY <1>1 DEF BudgetInv, VerdictInv, VectorInv, Decodes
<1>3. restored' \in [Axes -> Int]
  BY <1>2, RestoredFromDecoded
<1>4. \A k \in Axes : Abs(restored'[k] - source[row][k])
                         <= Abs(CodecError(k)) + Preparation(k, cast) + Lost
  <2> TAKE k \in Axes
  <2>1. /\ prepared[row][k] \in Int /\ cast[k] \in Int /\ source[row][k] \in Int
        /\ Abs(prepared[row][k] - source[row][k]) <= cast[k]
        /\ decoded[k] \in Int /\ restored'[k] \in Int
        /\ Rounding \in Nat /\ Lost \in Nat
    BY <1>1, <1>2, <1>3, RoundingType, LostType DEF BudgetInv, SourceInv, PreparedInv
  <2> DEFINE g == Abs(CodecError(k))
  <2>2. g \in Nat /\ Abs(decoded[k] - prepared[row][k]) <= g
    BY <2>1, AbsType DEF CodecError
  <2> HIDE DEF g
  <2>3. Abs(restored'[k] - source[row][k]) <= g + cast[k] + (Rounding + Lost)
    BY <1>2, <2>1, <2>2, RestoredError
  <2>4. Abs(restored'[k] - source[row][k]) \in Int
    BY <2>1, AbsType
  <2>5. Abs(restored'[k] - source[row][k]) <= g + (cast[k] + Rounding) + Lost
    BY <2>1, <2>2, <2>3, <2>4
  <2> QED BY <2>5 DEF g, Preparation
<1> QED BY <1>3, <1>4

LEMMA VerdictRestore == BudgetInv /\ VerdictInv /\ Restore => VerdictInv'
<1> SUFFICES ASSUME BudgetInv, VerdictInv, Restore PROVE VerdictInv'
  OBVIOUS
<1>1. /\ stage = "decoded" /\ stage' = "restored"
      /\ UNCHANGED <<sources, asked, budget, row, decoded>>
  BY DEF Restore
<1>2. /\ UNCHANGED <<codec, source, cast, prepared, vectorAsked, Rounding, Lost>>
      /\ IsCast' = IsCast
  BY <1>1 DEF sources, asked, budget, Rounding, Lost, IsCast
<1>3. VectorInv'
  <2>1. vectorAsked' \in Nat
    BY <1>2 DEF VerdictInv, VectorInv
  <2>2. codec = "xnyzip" => /\ decoded' \in [Axes -> Int]
                            /\ WithinBudget([k \in Axes |-> CodecError(k)])'
                            /\ IsCast => \A k \in Axes : decoded'[k] % Grid = 0
    BY <1>1, <1>2
       DEF VerdictInv, VectorInv, Decodes, WithinBudget, CodecError, PreparedSquares, Preparation
  <2>3. codec = "xnyzip" =>
          /\ restored' \in [Axes -> Int]
          /\ \A k \in Axes :
               Error(k)' <= (Abs(CodecError(k)) + Preparation(k, cast) + Lost)'
    BY <1>1, <1>2, RestoredNear DEF Error, CodecError, Preparation
  <2> QED BY <1>2, <2>1, <2>2, <2>3 DEF VectorInv
<1>4. LosslessInv'
  BY <1>1 DEF Restore, VerdictInv, LosslessInv, Prepares, Decodes, sources, asked, budget
<1>5. GivenInv'
  BY <1>1 DEF VerdictInv, GivenInv, Prepares, Bounding, Given, sources, budget
<1>6. JudgedInv'
  BY <1>1 DEF JudgedInv
<1> QED BY <1>3, <1>4, <1>5, <1>6 DEF VerdictInv

LEMMA VerdictOthers ==
  BudgetInv /\ VerdictInv /\ (SelectLossless \/ SelectThrows \/ Judge \/ UNCHANGED vars)
    => VerdictInv'
<1> SUFFICES ASSUME BudgetInv, VerdictInv
             PROVE  SelectLossless \/ SelectThrows \/ Judge \/ UNCHANGED vars => VerdictInv'
  OBVIOUS
<1>1. ASSUME SelectLossless \/ SelectThrows PROVE VerdictInv'
  <2>1. /\ stage = "select" /\ stage' \in {"preprocess", "error"}
        /\ UNCHANGED <<sources, asked, budget, results>>
    BY <1>1 DEF SelectLossless, SelectThrows
  <2> QED
    BY <2>1 DEF VerdictInv, VectorInv, LosslessInv, GivenInv, JudgedInv, Prepares, Decodes,
       Over, sources, asked, Zero
<1>2. ASSUME UNCHANGED <<sources, asked, budget, row, decoded, restored>>,
             stage' = stage \/ (stage = "restored" /\ stage' = "judged")
      PROVE  VectorInv' /\ LosslessInv' /\ GivenInv'
  <2>1. /\ UNCHANGED <<codec, source, row, cast, prepared, vectorAsked, decoded, restored>>
        /\ Rounding' = Rounding /\ Lost' = Lost /\ IsCast' = IsCast
    BY <1>2 DEF sources, asked, budget, Rounding, Lost, IsCast
  <2>2. VectorInv'
    BY <1>2, <2>1 DEF VerdictInv, VectorInv, Decodes, Over, WithinBudget, CodecError,
       PreparedSquares, Preparation, Error
  <2>3. LosslessInv'
    BY <1>2 DEF VerdictInv, LosslessInv, Prepares, Decodes, Over, sources, asked, budget, Zero
  <2>4. GivenInv'
    BY <1>2 DEF VerdictInv, GivenInv, Prepares, Bounding, Given, sources, budget
  <2> QED BY <2>2, <2>3, <2>4
<1>3. ASSUME UNCHANGED <<sources, asked, budget, row, decoded, restored>>
      PROVE  \A k \in Axes : Judgement(k)' = Judgement(k)
  BY <1>3 DEF Judgement, Error, ErrorSquares, Effective, Allowance, Rounding,
     Tolerated, Tolerance, sources, asked, budget
<1>4. ASSUME Judge PROVE VerdictInv'
  <2>1. /\ stage = "restored" /\ stage' = "judged"
        /\ UNCHANGED <<sources, asked, budget, row, decoded, restored>>
    BY <1>4 DEF Judge
  <2>2. \A k \in Axes : satisfied'[k] = Judgement(k)
    BY <1>4 DEF Judge, Judgement
  <2> QED BY <2>1, <2>2, <1>2, <1>3 DEF VerdictInv, JudgedInv
<1>5. ASSUME UNCHANGED vars PROVE VerdictInv'
  <2>1. UNCHANGED <<sources, asked, budget, row, decoded, restored, satisfied>> /\ stage' = stage
    BY <1>5 DEF vars, results
  <2> QED BY <2>1, <1>2, <1>3 DEF VerdictInv, JudgedInv
<1> QED BY <1>1, <1>4, <1>5

LEMMA VerdictInvariant == Spec => [](BudgetInv /\ VerdictInv)
<1>1. BudgetInv /\ VerdictInv /\ [Next]_vars => VerdictInv'
  BY VerdictSelect, VerdictPreprocess, VerdictDecode, VerdictRestore, VerdictOthers DEF Next, Done
<1> QED BY <1>1, VerdictInit, BudgetInvariant, PTL DEF Spec

(* What xnyzip, cast, rounding and clamping add up to, before the last     *)
(* rounding of scaled positions, is within the vector bound.               *)
LEMMA BeyondWithinVector ==
  ASSUME BudgetInv, VerdictInv, Over, codec = "xnyzip"
  PROVE  /\ vectorAsked \in Nat /\ Lost \in Nat
         /\ \A k \in Axes : /\ Error(k) \in Nat /\ Beyond(k) \in Nat
                           /\ Error(k) <= Beyond(k) + Lost
         /\ SumOfSquares([k \in Axes |-> Beyond(k)]) <= vectorAsked * vectorAsked
<1> DEFINE e == [k \in Axes |-> Abs(CodecError(k))]
           f == [k \in Axes |-> CodecError(k)]
           p == [k \in Axes |-> Preparation(k, cast)]
           r == [k \in Axes |-> Beyond(k)]
<1>1. /\ decoded \in [Axes -> Int] /\ restored \in [Axes -> Int] /\ cast \in [Axes -> Int]
      /\ row \in Rows /\ prepared[row] \in [Axes -> Int] /\ source[row] \in [Axes -> Int]
      /\ Rounding \in Nat /\ Lost \in Nat /\ vectorAsked \in Nat
  BY RoundingType, LostType
     DEF BudgetInv, SourceInv, PreparedInv, VerdictInv, VectorInv, Over, Decodes
<1>2. \A k \in Axes : cast[k] \in Nat
  <2> TAKE k \in Axes
  <2>1. Abs(prepared[row][k] - source[row][k]) <= cast[k]
    BY <1>1 DEF BudgetInv, PreparedInv, Over
  <2>2. Abs(prepared[row][k] - source[row][k]) \in Nat
    BY <1>1, AbsType
  <2> QED BY <1>1, <2>1, <2>2
<1>3. \A k \in Axes : CodecError(k) \in Int
  BY <1>1 DEF CodecError
<1>4. \A k \in Axes : Abs(CodecError(k)) \in Nat /\ Error(k) \in Nat
                      /\ Preparation(k, cast) \in Nat
  <2> TAKE k \in Axes
  <2>1. restored[k] - source[row][k] \in Int
    BY <1>1
  <2> QED BY <1>1, <1>2, <1>3, <2>1, AbsType DEF Error, Preparation
<1>5. \A k \in Axes : Error(k) <= Abs(CodecError(k)) + Preparation(k, cast) + Lost
  BY DEF VerdictInv, VectorInv
<1>6. \A k \in Axes : /\ Beyond(k) \in Nat
                      /\ Error(k) <= Beyond(k) + Lost
                      /\ Beyond(k) <= Abs(CodecError(k)) + Preparation(k, cast)
  <2> TAKE k \in Axes
  <2> DEFINE a == Abs(CodecError(k))
             b == Preparation(k, cast)
             x == Error(k)
  <2>1. a \in Nat /\ b \in Nat /\ x \in Nat /\ Lost \in Nat /\ x <= a + b + Lost
    BY <1>1, <1>4, <1>5
  <2>2. Beyond(k) = Positive(x - Lost)
    BY DEF Beyond
  <2> HIDE DEF a, b, x
  <2>3. /\ Positive(x - Lost) \in Nat /\ x <= Positive(x - Lost) + Lost
        /\ Positive(x - Lost) <= a + b
    BY <2>1 DEF Positive
  <2> QED BY <2>2, <2>3 DEF a, b, x
<1>7. SumOfSquares(f) = SumOfSquares(e)
  <2>1. \A k \in Axes : Abs(CodecError(k)) * Abs(CodecError(k)) = CodecError(k) * CodecError(k)
    <3> TAKE k \in Axes
    <3>1. CASE CodecError(k) < 0
      <4>1. Abs(CodecError(k)) = -CodecError(k)
        BY <3>1 DEF Abs
      <4>2. (-CodecError(k)) * (-CodecError(k)) = CodecError(k) * CodecError(k)
        BY <1>3, Z3
      <4> QED BY <4>1, <4>2
    <3>2. CASE ~(CodecError(k) < 0)
      BY <3>2 DEF Abs
    <3> QED BY <3>1, <3>2
  <2>2. \A k \in Axes : f[k] * f[k] = e[k] * e[k]
    BY <2>1
  <2> HIDE DEF e, f
  <2> QED BY <2>2 DEF SumOfSquares
<1>8. WithinVector(SumOfSquares(e), SumOfSquares(p), vectorAsked)
  <2>1. WithinBudget(f)
    BY DEF VerdictInv, VectorInv, Over, Decodes
  <2> QED BY <2>1, <1>7 DEF WithinBudget, PreparedSquares
<1>9. /\ \A k \in Axes : e[k] \in Nat /\ p[k] \in Nat /\ r[k] \in Nat
      /\ \A k \in Axes : r[k] <= e[k] + p[k]
  BY <1>4, <1>6
<1> HIDE DEF e, f, p
<1>10. SumOfSquares(r) <= vectorAsked * vectorAsked
  <2> HIDE DEF r
  <2> QED BY <1>1, <1>8, <1>9, VectorsAddUp
<1> QED BY <1>1, <1>4, <1>6, <1>10

(* The vector bound of xnyzip is kept, whatever way the budget was split   *)
(* between preprocess and the codec (see VectorKept in ErrorBudget).       *)
LEMMA VectorsKept == BudgetInv /\ VerdictInv => VectorKept
BY BeyondWithinVector DEF VectorKept

(* VectorKept holds in every state, for all values and bounds.             *)
THEOREM VectorsAreKept == Spec => []VectorKept
BY VectorsKept, VerdictInvariant, PTL

LEMMA ToleranceType ==
  ASSUME NEW most \in Int
  PROVE  Tolerance(most) \in Nat /\ Tolerated(most) = most + Tolerance(most)
<1>1. One \in Nat /\ Slack \in Nat /\ Slack > 0
  BY ErrorBudgetAssumption
<1> DEFINE length == IF most > One THEN most ELSE One
<1>2. length \in Nat
  BY <1>1
<1> HIDE DEF length
<1>3. length \div Slack \in Nat
  BY <1>1, <1>2
<1> QED BY <1>3 DEF Tolerance, Tolerated, length

(* Metrics find a bound missed only where the preparation alone had used   *)
(* up a relative one, or the last rounding is more than they tolerate (see *)
(* VerdictFair in ErrorBudget).                                            *)
LEMMA VerdictsFair == BudgetInv /\ VerdictInv => VerdictFair
<1> SUFFICES ASSUME BudgetInv, VerdictInv, stage = "judged", NEW k \in Axes,
                    ~Exhausted(k), ~Untolerated(k)
             PROVE  Judgement(k)
  BY DEF VerdictFair, VerdictInv, JudgedInv
<1>1. /\ Over /\ Prepares /\ Decodes
      /\ row \in Rows /\ source[row] \in [Axes -> Int] /\ cast \in [Axes -> Int]
      /\ requested \in [Axes -> Int] /\ bound \in [Axes -> Int]
      /\ Rounding \in Nat /\ Lost \in Nat
  BY RoundingType, LostType
     DEF BudgetInv, SourceInv, RequestInv, PreparedInv, Over, Prepares, Decodes
<1>2. CASE codec = "xnyzip"
  <2>1. /\ vectorAsked \in Nat
        /\ \A j \in Axes : /\ Error(j) \in Nat /\ Beyond(j) \in Nat
                          /\ Error(j) <= Beyond(j) + Lost
        /\ SumOfSquares([j \in Axes |-> Beyond(j)]) <= vectorAsked * vectorAsked
    BY <1>1, <1>2, BeyondWithinVector
  <2> DEFINE r == [j \in Axes |-> Error(j)]
             e == [j \in Axes |-> Beyond(j)]
             p == [j \in Axes |-> Lost]
             t == Tolerance(vectorAsked)
  <2>2. t \in Nat /\ Tolerated(vectorAsked) = vectorAsked + t
    BY <2>1, ToleranceType
  <2>3. /\ \A j \in Axes : e[j] \in Nat /\ p[j] \in Nat /\ r[j] \in Nat
        /\ \A j \in Axes : r[j] <= e[j] + p[j]
        /\ SumOfSquares(e) <= vectorAsked * vectorAsked
        /\ r[k] = Error(k)
    BY <1>1, <2>1
  <2>4. ErrorSquares = SumOfSquares(r)
    BY DEF ErrorSquares
  <2>5. ~(SumOfSquares(p) > t * t)
    BY <1>2 DEF Untolerated
  <2> HIDE DEF r, e, p, t
  <2>6. SumOfSquares(e) \in Nat /\ SumOfSquares(p) \in Nat
    BY <2>3, SumOfSquaresType
  <2>7. SumOfSquares(p) <= t * t
    <3>1. t * t \in Nat
      BY <2>2, SquareType
    <3> QED BY <2>5, <2>6, <3>1
  <2>8. WithinVector(SumOfSquares(e), SumOfSquares(p), vectorAsked + t)
    BY <2>1, <2>2, <2>3, <2>6, <2>7, BoundsAddUp
  <2> DEFINE m == Tolerated(vectorAsked)
  <2>9. m \in Nat /\ m = vectorAsked + t
    BY <2>1, <2>2
  <2> HIDE DEF m
  <2>10. WithinVector(SumOfSquares(e), SumOfSquares(p), m)
    BY <2>8, <2>9
  <2>11. SumOfSquares(r) <= m * m
    BY <2>3, <2>9, <2>10, VectorsAddUp
  <2>12. r[k] <= m
    BY <2>3, <2>9, <2>11, ComponentWithinVector
  <2> QED BY <1>2, <2>3, <2>4, <2>11, <2>12 DEF Judgement, Effective, m
<1>3. ASSUME codec # "xnyzip", Effective(k) \in Int, Error(k) \in Int,
             Error(k) <= Effective(k) + Lost
      PROVE  Judgement(k)
  <2> DEFINE t == Tolerance(Effective(k))
             m == Effective(k)
  <2>1. t \in Nat /\ Tolerated(m) = m + t
    BY <1>3, ToleranceType
  <2>2. ~(Lost > t)
    BY <1>3 DEF Untolerated
  <2>3. m \in Int /\ Error(k) <= m + Lost
    BY <1>3
  <2> HIDE DEF t, m
  <2>4. Error(k) <= Tolerated(m)
    BY <1>1, <1>3, <2>1, <2>2, <2>3
  <2> QED BY <1>3, <2>4 DEF Judgement, m
<1>4. CASE codec = "pcodec"
  <2>1. mode = "lossless" /\ bound = Zero /\ prepared = source /\ restored = source[row]
    BY <1>1, <1>4 DEF VerdictInv, LosslessInv
  <2>2. Error(k) = 0
    <3>1. restored[k] = source[row][k] /\ source[row][k] \in Int
      BY <1>1, <2>1
    <3> QED BY <3>1 DEF Error, Abs
  <2>3. cast[k] = 0
    BY <1>1, <1>4 DEF BudgetInv, PreparedInv, IsCast, SourceInv, Prepares
  <2>4. Effective(k) = bound[k] + Allowance(k) + Rounding
    BY <1>4, <2>1 DEF Effective
  <2>5. Effective(k) \in Nat
    BY <1>1, <2>1, <2>3, <2>4 DEF Allowance, Zero
  <2> QED BY <1>1, <1>3, <1>4, <2>2, <2>5
<1>5. CASE Bounding
  <2>1. /\ codec # "xnyzip" /\ codec # "pcodec" /\ mode \in {"relative", "absolute"}
        /\ Given(k) <= bound[k] /\ Given(k) <= Remaining(k, cast) /\ Given(k) \in Int
        /\ restored[k] \in Int /\ Error(k) <= Given(k) + cast[k] + (Rounding + Lost)
        /\ requested[k] \in Int /\ bound[k] \in Int /\ cast[k] \in Int
    BY <1>1, <1>5
       DEF Bounding, BudgetInv, RequestInv, PreparedInv, RestoredInv, VerdictInv, GivenInv,
       Given, Prepares
  <2>2. Error(k) \in Nat
    BY <1>1, <2>1, AbsType DEF Error
  <2>3. CASE mode = "relative"
    <3>1. requested[k] >= (IF group = "positions" THEN Preparation(k, cast) ELSE Allowance(k))
      <4>1. ~(requested[k] < (IF group = "positions" THEN Preparation(k, cast)
                              ELSE Allowance(k)))
        BY <2>1, <2>3 DEF Exhausted
      <4> QED BY <1>1, <2>1, <4>1 DEF Preparation, Allowance
    <3>2. Error(k) <= requested[k] + Lost
      BY <1>1, <1>5, <2>3, <3>1, RequestsKept DEF RequestKept, Bounding
    <3>3. Effective(k) = requested[k]
      BY <2>1, <2>3 DEF Effective
    <3> QED BY <1>3, <2>1, <2>2, <3>2, <3>3
  <2>4. CASE mode = "absolute"
    <3>1. Effective(k) = bound[k] + Allowance(k) + Rounding
      BY <2>1, <2>4 DEF Effective
    <3>2. Allowance(k) = cast[k]
      <4>1. CASE group = "positions" \/ codec = "lcp"
        BY <4>1 DEF Allowance
      <4>2. CASE ~(group = "positions" \/ codec = "lcp")
        <5>1. ~IsCast
          BY <4>2, <1>5 DEF Bounding, IsCast
        <5>2. cast[k] = 0
          BY <5>1, <1>1 DEF BudgetInv, PreparedInv, Prepares
        <5> QED BY <4>2, <5>2 DEF Allowance
      <4> QED BY <4>1, <4>2
    <3>3. Effective(k) \in Int /\ Error(k) <= Effective(k) + Lost
      BY <1>1, <2>1, <2>2, <3>1, <3>2
    <3> QED BY <1>3, <2>1, <2>2, <3>3
  <2> QED BY <2>1, <2>3, <2>4
<1> QED BY <1>2, <1>4, <1>5 DEF Bounding, BudgetInv, SourceInv

(* VerdictFair holds in every state, for all values and bounds.            *)
THEOREM VerdictsAreFair == Spec => []VerdictFair
BY VerdictsFair, VerdictInvariant, PTL
===============================================================================
