------------------------------ MODULE SpaceCurves ------------------------------
(***************************************************************************)
(* The space-filling curves of src/layout.cpp: the structured layout       *)
(* stores a particle ID as its place on a Hilbert curve and decodes the ID *)
(* from it (hilbert_ids).  A walk goes along the whole curve: every code   *)
(* is decoded to an ID, and that ID is encoded again.                      *)
(***************************************************************************)
EXTENDS Integers, FiniteSetsExt, Bitwise

CONSTANTS
  Sides,   (* the lattice sides, 2 to 1024                                 *)
  None     (* no ID                                                        *)

SpaceCurvesAssumption == Sides \subseteq 2..1024 /\ None \notin Int

Axes == 0..2
Permutations == {f \in [Axes -> Axes] : \A i, j \in Axes : f[i] = f[j] => i = j}

VARIABLES
  side, base, axes,   (* the structured metadata                           *)
  code,     (* the place on the curve                                      *)
  point,    (* the lattice point there                                     *)
  id,       (* the particle ID there, None if it is outside the lattice    *)
  back,     (* the code of that ID                                         *)
  last,     (* the point of the place before                               *)
  found,    (* how many codes had an ID so far                             *)
  stage

metadata == <<side, base, axes>>
vars == <<metadata, code, point, id, back, last, found, stage>>

(* std::bit_width(side - 1)                                                *)
LatticeBits == CHOOSE b \in 1..10 : 2 ^ b >= side /\ 2 ^ (b - 1) < side

Capacity == 2 ^ (3 * LatticeBits)

Init ==
  /\ side \in Sides /\ base \in {0, 1} /\ axes \in Permutations
  /\ code = 0 /\ found = 0
  /\ point = None /\ id = None /\ back = None /\ last = None
  /\ stage = "decode"

-------------------------------------------------------------------------------
(* Bits b of the three coordinates lie together in a Morton code.          *)
morton(c) ==
  MapThenSumSet(LAMBDA x : ((c[x[1]] \div 2 ^ x[2]) % 2) * 2 ^ (3 * x[2] + x[1]),
                Axes \X (0..9))

unmorton(m) ==
  [k \in Axes |-> MapThenSumSet(LAMBDA b : ((m \div 2 ^ (3 * b + k)) % 2) * 2 ^ b, 0..9)]

(* The masks of layout.cpp:49-60.  A code has 30 bits at most, so that bit *)
(* 31 of 0x92492492 is left out.                                           *)
GrayMask == 306783378      (* 0x12492492 *)
MTable == 539041825        (* 0x20212021 *)
SignTable == 1398145792    (* 0x53560300 *)
ShiftTable == 72           (* 0x48       *)

Doubled(x) == x | (x * 8)

(* The mistake: the transform between Gray and binary digits that belongs  *)
(* to the other direction.                                                 *)
GrayInSwapped(v) == LET w == v ^^ ((v \div 2) & GrayMask) IN w ^^ ((w & GrayMask) \div 2)
GrayIn(v) == LET w == v ^^ ((v & GrayMask) \div 2) IN w ^^ ((w \div 2) & GrayMask)
GrayOut(v) == LET w == v ^^ ((v \div 2) & GrayMask) IN w ^^ ((w & GrayMask) \div 2)

(* One pass of `while (block)`: s holds v, h, shift and sign.              *)
Pass(s, block, inverse) ==
  LET wide == s.h * 4
      turn == (MTable \div 2 ^ wide) & 3
      shift == (ShiftTable \div 2 ^ (IF inverse THEN 4 - s.shift + turn
                                              ELSE 7 - s.shift - turn)) & 3
      sign == ((Doubled(s.sign) \div 2 ^ turn) ^^ (SignTable \div 2 ^ wide)) & 7
      digit == (s.v \div 2 ^ block) & 7
      turned == IF inverse THEN (Doubled(digit ^^ sign) \div 2 ^ shift) & 7
                           ELSE ((Doubled(digit) \div 2 ^ shift) & 7) ^^ sign
  IN  [v |-> s.v ^^ ((digit ^^ turned) * 2 ^ block),
       h |-> IF inverse THEN digit ELSE turned, shift |-> shift, sign |-> sign]

(* Passes[n]: after the n-th block below the first.                        *)
hilbert(v, bits, inverse) ==
  LET w == IF inverse THEN GrayIn(v) ELSE v
      Passes[n \in 0..(bits - 1)] ==
        IF n = 0 THEN [v |-> w, h |-> (w \div 2 ^ (3 * bits - 3)) & 7, shift |-> 0, sign |-> 0]
                 ELSE Pass(Passes[n - 1], 3 * (bits - 1 - n), inverse)
      u == Passes[bits - 1].v
  IN  IF inverse THEN u ELSE GrayOut(u)

-------------------------------------------------------------------------------
(* hilbert_ids, inverse                                                    *)

(* The mistake: a coordinate may be the side itself.                       *)
InLatticeInclusive(c) == \A k \in Axes : c[k] <= side
InLattice(c) == \A k \in Axes : c[k] < side

(* digits[axes[k]] = physical[k], and the mistake of the other direction.  *)
DigitsAsEncoded(c) == [k \in Axes |-> c[axes[k]]]
Digits(c) == [a \in Axes |-> c[CHOOSE k \in Axes : axes[k] = a]]

Decode ==
  /\ stage = "decode" /\ code < Capacity
  /\ point' = unmorton(hilbert(code, LatticeBits, TRUE))
  /\ IF InLattice(point')
       THEN LET d == Digits(point') IN
            /\ id' = (d[0] * side + d[1]) * side + d[2] + base
            /\ found' = found + 1
            /\ stage' = "encode"
       ELSE /\ id' = None
            /\ stage' = "advance"
            /\ UNCHANGED found
  /\ UNCHANGED <<metadata, code, back, last>>

(* coordinates(a.number(i), side, base)                                    *)
Coordinates ==
  LET v == id - base
  IN  [k \in Axes |-> CASE k = 0 -> v \div (side * side)
                        [] k = 1 -> (v \div side) % side
                        [] k = 2 -> v % side]

(* hilbert_ids, forward                                                    *)
Encode ==
  /\ stage = "encode"
  /\ LET digits == Coordinates
         physical == [k \in Axes |-> digits[axes[k]]]
     IN  back' = hilbert(morton(physical), LatticeBits, FALSE)
  /\ stage' = "advance"
  /\ UNCHANGED <<metadata, code, point, id, last, found>>

Advance ==
  /\ stage = "advance"
  /\ code' = code + 1
  /\ last' = point
  /\ point' = None /\ id' = None /\ back' = None
  /\ stage' = "decode"
  /\ UNCHANGED <<metadata, found>>

(* "Hilbert code exceeds capacity"                                         *)
WalkDone == stage = "decode" /\ code = Capacity /\ UNCHANGED vars

Next == Decode \/ Encode \/ Advance \/ WalkDone

Spec == Init /\ [][Next]_vars

-------------------------------------------------------------------------------
(* Properties.                                                             *)

(* layout.cpp:323, 329: the two directions of the loop at line 54 are      *)
(* inverse to each other on every code and for every order of the axes.    *)
CodesInvert == back # None => back = code

(* layout.cpp:332, 326: every ID of the lattice has a code, which is       *)
(* neither refused for its place nor for its capacity, also where the side *)
(* is no power of two and the curve leaves the lattice in between.         *)
EveryIdHasACode ==
  /\ code = Capacity => found = side * side * side
  /\ id # None => id \in base..(base + side * side * side - 1)

Distance(a, b) == IF a < b THEN b - a ELSE a - b

(* layout.cpp:45: the curve goes to a neighbouring point at every step,    *)
(* which is why codes of close particles are close.                        *)
CurveUnbroken ==
  point # None /\ last # None =>
    MapThenSumSet(LAMBDA k : Distance(point[k], last[k]), Axes) = 1

(* The curve visits every ID of the lattice once, in small steps.          *)
CurveComplete == CodesInvert /\ EveryIdHasACode /\ CurveUnbroken
===============================================================================
