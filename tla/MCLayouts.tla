------------------------------ MODULE MCLayouts -------------------------------
(* TLC instance of how particles are laid out and packed: the residual of  *)
(* a position, the dense box, the search of its axes, and the order        *)
(* sidecars of LCP blocks.  They share no state: `part` says which of them *)
(* a behaviour is about, the variables of the others are idle.             *)
(*                                                                         *)
(* Positions inside a box of 24 and outside of it; cells of two planes of  *)
(* a 5 x 5 x 5 lattice, an ID that only fits base 1, and one that fits     *)
(* neither; boxes of three different and of two equal lengths; blocks of   *)
(* one to five rows, which need zero to three bits a row.                  *)
EXTENDS LatticeResidual, TLC

CONSTANTS None, BoxSide, BoxIds, MaxParticles, MinDense, Occupancy, Shapes, Sizes, Lengths,
          N, BlockIds, WordBits

VARIABLES
  part,
  ids, base, starts, indices, dense, next, index, loaded,
  search, permutation, flips, tried, best, selected, selectedFlips, metadata,
  written, counts, blocks, packed, block, bit,
  damage, shape, taken, phase

boxOnlyVars == <<base, starts, indices, dense, next, loaded>>
boxVars == <<boxOnlyVars, ids, index>>
searchVars == <<search, permutation, flips, tried, best, selected, selectedFlips, metadata>>
blockVars == <<written, counts, blocks, packed, block, bit>>
packVars == <<blockVars, damage>>
layoutVars == <<vars, part, boxVars, searchVars, packVars, shape, taken, phase>>

Box == INSTANCE LatticeBox
         WITH Side <- BoxSide, Ids <- BoxIds, out <- taken, stage <- phase
Search == INSTANCE ShapedSearch WITH out <- taken, stage <- phase
Blocks == INSTANCE BlockwiseOrder WITH out <- taken, stage <- phase

ASSUME LayoutsAssumption ==
  /\ Box!LatticeAssumption
  /\ Search!ShapedAssumption
  /\ Blocks!BlockwiseAssumption

ResidualIdle ==
  /\ value = None /\ site = None /\ requested = None /\ transformed = None
  /\ wrap = None /\ residual = None /\ error = None /\ bound = None
  /\ returned = None /\ out = None /\ stage = None
BoxOnlyIdle ==
  /\ base = None /\ starts = None /\ indices = None /\ dense = None
  /\ next = None /\ loaded = None
BoxIdle == BoxOnlyIdle /\ ids = None /\ index = None
SearchIdle ==
  /\ search = None /\ permutation = None /\ flips = None /\ tried = None
  /\ best = None /\ selected = None /\ selectedFlips = None /\ metadata = None

BlocksIdle ==
  /\ written = None /\ counts = None /\ blocks = None /\ packed = None
  /\ block = None /\ bit = None
PackIdle == BlocksIdle /\ damage = None

LayoutInit ==
  \/ /\ part = "residual" /\ Init
     /\ BoxIdle /\ SearchIdle /\ PackIdle
     /\ shape = None /\ taken = None /\ phase = None
  \/ part = "box" /\ Box!Init /\ ResidualIdle /\ SearchIdle /\ PackIdle
  \/ part = "search" /\ Search!Init /\ ResidualIdle /\ BoxIdle /\ PackIdle
  \/ /\ part = "blocks" /\ Blocks!Init
     /\ ResidualIdle /\ BoxOnlyIdle /\ SearchIdle /\ shape = None

LayoutNext ==
  \/ /\ part = "residual" /\ Next
     /\ UNCHANGED <<part, boxVars, searchVars, packVars, shape, taken, phase>>
  \/ part = "box" /\ Box!Next /\ UNCHANGED <<part, vars, searchVars, packVars>>
  \/ part = "search" /\ Search!Next /\ UNCHANGED <<part, vars, boxVars, packVars>>
  \/ /\ part = "blocks" /\ Blocks!Next
     /\ UNCHANGED <<part, vars, boxOnlyVars, searchVars, shape>>

LayoutSpec == LayoutInit /\ [][LayoutNext]_layoutVars

(* ---- the values of the constants -------------------------------------- *)

MCValues == {v \in -40..80 : v % 3 = 0}
PlaneIds == {25 * a + 5 * b : a \in 0..4, b \in 0..1} \cup {125, 126}
BoxShape(a, b, c) == (0 :> a) @@ (1 :> b) @@ (2 :> c)
MCShapes == {BoxShape(1, 3, 2), BoxShape(2, 1, 2)}

(* ---- what is checked -------------------------------------------------- *)

(* LatticeKept and ResidualShort of LatticeResidual are checked as they    *)
(* are: they name stages that an idle part never has.                      *)

(* LatticeBox: layout.cpp:172, the smallest box that holds every cell.     *)
BoxSmallest == part = "box" => Box!BoxSmallest

(* LatticeBox: layout.cpp:196, 258, 280, what goes into the box comes out  *)
(* of it, and holes lie between their neighbours.                          *)
FieldKept == part = "box" => Box!FieldKept

(* ShapedSearch: shaped.cpp:58-85, the smallest stream wins, its values    *)
(* come back, and accepted damage loses none.                              *)
ShapedKept == part = "search" => Search!ShapedKept

(* BlockwiseOrder: triplets.cpp:318-341, every particle is restored once,  *)
(* and to its own row from intact sidecars.                                *)
OrderKept == part = "blocks" => Blocks!TypeOK /\ Blocks!OrderKept
===============================================================================
