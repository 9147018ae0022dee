------------------------------ MODULE FileProofs ------------------------------
(***************************************************************************)
(* What lies in a package, the sizes it is reported with, the fields of a  *)
(* file, the rows of one or of many, and the numbers of a batch, for all   *)
(* values of the constants.                                                *)
(* Each part of MCFiles keeps an invariant of its own; the other parts     *)
(* never touch its variables.                                              *)
(***************************************************************************)
EXTENDS MCFiles, Sequences, FiniteSetTheorems, WellFoundedInduction, TLAPS

(* ---- natural numbers -------------------------------------------------- *)

(* A set of natural numbers has a least element.                           *)
LEMMA LeastNatural ==
  ASSUME NEW T, T \subseteq Nat, T # {}
  PROVE  \E n \in T : \A m \in T : n <= m
<1>1. \E n \in T : \A m \in T : ~(<<m, n>> \in OpToRel(<, Nat))
  BY WFMin, NatLessThanWellFounded, Zenon
<1>2. \A n, m \in T : m < n => <<m, n>> \in OpToRel(<, Nat)
  BY DEF OpToRel
<1>3. PICK n \in T : \A m \in T : ~(m < n)
  BY <1>1, <1>2, Zenon
<1> QED BY <1>3

(* Finitely many natural numbers have a bound: if the first k of them are  *)
(* the fewest without one, the first k - 1 have it.                        *)
LEMMA FiniteIsBounded ==
  ASSUME NEW S, S \subseteq Nat, IsFiniteSet(S)
  PROVE  \E m \in Nat : \A s \in S : s <= m
<1>1. PICK n \in Nat : ExistsBijection(1..n, S)
  BY FS_NatBijection
<1>2. PICK f \in [1..n -> S] : \A s \in S : \E j \in 1..n : f[j] = s
  BY <1>1 DEF ExistsBijection, Bijection, Surjection
<1>n. n \in Nat /\ \A j \in 1..n : f[j] \in Nat
  <2>1. f \in [1..n -> S]
    BY <1>2
  <2> QED BY <1>1, <2>1
<1> DEFINE Bounded(k) == \E m \in Nat : \A j \in 1..k : f[j] <= m
           T == {k \in 0..n : ~Bounded(k)}
<1>3. T = {}
  <2> SUFFICES ASSUME T # {} PROVE FALSE
    OBVIOUS
  <2>1. T \subseteq Nat
    BY <1>n
  <2>0. Bounded(0)
    <3>1. 0 \in Nat /\ \A j \in 1..0 : f[j] <= 0
      OBVIOUS
    <3> QED BY <3>1
  <2>t. \A k : k \in T <=> k \in 0..n /\ ~Bounded(k)
    OBVIOUS
  <2> HIDE DEF T, Bounded
  <2>2. PICK k \in T : \A l \in T : k <= l
    BY <2>1, LeastNatural
  <2>3. k \in 0..n /\ ~Bounded(k)
    BY <2>2, <2>t
  <2>4. k # 0
    BY <2>0, <2>3
  <2>5. k - 1 \in 0..n /\ k - 1 \notin T
    BY <2>2, <2>3, <2>4, <1>n
  <2>b. Bounded(k - 1)
    BY <2>5, <2>t
  <2>6. PICK m \in Nat : \A j \in 1..(k - 1) : f[j] <= m
    BY <2>b DEF Bounded
  <2>7. k \in 1..n /\ f[k] \in Nat
    BY <2>3, <2>4, <1>n
  <2>8. \A j \in 1..k : f[j] \in Nat /\ f[j] <= m + f[k]
    <3> TAKE j \in 1..k
    <3>1. j \in 1..n /\ f[j] \in Nat
      BY <2>7, <1>n
    <3>2. j = k \/ j \in 1..(k - 1)
      BY <2>7
    <3> QED BY <2>6, <2>7, <3>1, <3>2
  <2>9. m + f[k] \in Nat
    BY <2>6, <2>7
  <2> QED BY <2>3, <2>8, <2>9 DEF Bounded
<1>4. Bounded(n)
  <2>1. \A k \in 0..n : Bounded(k)
    BY <1>3
  <2>2. n \in 0..n
    BY <1>n
  <2> HIDE DEF Bounded
  <2> QED BY <2>1, <2>2
<1> QED BY <1>2, <1>4

LEMMA LargestOfFinite ==
  ASSUME NEW S, S \subseteq Nat, S # {}, IsFiniteSet(S)
  PROVE  \E n \in S : \A s \in S : s <= n
<1> DEFINE T == {m \in Nat : \A s \in S : s <= m}
<1>1. T # {} /\ T \subseteq Nat
  BY FiniteIsBounded
<1>2. PICK n \in T : \A m \in T : n <= m
  BY <1>1, LeastNatural
<1>3. n \in S
  <2> SUFFICES ASSUME n \notin S PROVE FALSE
    OBVIOUS
  <2>1. \A s \in S : s \in Nat /\ s <= n /\ s # n
    BY <1>2
  <2>0. \E s \in S : TRUE
    OBVIOUS
  <2>2. n \in Nat /\ n # 0
    BY <2>0, <2>1, <1>2
  <2>3. n - 1 \in T
    BY <1>2, <2>1, <2>2
  <2> QED BY <1>2, <2>3
<1> QED BY <1>2, <1>3

-------------------------------------------------------------------------------
(* ---- the manifest that lists its own size ----------------------------- *)

Known == DOMAIN lengths

(* The rounds are a walk along `lengths`: each one lists the size the last *)
(* one measured.  Either the size is new, and so many sizes are known as   *)
(* there were rounds, or the walk has come back to one it knows.           *)
WalkInv ==
  /\ IsFiniteSet(Known)
  /\ \A s \in Known : lengths[s] # s /\ lengths[s] \in Known \cup {component}
  /\ component \in Known \/ Cardinality(Known) = round

(* What the last round left.                                               *)
RoundInv ==
  round > 0 => /\ listed \in Known /\ lengths[listed] = component
               /\ listed # component /\ component \in Sizes
               /\ sum = others + listed
               /\ round > 1 => listed \in Sizes

SettledInv ==
  /\ listed \in Known /\ lengths[listed] = listed
  /\ sum = others + listed
  /\ round < MaxRounds

SizeInv ==
  /\ Own!TypeOK
  /\ round = 0 => component = 0
  /\ stage = "sizing" => WalkInv /\ RoundInv
  /\ stage = "settled" => SettledInv
  /\ stage = "given_up" => WalkInv /\ RoundInv /\ round = MaxRounds
  /\ stage = "written" =>
       \/ SettledInv /\ length = listed
       \/ RoundInv /\ round = MaxRounds /\ length = component

(* ManifestSize speaks of finite sets as this module does.                 *)
LEMMA SameFinite == \A S : Own!IsFiniteSet(S) <=> IsFiniteSet(S)
BY DEF Own!IsFiniteSet, IsFiniteSet

LEMMA SameCardinality == \A S : Own!Cardinality(S) = Cardinality(S)
BY DEF Own!Cardinality, Cardinality

LEMMA SizesAssumed ==
  /\ Others \subseteq Nat
  /\ Sizes \subseteq Nat \ {0} /\ Sizes # {} /\ IsFiniteSet(Sizes)
  /\ MaxRounds \in Nat /\ MaxRounds > 1
<1>1. Own!ManifestSizeAssumption
  BY FilesAssumption
<1>2. MaxRounds \in Nat \ {0, 1}
  BY <1>1 DEF Own!ManifestSizeAssumption
<1>3. MaxRounds \in Nat /\ MaxRounds > 1
  BY <1>2
<1>4. Others \subseteq Nat
  BY <1>1 DEF Own!ManifestSizeAssumption
<1>5. Sizes \subseteq Nat \ {0} /\ Sizes # {} /\ IsFiniteSet(Sizes)
  BY <1>1, SameFinite DEF Own!ManifestSizeAssumption
<1> QED BY <1>3, <1>4, <1>5

LEMMA SizeInit == Own!Init => SizeInv
<1> SUFFICES ASSUME Own!Init PROVE SizeInv
  OBVIOUS
<1>1. /\ others \in Others /\ lengths = [s \in {} |-> 0] /\ round = 0 /\ component = 0
      /\ listed = 0 /\ sum = 0 /\ length = 0 /\ stage = "sizing"
  BY DEF Own!Init
<1>2. Known = {}
  BY <1>1 DEF Known
<1>3. WalkInv
  BY <1>1, <1>2, FS_EmptySet DEF WalkInv
<1>4. Own!TypeOK
  BY <1>1, <1>2, SizesAssumed DEF Own!TypeOK, Known
<1> QED BY <1>1, <1>3, <1>4 DEF SizeInv, RoundInv

(* What a round makes of the known lengths.                                *)
LEMMA RenderedEffect ==
  ASSUME SizeInv, stage = "sizing", listed' = component,
         NEW rendered \in Sizes, Own!Rendered(rendered)
  PROVE  /\ Known' = Known \cup {component}
         /\ lengths'[component] = rendered
         /\ \A s \in Known : lengths'[s] = lengths[s]
         /\ component \in Known => lengths' = lengths /\ rendered = lengths[component]
<1>1. CASE component \in DOMAIN lengths
  BY <1>1 DEF Own!Rendered, Known
<1>2. CASE component \notin DOMAIN lengths
  <2>1. lengths' = [s \in DOMAIN lengths \cup {component} |->
                      IF s = component THEN rendered ELSE lengths[s]]
    BY <1>2 DEF Own!Rendered
  <2> QED BY <2>1, <1>2 DEF Known
<1> QED BY <1>1, <1>2

LEMMA SizeSettle == SizeInv /\ Own!Settle => SizeInv'
<1> SUFFICES ASSUME SizeInv, Own!Settle PROVE SizeInv'
  OBVIOUS
<1>1. PICK rendered \in Sizes : Own!Rendered(rendered) /\ Own!Agrees(rendered)
  BY DEF Own!Settle
<1>2. /\ stage = "sizing" /\ round < MaxRounds /\ listed' = component
      /\ sum' = others + component /\ stage' = "settled"
      /\ UNCHANGED <<others, round, component, length>>
  BY DEF Own!Settle, Own!Rounds, Own!Total
<1>3. rendered = component
  BY <1>1 DEF Own!Agrees
<1>4. /\ Known' = Known \cup {component} /\ lengths'[component] = rendered
      /\ \A s \in Known : lengths'[s] = lengths[s]
  BY <1>1, <1>2, RenderedEffect
<1>5. Own!TypeOK'
  <2>1. DOMAIN lengths' = DOMAIN lengths \cup {component}
    BY <1>4 DEF Known
  <2>2. others + component \in Nat
    BY SizesAssumed DEF SizeInv, Own!TypeOK
  <2> QED BY <1>2, <1>3, <1>4, <2>1, <2>2 DEF SizeInv, Own!TypeOK, Known
<1>6. SettledInv'
  BY <1>2, <1>3, <1>4 DEF SettledInv
<1> QED BY <1>2, <1>5, <1>6 DEF SizeInv

LEMMA SizeRound == SizeInv /\ Own!Round => SizeInv'
<1> SUFFICES ASSUME SizeInv, Own!Round PROVE SizeInv'
  OBVIOUS
<1>1. PICK rendered \in Sizes :
        Own!Rendered(rendered) /\ ~Own!Agrees(rendered) /\ component' = rendered
  BY DEF Own!Round
<1>2. /\ stage = "sizing" /\ round < MaxRounds /\ listed' = component
      /\ sum' = others + component /\ round' = round + 1 /\ stage' = "sizing"
      /\ UNCHANGED <<others, length>>
  BY DEF Own!Round, Own!Rounds, Own!Total
<1>3. rendered # component
  BY <1>1 DEF Own!Agrees
<1>4. /\ Known' = Known \cup {component} /\ lengths'[component] = rendered
      /\ \A s \in Known : lengths'[s] = lengths[s]
      /\ component \in Known => lengths' = lengths /\ rendered = lengths[component]
  BY <1>1, <1>2, RenderedEffect
<1>5. round \in Nat /\ round' \in 0..MaxRounds
  BY <1>2, SizesAssumed DEF SizeInv, Own!TypeOK
<1>6. Own!TypeOK'
  <2>1. DOMAIN lengths' = DOMAIN lengths \cup {component}
    BY <1>4 DEF Known
  <2>2. others + component \in Nat
    BY SizesAssumed DEF SizeInv, Own!TypeOK
  <2> QED BY <1>1, <1>2, <1>4, <1>5, <2>1, <2>2 DEF SizeInv, Own!TypeOK, Known
<1>7. WalkInv'
  <2>0. WalkInv
    BY <1>2 DEF SizeInv
  <2>1. IsFiniteSet(Known')
    BY <2>0, <1>4, FS_AddElement DEF WalkInv
  <2>2. \A s \in Known' : lengths'[s] # s /\ lengths'[s] \in Known' \cup {component'}
    <3> TAKE s \in Known'
    <3>1. CASE s \in Known
      BY <3>1, <2>0, <1>4 DEF WalkInv
    <3>2. CASE s = component
      BY <3>2, <1>1, <1>3, <1>4
    <3> QED BY <3>1, <3>2, <1>4
  <2>3. component' \in Known' \/ Cardinality(Known') = round'
    <3>1. CASE component \in Known
      BY <3>1, <2>0, <1>1, <1>4 DEF WalkInv
    <3>2. CASE component \notin Known
      BY <3>2, <2>0, <1>2, <1>4, FS_AddElement DEF WalkInv
    <3> QED BY <3>1, <3>2
  <2> QED BY <2>1, <2>2, <2>3 DEF WalkInv
<1>8. RoundInv'
  <2>1. round' > 1 => component \in Sizes
    BY <1>2, <1>5 DEF SizeInv, RoundInv
  <2> QED BY <1>1, <1>2, <1>3, <1>4, <2>1 DEF RoundInv
<1> QED BY <1>2, <1>5, <1>6, <1>7, <1>8 DEF SizeInv

LEMMA SizeOthers ==
  SizeInv /\ (Own!GiveUp \/ Own!Write \/ UNCHANGED Own!vars) => SizeInv'
<1> SUFFICES ASSUME SizeInv PROVE Own!GiveUp \/ Own!Write \/ UNCHANGED Own!vars => SizeInv'
  OBVIOUS
<1>1. ASSUME UNCHANGED <<others, lengths, round, component, listed, sum>>
      PROVE  /\ Known' = Known /\ WalkInv' = WalkInv /\ RoundInv' = RoundInv
             /\ SettledInv' = SettledInv
  BY <1>1 DEF Known, WalkInv, RoundInv, SettledInv
<1>2. ASSUME Own!GiveUp PROVE SizeInv'
  <2>1. /\ stage = "sizing" /\ round = MaxRounds /\ stage' = "given_up"
        /\ UNCHANGED <<others, lengths, round, component, listed, sum, length>>
    BY <1>2 DEF Own!GiveUp, Own!Rounds
  <2>2. Own!TypeOK'
    BY <2>1 DEF SizeInv, Own!TypeOK
  <2> QED BY <2>1, <2>2, <1>1 DEF SizeInv
<1>3. ASSUME Own!Write PROVE SizeInv'
  <2>1. /\ stage \in {"settled", "given_up"} /\ stage' = "written"
        /\ length' = lengths[listed]
        /\ UNCHANGED <<others, lengths, round, component, listed, sum>>
    BY <1>3 DEF Own!Write
  <2>2. round = MaxRounds => round > 0
    BY SizesAssumed
  <2>3. \/ stage = "settled" /\ SettledInv /\ length' = listed
        \/ stage = "given_up" /\ RoundInv /\ round = MaxRounds /\ length' = component
    BY <2>1, <2>2 DEF SizeInv, SettledInv, RoundInv
  <2>4. Own!TypeOK'
    <3>1. length' \in Sizes \cup {0}
      BY <2>3 DEF SizeInv, Own!TypeOK
    <3> QED BY <2>1, <3>1 DEF SizeInv, Own!TypeOK
  <2> QED BY <2>1, <2>3, <2>4, <1>1 DEF SizeInv
<1>4. ASSUME UNCHANGED Own!vars PROVE SizeInv'
  <2>1. UNCHANGED <<others, lengths, round, component, listed, sum, length, stage>>
    BY <1>4 DEF Own!vars
  <2>2. Own!TypeOK'
    BY <2>1 DEF SizeInv, Own!TypeOK
  <2> QED BY <2>1, <2>2, <1>1 DEF SizeInv
<1> QED BY <1>2, <1>3, <1>4

LEMMA SizeNext == SizeInv /\ [Own!Next]_Own!vars => SizeInv'
BY SizeSettle, SizeRound, SizeOthers DEF Own!Next, Own!Done

(* The lengths of the text differ by at most `Spread`.                     *)
LEMMA SpreadBounds ==
  Own!Spread \in Nat /\ \A a, b \in Sizes : b - a <= Own!Spread
<1> DEFINE most == CHOOSE n \in Sizes : \A s \in Sizes : s <= n
<1>1. PICK high \in Sizes : \A s \in Sizes : s <= high
  BY SizesAssumed, LargestOfFinite
<1>2. PICK low \in Sizes : \A s \in Sizes : low <= s
  BY SizesAssumed, LeastNatural
<1>3. most \in Sizes /\ \A s \in Sizes : s <= most
  BY <1>1
<1>4. Own!Spread = CHOOSE d \in 0..most : \E a, b \in Sizes :
                     d = b - a /\ \A s \in Sizes : a <= s /\ s <= b
  BY DEF Own!Spread
<1> HIDE DEF most
<1>5. /\ high - low \in 0..most
      /\ \E a, b \in Sizes : high - low = b - a /\ \A s \in Sizes : a <= s /\ s <= b
  BY <1>1, <1>2, <1>3, SizesAssumed
<1>6. /\ Own!Spread \in 0..most
      /\ \E a, b \in Sizes : Own!Spread = b - a /\ \A s \in Sizes : a <= s /\ s <= b
  BY <1>4, <1>5
<1>7. PICK a \in Sizes, b \in Sizes : Own!Spread = b - a /\ \A s \in Sizes : a <= s /\ s <= b
  BY <1>6
<1>8. \A u, v \in Sizes : v - u <= b - a
  BY <1>7, SizesAssumed
<1> QED BY <1>3, <1>6, <1>7, <1>8, SizesAssumed

LEMMA SizesFollow == SizeInv => Own!SizesTrue
<1> SUFFICES ASSUME SizeInv PROVE Own!SizesTrue
  OBVIOUS
<1>1. Own!SettledIsExact
  BY SizesAssumed DEF Own!SettledIsExact, SizeInv, SettledInv, Own!TypeOK
<1>2. Own!RecordedNearActual
  <2> SUFFICES ASSUME stage = "written"
               PROVE  /\ sum - (others + length) <= Own!Spread
                      /\ (others + length) - sum <= Own!Spread
    BY DEF Own!RecordedNearActual
  <2>1. others \in Nat
    BY SizesAssumed DEF SizeInv, Own!TypeOK
  <2>2. CASE SettledInv /\ length = listed
    <3>1. sum = others + length /\ length \in Nat
      BY <2>2, SizesAssumed DEF SettledInv, SizeInv, Own!TypeOK
    <3> QED BY <2>1, <3>1, SpreadBounds
  <2>3. CASE RoundInv /\ round = MaxRounds /\ length = component
    <3>1. sum = others + listed /\ listed \in Sizes /\ length \in Sizes
      BY <2>3, SizesAssumed DEF RoundInv
    <3>2. listed \in Nat /\ length \in Nat
      BY <3>1, SizesAssumed
    <3>3. listed - length <= Own!Spread /\ length - listed <= Own!Spread
      BY <3>1, SpreadBounds
    <3> QED BY <2>1, <3>1, <3>2, <3>3, SpreadBounds
  <2> QED BY <2>2, <2>3 DEF SizeInv
<1>3. Own!GivesUpInCycle
  <2> SUFFICES ASSUME stage = "given_up", Cardinality(Sizes) + 1 < MaxRounds
               PROVE  /\ component \in DOMAIN lengths
                      /\ \A s \in DOMAIN lengths :
                           lengths[s] # s /\ lengths[s] \in DOMAIN lengths
    BY SameCardinality DEF Own!GivesUpInCycle
  <2>1. WalkInv /\ round = MaxRounds
    BY DEF SizeInv
  <2>2. Known \subseteq Sizes \cup {0}
    BY DEF SizeInv, Own!TypeOK, Known
  <2>3. IsFiniteSet(Sizes \cup {0}) /\ Cardinality(Sizes \cup {0}) <= Cardinality(Sizes) + 1
    <3>1. /\ IsFiniteSet(Sizes \cup {0}) /\ Cardinality(Sizes) \in Nat
          /\ 0 \notin Sizes => Cardinality(Sizes \cup {0}) = Cardinality(Sizes) + 1
      BY SizesAssumed, FS_AddElement, FS_CardinalityType
    <3>2. 0 \notin Sizes
      BY SizesAssumed
    <3> QED BY <3>1, <3>2
  <2>4. Cardinality(Known) <= Cardinality(Sizes \cup {0})
    BY <2>2, <2>3, FS_Subset
  <2>5. /\ Cardinality(Known) \in Nat /\ Cardinality(Sizes) \in Nat
        /\ Cardinality(Sizes \cup {0}) \in Nat
    BY <2>1, <2>3, SizesAssumed, FS_CardinalityType DEF WalkInv
  <2>6. Cardinality(Known) # MaxRounds
    BY <2>3, <2>4, <2>5, SizesAssumed
  <2>7. component \in Known
    BY <2>1, <2>6 DEF WalkInv
  <2> QED BY <2>1, <2>7 DEF WalkInv, Known
<1> QED BY <1>1, <1>2, <1>3 DEF Own!SizesTrue

(* Of the size of its own manifest a package records what is on disk, or a *)
(* size that differs from it by no more than the lengths of the text do;   *)
(* update_sizes gives up only where the sizes repeat without agreeing.     *)
THEOREM SizesStayTrue == Spec => []SizesAreTrue
<1> DEFINE Inv == part = "sizes" => SizeInv
<1>1. Init => Inv
  BY SizeInit DEF Init
<1>2. Inv /\ [Next]_vars => Inv'
  <2> SUFFICES ASSUME Inv, [Next]_vars, part' = "sizes" PROVE SizeInv'
    OBVIOUS
  <2>1. CASE part = "sizes" /\ Own!Next
    BY <2>1, SizeNext
  <2>2. CASE UNCHANGED vars
    <3>1. UNCHANGED Own!vars /\ part' = part
      BY <2>2 DEF vars, packageVars, sizeVars, Own!vars
    <3> QED BY <3>1, SizeNext
  <2> QED BY <2>1, <2>2 DEF Next
<1>3. Inv => SizesAreTrue
  BY SizesFollow DEF SizesAreTrue, SizeInv
<1> HIDE DEF Inv
<1> QED BY <1>1, <1>2, <1>3, PTL DEF Spec

-------------------------------------------------------------------------------
(* ---- the container of chunks ------------------------------------------ *)

LEMMA Offsets ==
  /\ Chunked!WordBytes = 8 /\ Chunked!HeaderBytes = 32 /\ Chunked!EntryBytes = 16
  /\ Chunked!CountAt = 8 /\ Chunked!ChunkAt = 16 /\ Chunked!SegmentsAt = 24
BY DEF Chunked!WordBytes, Chunked!HeaderBytes, Chunked!EntryBytes, Chunked!CountAt,
       Chunked!ChunkAt, Chunked!SegmentsAt

LEMMA ChunksAssumed ==
  /\ MaxCount \in Nat \ {0} /\ Lengths \subseteq Nat \ {0} /\ Modulus \in Nat \ {0}
  /\ \A length_ \in Lengths : 32 + MaxCount * (16 + length_) < Modulus
  /\ Junk \subseteq 0..(Modulus - 1) /\ None \notin Nat
<1>1. Chunked!ChunkContainerAssumption
  BY FilesAssumption
<1> QED BY <1>1, Offsets DEF Chunked!ChunkContainerAssumption

(* The chunks of a stream: `f` tells what is encoded at which offset, the  *)
(* stream ends at `e` and has `rows` rows.  Every payload is followed by   *)
(* the end, or by another entry that goes on where its rows end.           *)
Chain(f, e, rows) ==
  /\ IsFiniteSet(DOMAIN f) /\ DOMAIN f \subseteq Nat /\ e \in Nat /\ rows \in Nat /\ e >= 32
  /\ \A a \in DOMAIN f :
       /\ a >= 48 /\ f[a].first \in Nat /\ f[a].count \in Nat \ {0} /\ f[a].length \in Lengths
       /\ f[a].first + f[a].count <= rows
       /\ f[a].count > chunk => f[a].count % chunk = 0
       /\ a + f[a].length <= e
       /\ IF a + f[a].length = e THEN f[a].first + f[a].count = rows
          ELSE /\ a + f[a].length + 16 \in DOMAIN f
               /\ f[a + f[a].length + 16].first = f[a].first + f[a].count
  /\ \A a, b \in DOMAIN f : a < b => a + f[a].length + 16 <= b
  /\ IF DOMAIN f = {} THEN e = 32 /\ rows = 0 ELSE 48 \in DOMAIN f /\ f[48].first = 0
  /\ Cardinality(DOMAIN f) <= rows

Item(first, many, length_) == [first |-> first, count |-> many, length |-> length_]

(* A chunk, or whole chunks, may be appended.                              *)
LEMMA ChainGrows ==
  ASSUME NEW f, NEW e, NEW rows, Chain(f, e, rows),
         NEW many \in Nat \ {0}, NEW l \in Lengths,
         many > chunk => many % chunk = 0,
         NEW g, g = Chunked!Put(f, e + 16, Item(rows, many, l))
  PROVE  /\ Chain(g, e + 16 + l, rows + many)
         /\ Cardinality(DOMAIN g) = Cardinality(DOMAIN f) + 1
<1> DEFINE new == e + 16
<1>1. /\ e \in Nat /\ rows \in Nat /\ l \in Nat \ {0} /\ e >= 32
      /\ IsFiniteSet(DOMAIN f) /\ DOMAIN f \subseteq Nat /\ Cardinality(DOMAIN f) <= rows
  BY ChunksAssumed DEF Chain
<1>2. \A a \in DOMAIN f :
        /\ a \in Nat /\ a >= 48 /\ f[a].first \in Nat /\ f[a].count \in Nat \ {0}
        /\ f[a].length \in Lengths /\ f[a].length \in Nat \ {0}
        /\ f[a].first + f[a].count <= rows
        /\ f[a].count > chunk => f[a].count % chunk = 0
        /\ a + f[a].length <= e
        /\ a + f[a].length = e => f[a].first + f[a].count = rows
        /\ a + f[a].length # e =>
             /\ a + f[a].length + 16 \in DOMAIN f
             /\ f[a + f[a].length + 16].first = f[a].first + f[a].count
  BY ChunksAssumed DEF Chain
<1>3. /\ DOMAIN g = DOMAIN f \cup {new} /\ g[new] = Item(rows, many, l)
      /\ \A y \in DOMAIN f : y # new => g[y] = f[y]
  <2> DEFINE item == Item(rows, many, l)
  <2>1. g = Chunked!Put(f, new, item)
    OBVIOUS
  <2> HIDE DEF item, new
  <2>2. DOMAIN g = DOMAIN f \cup {new} /\ g[new] = item /\ \A y \in DOMAIN f : y # new => g[y] = f[y]
    BY <2>1 DEF Chunked!Put
  <2> QED BY <2>2 DEF item
<1>4. new \in Nat /\ \A a \in DOMAIN f : a < new /\ a # new
  BY <1>1, <1>2
<1>5. /\ g[new].first = rows /\ g[new].count = many /\ g[new].length = l
      /\ \A a \in DOMAIN f : g[a] = f[a]
  BY <1>3, <1>4 DEF Item
<1> HIDE DEF new
<1>6. new = e + 16
  BY DEF new
<1>7. IsFiniteSet(DOMAIN g) /\ Cardinality(DOMAIN g) = Cardinality(DOMAIN f) + 1
  BY <1>1, <1>3, <1>4, FS_AddElement
<1>8. ASSUME NEW a \in DOMAIN g
      PROVE  /\ a >= 48 /\ g[a].first \in Nat /\ g[a].count \in Nat \ {0} /\ g[a].length \in Lengths
             /\ g[a].first + g[a].count <= rows + many
             /\ g[a].count > chunk => g[a].count % chunk = 0
             /\ a + g[a].length <= new + l
             /\ IF a + g[a].length = new + l THEN g[a].first + g[a].count = rows + many
                ELSE /\ a + g[a].length + 16 \in DOMAIN g
                     /\ g[a + g[a].length + 16].first = g[a].first + g[a].count
  <2>1. CASE a = new
    BY <2>1, <1>1, <1>4, <1>5, <1>6
  <2>2. CASE a \in DOMAIN f
    <3>1. g[a] = f[a]
      BY <2>2, <1>5
    <3>2. CASE a + f[a].length = e
      BY <3>1, <3>2, <2>2, <1>1, <1>2, <1>3, <1>4, <1>5, <1>6
    <3>3. CASE a + f[a].length # e
      <4>1. /\ a + f[a].length + 16 \in DOMAIN f
            /\ f[a + f[a].length + 16].first = f[a].first + f[a].count
        BY <3>3, <2>2, <1>2
      <4>2. g[a + f[a].length + 16] = f[a + f[a].length + 16]
        BY <4>1, <1>5
      <4> QED BY <4>1, <4>2, <3>1, <3>3, <2>2, <1>1, <1>2, <1>3, <1>6
    <3> QED BY <3>2, <3>3
  <2> QED BY <2>1, <2>2, <1>3
<1>9. \A a, b \in DOMAIN g : a < b => a + g[a].length + 16 <= b
  <2> SUFFICES ASSUME NEW a \in DOMAIN g, NEW b \in DOMAIN g, a < b
               PROVE  a + g[a].length + 16 <= b
    OBVIOUS
  <2>1. a \in DOMAIN f /\ g[a] = f[a]
    <3>1. CASE a = new
      BY <3>1, <1>3, <1>4, <1>2
    <3> QED BY <3>1, <1>3, <1>5
  <2>2. CASE b = new
    BY <2>1, <2>2, <1>1, <1>2, <1>6
  <2>3. CASE b \in DOMAIN f
    BY <2>1, <2>3 DEF Chain
  <2> QED BY <2>2, <2>3, <1>3
<1>10. 48 \in DOMAIN g /\ g[48].first = 0
  <2>1. CASE DOMAIN f = {}
    <3>1. e = 32 /\ rows = 0
      BY <2>1 DEF Chain
    <3> QED BY <3>1, <1>3, <1>5, <1>6
  <2>2. CASE DOMAIN f # {}
    <3>1. 48 \in DOMAIN f /\ f[48].first = 0
      BY <2>2 DEF Chain
    <3> QED BY <3>1, <1>3, <1>5
  <2> QED BY <2>1, <2>2
<1>11. Cardinality(DOMAIN f) \in Nat
  BY <1>1, FS_CardinalityType
<1>12. DOMAIN g \subseteq Nat /\ DOMAIN g # {} /\ Cardinality(DOMAIN g) <= rows + many
  BY <1>1, <1>3, <1>4, <1>7, <1>11
<1>13. new + l \in Nat /\ new + l >= 32 /\ rows + many \in Nat
  BY <1>1, <1>6
<1>14. Chain(g, new + l, rows + many)
  BY <1>7, <1>8, <1>9, <1>10, <1>12, <1>13 DEF Chain
<1> QED BY <1>7, <1>14, <1>6

(* The words that frame the chunks of `f`.                                 *)
Framed(w, f) ==
  /\ DOMAIN w = {8, 16, 24} \cup {a - 16 : a \in DOMAIN f} \cup {a - 8 : a \in DOMAIN f}
  /\ \A x \in DOMAIN w : w[x] \in Nat
  /\ w[8] = count /\ w[16] = chunk
  /\ \A a \in DOMAIN f : w[a - 16] = f[a].count /\ w[a - 8] = f[a].length

(* Appending a chunk writes two words behind the others; the number of     *)
(* segments may change with it (v).                                        *)
LEMMA FramedGrows ==
  ASSUME NEW f, NEW w, NEW e, NEW rows, Chain(f, e, rows), Framed(w, f),
         NEW many \in Nat \ {0}, NEW l \in Nat, NEW v \in Nat,
         NEW h, DOMAIN h = DOMAIN w, h[24] = v, \A x \in DOMAIN w \ {24} : h[x] = w[x],
         NEW g, g = Chunked!Put(f, e + 16, Item(rows, many, l))
  PROVE  LET u == Chunked!Put(Chunked!Put(h, e, many), e + 8, l)
         IN  Framed(u, g) /\ u[24] = v
<1> DEFINE u == Chunked!Put(Chunked!Put(h, e, many), e + 8, l)
<1>1. /\ DOMAIN u = DOMAIN w \cup {e, e + 8} /\ u[e + 8] = l
      /\ e # e + 8 => u[e] = many
      /\ \A x \in DOMAIN w : x # e /\ x # e + 8 => u[x] = h[x]
  BY DEF Chunked!Put
<1> HIDE DEF u
<1>2. e \in Nat /\ e >= 32 /\ \A a \in DOMAIN f : a \in Nat /\ a >= 48 /\ a < e
  <2>1. \A a \in DOMAIN f : f[a].length \in Nat \ {0}
    BY ChunksAssumed DEF Chain
  <2> QED BY SMTT(30), <2>1 DEF Chain
<1>3. /\ DOMAIN g = DOMAIN f \cup {e + 16} /\ g[e + 16].count = many /\ g[e + 16].length = l
      /\ \A a \in DOMAIN f : a # e + 16 => g[a] = f[a]
  BY DEF Chunked!Put, Item
<1>4. \A x \in DOMAIN w : x \in Nat /\ x < e
  BY <1>2 DEF Framed
<1>5. \A x \in DOMAIN w : x # 24 => u[x] = w[x]
  BY <1>1, <1>2, <1>4
<1>6. 24 \in DOMAIN w /\ 8 \in DOMAIN w /\ 16 \in DOMAIN w
  BY DEF Framed
<1>7. u[24] = v
  BY <1>1, <1>2, <1>4, <1>6
<1>8. u[e] = many /\ u[e + 8] = l
  BY <1>1, <1>2
<1>9. DOMAIN u = {8, 16, 24} \cup {a - 16 : a \in DOMAIN g} \cup {a - 8 : a \in DOMAIN g}
  <2>1. {a - 16 : a \in DOMAIN g} = {a - 16 : a \in DOMAIN f} \cup {e}
    BY <1>2, <1>3
  <2>2. {a - 8 : a \in DOMAIN g} = {a - 8 : a \in DOMAIN f} \cup {e + 8}
    BY <1>2, <1>3
  <2> QED BY <2>1, <2>2, <1>1 DEF Framed
<1>10. \A x \in DOMAIN u : u[x] \in Nat
  BY <1>1, <1>5, <1>7, <1>8 DEF Framed
<1>11. u[8] = count /\ u[16] = chunk
  BY <1>5, <1>6 DEF Framed
<1>12. \A a \in DOMAIN g : u[a - 16] = g[a].count /\ u[a - 8] = g[a].length
  <2> TAKE a \in DOMAIN g
  <2>1. CASE a = e + 16
    <3>1. a - 16 = e /\ a - 8 = e + 8
      BY <2>1, <1>2
    <3> QED BY <3>1, <2>1, <1>3, <1>8
  <2>2. CASE a \in DOMAIN f
    <3>1. g[a] = f[a] /\ a - 16 # 24 /\ a - 8 # 24
      BY <2>2, <1>2, <1>3
    <3>2. a - 16 \in DOMAIN w /\ a - 8 \in DOMAIN w
      BY <2>2 DEF Framed
    <3> QED BY <2>2, <3>1, <3>2, <1>5 DEF Framed
  <2> QED BY <2>1, <2>2, <1>3
<1>13. Framed(u, g)
  BY <1>9, <1>10, <1>11, <1>12 DEF Framed
<1> QED BY <1>7, <1>13 DEF u

(* k chunks are left to encode of n rows.                                  *)
Left(k, n) == k * chunk >= n /\ (k - 1) * chunk < n

LEMMA ChunksLeft ==
  ASSUME chunk \in Nat \ {0}, count \in Nat
  PROVE  Chunked!Chunks \in Nat /\ Left(Chunked!Chunks, count)
<1> DEFINE q == count \div chunk
           r == count % chunk
<1>1. q \in Nat /\ r \in 0..(chunk - 1) /\ count = q * chunk + r
  BY Z3
<1>2. Chunked!Chunks = q + (IF r = 0 THEN 0 ELSE 1)
  BY DEF Chunked!Chunks
<1> HIDE DEF q, r
<1>3. (q - 1) * chunk = q * chunk - chunk /\ (q + 1) * chunk = q * chunk + chunk
  BY <1>1, Z3
<1> QED BY <1>1, <1>2, <1>3 DEF Left

LEMMA LeftFewer ==
  ASSUME chunk \in Nat \ {0}, NEW n \in Nat, NEW k \in Nat, Left(k, n)
  PROVE  /\ n > chunk => k > 0 /\ k - 1 \in Nat /\ Left(k - 1, n - chunk)
         /\ n > 0 /\ n <= chunk => k = 1 /\ Left(0, 0)
         /\ n = 0 => k = 0
         /\ \A many \in Nat \ {0} : many * chunk <= n =>
              k - many \in Nat /\ Left(k - many, n - many * chunk)
<1> DEFINE m == k * chunk
<1>1. m \in Int /\ (k - 1) * chunk = m - chunk
  BY Z3
<1>2. n > chunk => k > 0 /\ k - 1 \in Nat /\ Left(k - 1, n - chunk)
  <2> HAVE n > chunk
  <2>1. m >= n /\ m - chunk < n
    BY <1>1 DEF Left
  <2>2. k # 0
    BY <2>1, Z3
  <2>3. (k - 1 - 1) * chunk = m - chunk - chunk
    BY Z3
  <2> QED BY <1>1, <2>1, <2>2, <2>3 DEF Left
<1>3. n > 0 /\ n <= chunk => k = 1 /\ Left(0, 0)
  <2> HAVE n > 0 /\ n <= chunk
  <2>1. m >= n /\ m - chunk < n
    BY <1>1 DEF Left
  <2>2. k # 0
    BY <2>1, Z3
  <2>3. k > 1 => (k - 1) * chunk >= chunk
    BY Z3
  <2>4. 0 * chunk = 0 /\ (0 - 1) * chunk = - chunk
    BY Z3
  <2> QED BY <1>1, <2>1, <2>2, <2>3, <2>4 DEF Left
<1>4. n = 0 => k = 0
  <2> HAVE n = 0
  <2>1. k > 0 => (k - 1) * chunk >= 0
    BY Z3
  <2> QED BY <2>1 DEF Left
<1>5. ASSUME NEW many \in Nat \ {0}, many * chunk <= n
      PROVE  k - many \in Nat /\ Left(k - many, n - many * chunk)
  <2> DEFINE t == many * chunk
  <2>1. /\ t \in Nat /\ (k - many) * chunk = m - t
        /\ (k - many - 1) * chunk = m - t - chunk
    BY Z3
  <2>2. m >= n /\ m - chunk < n /\ t <= n
    BY <1>1, <1>5 DEF Left
  <2>3. k < many => (k + 1) * chunk <= t
    BY Z3
  <2>4. (k + 1) * chunk = m + chunk
    BY Z3
  <2>5. k - many \in Nat
    BY <2>1, <2>2, <2>3, <2>4, <1>1
  <2> HIDE DEF t, m
  <2> QED BY <2>1, <2>2, <2>5, <1>1 DEF Left, t
<1> QED BY <1>2, <1>3, <1>4, <1>5

(* Whole chunks have no rest.                                              *)
LEMMA WholeChunks ==
  ASSUME chunk \in Nat \ {0}, NEW many \in Nat
  PROVE  (many * chunk) % chunk = 0
<1> DEFINE n == many * chunk
<1>1. n \in Nat /\ n = (n \div chunk) * chunk + (n % chunk) /\ n % chunk \in 0..(chunk - 1)
      /\ n \div chunk \in Nat
  BY Z3
<1> DEFINE q == n \div chunk
           r == n % chunk
<1> HIDE DEF q, r
<1>2. (many - q) * chunk = r
  BY <1>1, Z3 DEF q, r
<1>3. r \in 0..(chunk - 1) /\ q \in Nat
  BY <1>1 DEF q, r
<1>4. many - q >= 1 => (many - q) * chunk >= chunk
  BY <1>3, Z3
<1>5. many - q <= -1 => (many - q) * chunk <= - chunk
  BY <1>3, Z3
<1>6. many - q = 0 => (many - q) * chunk = 0
  BY <1>3, Z3
<1>7. r = 0
  BY <1>2, <1>3, <1>4, <1>5, <1>6
<1> QED BY <1>7 DEF r

(* ---- encode_triplet --------------------------------------------------- *)

Arguments ==
  codec \in {"lcp", "xnyzip"} /\ count \in 1..MaxCount /\ chunk \in 1..MaxCount

(* No decoder has run.                                                     *)
Idle ==
  p = 0 /\ segments = 0 /\ total = 0 /\ entries = <<>> /\ decoded = 0 /\ out = <<>>

(* Every entry brings a row and no more than its length and 16 bytes.      *)
Limited(e, rows) == e = 32 \/ \E l \in Lengths : e - 32 <= rows * (16 + l)

EncodeInv ==
  /\ Idle /\ magic = TRUE /\ damage = "none" /\ start \in 0..count
  /\ Chain(payloads, size, start) /\ Framed(words, payloads) /\ Limited(size, start)
  /\ \E k \in Nat : words[24] = Cardinality(DOMAIN payloads) + k /\ Left(k, count - start)

(* A whole stream: its words, its payloads, its end.                       *)
Encoded(w, f, e) ==
  /\ Chain(f, e, count) /\ Framed(w, f)
  /\ w[24] = Cardinality(DOMAIN f)
  /\ e < Modulus /\ count < Modulus

LEMMA LimitedGrows ==
  ASSUME NEW e \in Nat, NEW rows \in Nat, Limited(e, rows),
         NEW many \in Nat \ {0}, NEW l \in Lengths
  PROVE  Limited(e + 16 + l, rows + many)
<1>1. Lengths \subseteq Nat
  BY ChunksAssumed
<1>2. \A m \in Nat : (rows + many) * (16 + m) >= rows * (16 + m) + 16 + m
  <2> TAKE m \in Nat
  <2>1. (rows + many) * (16 + m) = rows * (16 + m) + many * (16 + m)
    BY Z3
  <2>2. many * (16 + m) >= 16 + m
    BY Z3
  <2>3. rows * (16 + m) \in Nat /\ many * (16 + m) \in Nat
    BY Z3
  <2> QED BY <2>1, <2>2, <2>3
<1>3. rows * (16 + l) \in Nat /\ (rows + many) * (16 + l) \in Nat
  BY <1>1, Z3
<1>4. CASE e = 32
  BY <1>1, <1>2, <1>3, <1>4 DEF Limited
<1>5. ASSUME NEW k \in Lengths, e - 32 <= rows * (16 + k) PROVE Limited(e + 16 + l, rows + many)
  <2>1. k \in Nat /\ l \in Nat /\ k \in Lengths /\ l \in Lengths
    BY <1>1, <1>5
  <2>2. CASE l <= k
    <3>1. rows * (16 + k) \in Nat /\ (rows + many) * (16 + k) \in Nat
      BY <2>1, Z3
    <3>2. (rows + many) * (16 + k) >= rows * (16 + k) + 16 + k
      BY <2>1, <1>2
    <3>3. (e + 16 + l) - 32 <= (rows + many) * (16 + k)
      BY <3>1, <3>2, <2>1, <2>2, <1>5
    <3>4. \E m \in Lengths : (e + 16 + l) - 32 <= (rows + many) * (16 + m)
      BY <2>1, <3>3, Zenon
    <3> DEFINE f == e + 16 + l
               n == rows + many
    <3>5. \E m \in Lengths : f - 32 <= n * (16 + m)
      BY <3>4
    <3> HIDE DEF f, n
    <3>6. Limited(f, n)
      BY <3>5 DEF Limited
    <3> QED BY <3>6 DEF f, n
  <2>3. CASE k <= l
    <3>1. rows * (16 + k) <= rows * (16 + l)
      BY <2>1, <2>3, Z3
    <3>2. (rows + many) * (16 + l) >= rows * (16 + l) + 16 + l
      BY <2>1, <1>2
    <3>3. rows * (16 + k) \in Nat
      BY <2>1, Z3
    <3>4. (e + 16 + l) - 32 <= (rows + many) * (16 + l)
      BY <3>1, <3>2, <3>3, <2>1, <1>3, <1>5
    <3>5. \E m \in Lengths : (e + 16 + l) - 32 <= (rows + many) * (16 + m)
      BY <2>1, <3>4, Zenon
    <3> DEFINE f == e + 16 + l
               n == rows + many
    <3>6. \E m \in Lengths : f - 32 <= n * (16 + m)
      BY <3>5
    <3> HIDE DEF f, n
    <3>7. Limited(f, n)
      BY <3>6 DEF Limited
    <3> QED BY <3>7 DEF f, n
  <2> QED BY <2>1, <2>2, <2>3
<1> QED BY <1>4, <1>5 DEF Limited

LEMMA LimitedFits ==
  ASSUME NEW e \in Nat, NEW f, Arguments, Limited(e, count), Chain(f, e, count)
  PROVE  e < Modulus /\ count < Modulus
<1>1. DOMAIN f # {}
  BY DEF Chain, Arguments
<1>2. PICK l \in Lengths : l = f[48].length
  BY <1>1 DEF Chain
<1>3. /\ Lengths \subseteq Nat /\ MaxCount \in Nat /\ Modulus \in Nat
      /\ \A k \in Lengths : 32 + MaxCount * (16 + k) < Modulus
  BY ChunksAssumed
<1>4. count \in Nat /\ count <= MaxCount
  BY <1>3 DEF Arguments
<1>5. \A k \in Nat : /\ MaxCount * (16 + k) >= MaxCount /\ MaxCount * (16 + k) \in Nat
                     /\ count * (16 + k) <= MaxCount * (16 + k) /\ count * (16 + k) \in Nat
  BY <1>3, <1>4, Z3
<1>6. count < Modulus /\ 32 < Modulus
  BY <1>2, <1>3, <1>4, <1>5
<1>7. ASSUME NEW k \in Lengths, e - 32 <= count * (16 + k) PROVE e < Modulus
  <2>1. k \in Nat /\ 32 + MaxCount * (16 + k) < Modulus
    BY <1>3
  <2> QED BY <2>1, <1>3, <1>5, <1>7
<1> QED BY <1>6, <1>7 DEF Limited

LEMMA EncodeInit == Chunked!Init => Arguments /\ stage = "encode" /\ EncodeInv
<1> SUFFICES ASSUME Chunked!Init PROVE Arguments /\ stage = "encode" /\ EncodeInv
  OBVIOUS
<1>1. /\ Arguments /\ stage = "encode" /\ Idle /\ magic = TRUE /\ damage = "none" /\ start = 0
      /\ size = 32 /\ payloads = [w \in {} |-> 0]
      /\ words = Chunked!Put(Chunked!Put(Chunked!Put([w \in {} |-> 0], 8, count), 16, chunk),
                             24, Chunked!Chunks)
  BY Offsets DEF Chunked!Init, Arguments, Idle
<1>2. count \in Nat \ {0} /\ chunk \in Nat \ {0} /\ start \in 0..count
  BY <1>1, ChunksAssumed DEF Arguments
<1>3. Chunked!Chunks \in Nat /\ Left(Chunked!Chunks, count)
  BY <1>2, ChunksLeft
<1>4. DOMAIN payloads = {}
  BY <1>1
<1>5. IsFiniteSet(DOMAIN payloads) /\ Cardinality(DOMAIN payloads) = 0
  BY <1>4, FS_EmptySet
<1>6. Chain(payloads, size, start)
  BY <1>1, <1>4, <1>5 DEF Chain
<1>7. /\ DOMAIN words = {8, 16, 24} /\ words[8] = count /\ words[16] = chunk
      /\ words[24] = Chunked!Chunks
  BY <1>1 DEF Chunked!Put
<1>8. Framed(words, payloads)
  <2>1. {a - 16 : a \in DOMAIN payloads} = {} /\ {a - 8 : a \in DOMAIN payloads} = {}
    BY <1>4
  <2>2. \A a \in DOMAIN payloads : words[a - 16] = payloads[a].count /\ words[a - 8] = payloads[a].length
    BY <1>4
  <2>3. \A x \in DOMAIN words : words[x] \in Nat
    BY <1>2, <1>3, <1>7
  <2> QED BY <2>1, <2>2, <2>3, <1>7 DEF Framed
<1>9. words[24] = Cardinality(DOMAIN payloads) + Chunked!Chunks /\ count - start = count
  BY <1>1, <1>2, <1>3, <1>5, <1>7
<1> QED BY <1>1, <1>2, <1>3, <1>6, <1>8, <1>9 DEF EncodeInv, Limited

(* An entry of `many` rows behind the others.                              *)
LEMMA AppendKeeps ==
  ASSUME Arguments, EncodeInv, NEW many \in Nat \ {0}, NEW l \in Lengths, start + many <= count,
         many > chunk => many % chunk = 0, NEW h, NEW v \in Nat,
         DOMAIN h = DOMAIN words, h[24] = v, \A x \in DOMAIN words \ {24} : h[x] = words[x],
         NEW k \in Nat, v = Cardinality(DOMAIN payloads) + 1 + k, Left(k, count - start - many),
         Chunked!Append64s(many, l, h)
  PROVE  Arguments' /\ EncodeInv' /\ stage' = stage
<1>1. /\ words' = Chunked!Put(Chunked!Put(h, size, many), size + 8, l)
      /\ payloads' = Chunked!Put(payloads, size + 16, Item(start, many, l))
      /\ size' = size + 16 + l /\ start' = start + many
      /\ UNCHANGED <<codec, count, chunk, magic, damage, p, segments, total, entries,
                     decoded, out, stage>>
  BY Offsets DEF Chunked!Append64s, Chunked!arguments, Chunked!frame, Item
<1>2. /\ count \in Nat /\ start \in Nat /\ size \in Nat /\ start' \in 0..count /\ l \in Nat
      /\ count' = count /\ chunk' = chunk
  BY <1>1, ChunksAssumed DEF EncodeInv, Arguments, Chain
<1>3. Chain(payloads, size, start) /\ Framed(words, payloads) /\ Limited(size, start)
  BY DEF EncodeInv
<1> DEFINE g == Chunked!Put(payloads, size + 16, Item(start, many, l))
           u == Chunked!Put(Chunked!Put(h, size, many), size + 8, l)
<1>4. Chain(g, size + 16 + l, start + many) /\ Cardinality(DOMAIN g) = Cardinality(DOMAIN payloads) + 1
  BY <1>3, ChainGrows
<1>5. Framed(u, g) /\ u[24] = v
  BY <1>2, <1>3, FramedGrows
<1>6. Limited(size + 16 + l, start + many)
  BY <1>2, <1>3, LimitedGrows
<1>7. Cardinality(DOMAIN payloads) \in Nat
  BY <1>3, FS_CardinalityType DEF Chain
<1> HIDE DEF g, u
<1>8. words' = u /\ payloads' = g
  BY <1>1 DEF g, u
<1>9. /\ Chain(payloads, size, start)' /\ Framed(words, payloads)' /\ Limited(size, start)'
      /\ words'[24] = v /\ Cardinality(DOMAIN payloads') = Cardinality(DOMAIN payloads) + 1
  <2>1. size' = size + 16 + l /\ start' = start + many
    BY <1>1
  <2>2. Chain(g, size', start') /\ Framed(u, g) /\ Limited(size', start')
    BY <1>4, <1>5, <1>6, <2>1
  <2>3. Chain(payloads, size, start)'
    BY <1>2, <1>8, <2>2 DEF Chain
  <2>4. Framed(words, payloads)'
    BY <1>2, <1>8, <2>2 DEF Framed
  <2>5. Limited(size, start)'
    BY <2>2 DEF Limited
  <2> QED BY <1>4, <1>5, <1>8, <2>3, <2>4, <2>5
<1>10. Left(k, count - start)'
  <2>1. count' - start' = count - start - many
    BY <1>1, <1>2
  <2> QED BY <2>1, <1>2 DEF Left
<1>11. words'[24] = Cardinality(DOMAIN payloads') + k
  BY <1>7, <1>9
<1> QED BY <1>1, <1>2, <1>9, <1>10, <1>11 DEF EncodeInv, Arguments, Idle

LEMMA EncodeChunkKeeps ==
  Arguments /\ EncodeInv /\ Chunked!EncodeChunk => Arguments' /\ EncodeInv' /\ stage' = "encode"
<1> SUFFICES ASSUME Arguments, EncodeInv, Chunked!EncodeChunk
             PROVE  Arguments' /\ EncodeInv' /\ stage' = "encode"
  OBVIOUS
<1> DEFINE many == Chunked!ShortTail
<1>1. stage = "encode" /\ start < count
  BY DEF Chunked!EncodeChunk
<1>2. PICK l \in Lengths : Chunked!Append64s(many, l, words)
  BY DEF Chunked!EncodeChunk
<1>3. count \in Nat \ {0} /\ chunk \in Nat \ {0} /\ start \in Nat
  BY ChunksAssumed DEF Arguments, EncodeInv
<1>4. many = IF count - start < chunk THEN count - start ELSE chunk
  BY DEF Chunked!ShortTail
<1> HIDE DEF many
<1>5. many \in Nat \ {0} /\ start + many <= count /\ many <= chunk
  BY <1>1, <1>3, <1>4
<1>6. PICK k \in Nat : words[24] = Cardinality(DOMAIN payloads) + k /\ Left(k, count - start)
  BY DEF EncodeInv
<1>7. Cardinality(DOMAIN payloads) \in Nat
  BY FS_CardinalityType DEF EncodeInv, Chain
<1>8. words[24] \in Nat
  BY <1>6, <1>7
<1>9. k - 1 \in Nat /\ Left(k - 1, count - start - many)
  <2> DEFINE n == count - start
  <2>1. n \in Nat /\ n > 0
    BY <1>1, <1>3
  <2>2. Left(k, n)
    BY <1>6
  <2> HIDE DEF n
  <2>3. CASE n < chunk
    <3>1. k = 1 /\ Left(0, 0)
      BY <2>1, <2>2, <2>3, <1>3, LeftFewer
    <3>2. n - many = 0
      BY <2>1, <2>3, <1>4 DEF n
    <3> QED BY <3>1, <3>2 DEF n
  <2>4. CASE n = chunk
    <3>1. k = 1 /\ Left(0, 0)
      BY <2>1, <2>2, <2>4, <1>3, LeftFewer
    <3>2. n - many = 0
      BY <2>1, <2>4, <1>4, <1>3 DEF n
    <3> QED BY <3>1, <3>2 DEF n
  <2>5. CASE n > chunk
    <3>1. k - 1 \in Nat /\ Left(k - 1, n - chunk)
      BY <2>1, <2>2, <2>5, <1>3, LeftFewer
    <3>2. many = chunk
      BY <2>1, <2>5, <1>4, <1>3 DEF n
    <3> QED BY <3>1, <3>2 DEF n
  <2> QED BY <2>1, <2>3, <2>4, <2>5, <1>3
<1>10. words[24] = Cardinality(DOMAIN payloads) + 1 + (k - 1)
  BY <1>6, <1>7
<1>11. many > chunk => many % chunk = 0
  BY <1>3, <1>5
<1> QED BY <1>1, <1>2, <1>5, <1>8, <1>9, <1>10, <1>11, AppendKeeps

LEMMA EncodeBatchKeeps ==
  Arguments /\ EncodeInv /\ Chunked!EncodeBatch => Arguments' /\ EncodeInv' /\ stage' = "encode"
<1> SUFFICES ASSUME Arguments, EncodeInv, Chunked!EncodeBatch
             PROVE  Arguments' /\ EncodeInv' /\ stage' = "encode"
  OBVIOUS
<1>1. stage = "encode"
  BY DEF Chunked!EncodeBatch
<1>2. PICK times \in 2..MaxCount, l \in Lengths :
        /\ start + times * chunk <= count
        /\ Chunked!Append64s(times * chunk, l, [words EXCEPT ![24] = @ - (times - 1)])
  BY Offsets DEF Chunked!EncodeBatch
<1>3. /\ count \in Nat \ {0} /\ chunk \in Nat \ {0} /\ start \in Nat /\ times \in Nat
      /\ times >= 2 /\ start <= count
  BY ChunksAssumed DEF Arguments, EncodeInv
<1> DEFINE many == times * chunk
           h == [words EXCEPT ![24] = @ - (times - 1)]
<1>4. many \in Nat \ {0} /\ many % chunk = 0
  <2>1. many \in Nat \ {0}
    BY <1>3, Z3
  <2> QED BY <2>1, <1>3, WholeChunks
<1>5. PICK k \in Nat : words[24] = Cardinality(DOMAIN payloads) + k /\ Left(k, count - start)
  BY DEF EncodeInv
<1>6. Cardinality(DOMAIN payloads) \in Nat
  BY FS_CardinalityType DEF EncodeInv, Chain
<1>7. k - times \in Nat /\ Left(k - times, count - start - many)
  <2> DEFINE n == count - start
  <2>1. n \in Nat /\ many <= n
    BY <1>2, <1>3, <1>4
  <2>2. Left(k, n)
    BY <1>5
  <2>3. times \in Nat \ {0}
    BY <1>3
  <2> HIDE DEF n
  <2>4. k - times \in Nat /\ Left(k - times, n - many)
    BY <2>1, <2>2, <2>3, <1>3, LeftFewer
  <2> QED BY <2>4 DEF n
<1>8. 24 \in DOMAIN words
  BY DEF EncodeInv, Framed
<1> DEFINE v == words[24] - (times - 1)
<1>9. DOMAIN h = DOMAIN words /\ h[24] = v /\ \A x \in DOMAIN words \ {24} : h[x] = words[x]
  BY <1>8
<1>10. v \in Nat /\ v = Cardinality(DOMAIN payloads) + 1 + (k - times)
  BY <1>3, <1>5, <1>6, <1>7
<1>11. Chunked!Append64s(many, l, h) /\ start + many <= count
  BY <1>2
<1> HIDE DEF many, h, v
<1> QED BY <1>1, <1>4, <1>7, <1>9, <1>10, <1>11, AppendKeeps

LEMMA EncodeDoneKeeps ==
  Arguments /\ EncodeInv /\ Chunked!EncodeDone =>
    /\ Arguments' /\ stage' = "damage" /\ Idle' /\ magic' = TRUE /\ damage' = "none"
    /\ start' = count' /\ Encoded(words, payloads, size)'
<1> SUFFICES ASSUME Arguments, EncodeInv, Chunked!EncodeDone
             PROVE  /\ Arguments' /\ stage' = "damage" /\ Idle' /\ magic' = TRUE
                    /\ damage' = "none" /\ start' = count'
                    /\ Encoded(words, payloads, size)'
  OBVIOUS
<1>1. /\ start = count /\ stage' = "damage"
      /\ UNCHANGED <<codec, count, chunk, start, magic, words, payloads, size, damage,
                     p, segments, total, entries, decoded, out>>
  BY DEF Chunked!EncodeDone, Chunked!arguments, Chunked!stream, Chunked!frame
<1>2. PICK k \in Nat : words[24] = Cardinality(DOMAIN payloads) + k /\ Left(k, count - start)
  BY DEF EncodeInv
<1>3. count \in Nat /\ chunk \in Nat \ {0} /\ count - start = 0 /\ 0 \in Nat
  BY <1>1, ChunksAssumed DEF Arguments
<1>4. k = 0
  BY <1>2, <1>3, LeftFewer
<1>5. Cardinality(DOMAIN payloads) \in Nat /\ size \in Nat
  BY FS_CardinalityType DEF EncodeInv, Chain
<1>6. Chain(payloads, size, count) /\ Limited(size, count)
  BY <1>1 DEF EncodeInv
<1>7. size < Modulus /\ count < Modulus
  BY <1>5, <1>6, LimitedFits
<1>8. Encoded(words, payloads, size)
  BY <1>2, <1>4, <1>5, <1>6, <1>7 DEF Encoded, EncodeInv
<1>9. Encoded(words, payloads, size)'
  BY <1>1, <1>8 DEF Encoded, Chain, Framed
<1> QED BY <1>1, <1>9 DEF EncodeInv, Arguments, Idle

(* ---- decode_triplet: types and ranges --------------------------------- *)

(* Whatever was damaged, decode_triplet stays inside the stream.           *)
ReadInv ==
  /\ Chunked!TypeOK /\ Chunked!EntriesInStream
  /\ {8, 16, 24} \subseteq DOMAIN words
  /\ \A a \in DOMAIN payloads : payloads[a].first \in Nat /\ payloads[a].count \in Nat
  /\ stage = "entries" => p >= 32
  /\ stage = "header" => entries = <<>>

LEMMA EncodedReads ==
  ASSUME Arguments, Idle, stage \in {"encode", "damage"}, magic = TRUE, damage = "none",
         start \in 0..count, NEW rows, Chain(payloads, size, rows), Framed(words, payloads)
  PROVE  ReadInv
<1>1. /\ DOMAIN payloads \subseteq Nat /\ size \in Nat
      /\ \A a \in DOMAIN payloads :
           a >= 48 /\ payloads[a].first \in Nat /\ payloads[a].count \in Nat
  BY DEF Chain
<1>2. /\ {8, 16, 24} \subseteq DOMAIN words /\ \A w \in DOMAIN words : words[w] \in Nat
      /\ DOMAIN words \subseteq Nat
  BY <1>1 DEF Framed
<1>3. count \in Nat
  BY ChunksAssumed DEF Arguments
<1>4. entries = <<>> /\ Len(entries) = 0 /\ entries \in Seq(Chunked!Segment)
      /\ out \in Seq(Nat \cup {None}) /\ DOMAIN entries = {}
  BY DEF Idle
<1>5. Chunked!TypeOK
  BY <1>1, <1>2, <1>3, <1>4 DEF Arguments, Idle, Chunked!TypeOK
<1>6. Chunked!EntriesInStream
  BY <1>3, <1>4 DEF Idle, Chunked!EntriesInStream
<1> QED BY <1>1, <1>2, <1>5, <1>6 DEF ReadInv

(* What may happen to the file.                                            *)
Damages ==
  Chunked!Intact \/ Chunked!BadMagic \/ Chunked!BadWord \/ Chunked!BadPayload \/ Chunked!BadSize

LEMMA DamageKeepsReading ==
  ASSUME ReadInv, Damages
  PROVE  /\ entries = <<>> => ReadInv'
         /\ stage = "damage" /\ stage' = "header"
         /\ UNCHANGED <<codec, count, chunk, start, p, segments, total, entries, decoded, out>>
<1>1. \E how : Chunked!Damaged(how)
  BY DEF Damages, Chunked!Intact, Chunked!BadMagic, Chunked!BadWord, Chunked!BadPayload,
         Chunked!BadSize
<1>2. /\ stage = "damage" /\ stage' = "header"
      /\ UNCHANGED <<codec, count, chunk, start, p, segments, total, entries, decoded, out>>
  BY <1>1 DEF Chunked!Damaged, Chunked!arguments, Chunked!frame
<1> DEFINE Streamed ==
      /\ magic' \in BOOLEAN /\ DOMAIN words' = DOMAIN words
      /\ \A w \in DOMAIN words : words'[w] \in Nat
      /\ DOMAIN payloads' \subseteq DOMAIN payloads
      /\ \A a \in DOMAIN payloads' : payloads'[a] = payloads[a]
      /\ size' \in Nat
      /\ damage' \in {"none", "payload", "inner length", "frame", "magic", "size"}
<1>3. Streamed
  <2>0. /\ magic \in BOOLEAN /\ size \in Nat /\ \A w \in DOMAIN words : words[w] \in Nat
    BY DEF ReadInv, Chunked!TypeOK
  <2>1. CASE Chunked!Intact
    BY <2>0, <2>1 DEF Chunked!Intact, Chunked!Damaged
  <2>2. CASE Chunked!BadMagic
    BY <2>0, <2>2 DEF Chunked!BadMagic, Chunked!Damaged
  <2>3. CASE Chunked!BadWord
    <3>1. PICK w \in DOMAIN words, v \in Junk :
            /\ Chunked!Damaged(IF Chunked!InnerLength(w) THEN "inner length" ELSE "frame")
            /\ words' = [words EXCEPT ![w] = v]
            /\ UNCHANGED <<magic, payloads, size>>
      BY <2>3 DEF Chunked!BadWord
    <3>2. v \in Nat
      BY ChunksAssumed
    <3> QED BY <2>0, <3>1, <3>2 DEF Chunked!Damaged
  <2>4. CASE Chunked!BadPayload
    <3>1. PICK a \in DOMAIN payloads :
            /\ Chunked!Damaged("payload")
            /\ payloads' = [b \in DOMAIN payloads \ {a} |-> payloads[b]]
            /\ UNCHANGED <<magic, words, size>>
      BY <2>4 DEF Chunked!BadPayload
    <3> QED BY <2>0, <3>1 DEF Chunked!Damaged
  <2>5. CASE Chunked!BadSize
    <3>1. PICK s \in 0..(size + 16 + 1) :
            Chunked!Damaged("size") /\ size' = s /\ UNCHANGED <<magic, words, payloads>>
      BY <2>5, Offsets DEF Chunked!BadSize
    <3> QED BY <2>0, <3>1 DEF Chunked!Damaged
  <2> QED BY <2>1, <2>2, <2>3, <2>4, <2>5 DEF Damages
<1>4. Chunked!TypeOK'
  BY <1>2, <1>3 DEF ReadInv, Chunked!TypeOK, Chunked!Segment
<1>5. Chunked!EntriesInStream'
  BY <1>2 DEF ReadInv, Chunked!EntriesInStream
<1> QED BY <1>2, <1>3, <1>4, <1>5 DEF ReadInv

Reads ==
  \/ Chunked!ReadHeader \/ Chunked!RejectHeader \/ Chunked!ReadEntry \/ Chunked!RejectEntry
  \/ Chunked!FrameDone \/ Chunked!DecodeChunk \/ Chunked!DecodeDone

(* Only the locals of decode_triplet change.                               *)
LEMMA ReadsEffect ==
  ASSUME Reads
  PROVE  UNCHANGED <<codec, count, chunk, start, magic, words, payloads, size, damage>>
BY DEF Reads, Chunked!ReadHeader, Chunked!RejectHeader, Chunked!ReadEntry, Chunked!RejectEntry,
       Chunked!FrameDone, Chunked!DecodeChunk, Chunked!DecodeDone, Chunked!Step, Chunked!Reject,
       Chunked!arguments, Chunked!stream

(* A step to "rejected" changes nothing else.                              *)
Rejected ==
  stage' = "rejected" /\ UNCHANGED <<p, segments, total, entries, decoded, out>>

LEMMA HeaderStep ==
  ASSUME Chunked!ReadHeader
  PROVE  /\ stage = "header" /\ stage' = "entries" /\ p' = 32 /\ segments' = words[24]
         /\ size >= 32 /\ magic /\ words[8] = count /\ words[16] = chunk
         /\ words[24] # 0 /\ words[24] <= count
         /\ UNCHANGED <<total, entries, decoded, out>>
BY Offsets DEF Chunked!ReadHeader, Chunked!HeaderFits, Chunked!Step

Taken(x) == IF x \in DOMAIN words THEN {words[x]} ELSE Junk

(* An entry is read: its words, what is checked, and what is kept.         *)
Entry(n, l) ==
  [offset |-> p + 16, length |-> l, count |-> n, batch |-> Chunked!Batch(n)]

LEMMA EntryStep ==
  ASSUME ReadInv, Chunked!ReadEntry
  PROVE  /\ stage = "entries" /\ stage' = "entries" /\ Len(entries) < segments
         /\ p + 16 <= size
         /\ \E n \in Taken(p), l \in Taken(p + 8) :
              /\ n \in Nat \ {0} /\ l \in Nat \ {0}
              /\ n <= count - total /\ l <= size - (p + 16)
              /\ entries' = Append(entries, Entry(n, l))
              /\ p' = p + 16 + l /\ total' = total + n
         /\ UNCHANGED <<segments, decoded, out>>
<1>1. /\ stage = "entries" /\ stage' = "entries" /\ Len(entries) < segments
      /\ ~Chunked!Truncated(p + 8)
      /\ UNCHANGED <<segments, decoded, out>>
  BY Offsets DEF Chunked!ReadEntry, Chunked!AtEntry, Chunked!CutEntry
<1>2. p \in Nat /\ size \in Nat /\ total \in Nat /\ count \in Nat /\ total <= count
      /\ Modulus \in Nat \ {0}
  <2>1. MaxCount \in Nat /\ Modulus \in Nat \ {0}
    BY ChunksAssumed
  <2>2. p \in Nat /\ size \in Nat /\ total \in 0..count /\ count \in 1..MaxCount
    BY DEF ReadInv, Chunked!TypeOK
  <2> QED BY <2>1, <2>2
<1>3. p + 16 <= size
  BY <1>1, <1>2, Offsets DEF Chunked!Truncated
<1>4. PICK n \in Taken(p), l \in Taken(p + 8) :
        /\ n # 0 /\ n <= (count - total) % Modulus
        /\ l <= (size - (p + 16)) % Modulus /\ l # 0
        /\ entries' = Append(entries, Entry(n, l))
        /\ p' = p + 16 + l /\ total' = total + n
  BY Offsets DEF Chunked!ReadEntry, Chunked!Take64, Chunked!EntryFits, Chunked!Minus, Taken, Entry
<1>5. \A x : Taken(x) \subseteq Nat
  <2>1. Junk \subseteq Nat
    BY ChunksAssumed
  <2>2. \A x \in DOMAIN words : words[x] \in Nat
    BY DEF ReadInv, Chunked!TypeOK
  <2> QED BY <2>1, <2>2 DEF Taken
<1>6. n \in Nat /\ l \in Nat
  BY <1>5
<1>7. \A x \in Nat : x % Modulus <= x
  BY <1>2, Z3
<1>8. n <= count - total /\ l <= size - (p + 16)
  <2>1. count - total \in Nat /\ size - (p + 16) \in Nat
    BY <1>2, <1>3
  <2>2. (count - total) % Modulus \in Nat /\ (size - (p + 16)) % Modulus \in Nat
    BY <2>1, <1>2, Z3
  <2>3. /\ (count - total) % Modulus <= count - total
        /\ (size - (p + 16)) % Modulus <= size - (p + 16)
    BY <2>1, <1>7
  <2> QED BY <2>1, <2>2, <2>3, <1>4, <1>6
<1> QED BY <1>1, <1>3, <1>4, <1>6, <1>8

LEMMA EntryKeepsReading ==
  ASSUME ReadInv, Chunked!ReadEntry
  PROVE  ReadInv'
<1>1. PICK n \in Nat \ {0}, l \in Nat \ {0} :
        /\ n <= count - total /\ l <= size - (p + 16)
        /\ entries' = Append(entries, Entry(n, l))
        /\ p' = p + 16 + l /\ total' = total + n
  BY EntryStep
<1>2. /\ stage = "entries" /\ stage' = "entries" /\ Len(entries) < segments
      /\ p + 16 <= size /\ UNCHANGED <<segments, decoded, out>>
  BY EntryStep
<1>3. UNCHANGED <<codec, count, chunk, start, magic, words, payloads, size, damage>>
  BY ReadsEffect DEF Reads
<1>4. /\ p \in Nat /\ size \in Nat /\ total \in Nat /\ count \in Nat /\ total <= count
      /\ segments \in Nat
  <2>1. MaxCount \in Nat
    BY ChunksAssumed
  <2>2. p \in Nat /\ size \in Nat /\ total \in 0..count /\ count \in 1..MaxCount /\ segments \in Nat
    BY DEF ReadInv, Chunked!TypeOK
  <2> QED BY <2>1, <2>2
<1> DEFINE e == Entry(n, l)
           m == Len(entries)
<1>5. /\ e \in Chunked!Segment /\ e.offset = p + 16 /\ e.length = l /\ e.count = n
  <2>1. Chunked!Batch(n) \in BOOLEAN
    BY DEF Chunked!Batch
  <2> QED BY <2>1, <1>4 DEF Entry, Chunked!Segment
<1>6. entries \in Seq(Chunked!Segment) /\ m \in Nat
  <2>1. entries \in Seq(Chunked!Segment)
    BY DEF ReadInv, Chunked!TypeOK
  <2> QED BY <2>1
<1> HIDE DEF e
<1>7. entries' = Append(entries, e)
  BY <1>1 DEF e
<1>8. /\ entries' \in Seq(Chunked!Segment) /\ Len(entries') = m + 1
      /\ entries'[m + 1] = e /\ \A k \in 1..m : entries'[k] = entries[k]
      /\ DOMAIN entries' = 1..(m + 1) /\ DOMAIN entries = 1..m
  BY <1>5, <1>6, <1>7
<1>9. p' \in Nat /\ p' <= size /\ total' \in 0..count /\ Len(entries') <= segments
  BY <1>1, <1>2, <1>4, <1>6, <1>8
<1>10. decoded' \in 0..Len(entries')
  <2>1. decoded \in 0..m
    BY DEF ReadInv, Chunked!TypeOK
  <2> QED BY <2>1, <1>2, <1>6, <1>8
<1>11. Chunked!TypeOK'
  <2>1. Chunked!Segment' = Chunked!Segment
    BY DEF Chunked!Segment
  <2> QED BY <1>2, <1>3, <1>8, <1>9, <1>10, <2>1 DEF ReadInv, Chunked!TypeOK
<1>12. Chunked!EntriesInStream'
  <2>0. Chunked!EntriesInStream
    BY DEF ReadInv
  <2>1. \A k \in 1..m : entries[k].offset \in Nat /\ entries[k].length \in Nat
    <3>1. \A k \in 1..m : entries[k] \in Chunked!Segment
      BY <1>6
    <3> QED BY <3>1 DEF Chunked!Segment
  <2>2. /\ \A k \in 1..m : /\ entries[k].length > 0 /\ entries[k].count > 0
                          /\ entries[k].offset >= 48
                          /\ entries[k].offset + entries[k].length <= p
        /\ \A k, j \in 1..m : k < j => entries[k].offset + entries[k].length <= entries[j].offset
    BY <2>0, <1>8, Offsets DEF Chunked!EntriesInStream
  <2>3. p >= 32
    BY <1>2 DEF ReadInv
  <2>4. e.offset >= 48 /\ e.offset >= p /\ e.offset + e.length = p' /\ e.length > 0 /\ e.count > 0
    BY <2>3, <1>1, <1>4, <1>5
  <2>5. p <= p'
    BY <1>1, <1>4
  <2>6. \A k \in 1..(m + 1) : k \in 1..m \/ k = m + 1
    BY <1>6
  <2>7. \A k \in 1..(m + 1) :
          /\ entries'[k].length > 0 /\ entries'[k].count > 0 /\ entries'[k].offset >= 48
          /\ entries'[k].offset + entries'[k].length <= p'
    <3> TAKE k \in 1..(m + 1)
    <3>1. CASE k \in 1..m
      BY <3>1, <2>1, <2>2, <2>5, <1>4, <1>8, <1>9
    <3>2. CASE k = m + 1
      BY <3>2, <2>4, <1>8, <1>9
    <3> QED BY <3>1, <3>2, <2>6
  <2>8. \A k, j \in 1..(m + 1) :
          k < j => entries'[k].offset + entries'[k].length <= entries'[j].offset
    <3> SUFFICES ASSUME NEW k \in 1..(m + 1), NEW j \in 1..(m + 1), k < j
                 PROVE  entries'[k].offset + entries'[k].length <= entries'[j].offset
      OBVIOUS
    <3>1. k \in 1..m /\ entries'[k] = entries[k]
      BY <1>6, <1>8
    <3>2. CASE j \in 1..m
      BY <3>1, <3>2, <2>2, <1>8
    <3>3. CASE j = m + 1
      BY <3>1, <3>3, <2>1, <2>2, <1>4, <1>5, <1>8
    <3> QED BY <3>2, <3>3, <2>6
  <2>9. total' <= count' /\ p' <= size'
    BY <1>3, <1>4, <1>9
  <2> HIDE DEF m
  <2> QED BY <2>7, <2>8, <2>9, <1>8, Offsets DEF Chunked!EntriesInStream
<1>13. p' >= 32
  BY <1>1, <1>2, <1>4 DEF ReadInv
<1> QED BY <1>2, <1>3, <1>11, <1>12, <1>13 DEF ReadInv

(* The rows a native decoder gives are numbers or nothing.                 *)
LEMMA NativeRows ==
  ASSUME ReadInv, NEW k, NEW rows \in Chunked!Native(k)
  PROVE  rows \in Seq(Nat \cup {None})
<1>1. \/ \E first, many \in Nat : rows = [i \in 1..many |-> first + i - 1]
      \/ \E many \in 0..(MaxCount + 1) : rows = [i \in 1..many |-> None]
  BY DEF Chunked!Native, Chunked!Rows, ReadInv
<1>2. CASE \E first, many \in Nat : rows = [i \in 1..many |-> first + i - 1]
  <2>1. PICK first \in Nat, many \in Nat : rows = [i \in 1..many |-> first + i - 1]
    BY <1>2
  <2>2. \A i \in 1..many : first + i - 1 \in Nat
    OBVIOUS
  <2> QED BY <2>1, <2>2
<1>3. CASE \E many \in 0..(MaxCount + 1) : rows = [i \in 1..many |-> None]
  BY <1>3, ChunksAssumed
<1> QED BY <1>1, <1>2, <1>3

LEMMA DecodedRows ==
  ASSUME ReadInv, Chunked!DecodeChunk
  PROVE  /\ stage = "native" /\ decoded < Len(entries)
         /\ \/ Rejected
            \/ \E rows \in Chunked!Native(entries[decoded + 1]) :
                 /\ rows \in Seq(Nat \cup {None})
                 /\ Len(rows) = entries[decoded + 1].count
                 /\ out' = out \o rows /\ decoded' = decoded + 1
                 /\ UNCHANGED <<p, segments, total, entries, stage>>
<1>1. stage = "native" /\ decoded < Len(entries)
  BY DEF Chunked!DecodeChunk
<1>2. PICK rows \in Chunked!Native(entries[decoded + 1]) :
        IF Len(rows) # entries[decoded + 1].count
          THEN Chunked!Reject("native")
          ELSE /\ out' = out \o rows /\ decoded' = decoded + 1
               /\ UNCHANGED <<Chunked!arguments, Chunked!stream, Chunked!frame, stage>>
  BY DEF Chunked!DecodeChunk
<1>3. rows \in Seq(Nat \cup {None})
  BY NativeRows
<1>4. CASE Len(rows) # entries[decoded + 1].count
  BY <1>1, <1>2, <1>4 DEF Chunked!Reject, Chunked!Step, Chunked!frame, Rejected
<1>5. CASE Len(rows) = entries[decoded + 1].count
  BY <1>1, <1>2, <1>3, <1>5 DEF Chunked!frame
<1> QED BY <1>4, <1>5

LEMMA ReadsKeepReading ==
  ASSUME ReadInv, Reads
  PROVE  ReadInv'
<1>1. UNCHANGED <<codec, count, chunk, start, magic, words, payloads, size, damage>>
  BY ReadsEffect
<1>2. ASSUME stage' \in {"entries", "native", "accepted", "rejected"},
             stage' = "entries" => p' >= 32,
             UNCHANGED <<entries, total>>, p' \in Nat, segments' \in Nat,
             Len(entries) <= segments',
             decoded' \in 0..Len(entries), out' \in Seq(Nat \cup {None}),
             stage' \in {"entries", "native"} => p' <= size,
             \A k \in DOMAIN entries : p <= p'
      PROVE  ReadInv'
  <2>1. Chunked!TypeOK'
    <3>1. Chunked!Segment' = Chunked!Segment
      BY DEF Chunked!Segment
    <3> QED BY <1>1, <1>2, <3>1 DEF ReadInv, Chunked!TypeOK
  <2>2. Chunked!EntriesInStream'
    <3>1. \A k \in DOMAIN entries :
            /\ entries[k].offset \in Nat /\ entries[k].length \in Nat /\ p \in Nat
            /\ entries[k].offset + entries[k].length <= p
      <4>1. entries \in Seq(Chunked!Segment) /\ p \in Nat
        BY DEF ReadInv, Chunked!TypeOK
      <4>2. \A k \in DOMAIN entries : entries[k] \in Chunked!Segment
        BY <4>1
      <4> QED BY <4>1, <4>2 DEF ReadInv, Chunked!EntriesInStream, Chunked!Segment
    <3>2. \A k \in DOMAIN entries : entries[k].offset + entries[k].length <= p'
      BY <3>1, <1>2
    <3> QED BY <1>1, <1>2, <3>2 DEF ReadInv, Chunked!EntriesInStream
  <2> QED BY <1>1, <1>2, <2>1, <2>2 DEF ReadInv
<1>3. /\ p \in Nat /\ segments \in Nat /\ size \in Nat /\ Len(entries) <= segments
      /\ decoded \in 0..Len(entries) /\ out \in Seq(Nat \cup {None})
      /\ stage \in {"entries", "native"} => p <= size
      /\ entries \in Seq(Chunked!Segment)
  BY DEF ReadInv, Chunked!TypeOK, Chunked!EntriesInStream
<1>4. CASE Rejected
  BY <1>2, <1>3, <1>4 DEF Rejected
<1>5. CASE Chunked!ReadHeader
  <2>1. /\ stage = "header" /\ stage' = "entries" /\ p' = 32 /\ segments' = words[24]
        /\ size >= 32 /\ UNCHANGED <<total, entries, decoded, out>>
    BY <1>5, HeaderStep
  <2>2. words[24] \in Nat
    BY DEF ReadInv, Chunked!TypeOK
  <2>3. entries = <<>>
    BY <2>1 DEF ReadInv
  <2>4. Len(entries) = 0 /\ DOMAIN entries = {}
    BY <2>3
  <2> QED BY <2>1, <2>2, <2>4, <1>2, <1>3
<1>6. CASE Chunked!ReadEntry
  BY <1>6, EntryKeepsReading
<1>7. CASE Chunked!FrameDone /\ ~Rejected
  <2>1. stage = "entries" /\ stage' = "native" /\ UNCHANGED <<p, segments, total, entries, decoded, out>>
    BY <1>7 DEF Chunked!FrameDone, Chunked!Reject, Chunked!Step, Chunked!frame, Rejected
  <2> QED BY <2>1, <1>2, <1>3
<1>8. CASE Chunked!DecodeChunk /\ ~Rejected
  <2>1. PICK rows \in Seq(Nat \cup {None}) :
          /\ out' = out \o rows /\ decoded' = decoded + 1
          /\ UNCHANGED <<p, segments, total, entries, stage>>
    BY <1>8, DecodedRows
  <2>2. stage = "native" /\ decoded < Len(entries)
    BY <1>8, DecodedRows
  <2>3. out' \in Seq(Nat \cup {None})
    BY <2>1, <1>3
  <2>4. decoded' \in 0..Len(entries)
    BY <2>1, <2>2, <1>3
  <2> QED BY <2>1, <2>2, <2>3, <2>4, <1>2, <1>3
<1>9. CASE Chunked!DecodeDone
  <2>1. stage' = "accepted" /\ UNCHANGED <<p, segments, total, entries, decoded, out>>
    BY <1>9 DEF Chunked!DecodeDone, Chunked!Step, Chunked!frame
  <2> QED BY <2>1, <1>2, <1>3
<1>10. Chunked!RejectHeader \/ Chunked!RejectEntry => Rejected
  BY DEF Chunked!RejectHeader, Chunked!RejectEntry, Chunked!Reject, Chunked!Step, Chunked!frame,
         Rejected
<1> QED BY <1>4, <1>5, <1>6, <1>7, <1>8, <1>9, <1>10 DEF Reads

(* ---- decode_triplet: the walk along the frame ------------------------- *)

(* The chunks whose payload starts before q, and the rows before q, where  *)
(* q is the end of the stream or the start of an entry.                    *)
Passed(f, q) == {b \in DOMAIN f : b <= q}
RowsAt(f, q) == IF q + 16 \in DOMAIN f THEN f[q + 16].first ELSE count
OnEntry(f, e, q) == q = e \/ q + 16 \in DOMAIN f

LEMMA ChainFacts ==
  ASSUME NEW f, NEW e, Chain(f, e, count)
  PROVE  /\ e \in Nat /\ e >= 32 /\ count \in Nat /\ IsFiniteSet(DOMAIN f) /\ DOMAIN f \subseteq Nat
         /\ \A a \in DOMAIN f :
              /\ a >= 48 /\ f[a].first \in Nat /\ f[a].count \in Nat \ {0}
              /\ f[a].length \in Nat \ {0}
              /\ f[a].first + f[a].count <= count
              /\ a + f[a].length <= e
              /\ a + f[a].length = e => f[a].first + f[a].count = count
              /\ a + f[a].length # e =>
                   /\ a + f[a].length + 16 \in DOMAIN f
                   /\ f[a + f[a].length + 16].first = f[a].first + f[a].count
         /\ \A a, b \in DOMAIN f : a < b => a + f[a].length + 16 <= b
<1>1. Lengths \subseteq Nat \ {0}
  BY ChunksAssumed
<1> QED BY <1>1 DEF Chain

LEMMA PassedFinite ==
  ASSUME NEW f, NEW e, Chain(f, e, count), NEW q
  PROVE  IsFiniteSet(Passed(f, q)) /\ Cardinality(Passed(f, q)) \in Nat
<1>1. Passed(f, q) \subseteq DOMAIN f /\ IsFiniteSet(DOMAIN f)
  BY DEF Passed, Chain
<1> QED BY <1>1, FS_Subset, FS_CardinalityType

(* From an entry to the next one, or to any place before it.               *)
LEMMA EntryPassed ==
  ASSUME NEW f, NEW e, Chain(f, e, count), NEW q \in Nat, q + 16 \in DOMAIN f
  PROVE  LET a == q + 16
             z == q + 16 + f[q + 16].length
         IN  /\ z \in Nat /\ z <= e /\ q < e /\ q # e
             /\ OnEntry(f, e, z) /\ RowsAt(f, q) = f[a].first
             /\ RowsAt(f, z) = RowsAt(f, q) + f[a].count
             /\ \A r \in Nat : r >= a /\ (r <= z \/ z = e) =>
                  /\ Passed(f, r) = Passed(f, q) \cup {a}
                  /\ Cardinality(Passed(f, r)) = Cardinality(Passed(f, q)) + 1
             /\ z = e => \A r \in Nat : r >= a => Passed(f, r) = DOMAIN f
<1> DEFINE a == q + 16
           z == q + 16 + f[q + 16].length
<1>1. /\ a \in DOMAIN f /\ a \in Nat /\ f[a].length \in Nat \ {0} /\ f[a].count \in Nat \ {0}
      /\ f[a].first \in Nat /\ z = a + f[a].length /\ a = q + 16
      /\ z = e => f[a].first + f[a].count = count
      /\ z # e => z + 16 \in DOMAIN f /\ f[z + 16].first = f[a].first + f[a].count
      /\ z \in Nat /\ z <= e
  <2>1. a \in DOMAIN f /\ DOMAIN f \subseteq Nat
    BY ChainFacts
  <2>2. /\ f[a].length \in Nat \ {0} /\ f[a].count \in Nat \ {0} /\ f[a].first \in Nat
        /\ a + f[a].length <= e
        /\ a + f[a].length = e => f[a].first + f[a].count = count
        /\ a + f[a].length # e =>
             /\ a + f[a].length + 16 \in DOMAIN f
             /\ f[a + f[a].length + 16].first = f[a].first + f[a].count
    BY <2>1, ChainFacts
  <2> QED BY <2>1, <2>2
<1> HIDE DEF a, z
<1>2. e \in Nat /\ count \in Nat /\ DOMAIN f \subseteq Nat
  BY ChainFacts
<1>3. q < e /\ q # e
  BY <1>1, <1>2
<1>4. RowsAt(f, q) = f[a].first
  BY <1>1 DEF RowsAt
<1>5. OnEntry(f, e, z) /\ RowsAt(f, z) = RowsAt(f, q) + f[a].count
  <2>1. CASE z = e
    <3>1. z + 16 \notin DOMAIN f
      <4> SUFFICES ASSUME z + 16 \in DOMAIN f PROVE FALSE
        OBVIOUS
      <4>1. z + 16 + f[z + 16].length <= e /\ f[z + 16].length \in Nat
        BY ChainFacts
      <4> QED BY <4>1, <2>1, <1>2
    <3> QED BY <3>1, <2>1, <1>1, <1>4 DEF OnEntry, RowsAt
  <2>2. CASE z # e
    BY <2>2, <1>1, <1>4 DEF OnEntry, RowsAt
  <2> QED BY <2>1, <2>2
<1>6. \A b \in DOMAIN f : b < a => b <= q
  BY <1>1, <1>2, ChainFacts
<1>7. \A b \in DOMAIN f : b > a => b > z /\ z # e
  <2> SUFFICES ASSUME NEW b \in DOMAIN f, b > a PROVE b > z /\ z # e
    OBVIOUS
  <2>1. a + f[a].length + 16 <= b /\ b + f[b].length <= e /\ f[b].length \in Nat /\ b \in Nat
    BY <1>1, <1>2, ChainFacts
  <2> QED BY <2>1, <1>1, <1>2
<1>8. ASSUME NEW r \in Nat, r >= a, r <= z \/ z = e
      PROVE  /\ Passed(f, r) = Passed(f, q) \cup {a}
             /\ Cardinality(Passed(f, r)) = Cardinality(Passed(f, q)) + 1
  <2>1. \A b \in DOMAIN f : b <= r <=> b <= q \/ b = a
    BY <1>1, <1>2, <1>6, <1>7, <1>8
  <2>2. Passed(f, r) = Passed(f, q) \cup {a}
    BY <2>1, <1>1 DEF Passed
  <2>3. a \notin Passed(f, q)
    BY <1>1 DEF Passed
  <2> QED BY <2>2, <2>3, PassedFinite, FS_AddElement
<1>9. ASSUME z = e, NEW r \in Nat, r >= a PROVE Passed(f, r) = DOMAIN f
  BY <1>1, <1>2, <1>7, <1>9 DEF Passed
<1>10. /\ z \in Nat /\ z <= e /\ q < e /\ q # e
       /\ OnEntry(f, e, z) /\ RowsAt(f, q) = f[a].first
       /\ RowsAt(f, z) = RowsAt(f, q) + f[a].count
       /\ \A r \in Nat : r >= a /\ (r <= z \/ z = e) =>
            /\ Passed(f, r) = Passed(f, q) \cup {a}
            /\ Cardinality(Passed(f, r)) = Cardinality(Passed(f, q)) + 1
       /\ z = e => \A r \in Nat : r >= a => Passed(f, r) = DOMAIN f
  BY <1>1, <1>3, <1>4, <1>5, <1>8, <1>9
<1> QED BY <1>10 DEF a, z

(* Before the first entry no chunk is passed, behind the last one all are. *)
LEMMA WalkEnds ==
  ASSUME NEW f, NEW e, Chain(f, e, count), count > 0
  PROVE  /\ OnEntry(f, e, 32) /\ RowsAt(f, 32) = 0 /\ Cardinality(Passed(f, 32)) = 0
         /\ \A q \in Nat : q >= e => Passed(f, q) = DOMAIN f
         /\ \A q \in Nat : q + 16 \in DOMAIN f =>
              Cardinality(Passed(f, q)) < Cardinality(DOMAIN f)
         /\ Cardinality(DOMAIN f) \in Nat \ {0}
         /\ RowsAt(f, e) = count
<1>1. 48 \in DOMAIN f /\ f[48].first = 0
  BY ChainFacts DEF Chain
<1>2. OnEntry(f, e, 32) /\ RowsAt(f, 32) = 0
  BY <1>1 DEF OnEntry, RowsAt
<1>3. Passed(f, 32) = {}
  BY ChainFacts DEF Passed
<1>4. \A q \in Nat : q >= e => Passed(f, q) = DOMAIN f
  BY SMTT(30), ChainFacts DEF Passed
<1>5. ASSUME NEW q \in Nat, q + 16 \in DOMAIN f
      PROVE  Cardinality(Passed(f, q)) < Cardinality(DOMAIN f)
  <2>1. q + 16 \notin Passed(f, q) /\ Passed(f, q) \subseteq DOMAIN f
    BY DEF Passed
  <2>2. Passed(f, q) # DOMAIN f
    BY <2>1, <1>5
  <2>3. IsFiniteSet(DOMAIN f)
    BY ChainFacts
  <2>4. /\ Cardinality(Passed(f, q)) <= Cardinality(DOMAIN f)
        /\ Cardinality(Passed(f, q)) # Cardinality(DOMAIN f)
    BY <2>1, <2>2, <2>3, FS_Subset
  <2>5. Cardinality(Passed(f, q)) \in Nat /\ Cardinality(DOMAIN f) \in Nat
    BY <2>3, PassedFinite, FS_CardinalityType
  <2> QED BY <2>4, <2>5
<1>6. Cardinality(DOMAIN f) \in Nat \ {0}
  BY <1>1, ChainFacts, FS_CardinalityType, FS_EmptySet
<1>7. e + 16 \notin DOMAIN f
  <2> SUFFICES ASSUME e + 16 \in DOMAIN f PROVE FALSE
    OBVIOUS
  <2>1. e + 16 + f[e + 16].length <= e /\ f[e + 16].length \in Nat /\ e \in Nat
    BY ChainFacts
  <2> QED BY <2>1
<1> QED BY <1>2, <1>3, <1>4, <1>5, <1>6, <1>7, FS_EmptySet DEF RowsAt

(* ---- decode_triplet: what becomes of a stream ------------------------- *)

(* The word at x is not the one that was written, the others are; if it is *)
(* the length of an entry, then of the last one.                           *)
BadAt(w, f, e, x) ==
  /\ x \in DOMAIN w /\ DOMAIN words = DOMAIN w /\ words[x] # w[x]
  /\ \A y \in DOMAIN w \ {x} : words[y] = w[y]
  /\ x + 8 \in DOMAIN f => x + 8 + f[x + 8].length = e

(* What is left of a stream of words w and payloads f that ended at e.     *)
Altered(w, f, e) ==
  /\ damage \in {"none", "payload", "size"} => words = w
  /\ damage \in {"none", "payload", "frame"} => size = e
  /\ damage \in {"none", "payload"} =>
       \A a \in DOMAIN payloads : a \in DOMAIN f /\ payloads[a] = f[a]
  /\ damage = "none" => payloads = f /\ magic
  /\ damage = "magic" => ~magic
  /\ damage = "size" => size # e
  /\ damage = "frame" => \E x : BadAt(w, f, e, x)

(* The entries count what they announce; the rows are those of the first   *)
(* `decoded` of them.                                                      *)
Counted(c) ==
  /\ c \in [0..Len(entries) -> Nat] /\ c[0] = 0
  /\ \A k \in 1..Len(entries) : c[k] = c[k - 1] + entries[k].count
  /\ c[Len(entries)] = total
  /\ Len(out) = c[decoded]

(* They are the entries of the stream, in its order.                       *)
Matched(f, c) ==
  \A k \in 1..Len(entries) :
    LET b == entries[k].offset
    IN  /\ b \in DOMAIN f /\ f[b].first = c[k - 1]
        /\ entries[k].length = f[b].length /\ entries[k].count = f[b].count
        /\ entries[k].batch = Chunked!Batch(f[b].count)

InPlace == \A i \in 1..Len(out) : out[i] = i - 1 \/ (damage = "payload" /\ out[i] = None)

(* The reader is at an entry, or at the end, with the rows before it.      *)
Straight(f, e) ==
  /\ Len(entries) = Cardinality(Passed(f, p))
  /\ OnEntry(f, e, p) /\ total = RowsAt(f, p)

(* With a bad word the total is off once the word is a count and read, and *)
(* a bad length, once read, leads away from the end.                       *)
Course(f, e, x) ==
  /\ x \notin {8, 16}
  /\ Len(entries) = Cardinality(Passed(f, p))
  /\ \/ /\ OnEntry(f, e, p)
        /\ x + 8 \in DOMAIN f => p < x
        /\ total = RowsAt(f, p) + (IF x + 16 \in DOMAIN f /\ x < p
                                   THEN words[x] - f[x + 16].count ELSE 0)
     \/ p # e /\ Passed(f, p) = DOMAIN f /\ x # 24

Past == {"entries", "native", "accepted"}

Story(w, f, e, c) ==
  /\ Encoded(w, f, e) /\ Altered(w, f, e)
  /\ stage \in {"header", "rejected"} \cup Past
  /\ stage = "header" => Idle
  /\ stage \in Past => /\ magic /\ words[8] = count /\ words[16] = chunk
                       /\ segments = words[24] /\ Counted(c)
  /\ stage \in Past /\ damage \in {"none", "payload"} => Matched(f, c) /\ InPlace
  /\ stage = "entries" =>
       /\ decoded = 0 /\ out = <<>>
       /\ damage \in {"none", "payload", "size"} => Straight(f, e)
       /\ damage = "frame" => \E x : BadAt(w, f, e, x) /\ Course(f, e, x)
  /\ stage \in {"native", "accepted"} =>
       damage \in {"none", "payload", "inner length"} /\ total = count
  /\ stage = "accepted" => decoded = Len(entries)
  /\ damage = "none" => stage # "rejected"

Damageable ==
  /\ Arguments /\ Idle /\ magic = TRUE /\ damage = "none" /\ start = count
  /\ Encoded(words, payloads, size)

LEMMA DamageTells ==
  ASSUME Damageable, ReadInv, Damages, NEW w, NEW f, NEW e, w = words, f = payloads, e = size
  PROVE  Story(w, f, e, <<>>)'
<1>1. /\ stage' = "header"
      /\ UNCHANGED <<codec, count, chunk, start, p, segments, total, entries, decoded, out>>
  BY DamageKeepsReading
<1>2. Encoded(w, f, e)
  BY DEF Damageable
<1>3. Encoded(w, f, e)'
  BY <1>1, <1>2 DEF Encoded, Chain, Framed
<1>4. Altered(w, f, e)'
  <2>1. CASE Chunked!Intact
    BY <2>1 DEF Chunked!Intact, Chunked!Damaged, Altered, Damageable
  <2>2. CASE Chunked!BadMagic
    BY <2>2 DEF Chunked!BadMagic, Chunked!Damaged, Altered
  <2>3. CASE Chunked!BadWord
    <3>1. PICK x \in DOMAIN words, v \in Junk :
            /\ v # words[x]
            /\ Chunked!Damaged(IF Chunked!InnerLength(x) THEN "inner length" ELSE "frame")
            /\ words' = [words EXCEPT ![x] = v]
            /\ UNCHANGED <<magic, payloads, size>>
      BY <2>3 DEF Chunked!BadWord
    <3>2. damage' = IF Chunked!InnerLength(x) THEN "inner length" ELSE "frame"
      BY <3>1 DEF Chunked!Damaged
    <3>3. ~Chunked!InnerLength(x) => BadAt(w, f, e, x)'
      <4> SUFFICES ASSUME ~Chunked!InnerLength(x) PROVE BadAt(w, f, e, x)'
        OBVIOUS
      <4>1. /\ x \in DOMAIN w /\ DOMAIN words' = DOMAIN w /\ words'[x] # w[x]
            /\ \A y \in DOMAIN w \ {x} : words'[y] = w[y]
        BY <3>1
      <4>2. ASSUME x + 8 \in DOMAIN f PROVE x + 8 + f[x + 8].length = e
        <5>1. ~\E b \in DOMAIN f : x + 8 < b
          BY <4>2, Offsets DEF Chunked!InnerLength
        <5> DEFINE a == x + 8
        <5>2. Chain(f, e, count)
          BY <1>2 DEF Encoded
        <5>3. /\ a \in Nat /\ f[a].length \in Nat
              /\ a + f[a].length # e => a + f[a].length + 16 \in DOMAIN f
          BY <5>2, <4>2, ChainFacts
        <5> HIDE DEF a
        <5>4. a + f[a].length # e => a < a + f[a].length + 16
          BY <5>3
        <5> QED BY <5>1, <5>3, <5>4 DEF a
      <4> QED BY <4>1, <4>2 DEF BadAt
    <3> QED BY <3>1, <3>2, <3>3 DEF Altered
  <2>4. CASE Chunked!BadPayload
    <3>1. PICK a \in DOMAIN payloads :
            /\ Chunked!Damaged("payload")
            /\ payloads' = [b \in DOMAIN payloads \ {a} |-> payloads[b]]
            /\ UNCHANGED <<magic, words, size>>
      BY <2>4 DEF Chunked!BadPayload
    <3> QED BY <3>1 DEF Chunked!Damaged, Altered
  <2>5. CASE Chunked!BadSize
    <3>1. /\ damage' = "size" /\ size' # size /\ UNCHANGED <<magic, words, payloads>>
      BY <2>5 DEF Chunked!BadSize, Chunked!Damaged
    <3> QED BY <3>1 DEF Altered
  <2> QED BY <2>1, <2>2, <2>3, <2>4, <2>5 DEF Damages
<1> QED BY <1>1, <1>3, <1>4 DEF Story, Damageable, Idle, Past

LEMMA StreamStays ==
  ASSUME NEW w, NEW f, NEW e, NEW c, Story(w, f, e, c), Reads
  PROVE  /\ Encoded(w, f, e) /\ Altered(w, f, e) /\ Encoded(w, f, e)' /\ Altered(w, f, e)'
         /\ \A x : BadAt(w, f, e, x) => BadAt(w, f, e, x)'
         /\ UNCHANGED <<codec, count, chunk, magic, words, payloads, size, damage>>
<1>1. UNCHANGED <<codec, count, chunk, magic, words, payloads, size, damage>>
  BY ReadsEffect
<1>2. \A x : BadAt(w, f, e, x) => BadAt(w, f, e, x)'
  BY <1>1 DEF BadAt
<1>3. Altered(w, f, e) /\ Altered(w, f, e)'
  BY <1>1, <1>2 DEF Story, Altered
<1>4. Encoded(w, f, e) /\ Encoded(w, f, e)'
  BY <1>1 DEF Story, Encoded, Chain, Framed
<1> QED BY <1>1, <1>2, <1>3, <1>4

LEMMA HeaderTells ==
  ASSUME ReadInv, NEW w, NEW f, NEW e, NEW c, Story(w, f, e, c), Chunked!ReadHeader
  PROVE  \E d : Story(w, f, e, d)'
<1>1. /\ stage = "header" /\ stage' = "entries" /\ p' = 32 /\ segments' = words[24]
      /\ size >= 32 /\ magic /\ words[8] = count /\ words[16] = chunk
      /\ UNCHANGED <<total, entries, decoded, out>>
  BY HeaderStep
<1>2. /\ Encoded(w, f, e) /\ Altered(w, f, e) /\ Encoded(w, f, e)' /\ Altered(w, f, e)'
      /\ \A x : BadAt(w, f, e, x) => BadAt(w, f, e, x)'
      /\ UNCHANGED <<codec, count, chunk, magic, words, payloads, size, damage>>
  BY StreamStays DEF Reads
<1>3. total = 0 /\ entries = <<>> /\ decoded = 0 /\ out = <<>> /\ Len(entries) = 0 /\ Len(out) = 0
  BY <1>1 DEF Story, Idle
<1>4. count \in Nat /\ count > 0
  <2>1. count \in 1..MaxCount /\ MaxCount \in Nat
    BY ChunksAssumed DEF ReadInv, Chunked!TypeOK
  <2> QED BY <2>1
<1>5. OnEntry(f, e, 32) /\ RowsAt(f, 32) = 0 /\ Cardinality(Passed(f, 32)) = 0
  BY <1>2, <1>4, WalkEnds DEF Encoded
<1> DEFINE d == [k \in 0..0 |-> 0]
<1>6. Counted(d)'
  BY <1>1, <1>3 DEF Counted
<1>7. Matched(f, d)' /\ InPlace'
  BY <1>1, <1>3 DEF Matched, InPlace
<1>8. Straight(f, e)'
  BY <1>1, <1>2, <1>3, <1>5 DEF Straight, OnEntry, RowsAt, Passed
<1>9. ASSUME NEW x, BadAt(w, f, e, x) PROVE Course(f, e, x)'
  <2>1. x \notin {8, 16}
    BY <1>1, <1>2, <1>9 DEF BadAt, Encoded, Framed
  <2>2. x \in {24} \cup {a - 16 : a \in DOMAIN f} \cup {a - 8 : a \in DOMAIN f}
    BY <2>1, <1>2, <1>9 DEF BadAt, Encoded, Framed
  <2>3. \A a \in DOMAIN f : a \in Nat /\ a >= 48
    BY <1>2, ChainFacts DEF Encoded
  <2>4. x \in Int
    BY <2>2, <2>3
  <2>5. x + 8 \in DOMAIN f => 32 < x
    BY <2>3, <2>4
  <2>6. ~(x + 16 \in DOMAIN f /\ x < 32)
    BY <2>3, <2>4
  <2> QED BY <1>1, <1>2, <1>3, <1>5, <2>1, <2>5, <2>6 DEF Course, OnEntry, RowsAt, Passed
<1> HIDE DEF d
<1>10. Story(w, f, e, d)'
  BY <1>1, <1>2, <1>3, <1>6, <1>7, <1>8, <1>9 DEF Story, Past, Altered
<1> QED BY <1>10

(* An entry more is counted, and matched if it is one of the stream.       *)
LEMMA CountGrows ==
  ASSUME ReadInv, NEW c, Counted(c), stage = "entries", stage' = "entries",
         NEW n \in Nat \ {0}, NEW l \in Nat,
         entries' = Append(entries, Entry(n, l)), total' = total + n,
         UNCHANGED <<codec, chunk, decoded, out>>
  PROVE  \E d : /\ Counted(d)'
                /\ \A f : /\ Matched(f, c) /\ p + 16 \in DOMAIN f
                          /\ n = f[p + 16].count /\ l = f[p + 16].length
                          /\ f[p + 16].first = total
                          => Matched(f, d)'
<1> DEFINE m == Len(entries)
           e == Entry(n, l)
<1>1. /\ entries \in Seq(Chunked!Segment) /\ total \in Nat /\ decoded \in 0..m
  <2>1. count \in 1..MaxCount /\ MaxCount \in Nat
    BY ChunksAssumed DEF ReadInv, Chunked!TypeOK
  <2>2. total \in 0..count /\ entries \in Seq(Chunked!Segment) /\ decoded \in 0..Len(entries)
    BY DEF ReadInv, Chunked!TypeOK
  <2> QED BY <2>1, <2>2
<1>2. m \in Nat
  BY <1>1
<1>3. /\ e.offset = p + 16 /\ e.length = l /\ e.count = n /\ e.batch = Chunked!Batch(n)
  BY DEF Entry
<1> HIDE DEF e
<1>4. /\ Len(entries') = m + 1 /\ entries'[m + 1] = e
      /\ \A k \in 1..m : entries'[k] = entries[k]
  <2>1. entries' = Append(entries, e)
    BY DEF e
  <2> QED BY <2>1, <1>1
<1>5. /\ c \in [0..m -> Nat] /\ c[0] = 0 /\ c[m] = total /\ Len(out) = c[decoded]
      /\ \A k \in 1..m : c[k] = c[k - 1] + entries[k].count
  BY DEF Counted
<1> HIDE DEF m
<1>6. PICK d : /\ d \in [0..(m + 1) -> Nat] /\ d[m + 1] = total + n
               /\ \A k \in 0..m : d[k] = c[k]
  <2> DEFINE g == [k \in 0..(m + 1) |-> IF k = m + 1 THEN total + n ELSE c[k]]
  <2>1. /\ g \in [0..(m + 1) -> Nat] /\ g[m + 1] = total + n
        /\ \A k \in 0..m : g[k] = c[k]
    BY <1>1, <1>2, <1>5
  <2> HIDE DEF g
  <2> QED BY <2>1
<1>7. \A k \in 1..(m + 1) : (k \in 1..m /\ k - 1 \in 0..m) \/ (k = m + 1 /\ k - 1 = m)
  <2> TAKE k \in 1..(m + 1)
  <2>1. k = m + 1 => k - 1 = m
    BY <1>2
  <2>2. k # m + 1 => k \in 1..m /\ k - 1 \in 0..m
    BY <1>2
  <2> QED BY <2>1, <2>2
<1>8. 0 \in 0..m /\ m \in 0..m
  BY <1>2
<1>9. \A k \in 1..(m + 1) : d[k] = d[k - 1] + entries'[k].count
  <2> TAKE k \in 1..(m + 1)
  <2>1. CASE k \in 1..m /\ k - 1 \in 0..m
    <3>1. k \in 0..m
      BY <2>1, <1>2
    <3> QED BY <2>1, <3>1, <1>4, <1>5, <1>6
  <2>2. CASE k = m + 1 /\ k - 1 = m
    BY <2>2, <1>3, <1>4, <1>5, <1>6, <1>8
  <2> QED BY <2>1, <2>2, <1>7
<1>10. Counted(d)'
  <2>1. Len(out') = d[decoded'] /\ d[Len(entries')] = total' /\ d[0] = 0
    BY <1>1, <1>4, <1>5, <1>6, <1>8 DEF m
  <2>2. d \in [0..Len(entries') -> Nat]
    BY <1>4, <1>6
  <2> QED BY <2>1, <2>2, <1>4, <1>9 DEF Counted
<1>11. ASSUME NEW f, Matched(f, c), p + 16 \in DOMAIN f,
              n = f[p + 16].count, l = f[p + 16].length, f[p + 16].first = total
       PROVE  Matched(f, d)'
  <2>1. ASSUME NEW k \in 1..(m + 1)
        PROVE  /\ entries'[k].offset \in DOMAIN f
               /\ f[entries'[k].offset].first = d[k - 1]
               /\ entries'[k].length = f[entries'[k].offset].length
               /\ entries'[k].count = f[entries'[k].offset].count
               /\ entries'[k].batch = Chunked!Batch(f[entries'[k].offset].count)
    <3>1. CASE k \in 1..m /\ k - 1 \in 0..m
      BY <3>1, <1>4, <1>6, <1>11 DEF Matched, m
    <3>2. CASE k = m + 1 /\ k - 1 = m
      BY <3>2, <1>3, <1>4, <1>5, <1>6, <1>8, <1>11
    <3> QED BY <3>1, <3>2, <1>7
  <2> QED BY <1>4, <2>1 DEF Matched, Chunked!Batch
<1> QED BY <1>10, <1>11

LEMMA EntryTells ==
  ASSUME ReadInv, NEW w, NEW f, NEW e, NEW c, Story(w, f, e, c), Chunked!ReadEntry
  PROVE  \E d : Story(w, f, e, d)'
<1>1. /\ Encoded(w, f, e) /\ Altered(w, f, e) /\ Encoded(w, f, e)' /\ Altered(w, f, e)'
      /\ \A x : BadAt(w, f, e, x) => BadAt(w, f, e, x)'
      /\ UNCHANGED <<codec, count, chunk, magic, words, payloads, size, damage>>
  BY StreamStays DEF Reads
<1>2. PICK n \in Taken(p), l \in Taken(p + 8) :
        /\ n \in Nat \ {0} /\ l \in Nat \ {0}
        /\ n <= count - total /\ l <= size - (p + 16)
        /\ entries' = Append(entries, Entry(n, l))
        /\ p' = p + 16 + l /\ total' = total + n
  BY EntryStep
<1>3. /\ stage = "entries" /\ stage' = "entries" /\ Len(entries) < segments
      /\ p + 16 <= size /\ UNCHANGED <<segments, decoded, out>>
  BY EntryStep
<1>4. /\ magic /\ words[8] = count /\ words[16] = chunk
      /\ segments = words[24] /\ Counted(c) /\ decoded = 0 /\ out = <<>>
  BY <1>3 DEF Story, Past
<1>5. /\ p \in Nat /\ size \in Nat /\ total \in Nat /\ count \in Nat /\ count > 0
      /\ segments \in Nat /\ Len(entries) \in Nat /\ Len(entries') = Len(entries) + 1
  <2>1. count \in 1..MaxCount /\ MaxCount \in Nat /\ p \in Nat /\ size \in Nat /\ segments \in Nat
    BY ChunksAssumed DEF ReadInv, Chunked!TypeOK
  <2>2. total \in 0..count /\ entries \in Seq(Chunked!Segment)
    BY DEF ReadInv, Chunked!TypeOK
  <2> QED BY <1>2, <2>1, <2>2
<1>6. PICK d : /\ Counted(d)'
               /\ \A g : /\ Matched(g, c) /\ p + 16 \in DOMAIN g
                         /\ n = g[p + 16].count /\ l = g[p + 16].length
                         /\ g[p + 16].first = total
                         => Matched(g, d)'
  BY <1>1, <1>2, <1>3, <1>4, CountGrows
<1>7. /\ Chain(f, e, count) /\ Framed(w, f) /\ w[24] = Cardinality(DOMAIN f)
      /\ e \in Nat /\ DOMAIN f \subseteq Nat
  BY <1>1, ChainFacts DEF Encoded
<1> DEFINE a == p + 16
           z == p + 16 + f[p + 16].length
<1>8. ASSUME a \in DOMAIN f
      PROVE  /\ z \in Nat /\ z <= e /\ p < e /\ OnEntry(f, e, z) /\ RowsAt(f, p) = f[a].first
             /\ RowsAt(f, z) = RowsAt(f, p) + f[a].count
             /\ \A r \in Nat : r >= a /\ (r <= z \/ z = e) =>
                  Cardinality(Passed(f, r)) = Cardinality(Passed(f, p)) + 1
             /\ z = e => \A r \in Nat : r >= a => Passed(f, r) = DOMAIN f
             /\ f[a].first \in Nat /\ f[a].count \in Nat \ {0} /\ f[a].length \in Nat \ {0}
             /\ w[p] = f[a].count /\ w[p + 8] = f[a].length
             /\ p \in DOMAIN w /\ p + 8 \in DOMAIN w
  <2>1. /\ f[a].first \in Nat /\ f[a].count \in Nat \ {0} /\ f[a].length \in Nat \ {0}
    BY <1>7, <1>8, ChainFacts
  <2>2. a - 16 = p /\ a - 8 = p + 8
    BY <1>5
  <2>3. /\ w[p] = f[a].count /\ w[p + 8] = f[a].length /\ p \in DOMAIN w /\ p + 8 \in DOMAIN w
    BY <2>2, <1>7, <1>8 DEF Framed
  <2>4. /\ z \in Nat /\ z <= e /\ p < e /\ OnEntry(f, e, z) /\ RowsAt(f, p) = f[a].first
        /\ RowsAt(f, z) = RowsAt(f, p) + f[a].count
        /\ \A r \in Nat : r >= a /\ (r <= z \/ z = e) =>
             /\ Passed(f, r) = Passed(f, p) \cup {a}
             /\ Cardinality(Passed(f, r)) = Cardinality(Passed(f, p)) + 1
        /\ z = e => \A r \in Nat : r >= a => Passed(f, r) = DOMAIN f
    BY <1>5, <1>7, <1>8, EntryPassed
  <2> HIDE DEF a, z
  <2> QED BY <2>1, <2>3, <2>4
<1>a. a = p + 16 /\ z = a + f[a].length
  OBVIOUS
<1> HIDE DEF a, z
<1>c. /\ Passed(f, p)' = Passed(f, p') /\ (OnEntry(f, e, p)' <=> OnEntry(f, e, p'))
      /\ RowsAt(f, p)' = RowsAt(f, p')
  BY <1>1 DEF Passed, OnEntry, RowsAt
<1>b. /\ n \in Nat \ {0} /\ l \in Nat \ {0} /\ p' = a + l /\ total' = total + n /\ a \in Nat
  BY <1>2, <1>5, <1>a
<1>9. CASE damage \in {"none", "payload", "size"}
  <2>1. words = w /\ Straight(f, e)
    BY <1>1, <1>3, <1>9 DEF Story, Altered
  <2>2. a \in DOMAIN f
    <3>1. CASE p = e
      <4>1. Passed(f, p) = DOMAIN f
        BY <3>1, <1>5, <1>a, <1>7, WalkEnds
      <4> QED BY <4>1, <2>1, <1>3, <1>4, <1>5, <1>a, <1>7 DEF Straight
    <3> QED BY <3>1, <2>1, <1>a DEF Straight, OnEntry
  <2>3. n = f[a].count /\ l = f[a].length
    BY <2>1, <2>2, <1>2, <1>a, <1>b, <1>8 DEF Taken
  <2>4. p' = z /\ total' = RowsAt(f, z) /\ total = f[a].first
    BY <2>1, <2>2, <2>3, <1>a, <1>b, <1>8 DEF Straight
  <2>5. Cardinality(Passed(f, z)) = Len(entries')
    <3>1. z >= a
      BY <2>2, <1>5, <1>a, <1>8
    <3> QED BY <3>1, <2>1, <2>2, <1>5, <1>a, <1>8 DEF Straight
  <2>6. Straight(f, e)'
    BY <2>2, <2>4, <2>5, <1>1, <1>8 DEF Straight, OnEntry, RowsAt, Passed
  <2>7. damage # "size" => Matched(f, d)' /\ InPlace'
    <3>1. damage # "size" => Matched(f, c)
      BY <1>3, <1>9 DEF Story, Past
    <3>2. Len(out) = 0
      BY <1>4
    <3> QED BY <3>1, <3>2, <2>2, <2>3, <2>4, <1>3, <1>6, <1>a DEF InPlace
  <2> QED BY <2>6, <2>7, <1>1, <1>3, <1>4, <1>6, <1>9 DEF Story, Past
<1>10. CASE damage = "frame"
  <2>1. PICK x : BadAt(w, f, e, x) /\ Course(f, e, x)
    BY <1>3, <1>10 DEF Story
  <2>2. size = e
    BY <1>1, <1>10 DEF Altered
  <2>3. /\ OnEntry(f, e, p) /\ (x + 8 \in DOMAIN f => p < x)
        /\ total = RowsAt(f, p) + (IF x + 16 \in DOMAIN f /\ x < p
                                   THEN words[x] - f[x + 16].count ELSE 0)
    <3>1. CASE Passed(f, p) = DOMAIN f /\ x # 24
      <4>1. words[24] = w[24]
        BY <3>1, <2>1, <1>7 DEF BadAt, Framed
      <4> QED BY <4>1, <3>1, <2>1, <1>3, <1>4, <1>5, <1>a, <1>7 DEF Course
    <3> QED BY <3>1, <2>1 DEF Course
  <2>4. a \in DOMAIN f
    BY <2>2, <2>3, <1>3, <1>5, <1>a DEF OnEntry
  <2>5. \A y \in DOMAIN w : y # x => words[y] = w[y]
    BY <2>1 DEF BadAt
  <2>6. n = words[p] /\ l = words[p + 8]
    BY <2>1, <2>4, <1>2, <1>a, <1>b, <1>8 DEF Taken, BadAt
  <2>x. x \in Nat
    BY <2>1, <1>7, ChainFacts DEF BadAt, Framed
  <2>7. ASSUME x = p + 8 PROVE Course(f, e, x)'
    <3>1. z = e /\ n = f[a].count /\ l # f[a].length /\ x # 24
      <4>1. x + 8 = a
        BY <2>7, <1>5, <1>a
      <4>2. a >= 48
        BY <2>4, <1>7, ChainFacts
      <4>3. l # f[a].length
        BY <2>1, <2>4, <2>6, <2>7, <1>8 DEF BadAt
      <4>4. n = f[a].count
        BY <2>4, <2>5, <2>6, <2>7, <1>5, <1>a, <1>8
      <4>5. a + f[a].length = e
        BY <4>1, <2>1, <2>4 DEF BadAt
      <4> QED BY <4>1, <4>2, <4>3, <4>4, <4>5, <1>5, <1>a
    <3>2. p' \in Nat /\ p' >= a /\ p' # e
      BY <3>1, <2>4, <1>2, <1>a, <1>b, <1>5, <1>8
    <3>3. Passed(f, p') = DOMAIN f /\ Len(entries') = Cardinality(Passed(f, p'))
      BY <3>1, <3>2, <2>1, <2>4, <1>5, <1>a, <1>8 DEF Course
    <3>4. x \notin {8, 16}
      BY <2>1 DEF Course
    <3> QED BY <3>1, <3>2, <3>3, <3>4, <1>c DEF Course
  <2>8. ASSUME x # p + 8 PROVE Course(f, e, x)'
    <3>1. l = f[a].length /\ p' = z /\ z \in Nat /\ z >= a
      <4>1. /\ z \in Nat /\ f[a].length \in Nat /\ w[p + 8] = f[a].length
            /\ p + 8 \in DOMAIN w
        BY <2>4, <1>8
      <4>2. words[p + 8] = w[p + 8]
        BY <4>1, <2>5, <2>8
      <4>3. l = f[a].length
        BY <4>1, <4>2, <2>6
      <4> QED BY <4>1, <4>3, <1>a, <1>b
    <3>2. ASSUME NEW b \in DOMAIN f
          PROVE  /\ b \in Nat /\ f[b].length \in Nat
                 /\ b > a => b >= z + 16
                 /\ b < a => b + 16 <= a
      <4>1. /\ b \in Nat /\ f[b].length \in Nat
            /\ b > a => a + f[a].length + 16 <= b
            /\ b < a => b + f[b].length + 16 <= a
        BY <2>4, <1>7, ChainFacts
      <4>2. f[a].length \in Nat /\ a \in Nat
        BY <2>4, <1>8, <1>b
      <4> HIDE DEF z
      <4> QED BY <4>1, <4>2, <1>a
    <3>3. x + 8 \in DOMAIN f => z < x
      <4> HAVE x + 8 \in DOMAIN f
      <4>1. p < x /\ x + 8 # a
        BY <2>3, <2>8, <2>x, <1>5, <1>a
      <4>2. /\ x + 8 > a => x + 8 >= z + 16
            /\ x + 8 < a => x + 8 + 16 <= a
        BY <3>2
      <4> QED BY <4>1, <4>2, <3>1, <2>x, <1>5, <1>a
    <3>4. total' = RowsAt(f, z) + (IF x + 16 \in DOMAIN f /\ x < z
                                   THEN words[x] - f[x + 16].count ELSE 0)
      <4>1. RowsAt(f, p) \in Nat /\ words[p] \in Nat /\ words[x] \in Nat /\ f[a].count \in Nat
        <5>1. words[x] \in Nat
          BY <2>1 DEF BadAt, ReadInv, Chunked!TypeOK
        <5> QED BY <5>1, <2>4, <2>6, <1>2, <1>a, <1>b, <1>8
      <4>2. CASE x = p
        <5>1. total = RowsAt(f, p) /\ x + 16 = a /\ x < z /\ n = words[x]
          BY <4>1, <4>2, <2>3, <2>4, <2>6, <1>5, <1>a, <1>8, <3>1
        <5> QED BY SMTT(30), <5>1, <4>1, <2>4, <1>2, <1>a, <1>b, <1>8
      <4>3. CASE x # p
        <5>1. n = f[a].count
          BY <4>3, <2>4, <2>5, <2>6, <1>8
        <5>2. x + 16 \in DOMAIN f => (x < z <=> x < p)
          <6> HAVE x + 16 \in DOMAIN f
          <6>1. /\ x + 16 > a => x + 16 >= z + 16
                /\ x + 16 < a => x + 16 + 16 <= a
            BY <3>2
          <6>2. x + 16 # a
            BY <4>3, <2>x, <1>5, <1>a
          <6> QED BY <6>1, <6>2, <2>x, <1>5, <1>a, <3>1
        <5> DEFINE off == IF x + 16 \in DOMAIN f /\ x < z
                          THEN words[x] - f[x + 16].count ELSE 0
        <5>3. total = RowsAt(f, p) + off
          BY <5>2, <2>3
        <5>4. off \in Int
          <6>1. x + 16 \in DOMAIN f => f[x + 16].count \in Nat
            BY <1>7, ChainFacts
          <6> QED BY <6>1, <4>1
        <5>5. RowsAt(f, z) = RowsAt(f, p) + f[a].count /\ total' = total + n
          BY <2>4, <1>2, <1>a, <1>b, <1>8
        <5> HIDE DEF off
        <5>6. total' = RowsAt(f, z) + off
          BY <5>1, <5>3, <5>4, <5>5, <4>1
        <5> QED BY <5>6 DEF off
      <4> QED BY <4>2, <4>3
    <3>5. Cardinality(Passed(f, z)) = Len(entries')
      <4>1. Len(entries) = Cardinality(Passed(f, p))
        BY <2>1 DEF Course
      <4> QED BY <4>1, <3>1, <2>4, <1>5, <1>a, <1>8
    <3>6. x \notin {8, 16} /\ OnEntry(f, e, z)
      BY <2>1, <2>4, <1>8 DEF Course
    <3>7. words' = words
      BY <1>1
    <3> QED BY <3>1, <3>3, <3>4, <3>5, <3>6, <3>7, <1>c DEF Course
  <2>9. Course(f, e, x)' /\ BadAt(w, f, e, x)'
    BY <2>1, <2>7, <2>8, <1>1
  <2>10. (\E y : BadAt(w, f, e, y) /\ Course(f, e, y))'
    BY <2>9
  <2> QED BY <2>10, <1>1, <1>3, <1>4, <1>6, <1>10 DEF Story, Past
<1>11. CASE damage \in {"inner length", "magic"}
  <2> QED BY <1>1, <1>3, <1>4, <1>6, <1>11 DEF Story, Past
<1>12. damage \in {"none", "payload", "inner length", "frame", "magic", "size"}
  BY DEF ReadInv, Chunked!TypeOK
<1> QED BY <1>9, <1>10, <1>11, <1>12

(* A refusal says only that the stream was damaged.                        *)
LEMMA RefusalTells ==
  ASSUME NEW w, NEW f, NEW e, NEW c, Story(w, f, e, c), Reads, Rejected, damage # "none"
  PROVE  Story(w, f, e, c)'
<1>1. /\ Encoded(w, f, e)' /\ Altered(w, f, e)' /\ damage' = damage
  BY StreamStays
<1>2. stage' = "rejected"
  BY DEF Rejected
<1> QED BY <1>1, <1>2 DEF Story, Past

(* Where the reader is straight it is at an entry until it has read all.   *)
LEMMA StraightGoesOn ==
  ASSUME NEW f, NEW e, Chain(f, e, count), count > 0, OnEntry(f, e, p), p \in Nat,
         Len(entries) = Cardinality(Passed(f, p))
  PROVE  /\ Len(entries) < Cardinality(DOMAIN f) => p + 16 \in DOMAIN f
         /\ Len(entries) = Cardinality(DOMAIN f) => p = e /\ RowsAt(f, p) = count
<1>1. p = e => Len(entries) = Cardinality(DOMAIN f) /\ RowsAt(f, p) = count
  BY WalkEnds
<1>2. p + 16 \in DOMAIN f => Len(entries) < Cardinality(DOMAIN f)
  BY WalkEnds
<1>3. Cardinality(DOMAIN f) \in Nat
  BY WalkEnds
<1> QED BY <1>1, <1>2, <1>3 DEF OnEntry

LEMMA RejectHeaderTells ==
  ASSUME ReadInv, NEW w, NEW f, NEW e, NEW c, Story(w, f, e, c), Chunked!RejectHeader
  PROVE  Story(w, f, e, c)'
<1>1. Rejected /\ stage = "header"
  BY DEF Chunked!RejectHeader, Chunked!Reject, Chunked!Step, Chunked!frame, Rejected
<1>2. damage # "none"
  <2> SUFFICES ASSUME damage = "none" PROVE FALSE
    OBVIOUS
  <2>1. words = w /\ payloads = f /\ size = e /\ magic /\ Encoded(w, f, e)
    BY DEF Story, Altered
  <2>2. count \in 1..MaxCount /\ MaxCount \in Nat
    BY ChunksAssumed DEF ReadInv, Chunked!TypeOK
  <2>3. count > 0
    BY <2>2
  <2>4. Chain(f, e, count) /\ Framed(w, f) /\ w[24] = Cardinality(DOMAIN f)
    BY <2>1 DEF Encoded
  <2>5. w[24] # 0 /\ w[24] <= count /\ e >= 32
    BY <2>3, <2>4, WalkEnds DEF Chain
  <2>6. Chunked!HeaderFits
    BY <2>1, <2>4, <2>5, Offsets DEF Chunked!HeaderFits, Framed
  <2> QED BY <2>6 DEF Chunked!RejectHeader
<1> QED BY <1>1, <1>2, RefusalTells DEF Reads

LEMMA RejectEntryTells ==
  ASSUME ReadInv, NEW w, NEW f, NEW e, NEW c, Story(w, f, e, c), Chunked!RejectEntry
  PROVE  Story(w, f, e, c)'
<1>1. Rejected /\ stage = "entries" /\ Len(entries) < segments
  BY DEF Chunked!RejectEntry, Chunked!AtEntry, Chunked!Reject, Chunked!Step, Chunked!frame, Rejected
<1>2. damage # "none"
  <2> SUFFICES ASSUME damage = "none" PROVE FALSE
    OBVIOUS
  <2>1. /\ words = w /\ size = e /\ Encoded(w, f, e) /\ segments = w[24] /\ Straight(f, e)
    BY <1>1 DEF Story, Altered, Past
  <2>2. count \in 1..MaxCount /\ MaxCount \in Nat /\ p \in Nat /\ Modulus \in Nat
    BY ChunksAssumed DEF ReadInv, Chunked!TypeOK
  <2>3. count > 0 /\ count \in Nat
    BY <2>2
  <2>4. /\ Chain(f, e, count) /\ Framed(w, f) /\ w[24] = Cardinality(DOMAIN f)
        /\ e < Modulus /\ count < Modulus /\ e \in Nat
    BY <2>1, ChainFacts DEF Encoded
  <2> DEFINE a == p + 16
  <2>5. a \in DOMAIN f
    BY <2>1, <2>2, <2>3, <2>4, <1>1, StraightGoesOn DEF Straight
  <2>6. /\ a \in Nat /\ f[a].first \in Nat /\ f[a].count \in Nat \ {0} /\ f[a].length \in Nat \ {0}
        /\ f[a].first + f[a].count <= count
        /\ a + f[a].length <= e
    BY <2>4, <2>5, ChainFacts
  <2>7. f[a].count > chunk => f[a].count % chunk = 0
    BY <2>4, <2>5 DEF Chain
  <2>8. a - 16 = p /\ a - 8 = p + 8
    BY <2>2
  <2>9. /\ words[p] = f[a].count /\ words[p + 8] = f[a].length
        /\ p \in DOMAIN words /\ p + 8 \in DOMAIN words
    BY <2>1, <2>4, <2>5, <2>8 DEF Framed
  <2>10. total = f[a].first
    BY <2>1, <2>5 DEF Straight, RowsAt
  <2>11. a = p + 16
    OBVIOUS
  <2> HIDE DEF a
  <2>12. ~Chunked!CutEntry
    <3>1. ~(p > size) /\ ~(size - p < 8) /\ ~(p + 8 > size) /\ ~(size - (p + 8) < 8)
      BY <2>1, <2>2, <2>4, <2>6, <2>11
    <3> QED BY <3>1, Offsets DEF Chunked!CutEntry, Chunked!Truncated
  <2>13. Chunked!Minus(count, total) = count - total /\ Chunked!Minus(size, a) = size - a
    <3>1. count - total \in 0..(Modulus - 1) /\ size - a \in 0..(Modulus - 1)
      BY <2>1, <2>2, <2>3, <2>4, <2>6, <2>10
    <3>2. \A x \in 0..(Modulus - 1) : x % Modulus = x
      BY <2>2, Z3
    <3> QED BY <3>1, <3>2 DEF Chunked!Minus
  <2>14. Chunked!EntryFits(words[p], words[p + 8], a)
    <3>1. words[p] # 0 /\ words[p] <= count - total /\ words[p + 8] # 0 /\ words[p + 8] <= size - a
      BY <2>1, <2>3, <2>4, <2>6, <2>9, <2>10
    <3> QED BY <3>1, <2>7, <2>9, <2>13 DEF Chunked!EntryFits, Chunked!Batch
  <2>15. Chunked!Take64(p) = {words[p]} /\ Chunked!Take64(p + 8) = {words[p + 8]}
    BY <2>9 DEF Chunked!Take64
  <2>16. ~Chunked!EntryFits(words[p], words[p + 8], a)
    BY <2>11, <2>12, <2>15, Offsets DEF Chunked!RejectEntry
  <2> QED BY <2>14, <2>16
<1> QED BY <1>1, <1>2, RefusalTells DEF Reads

(* Only what is whole ends where the stream does, with all its rows.       *)
LEMMA FrameTells ==
  ASSUME ReadInv, NEW w, NEW f, NEW e, NEW c, Story(w, f, e, c), Chunked!FrameDone
  PROVE  Story(w, f, e, c)'
<1>1. /\ stage = "entries" /\ Len(entries) = segments
      /\ \/ Chunked!FrameEnds /\ stage' = "native"
            /\ UNCHANGED <<p, segments, total, entries, decoded, out>>
         \/ ~Chunked!FrameEnds /\ Rejected
  BY DEF Chunked!FrameDone, Chunked!Reject, Chunked!Step, Chunked!frame, Rejected
<1>2. /\ Encoded(w, f, e) /\ Altered(w, f, e) /\ Encoded(w, f, e)' /\ Altered(w, f, e)'
      /\ UNCHANGED <<codec, count, chunk, magic, words, payloads, size, damage>>
  BY StreamStays DEF Reads
<1>3. /\ count \in Nat /\ count > 0 /\ p \in Nat /\ size \in Nat
  <2>1. count \in 1..MaxCount /\ MaxCount \in Nat /\ p \in Nat /\ size \in Nat
    BY ChunksAssumed DEF ReadInv, Chunked!TypeOK
  <2> QED BY <2>1
<1>4. /\ Chain(f, e, count) /\ Framed(w, f) /\ w[24] = Cardinality(DOMAIN f) /\ e \in Nat
      /\ DOMAIN f \subseteq Nat /\ magic /\ segments = words[24]
  BY <1>1, <1>2, ChainFacts DEF Encoded, Story, Past
<1>5. ASSUME words = w, Straight(f, e) PROVE p = e /\ total = count
  BY <1>1, <1>3, <1>4, <1>5, StraightGoesOn DEF Straight
<1>6. ASSUME Chunked!FrameEnds PROVE damage \in {"none", "payload", "inner length"}
  <2>1. p = size /\ total = count
    BY <1>6 DEF Chunked!FrameEnds
  <2>2. damage # "magic"
    BY <1>2, <1>4 DEF Altered
  <2>3. damage # "size"
    BY <2>1, <1>1, <1>2, <1>5 DEF Story, Altered
  <2>4. ASSUME damage = "frame" PROVE FALSE
    <3>1. PICK x : BadAt(w, f, e, x) /\ Course(f, e, x)
      BY <2>4, <1>1 DEF Story
    <3>2. size = e /\ p = e
      BY <2>1, <2>4, <1>2 DEF Altered
    <3>3. /\ x + 8 \in DOMAIN f => p < x
          /\ total = RowsAt(f, p) + (IF x + 16 \in DOMAIN f /\ x < p
                                     THEN words[x] - f[x + 16].count ELSE 0)
          /\ x \notin {8, 16} /\ Len(entries) = Cardinality(Passed(f, p))
      BY <3>1, <3>2 DEF Course
    <3>4. RowsAt(f, p) = count /\ Passed(f, p) = DOMAIN f
      BY <3>2, <1>3, <1>4, WalkEnds
    <3>5. x \in {24} \cup {b - 16 : b \in DOMAIN f} \cup {b - 8 : b \in DOMAIN f}
      BY <3>1, <3>3, <1>4 DEF BadAt, Framed
    <3>6. CASE x = 24
      BY <3>6, <3>1, <3>3, <3>4, <1>1, <1>4 DEF BadAt
    <3>7. CASE x \in {b - 16 : b \in DOMAIN f}
      <4>1. PICK b \in DOMAIN f : x = b - 16
        BY <3>7
      <4>2. b \in Nat /\ b >= 48 /\ f[b].length \in Nat /\ b + f[b].length <= e /\ f[b].count \in Nat
        BY <1>4, ChainFacts
      <4>3. x + 16 = b /\ x < p
        BY <4>1, <4>2, <3>2, <1>4
      <4>4. words[x] \in Nat
        BY <3>1 DEF BadAt, ReadInv, Chunked!TypeOK
      <4>5. words[x] # f[b].count
        BY <4>1, <3>1, <1>4 DEF BadAt, Framed
      <4> QED BY <4>2, <4>3, <4>4, <4>5, <3>3, <3>4, <2>1, <1>3
    <3>8. CASE x \in {b - 8 : b \in DOMAIN f}
      <4>1. PICK b \in DOMAIN f : x = b - 8
        BY <3>8
      <4>2. b \in Nat /\ b >= 48 /\ f[b].length \in Nat /\ b + f[b].length <= e
        BY <1>4, ChainFacts
      <4>3. x + 8 = b
        BY <4>1, <4>2
      <4> QED BY <4>1, <4>2, <4>3, <3>2, <3>3, <1>3
    <3> QED BY <3>5, <3>6, <3>7, <3>8
  <2>5. damage \in {"none", "payload", "inner length", "frame", "magic", "size"}
    BY DEF ReadInv, Chunked!TypeOK
  <2> QED BY <2>2, <2>3, <2>4, <2>5
<1>7. CASE Chunked!FrameEnds /\ stage' = "native"
           /\ UNCHANGED <<p, segments, total, entries, decoded, out>>
  <2>1. total = count /\ damage \in {"none", "payload", "inner length"}
    BY <1>6, <1>7 DEF Chunked!FrameEnds
  <2>2. Counted(c) /\ (damage \in {"none", "payload"} => Matched(f, c) /\ InPlace)
    BY <1>1 DEF Story, Past
  <2>3. Counted(c)' /\ (damage \in {"none", "payload"} => Matched(f, c)' /\ InPlace')
    BY <2>2, <1>2, <1>7 DEF Counted, Matched, InPlace, Chunked!Batch
  <2> QED BY <2>1, <2>3, <1>1, <1>2, <1>7 DEF Story, Past
<1>8. CASE ~Chunked!FrameEnds /\ Rejected
  <2>1. damage # "none"
    <3> SUFFICES ASSUME damage = "none" PROVE FALSE
      OBVIOUS
    <3>1. words = w /\ size = e /\ Straight(f, e)
      BY <1>1, <1>2 DEF Story, Altered
    <3> QED BY <3>1, <1>5, <1>8 DEF Chunked!FrameEnds
  <2> QED BY <2>1, <1>8, RefusalTells DEF Reads
<1> QED BY <1>1, <1>7, <1>8

(* ---- decode_triplet: the rows ----------------------------------------- *)

(* The payload of an entry of the stream gives its rows, unless it was     *)
(* damaged; then it gives nothing that counts.                             *)
LEMMA PayloadTells ==
  ASSUME ReadInv, NEW w, NEW f, NEW e, NEW c, Story(w, f, e, c), stage = "native",
         decoded < Len(entries), damage \in {"none", "payload"},
         NEW rows \in Chunked!Native(entries[decoded + 1])
  PROVE  /\ damage = "none" => Len(rows) = entries[decoded + 1].count
         /\ \A i \in 1..Len(rows) :
              \/ rows[i] = c[decoded] + i - 1
              \/ damage = "payload" /\ rows[i] = None
<1> DEFINE k == decoded + 1
           b == entries[k].offset
           whole == /\ b \in DOMAIN payloads
                    /\ payloads[b].length = entries[k].length
                    /\ (payloads[b].count > chunk /\ codec = "lcp") = entries[k].batch
<1>1. /\ Altered(w, f, e) /\ Encoded(w, f, e) /\ Matched(f, c) /\ Counted(c)
  BY DEF Story, Past
<1>2. decoded \in Nat /\ k \in 1..Len(entries) /\ k - 1 = decoded
  <2>1. decoded \in 0..Len(entries) /\ entries \in Seq(Chunked!Segment)
    BY DEF ReadInv, Chunked!TypeOK
  <2> QED BY <2>1
<1>3. /\ b \in DOMAIN f /\ f[b].first = c[decoded]
      /\ entries[k].length = f[b].length /\ entries[k].count = f[b].count
      /\ entries[k].batch = Chunked!Batch(f[b].count)
  <2> HIDE DEF k
  <2> QED BY <1>1, <1>2 DEF Matched
<1>4. f[b].first \in Nat /\ f[b].count \in Nat
  <2> HIDE DEF b
  <2> QED BY <1>1, <1>3, ChainFacts DEF Encoded
<1>5. b \in DOMAIN payloads => payloads[b] = f[b] /\ whole
  <2> SUFFICES ASSUME b \in DOMAIN payloads PROVE payloads[b] = f[b] /\ whole
    OBVIOUS
  <2>1. payloads[b] = f[b]
    BY <1>1 DEF Altered
  <2>2. (f[b].count > chunk /\ codec = "lcp") = Chunked!Batch(f[b].count)
    BY DEF Chunked!Batch
  <2> HIDE DEF b, k
  <2> QED BY <1>3, <2>1, <2>2
<1>6. damage = "none" => b \in DOMAIN payloads
  BY <1>1, <1>3 DEF Altered
<1>7. rows \in IF whole THEN {Chunked!Rows(payloads[b].first, payloads[b].count)}
               ELSE {[i \in 1..many |-> None] : many \in 0..(MaxCount + 1)}
  BY DEF Chunked!Native
<1> HIDE DEF b, k
<1>8. CASE b \in DOMAIN payloads
  <2>1. rows = [i \in 1..f[b].count |-> f[b].first + i - 1]
    BY <1>5, <1>7, <1>8 DEF Chunked!Rows
  <2>2. Len(rows) = f[b].count /\ \A i \in 1..f[b].count : rows[i] = f[b].first + i - 1
    BY <2>1, <1>4
  <2> QED BY <2>2, <1>3 DEF k
<1>9. CASE b \notin DOMAIN payloads
  <2>1. damage = "payload"
    BY <1>6, <1>9
  <2>2. PICK many \in 0..(MaxCount + 1) : rows = [i \in 1..many |-> None]
    BY <1>7, <1>9 DEF whole
  <2>3. many \in Nat
    BY ChunksAssumed
  <2>4. Len(rows) = many /\ \A i \in 1..many : rows[i] = None
    BY <2>2, <2>3
  <2> QED BY <2>1, <2>4
<1> QED BY <1>8, <1>9

LEMMA DecodeTells ==
  ASSUME ReadInv, NEW w, NEW f, NEW e, NEW c, Story(w, f, e, c), Chunked!DecodeChunk
  PROVE  Story(w, f, e, c)'
<1>1. /\ stage = "native" /\ decoded < Len(entries)
      /\ \E rows \in Chunked!Native(entries[decoded + 1]) :
           \/ Rejected /\ Len(rows) # entries[decoded + 1].count
           \/ /\ Len(rows) = entries[decoded + 1].count
              /\ out' = out \o rows /\ decoded' = decoded + 1
              /\ UNCHANGED <<p, segments, total, entries, stage>>
  BY DEF Chunked!DecodeChunk, Chunked!Reject, Chunked!Step, Chunked!frame, Rejected
<1>2. /\ Encoded(w, f, e)' /\ Altered(w, f, e)'
      /\ UNCHANGED <<codec, count, chunk, magic, words, payloads, size, damage>>
  BY StreamStays DEF Reads
<1>3. PICK rows \in Chunked!Native(entries[decoded + 1]) :
        \/ Rejected /\ Len(rows) # entries[decoded + 1].count
        \/ /\ Len(rows) = entries[decoded + 1].count
           /\ out' = out \o rows /\ decoded' = decoded + 1
           /\ UNCHANGED <<p, segments, total, entries, stage>>
  BY <1>1
<1>4. damage \in {"none", "payload"} =>
        /\ damage = "none" => Len(rows) = entries[decoded + 1].count
        /\ \A i \in 1..Len(rows) :
             \/ rows[i] = c[decoded] + i - 1
             \/ damage = "payload" /\ rows[i] = None
  BY <1>1, PayloadTells
<1>5. CASE Rejected /\ Len(rows) # entries[decoded + 1].count
  <2>1. damage # "none"
    BY <1>4, <1>5
  <2> QED BY <2>1, <1>5, RefusalTells DEF Reads
<1>6. CASE /\ Len(rows) = entries[decoded + 1].count
           /\ out' = out \o rows /\ decoded' = decoded + 1
           /\ UNCHANGED <<p, segments, total, entries, stage>>
  <2>1. /\ decoded \in Nat /\ decoded + 1 \in 1..Len(entries) /\ decoded + 1 - 1 = decoded
        /\ out \in Seq(Nat \cup {None}) /\ decoded \in 0..Len(entries)
    <3>1. decoded \in 0..Len(entries) /\ entries \in Seq(Chunked!Segment)
          /\ out \in Seq(Nat \cup {None})
      BY DEF ReadInv, Chunked!TypeOK
    <3> QED BY <3>1, <1>1
  <2>2. rows \in Seq(Nat \cup {None})
    BY NativeRows
  <2>3. /\ Len(out') = Len(out) + Len(rows) /\ Len(out) \in Nat /\ Len(rows) \in Nat
        /\ \A i \in 1..Len(out) : out'[i] = out[i]
        /\ \A i \in 1..Len(rows) : out'[Len(out) + i] = rows[i]
    BY <2>1, <2>2, <1>6
  <2>4. Counted(c) /\ Len(out) = c[decoded]
    BY <1>1 DEF Story, Past, Counted
  <2>5. c[decoded + 1] = c[decoded] + entries[decoded + 1].count
    BY <2>1, <2>4 DEF Counted
  <2>6. Counted(c)'
    BY <2>3, <2>4, <2>5, <1>6 DEF Counted
  <2>7. ASSUME damage \in {"none", "payload"} PROVE Matched(f, c)' /\ InPlace'
    <3>1. Matched(f, c) /\ InPlace
      BY <1>1, <2>7 DEF Story, Past
    <3>2. Matched(f, c)'
      BY <3>1, <1>2, <1>6 DEF Matched, Chunked!Batch
    <3>3. ASSUME NEW i \in 1..Len(out')
          PROVE  out'[i] = i - 1 \/ (damage = "payload" /\ out'[i] = None)
      <4>1. CASE i \in 1..Len(out)
        BY <4>1, <3>1, <2>3 DEF InPlace
      <4>2. CASE i \notin 1..Len(out)
        <5> DEFINE j == i - Len(out)
        <5>1. j \in 1..Len(rows) /\ i = Len(out) + j /\ i \in Nat
          BY <4>2, <2>3
        <5> HIDE DEF j
        <5>2. out'[i] = rows[j]
          BY <5>1, <2>3
        <5>3. rows[j] = c[decoded] + j - 1 \/ (damage = "payload" /\ rows[j] = None)
          <6>1. \A y \in 1..Len(rows) :
                  \/ rows[y] = c[decoded] + y - 1
                  \/ damage = "payload" /\ rows[y] = None
            BY <1>4, <2>7, Zenon
          <6> QED BY <5>1, <6>1, Zenon
        <5>4. c[decoded] + j - 1 = i - 1
          BY <5>1, <2>3, <2>4
        <5> QED BY <5>2, <5>3, <5>4
      <4> QED BY <4>1, <4>2
    <3>4. InPlace'
      BY <3>3, <1>2 DEF InPlace
    <3> QED BY <3>2, <3>4
  <2> QED BY <2>6, <2>7, <1>1, <1>2, <1>6 DEF Story, Past
<1> QED BY <1>3, <1>5, <1>6

LEMMA DoneTells ==
  ASSUME ReadInv, NEW w, NEW f, NEW e, NEW c, Story(w, f, e, c), Chunked!DecodeDone
  PROVE  Story(w, f, e, c)'
<1>1. /\ stage = "native" /\ decoded = Len(entries) /\ stage' = "accepted"
      /\ UNCHANGED <<p, segments, total, entries, decoded, out>>
  BY DEF Chunked!DecodeDone, Chunked!Step, Chunked!frame
<1>2. /\ Encoded(w, f, e)' /\ Altered(w, f, e)'
      /\ UNCHANGED <<codec, count, chunk, magic, words, payloads, size, damage>>
  BY StreamStays DEF Reads
<1>3. Counted(c) /\ (damage \in {"none", "payload"} => Matched(f, c) /\ InPlace)
  BY <1>1 DEF Story, Past
<1>4. Counted(c)' /\ (damage \in {"none", "payload"} => Matched(f, c)' /\ InPlace')
  BY <1>1, <1>2, <1>3 DEF Counted, Matched, InPlace, Chunked!Batch
<1> QED BY <1>1, <1>2, <1>4 DEF Story, Past

(* ---- the container as a whole ----------------------------------------- *)

ChunkInv ==
  /\ ReadInv
  /\ stage = "encode" => Arguments /\ EncodeInv
  /\ stage = "damage" => Damageable
  /\ stage \notin {"encode", "damage"} => \E w, f, e, c : Story(w, f, e, c)

(* A stream that is being encoded, or waits for its reader.                *)
Waiting ==
  /\ Arguments /\ Idle /\ magic = TRUE /\ damage = "none" /\ start \in 0..count
  /\ stage \in {"encode", "damage"}
  /\ \E rows : Chain(payloads, size, rows) /\ Framed(words, payloads)

LEMMA WaitingReads == Waiting => ReadInv
BY EncodedReads DEF Waiting

LEMMA ChunkInit == Chunked!Init => ChunkInv
<1> SUFFICES ASSUME Chunked!Init PROVE ChunkInv
  OBVIOUS
<1>1. Arguments /\ stage = "encode" /\ EncodeInv
  BY EncodeInit
<1>2. ReadInv
  BY <1>1, WaitingReads DEF EncodeInv, Waiting
<1> QED BY <1>1, <1>2 DEF ChunkInv

LEMMA ChunkNext == ChunkInv /\ [Chunked!Next]_(Chunked!vars) => ChunkInv'
<1> SUFFICES ASSUME ChunkInv, [Chunked!Next]_(Chunked!vars) PROVE ChunkInv'
  OBVIOUS
<1>1. CASE Chunked!EncodeChunk \/ Chunked!EncodeBatch
  <2>1. stage = "encode"
    BY <1>1 DEF Chunked!EncodeChunk, Chunked!EncodeBatch
  <2>2. Arguments' /\ EncodeInv' /\ stage' = "encode"
    BY <1>1, <2>1, EncodeChunkKeeps, EncodeBatchKeeps DEF ChunkInv
  <2>3. Waiting'
    BY <2>2 DEF EncodeInv, Waiting
  <2>4. ReadInv'
    BY <2>3, WaitingReads, PTL
  <2> QED BY <2>2, <2>4 DEF ChunkInv
<1>2. CASE Chunked!EncodeDone
  <2>1. stage = "encode"
    BY <1>2 DEF Chunked!EncodeDone
  <2>2. /\ Arguments' /\ stage' = "damage" /\ Idle' /\ magic' = TRUE /\ damage' = "none"
        /\ start' = count' /\ Encoded(words, payloads, size)'
    BY <1>2, <2>1, EncodeDoneKeeps DEF ChunkInv
  <2>3. start' \in 0..count'
    BY <2>2, ChunksAssumed DEF Arguments
  <2>4. Waiting'
    BY <2>2, <2>3 DEF Encoded, Waiting
  <2>5. ReadInv'
    BY <2>4, WaitingReads, PTL
  <2> QED BY <2>2, <2>5 DEF ChunkInv, Damageable
<1>3. CASE Damages
  <2>1. ReadInv /\ stage = "damage" /\ stage' = "header"
    BY <1>3, DamageKeepsReading DEF ChunkInv
  <2>2. Damageable /\ entries = <<>>
    BY <2>1 DEF ChunkInv, Damageable, Idle
  <2>3. ReadInv'
    BY <1>3, <2>1, <2>2, DamageKeepsReading
  <2>4. PICK w, f, e : w = words /\ f = payloads /\ e = size
    OBVIOUS
  <2>5. Story(w, f, e, <<>>)'
    BY <1>3, <2>1, <2>2, <2>4, DamageTells
  <2>6. (\E v, g, z, c : Story(v, g, z, c))'
    BY <2>5
  <2> QED BY <2>1, <2>3, <2>6 DEF ChunkInv
<1>4. CASE Reads
  <2>1. stage \in {"header", "entries", "native"} /\ stage' \notin {"encode", "damage"}
    BY <1>4 DEF Reads, Chunked!ReadHeader, Chunked!RejectHeader, Chunked!ReadEntry,
         Chunked!RejectEntry, Chunked!FrameDone, Chunked!DecodeChunk, Chunked!DecodeDone,
         Chunked!Step, Chunked!Reject, Chunked!AtEntry
  <2>2. ReadInv /\ ReadInv'
    BY <1>4, ReadsKeepReading DEF ChunkInv
  <2>3. PICK w, f, e, c : Story(w, f, e, c)
    BY <2>1 DEF ChunkInv
  <2>4. \E d : Story(w, f, e, d)'
    BY <1>4, <2>2, <2>3, HeaderTells, RejectHeaderTells, EntryTells, RejectEntryTells, FrameTells,
       DecodeTells, DoneTells DEF Reads
  <2>5. (\E v, g, z, d : Story(v, g, z, d))'
    BY <2>4
  <2> QED BY <2>1, <2>2, <2>5 DEF ChunkInv
<1>5. CASE UNCHANGED Chunked!vars
  <2>1. UNCHANGED <<codec, count, chunk, start, magic, words, payloads, size, damage,
                    p, segments, total, entries, decoded, out, stage>>
    BY <1>5 DEF Chunked!vars, Chunked!arguments, Chunked!stream, Chunked!frame
  <2>2. ReadInv'
    BY ZenonT(60), <2>1 DEF ChunkInv, ReadInv, Chunked!TypeOK, Chunked!EntriesInStream, Chunked!Segment
  <2>3. /\ Arguments <=> Arguments'
        /\ Idle <=> Idle'
    BY <2>1 DEF Arguments, Idle
  <2>4. EncodeInv => EncodeInv'
    BY <2>1, <2>3 DEF EncodeInv, Chain, Framed, Limited, Left
  <2>5. Damageable => Damageable'
    BY <2>1, <2>3 DEF Damageable, Encoded, Chain, Framed
  <2>6. ASSUME NEW w, NEW f, NEW e, NEW c, Story(w, f, e, c) PROVE Story(w, f, e, c)'
    <3>1. Encoded(w, f, e) => Encoded(w, f, e)'
      BY <2>1 DEF Encoded, Chain, Framed
    <3>2. \A x : BadAt(w, f, e, x) => BadAt(w, f, e, x)'
      BY <2>1 DEF BadAt
    <3>3. \A x : Course(f, e, x) => Course(f, e, x)'
      BY <2>1 DEF Course, Passed, OnEntry, RowsAt
    <3>4. Altered(w, f, e) => Altered(w, f, e)'
      BY <2>1, <3>2 DEF Altered
    <3>5. Straight(f, e) => Straight(f, e)'
      BY <2>1 DEF Straight, Passed, OnEntry, RowsAt
    <3>6. /\ Counted(c) => Counted(c)' 
          /\ Matched(f, c) => Matched(f, c)'
          /\ InPlace => InPlace'
      BY <2>1 DEF Counted, Matched, InPlace, Chunked!Batch
    <3> QED BY <2>1, <2>3, <2>6, <3>1, <3>2, <3>3, <3>4, <3>5, <3>6 DEF Story
  <2>7. ASSUME NEW w, NEW f, NEW e, NEW c, Story(w, f, e, c)
        PROVE  (\E v, g, z, d : Story(v, g, z, d))'
    BY <2>6, <2>7
  <2>8. CASE stage \in {"encode", "damage"}
    BY <2>1, <2>2, <2>3, <2>4, <2>5, <2>8 DEF ChunkInv
  <2>9. CASE stage \notin {"encode", "damage"}
    BY <2>1, <2>2, <2>7, <2>9 DEF ChunkInv
  <2> QED BY <2>8, <2>9
<1> QED BY <1>1, <1>2, <1>3, <1>4, <1>5 DEF Chunked!Next, Chunked!Done, Damages, Reads

(* What the story of a stream says of what is read.                        *)
LEMMA ChunkFollows == ChunkInv => Chunked!DecodedAsFramed
<1> SUFFICES ASSUME ChunkInv PROVE Chunked!DecodedAsFramed
  OBVIOUS
<1>1. CASE stage \in {"encode", "damage"}
  BY <1>1 DEF Chunked!DecodedAsFramed, Chunked!FramingChecked, Chunked!Undamaged,
       Chunked!AcceptedWhole
<1>2. CASE stage \notin {"encode", "damage"}
  <2>1. PICK w, f, e, c : Story(w, f, e, c)
    BY <1>2 DEF ChunkInv
  <2>2. Chunked!FramingChecked /\ (damage = "none" => stage # "rejected")
    BY <2>1 DEF Story, Chunked!FramingChecked
  <2>3. ASSUME stage = "accepted"
        PROVE  /\ Len(out) = count /\ count \in Nat /\ out \in Seq(Nat \cup {None})
               /\ damage \in {"none", "payload", "inner length"}
               /\ damage \in {"none", "payload"} => InPlace
    <3>1. Len(out) = count
      BY <2>1, <2>3 DEF Story, Past, Counted
    <3>2. out \in Seq(Nat \cup {None})
      BY DEF ChunkInv, ReadInv, Chunked!TypeOK
    <3>3. count \in 1..MaxCount /\ MaxCount \in Nat
      BY ChunksAssumed DEF ChunkInv, ReadInv, Chunked!TypeOK
    <3>4. count \in Nat
      BY <3>3
    <3> QED BY <2>1, <2>3, <3>1, <3>2, <3>4 DEF Story, Past
  <2>4. Chunked!AcceptedWhole
    BY <2>3 DEF Chunked!AcceptedWhole, InPlace
  <2>5. ASSUME stage = "accepted", damage = "none" PROVE out = Chunked!Rows(0, count)
    <3>1. out = [i \in 1..count |-> out[i]]
      BY <2>3, <2>5
    <3>2. \A i \in 1..count : out[i] = 0 + i - 1
      BY <2>3, <2>5 DEF InPlace
    <3>3. Chunked!Rows(0, count) = [i \in 1..count |-> 0 + i - 1]
      BY DEF Chunked!Rows
    <3> QED BY <3>1, <3>2, <3>3
  <2> QED BY <2>2, <2>4, <2>5 DEF Chunked!DecodedAsFramed, Chunked!Undamaged
<1> QED BY <1>1, <1>2

LEMMA ChunksKept == Spec => [](part = "chunks" => ChunkInv)
<1> DEFINE Inv == part = "chunks" => ChunkInv
<1>1. Init => Inv
  BY ChunkInit DEF Init
<1>2. Inv /\ [Next]_vars => Inv'
  <2> SUFFICES ASSUME Inv, [Next]_vars, part' = "chunks" PROVE ChunkInv'
    OBVIOUS
  <2>1. CASE part = "chunks" /\ Chunked!Next
    BY <2>1, ChunkNext
  <2>2. CASE UNCHANGED vars
    <3>1. UNCHANGED Chunked!vars /\ part' = part
      BY <2>2 DEF vars, packageVars, chunkVars, Chunked!vars, Chunked!arguments, Chunked!stream, Chunked!frame
    <3> QED BY <3>1, ChunkNext
  <2> QED BY <2>1, <2>2 DEF Next
<1> HIDE DEF Inv
<1>3. Spec => []Inv
  BY <1>1, <1>2, PTL DEF Spec
<1> QED BY <1>3 DEF Inv

(* Whatever happened to the bytes of a stream, no check of decode_triplet  *)
(* wraps around, no range that goes to a native decoder leaves the stream  *)
(* or overlaps another one, and no more rows are announced than there are. *)
THEOREM EntriesStayInStream == Spec => []EntriesInStream
<1>1. (part = "chunks" => ChunkInv) => EntriesInStream
  BY DEF ChunkInv, ReadInv, EntriesInStream
<1> QED BY <1>1, ChunksKept, PTL

(* decode_triplet gives back all rows of what encode_triplet, or a writer  *)
(* of batch segments, framed; it refuses what was cut, lengthened or       *)
(* changed in a word of the frame, but for the length of an inner entry;   *)
(* and what it accepts has all its rows, each in its place or lost.        *)
THEOREM StreamsAreFramed == Spec => []DecodedAsFramed
<1>1. (part = "chunks" => ChunkInv) => DecodedAsFramed
  BY ChunkFollows DEF DecodedAsFramed
<1> QED BY <1>1, ChunksKept, PTL
-------------------------------------------------------------------------------
(* ---- the fields of a file --------------------------------------------- *)

IsPath(path) == path \in Seq(HdfNames) /\ path # <<>>
NameOf(path) == Lower[Fields!Last(path)]

LEMMA FieldsAssumed ==
  /\ HdfNames \subseteq Int /\ Lower \in [HdfNames -> HdfNames]
  /\ \A i \in Fields!Logical : Aliases[i] \in Seq(HdfNames)
  /\ \A i, j \in Fields!Logical :
       \A k \in DOMAIN Aliases[i], l \in DOMAIN Aliases[j] : Aliases[i][k] = Aliases[j][l] => i = j
  /\ \A h \in HdfFiles : \A path \in DOMAIN h : IsPath(path)
<1>1. Fields!FieldSearchAssumption
  BY FilesAssumption
<1>2. \A i, j \in Fields!Logical :
        i # j => Fields!ToSet(Aliases[i]) \cap Fields!ToSet(Aliases[j]) = {}
  BY <1>1 DEF Fields!FieldSearchAssumption
<1>3. ASSUME NEW i \in Fields!Logical, NEW j \in Fields!Logical,
             NEW k \in DOMAIN Aliases[i], NEW l \in DOMAIN Aliases[j],
             Aliases[i][k] = Aliases[j][l]
      PROVE  i = j
  <2>1. Aliases[i][k] \in Fields!ToSet(Aliases[i]) /\ Aliases[i][k] \in Fields!ToSet(Aliases[j])
    BY <1>3 DEF Fields!ToSet
  <2> QED BY <1>2, <2>1
<1> QED BY <1>1, <1>3 DEF Fields!FieldSearchAssumption, Fields!Paths, IsPath

LEMMA PathIs ==
  ASSUME NEW path, IsPath(path)
  PROVE  /\ Len(path) \in Nat \ {0} /\ DOMAIN path = 1..Len(path)
         /\ Fields!Last(path) \in HdfNames /\ NameOf(path) \in HdfNames
         /\ \A n \in 1..Len(path) : path[n] \in Int
         /\ Fields!Parent(path) \in Seq(HdfNames) /\ Len(Fields!Parent(path)) = Len(path) - 1
         /\ \A n \in 1..(Len(path) - 1) : Fields!Parent(path)[n] = path[n]
<1>1. path \in Seq(HdfNames) /\ path # <<>> /\ HdfNames \subseteq Int /\ Lower \in [HdfNames -> HdfNames]
  BY FieldsAssumed DEF IsPath
<1>2. Len(path) \in Nat \ {0} /\ DOMAIN path = 1..Len(path) /\ \A n \in 1..Len(path) : path[n] \in HdfNames
  BY <1>1
<1>3. Fields!Last(path) \in HdfNames /\ NameOf(path) \in HdfNames
  BY <1>1, <1>2 DEF Fields!Last, NameOf
<1>4. Fields!Parent(path) = SubSeq(path, 1, Len(path) - 1)
  BY DEF Fields!Parent, Fields!Front
<1>5. /\ SubSeq(path, 1, Len(path) - 1) \in Seq(HdfNames)
      /\ Len(SubSeq(path, 1, Len(path) - 1)) = Len(path) - 1
      /\ \A n \in 1..(Len(path) - 1) : SubSeq(path, 1, Len(path) - 1)[n] = path[n]
  BY <1>1, <1>2
<1>6. \A n \in 1..Len(path) : path[n] \in Int
  BY <1>1, <1>2
<1> QED BY <1>2, <1>3, <1>4, <1>5, <1>6

(* A path is not visited before another that is visited before it.         *)
LEMMA BeforeOnce ==
  ASSUME NEW path, NEW q, IsPath(path), IsPath(q), Fields!Before(path, q)
  PROVE  ~Fields!Before(q, path)
<1> SUFFICES ASSUME Fields!Before(q, path) PROVE FALSE
  OBVIOUS
<1>1. PICK i \in DOMAIN path \cap DOMAIN q : path[i] < q[i] /\ \A j \in 1..(i - 1) : path[j] = q[j]
  BY DEF Fields!Before
<1>2. PICK k \in DOMAIN path \cap DOMAIN q : q[k] < path[k] /\ \A j \in 1..(k - 1) : q[j] = path[j]
  BY DEF Fields!Before
<1>3. /\ i \in Nat \ {0} /\ k \in Nat \ {0}
      /\ path[i] \in Int /\ q[i] \in Int /\ path[k] \in Int /\ q[k] \in Int
  BY PathIs
<1> QED BY <1>1, <1>2, <1>3

(* Two groups, none inside the other, differ in a first name.              *)
LEMMA GroupsPart ==
  ASSUME NEW g \in Seq(HdfNames), NEW h \in Seq(HdfNames), g # h,
         ~Fields!IsStrictPrefix(g, h), ~Fields!IsStrictPrefix(h, g)
  PROVE  \E n \in 1..Len(g) : /\ n <= Len(h) /\ g[n] # h[n]
                              /\ \A j \in 1..(n - 1) : g[j] = h[j]
<1> DEFINE T == {n \in Nat : n \in 1..Len(g) /\ n <= Len(h) /\ g[n] # h[n]}
<1>0. Len(g) \in Nat /\ Len(h) \in Nat
  OBVIOUS
<1>1. ASSUME NEW a \in Seq(HdfNames), NEW b \in Seq(HdfNames), a # b, Len(a) <= Len(b),
             \A n \in 1..Len(a) : a[n] = b[n]
      PROVE  Fields!IsStrictPrefix(a, b)
  <2>1. SubSeq(a, 1, Len(a)) = SubSeq(b, 1, Len(a))
    BY <1>1
  <2> QED BY <1>1, <2>1 DEF Fields!IsStrictPrefix, Fields!IsPrefix
<1>2. T # {}
  <2> SUFFICES ASSUME T = {} PROVE FALSE
    OBVIOUS
  <2>1. \A n \in 1..Len(g) : n <= Len(h) => g[n] = h[n]
    OBVIOUS
  <2>2. CASE Len(g) <= Len(h)
    <3>1. \A n \in 1..Len(g) : g[n] = h[n]
      BY <1>0, <2>1, <2>2
    <3> QED BY <1>1, <2>2, <3>1
  <2>3. CASE Len(h) <= Len(g)
    <3>1. \A n \in 1..Len(h) : h[n] = g[n]
      BY <1>0, <2>1, <2>3
    <3> QED BY <1>1, <2>3, <3>1
  <2> QED BY <1>0, <2>2, <2>3
<1>3. PICK n \in T : \A m \in T : n <= m
  <2>1. T \subseteq Nat
    OBVIOUS
  <2> HIDE DEF T
  <2> QED BY <1>2, <2>1, LeastNatural
<1>4. \A j \in 1..(n - 1) : g[j] = h[j]
  <2> TAKE j \in 1..(n - 1)
  <2>1. j \in Nat /\ j \in 1..Len(g) /\ j <= Len(h) /\ ~(n <= j)
    BY <1>0
  <2>2. j \notin T
    BY <1>3, <2>1
  <2> QED BY <2>1, <2>2
<1> QED BY <1>4
-------------------------------------------------------------------------------
(* What visit has come to, and what it has kept: of every name, the last.  *)
Visited == Fields!Paths(file) \ todo

VisitInv ==
  /\ \A path \in Fields!Paths(file) : IsPath(path)
  /\ todo \subseteq Fields!Paths(file)
  /\ \A path \in Visited, q \in todo : Fields!Before(path, q)
  /\ DOMAIN available = {NameOf(path) : path \in Visited}
  /\ \A l \in DOMAIN available :
       /\ available[l] \in Visited /\ NameOf(available[l]) = l
       /\ \A path \in Visited : NameOf(path) = l => path = available[l] \/ Fields!Before(path, available[l])

(* The fields of a file that was read as a whole.                          *)
FoundInv ==
  /\ todo = {} /\ \A i \in Fields!Logical : Fields!HasAlias(i)
  /\ found = [i \in Fields!Logical |-> Fields!Chosen(i)]

(* What write_hdf5 wrote.                                                  *)
WrittenInv ==
  firstFound # Fields!Empty =>
    /\ DOMAIN firstFound = Fields!Logical
    /\ Fields!Paths(file) = {firstFound[i][1] : i \in Fields!Logical}
    /\ \A i \in Fields!Logical :
         /\ firstFound[i] = <<firstFound[i][1], content[firstFound[i][1]]>>
         /\ \E k \in DOMAIN Aliases[i] : NameOf(firstFound[i][1]) = Aliases[i][k]
    /\ \A path \in Fields!Paths(file) : file[path] = 1

FieldsInv ==
  /\ stage \in {"visit", "found", "error"}
  /\ VisitInv /\ WrittenInv
  /\ stage = "found" =>
       FoundInv /\ \A i, j \in Fields!Logical : file[found[i]] = file[found[j]]
  /\ stage = "error" =>
       /\ firstFound = Fields!Empty /\ todo = {}
       /\ \/ \E i \in Fields!Logical : ~Fields!HasAlias(i)
          \/ FoundInv /\ \E i, j \in Fields!Logical : file[found[i]] # file[found[j]]

LEMMA FieldsInitInv ==
  ASSUME Fields!Init PROVE FieldsInv
<1>1. /\ file \in HdfFiles /\ content = [path \in DOMAIN file |-> path]
      /\ available = Fields!Empty /\ todo = DOMAIN file /\ firstFound = Fields!Empty
      /\ stage = "visit"
  BY DEF Fields!Init, Fields!Paths
<1>2. DOMAIN available = {} /\ Visited = {}
  BY <1>1 DEF Fields!Empty, Visited, Fields!Paths
<1>3. VisitInv
  BY <1>1, <1>2, FieldsAssumed DEF VisitInv, Fields!Paths
<1> QED BY <1>1, <1>3 DEF FieldsInv, WrittenInv

(* The first alias of a field that the file has.                           *)
LEMMA ChosenIs ==
  ASSUME VisitInv, todo = {}, NEW i \in Fields!Logical, Fields!HasAlias(i)
  PROVE  \E k \in DOMAIN Aliases[i] :
           /\ Aliases[i][k] \in DOMAIN available
           /\ \A m \in 1..(k - 1) : Aliases[i][m] \notin DOMAIN available
           /\ Fields!Chosen(i) = available[Aliases[i][k]]
           /\ Fields!Chosen(i) \in Fields!Paths(file)
           /\ NameOf(Fields!Chosen(i)) = Aliases[i][k]
           /\ \A path \in Fields!Paths(file) :
                NameOf(path) = Aliases[i][k] =>
                  path = Fields!Chosen(i) \/ Fields!Before(path, Fields!Chosen(i))
<1> DEFINE I == {k \in 1..Len(Aliases[i]) : Aliases[i][k] \in DOMAIN available}
           n == Fields!SelectInSeq(Aliases[i], LAMBDA l : l \in DOMAIN available)
<1>1. Aliases[i] \in Seq(HdfNames) /\ DOMAIN Aliases[i] = 1..Len(Aliases[i])
      /\ Len(Aliases[i]) \in Nat
  BY FieldsAssumed
<1>2. I # {} /\ I \subseteq Nat
  BY <1>1 DEF Fields!HasAlias
<1>3. n = CHOOSE k \in I : \A m \in I : k <= m
  BY <1>2 DEF Fields!SelectInSeq, Fields!Min
<1>4. \E k \in I : \A m \in I : k <= m
  <2> HIDE DEF I
  <2> QED BY <1>2, LeastNatural
<1>5. n \in I /\ \A m \in I : n <= m
  <2> HIDE DEF I, n
  <2> QED BY <1>3, <1>4
<1>6. Fields!Chosen(i) = available[Aliases[i][n]]
  BY DEF Fields!Chosen
<1> HIDE DEF n
<1>7. n \in DOMAIN Aliases[i] /\ Aliases[i][n] \in DOMAIN available
  BY <1>1, <1>5
<1>8. \A m \in 1..(n - 1) : Aliases[i][m] \notin DOMAIN available
  <2> TAKE m \in 1..(n - 1)
  <2>1. m \in 1..Len(Aliases[i]) /\ ~(n <= m)
    BY <1>1, <1>5
  <2> QED BY <1>5, <2>1
<1>9. Visited = Fields!Paths(file)
  BY DEF Visited
<1> QED BY <1>6, <1>7, <1>8, <1>9 DEF VisitInv

LEMMA VisitKeepsInv ==
  ASSUME FieldsInv, Fields!Visit PROVE FieldsInv'
<1>1. PICK path \in todo :
        /\ \A other \in todo \ {path} : Fields!Before(path, other)
        /\ available' = Fields!Kept(path)
        /\ todo' = todo \ {path}
  BY DEF Fields!Visit
<1>2. stage = "visit" /\ UNCHANGED <<file, content, found, firstFound, stage>>
  BY DEF Fields!Visit
<1>3. VisitInv /\ WrittenInv
  BY DEF FieldsInv
<1>4. Fields!Paths(file)' = Fields!Paths(file) /\ path \in Fields!Paths(file)
      /\ Visited' = Visited \cup {path} /\ path \notin Visited
  BY <1>1, <1>2, <1>3 DEF Visited, Fields!Paths, VisitInv
<1>5. available' = [l \in DOMAIN available \cup {NameOf(path)} |->
                      IF l = NameOf(path) THEN path ELSE available[l]]
  BY <1>1 DEF Fields!Kept, NameOf
<1>6. todo' \subseteq Fields!Paths(file)' /\ \A q \in Fields!Paths(file)' : IsPath(q)
  BY <1>1, <1>3, <1>4 DEF VisitInv
<1>7. \A q \in Visited', r \in todo' : Fields!Before(q, r)
  BY <1>1, <1>3, <1>4 DEF VisitInv
<1>8. DOMAIN available' = {NameOf(q) : q \in Visited'}
  BY <1>3, <1>4, <1>5 DEF VisitInv
<1>9. ASSUME NEW l \in DOMAIN available'
      PROVE  /\ available'[l] \in Visited' /\ NameOf(available'[l]) = l
             /\ \A q \in Visited' :
                  NameOf(q) = l => q = available'[l] \/ Fields!Before(q, available'[l])
  <2>1. CASE l = NameOf(path)
    <3>1. available'[l] = path
      BY <1>5, <2>1
    <3>2. \A q \in Visited : Fields!Before(q, path)
      BY <1>3 DEF VisitInv
    <3> QED BY <1>4, <2>1, <3>1, <3>2
  <2>2. CASE l # NameOf(path)
    <3>1. l \in DOMAIN available /\ available'[l] = available[l]
      BY <1>5, <2>2
    <3> QED BY <1>3, <1>4, <2>2, <3>1 DEF VisitInv
  <2> QED BY <2>1, <2>2
<1>10. VisitInv'
  BY <1>6, <1>7, <1>8, <1>9 DEF VisitInv
<1>11. WrittenInv'
  BY <1>2, <1>3, <1>4 DEF WrittenInv
<1> QED BY <1>2, <1>10, <1>11 DEF FieldsInv

(* A reconstruction has every field, under one of its names.               *)
LEMMA WrittenAreFound ==
  ASSUME VisitInv, WrittenInv, todo = {}, firstFound # Fields!Empty, NEW i \in Fields!Logical
  PROVE  Fields!HasAlias(i) /\ Fields!Chosen(i) = firstFound[i][1]
<1>1. PICK k \in DOMAIN Aliases[i] : NameOf(firstFound[i][1]) = Aliases[i][k]
  BY DEF WrittenInv
<1>2. Visited = Fields!Paths(file) /\ firstFound[i][1] \in Fields!Paths(file)
  BY DEF Visited, WrittenInv
<1>3. Aliases[i][k] \in DOMAIN available
  BY <1>1, <1>2 DEF VisitInv
<1>4. Fields!HasAlias(i)
  BY <1>3 DEF Fields!HasAlias
<1>5. PICK m \in DOMAIN Aliases[i] :
        Fields!Chosen(i) \in Fields!Paths(file) /\ NameOf(Fields!Chosen(i)) = Aliases[i][m]
  BY <1>4, ChosenIs
<1>6. PICK j \in Fields!Logical : Fields!Chosen(i) = firstFound[j][1]
  BY <1>5 DEF WrittenInv
<1>7. PICK n \in DOMAIN Aliases[j] : NameOf(firstFound[j][1]) = Aliases[j][n]
  BY DEF WrittenInv
<1>8. i = j
  BY <1>5, <1>6, <1>7, FieldsAssumed
<1> QED BY <1>4, <1>6, <1>8

LEMMA ChoiceStays ==
  ASSUME UNCHANGED available, NEW i
  PROVE  (Fields!HasAlias(i)' <=> Fields!HasAlias(i)) /\ Fields!Chosen(i)' = Fields!Chosen(i)
<1>1. Fields!HasAlias(i)' <=> Fields!HasAlias(i)
  BY DEF Fields!HasAlias
<1>2. Fields!SelectInSeq(Aliases[i], LAMBDA l : l \in DOMAIN available)'
        = Fields!SelectInSeq(Aliases[i], LAMBDA l : l \in DOMAIN available)
  BY DEF Fields!SelectInSeq, Fields!Min
<1> QED BY <1>1, <1>2 DEF Fields!Chosen

LEMMA SelectKeepsInv ==
  ASSUME FieldsInv, Fields!Select PROVE FieldsInv'
<1>1. /\ stage = "visit" /\ todo = {} /\ \A i \in Fields!Logical : Fields!HasAlias(i)
      /\ found' = [i \in Fields!Logical |-> Fields!Chosen(i)]
      /\ stage' = IF \A i, j \in Fields!Logical : file[found'[i]] = file[found'[j]]
                  THEN "found" ELSE "error"
      /\ UNCHANGED <<file, content, available, todo, firstFound>>
  BY DEF Fields!Select
<1>2. VisitInv /\ WrittenInv
  BY DEF FieldsInv
<1>3. VisitInv' /\ WrittenInv'
  BY <1>1, <1>2 DEF VisitInv, WrittenInv, Visited, Fields!Paths
<1>4. FoundInv'
  <2>1. \A i : (Fields!HasAlias(i)' <=> Fields!HasAlias(i)) /\ Fields!Chosen(i)' = Fields!Chosen(i)
    BY <1>1, ChoiceStays
  <2>2. found' = [i \in Fields!Logical |-> Fields!Chosen(i)']
    BY <1>1, <2>1
  <2> QED BY <1>1, <2>1, <2>2 DEF FoundInv, Fields!Logical
<1>5. CASE stage' = "found"
  <2>1. \A i, j \in Fields!Logical : file'[found'[i]] = file'[found'[j]]
    BY <1>1, <1>5
  <2> QED BY <1>3, <1>4, <1>5, <2>1 DEF FieldsInv
<1>6. CASE stage' = "error"
  <2>1. \E i, j \in Fields!Logical : file'[found'[i]] # file'[found'[j]]
    BY <1>1, <1>6
  <2>2. firstFound' = Fields!Empty
    <3> SUFFICES ASSUME firstFound # Fields!Empty PROVE FALSE
      BY <1>1 DEF Fields!Empty
    <3>1. \A i \in Fields!Logical : found'[i] = firstFound[i][1]
      BY <1>1, <1>2, WrittenAreFound
    <3>2. \A i \in Fields!Logical : file[found'[i]] = 1
      BY <1>2, <3>1 DEF WrittenInv
    <3> QED BY <1>1, <2>1, <3>2
  <2>3. todo' = {} /\ Fields!Empty' = Fields!Empty
    BY <1>1 DEF Fields!Empty
  <2> QED BY <1>3, <1>4, <1>6, <2>1, <2>2, <2>3 DEF FieldsInv
<1> QED BY <1>1, <1>5, <1>6

LEMMA SelectThrowsKeepsInv ==
  ASSUME FieldsInv, Fields!SelectThrows PROVE FieldsInv'
<1>1. /\ stage = "visit" /\ todo = {} /\ stage' = "error"
      /\ UNCHANGED <<file, content, available, todo, found, firstFound>>
  BY DEF Fields!SelectThrows
<1>2. VisitInv /\ WrittenInv
  BY DEF FieldsInv
<1>3. VisitInv' /\ WrittenInv'
  BY <1>1, <1>2 DEF VisitInv, WrittenInv, Visited, Fields!Paths
<1>4. PICK i \in Fields!Logical : ~Fields!HasAlias(i)
  BY DEF Fields!SelectThrows
<1>5. firstFound' = Fields!Empty
  BY <1>1, <1>2, <1>4, WrittenAreFound
<1>6. ~Fields!HasAlias(i)'
  BY <1>1, <1>4 DEF Fields!HasAlias
<1> QED BY <1>1, <1>3, <1>5, <1>6 DEF FieldsInv

LEMMA WriteKeepsInv ==
  ASSUME FieldsInv, Fields!WriteAndRead PROVE FieldsInv'
<1> DEFINE places == {found[i] : i \in Fields!Logical}
<1>1. /\ stage = "found" /\ stage' = "visit"
      /\ firstFound' = [i \in Fields!Logical |-> <<found[i], content[found[i]]>>]
      /\ file' = [path \in places |-> 1]
      /\ content' = [path \in places |->
                       content[found[CHOOSE i \in Fields!Logical : found[i] = path]]]
      /\ available' = Fields!Empty /\ todo' = DOMAIN file'
  BY DEF Fields!WriteAndRead, Fields!Place, Fields!Paths
<1>2. VisitInv /\ FoundInv
  BY <1>1 DEF FieldsInv
<1>3. \A i \in Fields!Logical :
        /\ found[i] \in Fields!Paths(file) /\ IsPath(found[i])
        /\ \E k \in DOMAIN Aliases[i] : NameOf(found[i]) = Aliases[i][k]
  <2> TAKE i \in Fields!Logical
  <2>1. todo = {} /\ Fields!HasAlias(i) /\ found[i] = Fields!Chosen(i)
    BY <1>2 DEF FoundInv
  <2> QED BY <1>2, <2>1, ChosenIs DEF VisitInv
<1>4. DOMAIN file' = places /\ Visited' = {} /\ DOMAIN available' = {}
  BY <1>1 DEF Visited, Fields!Paths, Fields!Empty
<1>5. VisitInv'
  BY <1>1, <1>3, <1>4 DEF VisitInv, Fields!Paths
<1>6. \A i \in Fields!Logical : content'[found[i]] = content[found[i]]
  <2> TAKE i \in Fields!Logical
  <2>1. found[CHOOSE j \in Fields!Logical : found[j] = found[i]] = found[i]
    OBVIOUS
  <2>2. content'[found[i]] = content[found[CHOOSE j \in Fields!Logical : found[j] = found[i]]]
    BY <1>1
  <2> QED BY <2>1, <2>2
<1>7. \A i \in Fields!Logical : firstFound'[i] = <<found[i], content[found[i]]>>
  BY <1>1
<1>8. WrittenInv'
  <2>1. DOMAIN firstFound' = Fields!Logical
    BY <1>1
  <2>2. Fields!Paths(file)' = {firstFound'[i][1] : i \in Fields!Logical}
    BY <1>4, <1>7 DEF Fields!Paths
  <2>3. \A path \in Fields!Paths(file)' : file'[path] = 1
    BY <1>1 DEF Fields!Paths
  <2>4. \A i \in Fields!Logical :
          /\ firstFound'[i] = <<firstFound'[i][1], content'[firstFound'[i][1]]>>
          /\ \E k \in DOMAIN Aliases[i] : NameOf(firstFound'[i][1]) = Aliases[i][k]
    BY <1>3, <1>6, <1>7
  <2> QED BY <2>1, <2>2, <2>3, <2>4 DEF WrittenInv, Fields!Logical
<1> QED BY <1>1, <1>5, <1>8 DEF FieldsInv

LEMMA FieldsStay ==
  ASSUME FieldsInv, UNCHANGED <<fieldVars, stage>> PROVE FieldsInv'
<1>1. UNCHANGED <<file, content, available, todo, found, firstFound, stage>>
  BY DEF fieldVars
<1>2. VisitInv' /\ WrittenInv'
  BY <1>1 DEF FieldsInv, VisitInv, WrittenInv, Visited, Fields!Paths
<1>3. (FoundInv => FoundInv') /\ \A i : Fields!HasAlias(i)' <=> Fields!HasAlias(i)
  <2>1. \A i : (Fields!HasAlias(i)' <=> Fields!HasAlias(i)) /\ Fields!Chosen(i)' = Fields!Chosen(i)
    BY <1>1, ChoiceStays
  <2>2. ASSUME FoundInv PROVE FoundInv'
    <3>1. found' = [i \in Fields!Logical |-> Fields!Chosen(i)']
      BY <1>1, <2>1, <2>2 DEF FoundInv
    <3> QED BY <1>1, <2>1, <2>2, <3>1 DEF FoundInv, Fields!Logical
  <2> QED BY <2>1, <2>2
<1>4. /\ stage = "found" =>
           FoundInv' /\ \A i, j \in Fields!Logical : file'[found'[i]] = file'[found'[j]]
      /\ stage = "error" =>
           /\ firstFound' = Fields!Empty /\ todo' = {}
           /\ \/ \E i \in Fields!Logical : ~Fields!HasAlias(i)'
              \/ FoundInv' /\ \E i, j \in Fields!Logical : file'[found'[i]] # file'[found'[j]]
  BY <1>1, <1>3 DEF FieldsInv
<1> QED BY <1>1, <1>2, <1>4 DEF FieldsInv

LEMMA FieldsNextKeepsInv ==
  ASSUME FieldsInv, Fields!Next PROVE FieldsInv'
<1>1. CASE Fields!Done /\ UNCHANGED Fields!vars
  BY <1>1, FieldsStay DEF Fields!vars, fieldVars
<1> QED BY <1>1, VisitKeepsInv, SelectKeepsInv, SelectThrowsKeepsInv, WriteKeepsInv DEF Fields!Next

(* A path of a field is a candidate of its group.                          *)
LEMMA CandidateIs ==
  ASSUME VisitInv, NEW path \in Fields!Paths(file),
         NEW i \in Fields!Logical, NEW k \in DOMAIN Aliases[i], NameOf(path) = Aliases[i][k]
  PROVE  path \in Fields!Candidates /\ Fields!Parent(path) \in Fields!Groups
         /\ NameOf(path) \in Fields!NamesIn(Fields!Parent(path))
<1>1. Aliases[i][k] \in UNION {Fields!ToSet(Aliases[m]) : m \in Fields!Logical}
  BY DEF Fields!ToSet
<1>2. path \in Fields!Named(Aliases[i][k])
  BY DEF Fields!Named, NameOf
<1>3. path \in Fields!Candidates
  BY <1>1, <1>2 DEF Fields!Candidates
<1>4. Fields!Parent(path) \in Fields!Groups
  BY <1>3 DEF Fields!Groups
<1>5. NameOf(path) \in Fields!NamesIn(Fields!Parent(path))
  BY <1>3 DEF Fields!NamesIn, NameOf
<1> QED BY <1>3, <1>4, <1>5

LEMMA FoundIs ==
  ASSUME FieldsInv, FoundInv, NEW i \in Fields!Logical
  PROVE  \E k \in DOMAIN Aliases[i] :
           /\ Aliases[i][k] \in DOMAIN available
           /\ \A m \in 1..(k - 1) : Aliases[i][m] \notin DOMAIN available
           /\ found[i] \in Fields!Paths(file) /\ IsPath(found[i])
           /\ NameOf(found[i]) = Aliases[i][k]
           /\ \A path \in Fields!Paths(file) :
                NameOf(path) = Aliases[i][k] => path = found[i] \/ Fields!Before(path, found[i])
<1>1. VisitInv /\ todo = {} /\ Fields!HasAlias(i) /\ found[i] = Fields!Chosen(i)
  BY DEF FieldsInv, FoundInv
<1>2. \A path \in Fields!Paths(file) : IsPath(path)
  BY <1>1 DEF VisitInv
<1> QED BY <1>1, <1>2, ChosenIs

(* The group that sorts last has the last dataset of every name.           *)
LEMMA LastGroupWins ==
  ASSUME FieldsInv, FoundInv, NEW i \in Fields!Logical, NEW j \in Fields!Logical,
         \A g, h \in Fields!Groups : Fields!NamesIn(g) = Fields!NamesIn(h),
         NEW n \in 1..Len(Fields!Parent(found[i])), n <= Len(Fields!Parent(found[j])),
         Fields!Parent(found[i])[n] < Fields!Parent(found[j])[n],
         \A m \in 1..(n - 1) : Fields!Parent(found[i])[m] = Fields!Parent(found[j])[m]
  PROVE  FALSE
<1>1. VisitInv
  BY DEF FieldsInv
<1>2. PICK k \in DOMAIN Aliases[i] :
        /\ found[i] \in Fields!Paths(file) /\ IsPath(found[i])
        /\ NameOf(found[i]) = Aliases[i][k]
        /\ \A path \in Fields!Paths(file) :
             NameOf(path) = Aliases[i][k] => path = found[i] \/ Fields!Before(path, found[i])
  BY FoundIs
<1>3. PICK l \in DOMAIN Aliases[j] :
        /\ found[j] \in Fields!Paths(file) /\ IsPath(found[j])
        /\ NameOf(found[j]) = Aliases[j][l]
  BY FoundIs
<1>4. /\ Fields!Parent(found[i]) \in Fields!Groups
      /\ NameOf(found[i]) \in Fields!NamesIn(Fields!Parent(found[i]))
      /\ Fields!Parent(found[j]) \in Fields!Groups
  BY <1>1, <1>2, <1>3, CandidateIs
<1>5. NameOf(found[i]) \in Fields!NamesIn(Fields!Parent(found[j]))
  BY <1>4
<1>6. PICK q \in Fields!Candidates :
        Fields!Parent(q) = Fields!Parent(found[j]) /\ NameOf(q) = NameOf(found[i])
  BY <1>5 DEF Fields!NamesIn, NameOf
<1>7. q \in Fields!Paths(file) /\ IsPath(q)
  BY <1>1, <1>6 DEF Fields!Candidates, Fields!Named, VisitInv
<1>8. /\ Len(found[i]) \in Nat /\ Len(q) \in Nat
      /\ DOMAIN found[i] = 1..Len(found[i]) /\ DOMAIN q = 1..Len(q)
      /\ Len(Fields!Parent(found[i])) = Len(found[i]) - 1
      /\ Len(Fields!Parent(q)) = Len(q) - 1
      /\ \A m \in 1..(Len(found[i]) - 1) : Fields!Parent(found[i])[m] = found[i][m]
      /\ \A m \in 1..(Len(q) - 1) : Fields!Parent(q)[m] = q[m]
  BY <1>2, <1>7, PathIs
<1>9. n \in DOMAIN found[i] \cap DOMAIN q /\ found[i][n] < q[n]
  BY <1>6, <1>8
<1>10. \A m \in 1..(n - 1) : found[i][m] = q[m]
  BY <1>6, <1>8
<1>11. Fields!Before(found[i], q)
  BY <1>9, <1>10 DEF Fields!Before
<1>12. q # found[i]
  BY <1>2, <1>7, <1>11, BeforeOnce
<1>13. Fields!Before(q, found[i])
  BY <1>2, <1>6, <1>7, <1>12
<1> QED BY <1>2, <1>7, <1>11, <1>13, BeforeOnce

LEMMA SpeciesStayTogether ==
  ASSUME FieldsInv PROVE Fields!SpeciesTogether
<1> SUFFICES ASSUME stage = "found",
                    \A g, h \in Fields!Groups :
                      Fields!NamesIn(g) = Fields!NamesIn(h) /\ ~Fields!IsStrictPrefix(g, h),
                    NEW i \in Fields!Logical, NEW j \in Fields!Logical,
                    Fields!Parent(found[i]) # Fields!Parent(found[j])
             PROVE  FALSE
  BY DEF Fields!SpeciesTogether
<1> DEFINE g == Fields!Parent(found[i])
           h == Fields!Parent(found[j])
<1>1. VisitInv /\ FoundInv
  BY DEF FieldsInv
<1>2. \A m \in Fields!Logical :
        /\ IsPath(found[m])
        /\ Fields!Parent(found[m]) \in Fields!Groups
        /\ Fields!Parent(found[m]) \in Seq(HdfNames)
  <2> TAKE m \in Fields!Logical
  <2>1. PICK k \in DOMAIN Aliases[m] :
          found[m] \in Fields!Paths(file) /\ IsPath(found[m]) /\ NameOf(found[m]) = Aliases[m][k]
    BY <1>1, FoundIs
  <2> QED BY <1>1, <2>1, CandidateIs, PathIs
<1>3. g \in Seq(HdfNames) /\ h \in Seq(HdfNames) /\ g # h
      /\ ~Fields!IsStrictPrefix(g, h) /\ ~Fields!IsStrictPrefix(h, g)
  BY <1>2
<1>4. PICK n \in 1..Len(g) : n <= Len(h) /\ g[n] # h[n] /\ \A m \in 1..(n - 1) : g[m] = h[m]
  <2> HIDE DEF g, h
  <2> QED BY <1>3, GroupsPart
<1>5. n \in Nat \ {0} /\ n \in 1..Len(h) /\ n <= Len(g)
  <2>1. Len(g) \in Nat /\ Len(h) \in Nat
    BY <1>3
  <2> QED BY <1>4, <2>1
<1>6. g[n] < h[n] \/ h[n] < g[n]
  <2>1. g[n] \in HdfNames /\ h[n] \in HdfNames
    BY <1>3, <1>4, <1>5
  <2>2. g[n] \in Int /\ h[n] \in Int
    BY <2>1, FieldsAssumed
  <2> QED BY <1>4, <2>2
<1>7. CASE g[n] < h[n]
  BY <1>1, <1>4, <1>7, LastGroupWins
<1>8. CASE h[n] < g[n]
  <2>1. \A m \in 1..(n - 1) : h[m] = g[m]
    BY <1>4
  <2> QED BY <1>1, <1>5, <1>8, <2>1, LastGroupWins
<1> QED BY <1>6, <1>7, <1>8

LEMMA FirstAliasFinds ==
  ASSUME FieldsInv PROVE Fields!FoundByFirstAlias
<1>1. VisitInv
  BY DEF FieldsInv
<1>2. ASSUME todo = {}, NEW l, l \notin DOMAIN available PROVE Fields!Named(l) = {}
  <2>1. Visited = Fields!Paths(file)
    BY <1>2 DEF Visited
  <2>2. \A path \in Fields!Paths(file) : NameOf(path) # l
    BY <1>1, <1>2, <2>1 DEF VisitInv
  <2> QED BY <2>2 DEF Fields!Named, NameOf
<1>3. ASSUME stage = "found", NEW i \in Fields!Logical
      PROVE  \E k \in DOMAIN Aliases[i] :
               /\ found[i] \in Fields!Named(Aliases[i][k])
               /\ \A earlier \in 1..(k - 1) : Fields!Named(Aliases[i][earlier]) = {}
  <2>1. FoundInv /\ todo = {}
    BY <1>3 DEF FieldsInv, FoundInv
  <2>2. PICK k \in DOMAIN Aliases[i] :
          /\ \A m \in 1..(k - 1) : Aliases[i][m] \notin DOMAIN available
          /\ found[i] \in Fields!Paths(file)
          /\ NameOf(found[i]) = Aliases[i][k]
    BY <2>1, FoundIs
  <2>3. found[i] \in Fields!Named(Aliases[i][k])
    BY <2>2 DEF Fields!Named, NameOf
  <2>4. \A m \in 1..(k - 1) : Fields!Named(Aliases[i][m]) = {}
    BY <1>2, <2>1, <2>2
  <2> QED BY <2>3, <2>4
<1>4. ASSUME stage = "error"
      PROVE  \/ \E i \in Fields!Logical : \A k \in DOMAIN Aliases[i] : Fields!Named(Aliases[i][k]) = {}
             \/ \E path, q \in Fields!Candidates : file[path] # file[q]
  <2>1. todo = {}
    BY <1>4 DEF FieldsInv
  <2>2. CASE \E i \in Fields!Logical : ~Fields!HasAlias(i)
    <3>1. PICK i \in Fields!Logical : ~Fields!HasAlias(i)
      BY <2>2
    <3>2. \A k \in DOMAIN Aliases[i] : Fields!Named(Aliases[i][k]) = {}
      BY <1>2, <2>1, <3>1 DEF Fields!HasAlias
    <3> QED BY <3>2
  <2>3. CASE FoundInv /\ \E i, j \in Fields!Logical : file[found[i]] # file[found[j]]
    <3>1. PICK i, j \in Fields!Logical : file[found[i]] # file[found[j]]
      BY <2>3
    <3>2. \A m \in Fields!Logical : found[m] \in Fields!Candidates
      <4> TAKE m \in Fields!Logical
      <4>1. PICK k \in DOMAIN Aliases[m] :
              found[m] \in Fields!Paths(file) /\ NameOf(found[m]) = Aliases[m][k]
        BY <2>3, FoundIs
      <4> QED BY <1>1, <4>1, CandidateIs
    <3> QED BY <3>1, <3>2
  <2> QED BY <1>4, <2>2, <2>3 DEF FieldsInv
<1> QED BY <1>3, <1>4 DEF Fields!FoundByFirstAlias

LEMMA WrittenIsReadAlike ==
  ASSUME FieldsInv PROVE Fields!ReconstructionReadAlike
<1> SUFFICES ASSUME Fields!Done, firstFound # Fields!Empty
             PROVE  /\ stage = "found"
                    /\ \A i \in Fields!Logical : firstFound[i] = <<found[i], content[found[i]]>>
  BY DEF Fields!ReconstructionReadAlike
<1>1. stage = "found"
  BY DEF Fields!Done, FieldsInv
<1>2. VisitInv /\ WrittenInv /\ FoundInv /\ todo = {}
  BY <1>1 DEF FieldsInv, FoundInv
<1>3. ASSUME NEW i \in Fields!Logical PROVE firstFound[i] = <<found[i], content[found[i]]>>
  <2>1. Fields!Chosen(i) = firstFound[i][1]
    BY <1>2, WrittenAreFound
  <2>2. found[i] = Fields!Chosen(i)
    BY <1>2 DEF FoundInv
  <2>3. firstFound[i] = <<firstFound[i][1], content[firstFound[i][1]]>>
    BY <1>2 DEF WrittenInv
  <2> QED BY <2>1, <2>2, <2>3
<1> QED BY <1>1, <1>3

LEMMA FieldsInvImplies ==
  ASSUME FieldsInv PROVE Fields!FieldsKept
BY SpeciesStayTogether, FirstAliasFinds, WrittenIsReadAlike DEF Fields!FieldsKept

FieldsPart == part = "fields" => FieldsInv

(* read_hdf5 finds every field the file has, whatever groups it is in and  *)
(* in whatever case its name is, under the alias that is listed first; it  *)
(* takes the fields of one particle from one group when several species    *)
(* have groups of their own; and it finds them all again in what           *)
(* write_hdf5 wrote (hdf5.cpp:84, 220, 271).                               *)
THEOREM FieldsAreFound == Spec => []FieldsFound
<1>1. Init => FieldsPart
  BY FieldsInitInv DEF Init, FieldsPart
<1>2. FieldsPart /\ [Next]_vars => FieldsPart'
  <2> SUFFICES ASSUME FieldsPart, [Next]_vars, part' = "fields" PROVE FieldsInv'
    BY DEF FieldsPart
  <2>1. CASE part = "fields" /\ Fields!Next
    BY <2>1, FieldsNextKeepsInv DEF FieldsPart
  <2>2. CASE UNCHANGED vars
    <3>1. UNCHANGED <<fieldVars, stage>> /\ part' = part
      BY <2>2 DEF vars, inputVars
    <3> QED BY <3>1, FieldsStay DEF FieldsPart
  <2> QED BY <2>1, <2>2 DEF Next
<1>3. FieldsPart => FieldsFound
  BY FieldsInvImplies DEF FieldsPart, FieldsFound
<1> QED BY <1>1, <1>2, <1>3, PTL DEF Spec
-------------------------------------------------------------------------------
(* ---- the rows of snapshots -------------------------------------------- *)

LEMMA MergeAssumed ==
  /\ \A f \in Snapshots : Input!IsEntry(f)
  /\ MostFiles \in Nat \ {0} /\ Limits \subseteq Nat
  /\ Torn \notin Nat \X Nat
BY FilesAssumption DEF Input!MergeAssumption

(* A quotient and its remainder are the only such numbers.                 *)
LEMMA QuotientIs ==
  ASSUME NEW v \in Nat, NEW n \in Nat, n > 0, NEW k \in Nat, NEW r \in 0..(n - 1), v = k * n + r
  PROVE  v \div n = k /\ v % n = r
<1> DEFINE q == v \div n
           s == v % n
<1>1. q \in Int /\ s \in 0..(n - 1) /\ v = q * n + s
  BY Z3
<1>2. q = k /\ s = r
  <2> HIDE DEF q, s
  <2>1. CASE q > k
    <3>1. q * n >= (k + 1) * n
      BY <1>1, <2>1
    <3>2. (k + 1) * n = k * n + n /\ q * n \in Int /\ k * n \in Int
      BY <1>1
    <3> QED BY <1>1, <3>1, <3>2
  <2>2. CASE q < k
    <3>1. k * n >= (q + 1) * n
      BY <1>1, <2>2
    <3>2. (q + 1) * n = q * n + n /\ q * n \in Int /\ k * n \in Int
      BY <1>1
    <3> QED BY <1>1, <3>1, <3>2
  <2>3. CASE q = k
    <3>1. q * n \in Int
      BY <1>1
    <3> QED BY <1>1, <2>3, <3>1
  <2> QED BY <1>1, <2>1, <2>2, <2>3
<1> QED BY <1>2

(* read_native takes the values of one particle, from wherever they are.   *)
LEMMA NativeRow ==
  ASSUME NEW f, NEW n \in Nat, n > 0, snapshots[f].n = n, Input!Rows(f) = n,
         NEW i \in 0..6, NEW j \in 1..n
  PROVE  Input!NativeValue(f, i, j) = <<f, j>>
<1> DEFINE width == IF i = 0 THEN 2 ELSE 1
           halves == [half \in 0..(width - 1) |->
                       Input!WordAt(f, Input!Offset(f, i) + width * (j - 1) + half)]
<1>0. Input!NativeValue(f, i, j) =
        IF \A half \in DOMAIN halves : halves[half] = <<i, halves[0][2], half>>
        THEN <<f, halves[0][2]>> ELSE Torn
  BY DEF Input!NativeValue
<1>w. ASSUME \A half \in 0..(width - 1) : halves[half] = <<i, j, half>>
      PROVE  Input!NativeValue(f, i, j) = <<f, j>>
  <2>1. 0 \in 0..(width - 1) /\ DOMAIN halves = 0..(width - 1)
    OBVIOUS
  <2> HIDE DEF halves
  <2>2. halves[0][2] = j
    <3>1. halves[0] = <<i, j, 0>>
      BY <1>w, <2>1
    <3> QED BY <3>1
  <2> QED BY <1>0, <1>w, <2>1, <2>2
<1>1. CASE i = 0
  <2>1. \A half \in 0..1 : Input!WordAt(f, Input!Offset(f, i) + 2 * (j - 1) + half) = <<0, j, half>>
    <3> TAKE half \in 0..1
    <3>1. Input!Offset(f, i) = n * 6
      BY <1>1 DEF Input!Offset
    <3> DEFINE rest == n * 6 + 2 * (j - 1) + half - 6 * n
    <3>2. rest = 2 * (j - 1) + half /\ ~(rest < 0)
      OBVIOUS
    <3>3. rest \div 2 = j - 1 /\ rest % 2 = half
      BY <3>2
    <3> HIDE DEF rest
    <3>4. Input!WordAt(f, n * 6 + 2 * (j - 1) + half) = <<0, (rest \div 2) + 1, rest % 2>>
      BY <3>2 DEF Input!WordAt, rest
    <3> QED BY <3>1, <3>3, <3>4
  <2>2. \A half \in 0..(width - 1) : halves[half] = <<i, j, half>>
    BY <1>1, <2>1
  <2> QED BY <1>w, <2>2
<1>2. CASE i \in 1..6
  <2>1. Input!WordAt(f, Input!Offset(f, i) + 1 * (j - 1) + 0) = <<i, j, 0>>
    <3>1. Input!Offset(f, i) = n * (i - 1)
      BY <1>2 DEF Input!Offset
    <3> DEFINE offset == n * (i - 1) + 1 * (j - 1) + 0
    <3>2. offset = (i - 1) * n + (j - 1) /\ offset \in Nat /\ i - 1 \in Nat /\ j - 1 \in 0..(n - 1)
      <4>1. n * (i - 1) = (i - 1) * n /\ (i - 1) * n \in Nat
        BY <1>2
      <4> QED BY <1>2, <4>1
    <3>3. offset \div n = i - 1 /\ offset % n = j - 1
      <4> HIDE DEF offset
      <4> QED BY <3>2, QuotientIs
    <3>4. offset - 6 * n < 0
      <4>1. i \in {1, 2, 3, 4, 5, 6}
        BY <1>2
      <4> QED BY <4>1
    <3> HIDE DEF offset
    <3>5. Input!WordAt(f, offset) = <<(offset \div n) + 1, (offset % n) + 1, 0>>
      BY <3>4 DEF Input!WordAt
    <3>6. Input!WordAt(f, offset) = <<i, j, 0>>
      BY <3>3, <3>5, <1>2
    <3> QED BY <3>1, <3>6 DEF offset
  <2>2. \A half \in 0..(width - 1) : halves[half] = <<i, j, half>>
    BY <1>2, <2>1
  <2> QED BY <1>w, <2>2
<1> QED BY <1>1, <1>2

-------------------------------------------------------------------------------
(* What is read, and how.                                                  *)
InputsInv ==
  /\ DOMAIN snapshots = 1..Len(snapshots) /\ Len(snapshots) \in Nat \ {0}
  /\ \A f \in DOMAIN snapshots : Input!IsEntry(snapshots[f])
  /\ merging \in BOOLEAN /\ limit \in Nat /\ (merging => limit = 0)
  /\ ~merging => Len(snapshots) = 1 /\ snapshots[1].format # "config"

LEMMA LeastIs ==
  ASSUME NEW T, T \subseteq Nat, T # {}
  PROVE  Input!Min(T) \in T /\ \A m \in T : Input!Min(T) <= m
BY LeastNatural DEF Input!Min

LEMMA CountIs ==
  ASSUME InputsInv, NEW f \in DOMAIN snapshots
  PROVE  /\ Input!Rows(f) \in Nat /\ snapshots[f].n \in Nat
         /\ Input!Count(f) \in 0..snapshots[f].n
         /\ limit = 0 => Input!Count(f) = snapshots[f].n
<1>1. snapshots[f].n \in Nat /\ snapshots[f].ids \in Seq(Nat) /\ limit \in Nat
  BY DEF InputsInv, Input!IsEntry
<1>2. Input!Min({snapshots[f].n, limit}) \in {snapshots[f].n, limit}
      /\ Input!Min({snapshots[f].n, limit}) <= snapshots[f].n
  BY <1>1, LeastIs
<1> QED BY <1>1, <1>2 DEF Input!Rows, Input!Count

(* A readable snapshot has as many rows as it claims; they are read whole. *)
LEMMA SnapshotIs ==
  ASSUME InputsInv, NEW f \in DOMAIN snapshots, snapshots[f].format # "config", Input!Readable(f)
  PROVE  /\ Input!Rows(f) = snapshots[f].n
         /\ Input!Snapshot(f) = [i \in 0..6 |-> [j \in 1..Input!Count(f) |-> <<f, j>>]]
<1>1. Input!IsEntry(snapshots[f])
  BY DEF InputsInv
<1>2. Input!Rows(f) = snapshots[f].n
  <2>1. CASE snapshots[f].format = "native"
    BY <2>1 DEF Input!Readable
  <2>2. CASE snapshots[f].format = "hdf5"
    BY <1>1, <2>2 DEF Input!IsEntry, Input!Rows
  <2> QED BY <1>1, <2>1, <2>2 DEF Input!IsEntry
<1>3. /\ Input!Rows(f) \in Nat /\ snapshots[f].n \in Nat
      /\ Input!Count(f) \in 0..snapshots[f].n
  BY CountIs
<1>4. ASSUME NEW i \in 0..6, NEW j \in 1..Input!Count(f), snapshots[f].format = "native"
      PROVE  Input!NativeValue(f, i, j) = <<f, j>>
  <2>1. snapshots[f].n > 0
    BY <1>4 DEF Input!Readable
  <2>2. j \in 1..snapshots[f].n
    BY <1>3
  <2> QED BY <1>2, <1>3, <2>1, <2>2, NativeRow
<1>5. ASSUME NEW i \in 0..6
      PROVE  [j \in 1..Input!Count(f) |->
                IF snapshots[f].format = "native" THEN Input!NativeValue(f, i, j) ELSE <<f, j>>]
             = [j \in 1..Input!Count(f) |-> <<f, j>>]
  BY <1>4
<1>6. Input!Snapshot(f) = [i \in 0..6 |-> [j \in 1..Input!Count(f) |-> <<f, j>>]]
  BY <1>5 DEF Input!Snapshot, Input!Fields
<1> QED BY <1>2, <1>6

-------------------------------------------------------------------------------
(* ---- joining ---------------------------------------------------------- *)

(* All rows of the files of D before k, of each in order.                  *)
InOrder(rows, D, rowCount, k) ==
  /\ rows \in Seq(Nat \X Nat)
  /\ \A m \in 1..Len(rows) :
       rows[m][1] \in D /\ rows[m][1] < k /\ rows[m][2] \in 1..rowCount[rows[m][1]]
  /\ \A f \in D : f < k =>
       \A j \in 1..rowCount[f] : \E m \in 1..Len(rows) : rows[m] = <<f, j>>
  /\ \A a, b \in 1..Len(rows) : a < b =>
       rows[a][1] < rows[b][1] \/ (rows[a][1] = rows[b][1] /\ rows[a][2] < rows[b][2])
  /\ \A m \in 1..Len(rows) :
       rows[m][2] = IF m > 1 /\ rows[m - 1][1] = rows[m][1] THEN rows[m - 1][2] + 1 ELSE 1

(* The rows that were joined, the same ones in every field.                *)
Gathered == columns[0]
RowCounts == [f \in Input!DataFiles |-> Input!Rows(f)]
RowsInv ==
  columns = [i \in 0..6 |-> Gathered] /\ InOrder(Gathered, Input!DataFiles, RowCounts, position)

Nothing == columns = [i \in 0..6 |-> <<>>]
OwnIds == \A a, b \in 1..Len(Gathered) : a # b => Input!Id(Gathered[a]) # Input!Id(Gathered[b])

MergeInv ==
  /\ InputsInv /\ position \in Nat \ {0}
  /\ stage \in {"read", "discover", "join", "attributes", "done", "error"}
  /\ stage = "read" => ~merging /\ Nothing
  /\ stage = "discover" => merging /\ position = 1 /\ Nothing
  /\ stage \in {"join", "attributes"} => merging
  /\ stage \in {"join", "attributes"} \/ (stage = "done" /\ merging) =>
       /\ Input!DataFiles # {} /\ RowsInv
       /\ position > Input!First => DOMAIN value = DOMAIN Input!RootAttributes(Input!First)
  /\ stage = "attributes" \/ (stage = "done" /\ merging) =>
       position > Len(snapshots) /\ OwnIds
  /\ stage = "done" => Input!CountsTrue
  /\ stage = "done" /\ ~merging => Input!RowsWhole
  /\ stage = "error" => Input!MergesCompatible

LEMMA ArgumentsStay ==
  ASSUME UNCHANGED <<snapshots, merging, limit>>
  PROVE  /\ Input!DataFiles' = Input!DataFiles /\ Input!First' = Input!First
         /\ Input!AllRows' = Input!AllRows /\ (Input!Compatible' <=> Input!Compatible)
         /\ \A f : Input!Rows(f)' = Input!Rows(f)
         /\ RowCounts' = RowCounts
         /\ \A f : Input!RootAttributes(f)' = Input!RootAttributes(f)
         /\ \A r : Input!Id(r)' = Input!Id(r)
         /\ (InputsInv => InputsInv')
<1>1. Input!DataFiles' = Input!DataFiles
  BY DEF Input!DataFiles
<1>2. Input!First' = Input!First
  BY <1>1 DEF Input!First, Input!Min
<1>3. \A f : Input!Rows(f)' = Input!Rows(f)
  BY DEF Input!Rows
<1>s. RowCounts' = RowCounts
  BY <1>1, <1>3 DEF RowCounts
<1>4. \A f : Input!Count(f)' = Input!Count(f)
  BY DEF Input!Count, Input!Min
<1>5. \A f : Input!RootAttributes(f)' = Input!RootAttributes(f)
  BY <1>4 DEF Input!RootAttributes
<1>6. Input!AllRows' = Input!AllRows
  BY <1>1 DEF Input!AllRows
<1>7. Input!Compatible' <=> Input!Compatible
  BY <1>1, <1>2, <1>3 DEF Input!Compatible
<1>8. \A r : Input!Id(r)' = Input!Id(r)
  BY DEF Input!Id
<1>9. InputsInv => InputsInv'
  BY DEF InputsInv
<1> QED BY <1>1, <1>2, <1>3, <1>s, <1>5, <1>6, <1>7, <1>8, <1>9

LEMMA FirstIs ==
  ASSUME InputsInv, Input!DataFiles # {}
  PROVE  /\ Input!First \in Input!DataFiles /\ Input!First \in DOMAIN snapshots
         /\ \A f \in Input!DataFiles : Input!First <= f
<1>1. Input!DataFiles \subseteq Nat /\ Input!DataFiles \subseteq DOMAIN snapshots
  BY DEF Input!DataFiles, InputsInv
<1> QED BY <1>1, LeastIs DEF Input!First

LEMMA MergeInitInv ==
  ASSUME Input!Init PROVE MergeInv
<1>1. /\ \E k \in 1..MostFiles : snapshots \in [1..k -> Snapshots]
      /\ merging \in BOOLEAN
      /\ ~merging => Len(snapshots) = 1 /\ snapshots[1].format # "config"
      /\ limit \in IF merging THEN {0} ELSE Limits
      /\ position = 1 /\ columns = [i \in 0..6 |-> <<>>]
      /\ stage = IF merging THEN "discover" ELSE "read"
  BY DEF Input!Init, Input!Fields
<1>2. DOMAIN snapshots = 1..Len(snapshots) /\ Len(snapshots) \in Nat \ {0}
      /\ \A f \in DOMAIN snapshots : snapshots[f] \in Snapshots
  <2>1. PICK k \in 1..MostFiles : snapshots \in [1..k -> Snapshots]
    BY <1>1
  <2>2. k \in Nat \ {0}
    BY <2>1, MergeAssumed
  <2>3. snapshots \in Seq(Snapshots) /\ Len(snapshots) = k
    BY <2>1, <2>2
  <2> QED BY <2>1, <2>2, <2>3
<1>3. InputsInv
  BY <1>1, <1>2, MergeAssumed DEF InputsInv
<1> QED BY <1>1, <1>3 DEF MergeInv, Nothing

LEMMA RowsInvStart ==
  ASSUME Nothing, position = 1, InputsInv PROVE RowsInv
<1>1. Gathered = <<>> /\ columns = [i \in 0..6 |-> Gathered]
  BY DEF Nothing, Gathered
<1>2. Gathered \in Seq(Nat \X Nat) /\ Len(Gathered) = 0
  BY <1>1
<1>3. \A f \in Input!DataFiles : ~(f < position)
  BY DEF InputsInv, Input!DataFiles
<1> HIDE DEF Gathered
<1> QED BY <1>1, <1>2, <1>3 DEF RowsInv, InOrder

(* What the invariant says of a directory before anything is joined.       *)
LEMMA DiscoverKeepsInv ==
  ASSUME MergeInv, Input!Discover PROVE MergeInv'
<1>1. /\ stage = "discover"
      /\ UNCHANGED <<snapshots, merging, limit, position, columns, value, joined>>
      /\ stage' = IF Input!DataFiles # {}
                     /\ \A f \in DOMAIN snapshots \ Input!DataFiles : snapshots[f].n = 0
                  THEN "join" ELSE "error"
  BY DEF Input!Discover, Input!arguments
<1>2. /\ Input!DataFiles' = Input!DataFiles /\ Input!First' = Input!First
      /\ (Input!Compatible' <=> Input!Compatible) /\ InputsInv'
  BY <1>1, ArgumentsStay DEF MergeInv
<1>3. merging /\ position = 1 /\ Nothing /\ InputsInv
  BY <1>1 DEF MergeInv
<1>4. CASE stage' = "join"
  <2>1. Input!DataFiles # {}
    BY <1>1, <1>4
  <2>2. ~(position' > Input!First')
    BY <1>1, <1>2, <1>3, <2>1, FirstIs DEF InputsInv
  <2>3. RowsInv
    BY <1>3, RowsInvStart
  <2>4. RowsInv'
    <3>1. RowCounts' = RowCounts /\ columns' = columns /\ position' = position
      BY <1>1, ArgumentsStay
    <3> QED BY ZenonT(60), <1>2, <2>3, <3>1 DEF RowsInv, Gathered, InOrder
  <2> QED BY <1>1, <1>2, <1>3, <1>4, <2>1, <2>2, <2>4 DEF MergeInv
<1>5. CASE stage' = "error"
  <2>1. ~Input!Compatible
    BY <1>1, <1>5 DEF Input!Compatible
  <2>2. Input!MergesCompatible'
    BY <1>2, <2>1 DEF Input!MergesCompatible
  <2> QED BY <1>1, <1>2, <1>3, <1>5, <2>2 DEF MergeInv
<1> QED BY <1>1, <1>4, <1>5

LEMMA SkipKeepsInv ==
  ASSUME MergeInv, Input!Skip PROVE MergeInv'
<1>1. /\ stage = "join" /\ position \in DOMAIN snapshots /\ position \notin Input!DataFiles
      /\ position' = position + 1
      /\ UNCHANGED <<snapshots, merging, limit, columns, value, joined, stage>>
  BY DEF Input!Skip, Input!arguments
<1>2. /\ Input!DataFiles' = Input!DataFiles /\ Input!First' = Input!First
      /\ InputsInv' /\ RowCounts' = RowCounts
      /\ \A f : Input!RootAttributes(f)' = Input!RootAttributes(f)
  BY <1>1, ArgumentsStay DEF MergeInv
<1>3. merging /\ InputsInv /\ Input!DataFiles # {} /\ RowsInv /\ position \in Nat \ {0}
      /\ (position > Input!First => DOMAIN value = DOMAIN Input!RootAttributes(Input!First))
  BY <1>1 DEF MergeInv
<1>4. Input!DataFiles \subseteq Nat
  BY <1>3 DEF Input!DataFiles, InputsInv
<1>5. \A f \in Input!DataFiles : (f < position' => f < position) /\ (f < position => f < position')
  BY <1>1, <1>3, <1>4
<1>6. RowsInv'
  <2>1. Gathered' = Gathered /\ columns' = columns
    BY <1>1 DEF Gathered
  <2>2. InOrder(Gathered, Input!DataFiles, RowCounts, position')
    BY <1>3, <1>5 DEF RowsInv, InOrder
  <2>3. InOrder(Gathered, Input!DataFiles, RowCounts, position')
          => InOrder(Gathered', Input!DataFiles', RowCounts', position')
    BY <1>2, <2>1
  <2> QED BY <1>3, <2>1, <2>2, <2>3 DEF RowsInv
<1>7. Input!First \in Input!DataFiles
  BY <1>3, FirstIs
<1>8. position' > Input!First' => DOMAIN value' = DOMAIN Input!RootAttributes(Input!First)'
  BY <1>1, <1>2, <1>3, <1>4, <1>7
<1> QED BY <1>1, <1>2, <1>3, <1>6, <1>8 DEF MergeInv

(* The rows of one more file are appended.                                 *)
LEMMA AppendedAre ==
  ASSUME NEW old \in Seq(Nat \X Nat), NEW f \in Nat, NEW n \in Nat, NEW new,
         new = old \o [j \in 1..n |-> <<f, j>>]
  PROVE  /\ new \in Seq(Nat \X Nat) /\ Len(new) = Len(old) + n /\ Len(old) \in Nat
         /\ \A m \in 1..Len(old) : new[m] = old[m]
         /\ \A j \in 1..n : /\ new[Len(old) + j] = <<f, j>>
                            /\ new[Len(old) + j][1] = f /\ new[Len(old) + j][2] = j
<1> DEFINE more == [j \in 1..n |-> <<f, j>>]
<1>1. more \in Seq(Nat \X Nat) /\ Len(more) = n /\ \A j \in 1..n : more[j] = <<f, j>>
  OBVIOUS
<1>3. \A j \in 1..n : <<f, j>>[1] = f /\ <<f, j>>[2] = j
  OBVIOUS
<1> HIDE DEF more
<1>2. new = old \o more
  BY DEF more
<1>4. \A j \in 1..n : new[Len(old) + j] = <<f, j>>
  BY <1>1, <1>2
<1>5. new \in Seq(Nat \X Nat) /\ Len(new) = Len(old) + n /\ Len(old) \in Nat
  BY <1>1, <1>2
<1>6. \A m \in 1..Len(old) : new[m] = old[m]
  BY <1>1, <1>2
<1>7. \A j \in 1..n : new[Len(old) + j][1] = f /\ new[Len(old) + j][2] = j
  BY <1>3, <1>4
<1> QED BY <1>4, <1>5, <1>6, <1>7

LEMMA InOrderGrows ==
  ASSUME NEW D, D \subseteq Nat, NEW f \in Nat, f \in D,
         NEW rowCount, NEW n \in Nat, rowCount[f] = n,
         NEW old, InOrder(old, D, rowCount, f),
         NEW new, new = old \o [j \in 1..n |-> <<f, j>>]
  PROVE  InOrder(new, D, rowCount, f + 1)
<1>1. /\ old \in Seq(Nat \X Nat) /\ f \in Nat
      /\ \A m \in 1..Len(old) :
           old[m][1] \in D /\ old[m][1] < f /\ old[m][2] \in 1..rowCount[old[m][1]]
      /\ \A g \in D : g < f =>
           \A j \in 1..rowCount[g] : \E m \in 1..Len(old) : old[m] = <<g, j>>
      /\ \A a, b \in 1..Len(old) : a < b =>
           old[a][1] < old[b][1] \/ (old[a][1] = old[b][1] /\ old[a][2] < old[b][2])
      /\ \A m \in 1..Len(old) :
           old[m][2] = IF m > 1 /\ old[m - 1][1] = old[m][1] THEN old[m - 1][2] + 1 ELSE 1
  BY DEF InOrder
<1>2. PICK L \in Nat : L = Len(old)
  BY <1>1
<1>3. /\ new \in Seq(Nat \X Nat) /\ Len(new) = L + n
      /\ \A m \in 1..L : new[m] = old[m]
      /\ \A j \in 1..n : new[L + j] = <<f, j>> /\ new[L + j][1] = f /\ new[L + j][2] = j
  BY SMTT(30), <1>1, <1>2, AppendedAre
<1>l. Len(new) = L + n
  BY <1>3
<1>4. \A m \in 1..Len(new) :
         \/ m \in 1..L /\ new[m] = old[m]
         \/ m - L \in 1..n /\ new[m] = <<f, m - L>> /\ ~(m \in 1..L)
            /\ new[m][1] = f /\ new[m][2] = m - L
  <2> TAKE m \in 1..Len(new)
  <2>1. CASE m <= L
    BY <1>3, <2>1
  <2>2. CASE m > L
    <3>1. m - L \in 1..n /\ L + (m - L) = m /\ ~(m \in 1..L)
      BY SMTT(30), <1>3, <2>2
    <3>2. new[L + (m - L)] = <<f, m - L>> /\ new[L + (m - L)][1] = f /\ new[L + (m - L)][2] = m - L
      BY <1>3, <3>1
    <3> QED BY <3>1, <3>2
  <2> QED BY <1>3, <2>1, <2>2
<1>5. \A m \in 1..Len(new) :
        new[m][1] \in D /\ new[m][1] < f + 1 /\ new[m][2] \in 1..rowCount[new[m][1]]
  <2> TAKE m \in 1..Len(new)
  <2>1. CASE m \in 1..L /\ new[m] = old[m]
    <3>1. old[m][1] \in D /\ old[m][1] < f /\ old[m][2] \in 1..rowCount[old[m][1]]
      BY <1>1, <1>2, <2>1
    <3>2. old[m][1] \in Nat
      BY <3>1
    <3>3. old[m][1] < f + 1
      BY <1>1, <3>1, <3>2
    <3> QED BY <2>1, <3>1, <3>3
  <2>2. CASE m - L \in 1..n /\ new[m][1] = f /\ new[m][2] = m - L
    BY SMTT(30), <1>1, <2>2
  <2> QED BY <1>4, <2>1, <2>2
<1>6. ASSUME NEW g \in D, g < f + 1, NEW j \in 1..rowCount[g]
      PROVE  \E m \in 1..Len(new) : new[m] = <<g, j>>
  <2>1. CASE g < f
    <3>1. PICK m \in 1..L : old[m] = <<g, j>>
      BY <1>1, <1>2, <2>1
    <3>2. m \in 1..Len(new) /\ new[m] = <<g, j>>
      BY SMTT(30), <1>3, <3>1
    <3> QED BY <3>2
  <2>2. CASE g = f
    <3>1. j \in 1..n
      BY <2>2
    <3>2. L + j \in 1..Len(new) /\ new[L + j] = <<g, j>>
      BY <1>3, <2>2, <3>1
    <3> QED BY <3>2
  <2>3. g < f \/ g = f
    <3>1. g \in Nat
      OBVIOUS
    <3> QED BY <1>6, <3>1
  <2> QED BY <2>1, <2>2, <2>3
<1>7. ASSUME NEW a \in 1..Len(new), NEW b \in 1..Len(new), a < b
      PROVE  new[a][1] < new[b][1] \/ (new[a][1] = new[b][1] /\ new[a][2] < new[b][2])
  <2>1. CASE b \in 1..L /\ new[b] = old[b]
    <3>1. a \in 1..L /\ new[a] = old[a]
      BY <1>3, <1>7, <2>1
    <3> QED BY <1>1, <1>2, <1>7, <2>1, <3>1
  <2>2. CASE b - L \in 1..n /\ new[b][1] = f /\ new[b][2] = b - L
    <3>1. CASE a \in 1..L /\ new[a] = old[a]
      <4>1. old[a][1] < f
        BY <1>1, <1>2, <3>1
      <4>2. new[a][1] < new[b][1]
        BY <2>2, <3>1, <4>1
      <4> QED BY <4>2
    <3>2. CASE a - L \in 1..n /\ new[a][1] = f /\ new[a][2] = a - L
      <4>1. a - L < b - L
        BY <1>7
      <4>2. new[a][1] = f /\ new[b][1] = f /\ new[a][2] = a - L /\ new[b][2] = b - L
        BY <2>2, <3>2
      <4> QED BY <4>1, <4>2
    <3> QED BY <1>4, <3>1, <3>2
  <2> QED BY <1>4, <2>1, <2>2
<1>8. ASSUME NEW m \in 1..Len(new)
      PROVE  new[m][2] = IF m > 1 /\ new[m - 1][1] = new[m][1] THEN new[m - 1][2] + 1 ELSE 1
  <2>1. CASE m \in 1..L /\ new[m] = old[m]
    <3>1. CASE m > 1
      <4>1. m - 1 \in 1..L
        BY <2>1, <3>1
      <4>2. new[m - 1] = old[m - 1]
        BY <1>3, <4>1
      <4> QED BY <1>1, <1>2, <2>1, <3>1, <4>2
    <3>2. CASE ~(m > 1)
      BY <1>1, <1>2, <2>1, <3>2
    <3> QED BY <3>1, <3>2
  <2>2. CASE m - L \in 1..n /\ ~(m \in 1..L) /\ new[m][1] = f /\ new[m][2] = m - L
    <3>0. new[m][1] = f /\ new[m][2] = m - L
      BY <2>2
    <3>1. CASE m = L + 1
      <4>1. new[m][2] = 1
        BY SMTT(30), <3>0, <3>1
      <4>2. m > 1 => new[m - 1][1] # f
        <5> SUFFICES ASSUME m > 1 PROVE new[m - 1][1] # f
          OBVIOUS
        <5>1. m - 1 \in 1..L
          BY <3>1
        <5>2. new[m - 1] = old[m - 1] /\ old[m - 1][1] < f
          BY <1>1, <1>2, <1>3, <5>1
        <5> QED BY <1>1, <5>2
      <4> QED BY <3>0, <4>1, <4>2
    <3>2. CASE m # L + 1
      <4>1. (m - 1) - L \in 1..n /\ m > 1 /\ m - 1 \in 1..Len(new) /\ m - 1 = L + ((m - 1) - L)
        BY <1>l, <2>2, <3>2
      <4>2. PICK k \in 1..n : k = (m - 1) - L /\ new[L + k] = <<f, k>>
        BY <1>3, <4>1
      <4>3. new[m - 1][1] = f /\ new[m - 1][2] = (m - 1) - L
        <5>1. new[m - 1] = new[L + k]
          BY <4>1, <4>2
        <5>2. new[L + k][1] = f /\ new[L + k][2] = k
          BY <1>3, <4>2
        <5> QED BY <4>2, <5>1, <5>2
      <4>4. ((m - 1) - L) + 1 = m - L
        OBVIOUS
      <4> QED BY <3>0, <4>1, <4>3, <4>4
    <3> QED BY <3>1, <3>2
  <2> QED BY <1>4, <2>1, <2>2
<1>9. \A g \in D : g \in Nat
  OBVIOUS
<1> QED BY <1>3, <1>5, <1>6, <1>7, <1>8, <1>9 DEF InOrder

LEMMA JoinKeepsRows ==
  ASSUME RowsInv, InputsInv, Input!Join, merging, position \in Nat \ {0} PROVE RowsInv'
<1>1. /\ position \in Input!DataFiles /\ Input!Joinable(position) /\ position' = position + 1
      /\ columns' = [i \in 0..6 |-> columns[i] \o Input!Snapshot(position)[i]]
      /\ UNCHANGED <<snapshots, merging, limit, stage>> /\ limit = 0
  BY DEF Input!Join, Input!arguments, Input!Fields, InputsInv
<1>2. /\ position \in DOMAIN snapshots /\ snapshots[position].format # "config"
      /\ Input!Readable(position) /\ Input!DataFiles \subseteq Nat
  BY <1>1 DEF Input!DataFiles, Input!Joinable, InputsInv
<1>3. PICK n \in Nat : n = Input!Rows(position)
  BY <1>2, CountIs
<1>4. Input!Snapshot(position) = [i \in 0..6 |-> [j \in 1..n |-> <<position, j>>]]
  <2>1. Input!Count(position) = n
    BY <1>1, <1>2, <1>3, CountIs, SnapshotIs
  <2>2. Input!Snapshot(position) = [i \in 0..6 |-> [j \in 1..Input!Count(position) |-> <<position, j>>]]
    BY <1>2, SnapshotIs
  <2> QED BY <2>1, <2>2
<1>5. PICK old : old = Gathered /\ columns = [i \in 0..6 |-> old]
                 /\ InOrder(old, Input!DataFiles, RowCounts, position)
  BY DEF RowsInv
<1>6. PICK new : new = old \o [j \in 1..n |-> <<position, j>>]
  OBVIOUS
<1>7. columns' = [i \in 0..6 |-> new]
  BY <1>1, <1>4, <1>5, <1>6
<1>8. RowCounts[position] = n
  BY <1>1, <1>3 DEF RowCounts
<1>9. InOrder(new, Input!DataFiles, RowCounts, position + 1)
  BY <1>1, <1>2, <1>5, <1>6, <1>8, InOrderGrows
<1>10. Input!DataFiles' = Input!DataFiles /\ RowCounts' = RowCounts /\ Gathered' = new
  <2>1. columns'[0] = new
    BY <1>7
  <2> QED BY <1>1, <2>1, ArgumentsStay DEF Gathered
<1>11. InOrder(Gathered', Input!DataFiles', RowCounts', position')
  BY <1>1, <1>9, <1>10
<1>12. columns' = [i \in 0..6 |-> Gathered']
  BY <1>7, <1>10
<1> QED BY <1>11, <1>12 DEF RowsInv

-------------------------------------------------------------------------------
(* ---- no two rows with one ID ------------------------------------------ *)

(* The rows that come before the k-th in the order of their IDs, and it.   *)
Ahead(id, n, k) == {j \in 1..n : id[j] < id[k] \/ (id[j] = id[k] /\ j <= k)}
Rank(id, n, k) == Cardinality(Ahead(id, n, k))

LEMMA RanksAre ==
  ASSUME NEW n \in Nat, NEW id \in [1..n -> Nat]
  PROVE  /\ \A k \in 1..n : Rank(id, n, k) \in 1..n
         /\ \A j, k \in 1..n : id[j] < id[k] \/ (id[j] = id[k] /\ j < k) =>
              Rank(id, n, j) < Rank(id, n, k)
         /\ \A j, k \in 1..n : Rank(id, n, j) = Rank(id, n, k) => j = k
         /\ \A m \in 1..n : \E k \in 1..n : Rank(id, n, k) = m
<1>1. IsFiniteSet(1..n) /\ Cardinality(1..n) = n
  BY FS_Interval
<1>2. ASSUME NEW k \in 1..n
      PROVE  /\ IsFiniteSet(Ahead(id, n, k)) /\ k \in Ahead(id, n, k)
             /\ Rank(id, n, k) \in 1..n
  <2>1. Ahead(id, n, k) \in SUBSET (1..n) /\ k \in Ahead(id, n, k)
    BY DEF Ahead
  <2>2. IsFiniteSet(Ahead(id, n, k)) /\ Rank(id, n, k) <= n
    BY <1>1, <2>1, FS_Subset DEF Rank
  <2>3. Rank(id, n, k) # 0 /\ Rank(id, n, k) \in Nat
    BY <2>1, <2>2, FS_EmptySet, FS_CardinalityType DEF Rank
  <2> QED BY <2>1, <2>2, <2>3
<1>3. ASSUME NEW j \in 1..n, NEW k \in 1..n, id[j] < id[k] \/ (id[j] = id[k] /\ j < k)
      PROVE  Rank(id, n, j) < Rank(id, n, k)
  <2>1. Ahead(id, n, j) \in SUBSET Ahead(id, n, k) /\ k \notin Ahead(id, n, j)
    BY <1>3 DEF Ahead
  <2>2. Ahead(id, n, j) # Ahead(id, n, k)
    BY <1>2, <2>1
  <2>3. Rank(id, n, j) <= Rank(id, n, k) /\ Rank(id, n, j) # Rank(id, n, k)
    BY <1>2, <2>1, <2>2, FS_Subset DEF Rank
  <2> QED BY <1>2, <2>3
<1>4. ASSUME NEW j \in 1..n, NEW k \in 1..n, Rank(id, n, j) = Rank(id, n, k), j # k
      PROVE  FALSE
  <2>1. id[j] \in Nat /\ id[k] \in Nat
    OBVIOUS
  <2>2. \/ id[j] < id[k] \/ (id[j] = id[k] /\ j < k)
        \/ id[k] < id[j] \/ (id[k] = id[j] /\ k < j)
    BY <1>4, <2>1
  <2>3. Rank(id, n, j) < Rank(id, n, k) \/ Rank(id, n, k) < Rank(id, n, j)
    BY <1>3, <2>2
  <2>4. Rank(id, n, j) \in 1..n
    BY <1>2
  <2> QED BY <1>4, <2>3, <2>4
<1> DEFINE g == [k \in 1..n |-> Rank(id, n, k)]
<1>5. g \in [1..n -> 1..n] /\ \A j, k \in 1..n : g[j] = g[k] => j = k
  BY <1>2, <1>4
<1>6. g \in Surjection(1..n, 1..n)
  <2> HIDE DEF g
  <2>1. g \in Injection(1..n, 1..n)
    BY <1>5 DEF Injection, IsInjective
  <2> QED BY <1>1, <2>1, FS_Injection
<1>7. \A m \in 1..n : \E k \in 1..n : g[k] = m
  <2> HIDE DEF g
  <2> QED BY <1>6 DEF Surjection
<1> QED BY <1>2, <1>3, <1>4, <1>7

(* Equal IDs come to stand next to each other.                             *)
Meet(id, n) ==
  \E i \in 2..n : \E j, k \in 1..n :
    Rank(id, n, j) = i - 1 /\ Rank(id, n, k) = i /\ id[j] = id[k]

LEMMA EqualIdsMeet ==
  ASSUME NEW n \in Nat, NEW id \in [1..n -> Nat],
         NEW a \in 1..n, NEW b \in 1..n, a # b, id[a] = id[b]
  PROVE  Meet(id, n)
<1>1. SUFFICES ASSUME NEW c \in 1..n, NEW d \in 1..n, c < d, id[c] = id[d]
               PROVE  Meet(id, n)
  OBVIOUS
<1>2. /\ Rank(id, n, c) \in 1..n /\ Rank(id, n, d) \in 1..n
      /\ Rank(id, n, c) < Rank(id, n, d)
  BY <1>1, RanksAre
<1>3. PICK i \in 2..n : i = Rank(id, n, d) /\ i - 1 \in 1..n /\ Rank(id, n, c) <= i - 1
  BY <1>2
<1>4. PICK j \in 1..n : Rank(id, n, j) = i - 1
  BY <1>3, RanksAre
<1>5. id[j] \in Nat /\ id[c] \in Nat /\ id[d] \in Nat
  OBVIOUS
<1>6. ~(Rank(id, n, d) < Rank(id, n, j)) /\ ~(Rank(id, n, j) < Rank(id, n, c))
  <2>1. PICK low \in 1..n : low = Rank(id, n, c)
    BY <1>2
  <2>2. low <= i - 1 /\ ~(i - 1 < low) /\ ~(i < i - 1)
    BY SMTT(30), <1>3, <2>1
  <2> QED BY <1>3, <1>4, <2>1, <2>2
<1>7. ~(id[d] < id[j]) /\ ~(id[j] < id[c])
  BY <1>6, RanksAre
<1>8. id[j] = id[d]
  BY <1>1, <1>5, <1>7
<1> QED BY <1>3, <1>4, <1>8 DEF Meet

(* Comparing the neighbours finds every two rows with one ID.              *)
LEMMA OverlapIs ==
  ASSUME NEW n \in Nat, Len(Gathered) = n, DOMAIN Gathered = 1..n,
         \A m \in 1..n : Input!Id(Gathered[m]) \in Nat
  PROVE  Input!OverlapIn(Input!Sorted) <=> ~OwnIds
<1> DEFINE id == [m \in 1..n |-> Input!Id(Gathered[m])]
<1>1. id \in [1..n -> Nat] /\ \A m \in 1..n : id[m] = Input!Id(Gathered[m])
  OBVIOUS
<1>2. ASSUME NEW k \in 1..n PROVE Input!Place(k) = Rank(id, n, k)
  <2>1. {j \in 1..n : \/ Input!Id(Gathered[j]) < Input!Id(Gathered[k])
                      \/ Input!Id(Gathered[j]) = Input!Id(Gathered[k]) /\ j <= k} = Ahead(id, n, k)
    BY <1>1 DEF Ahead
  <2>2. Input!Place(k) = Cardinality(Ahead(id, n, k))
    BY <2>1 DEF Input!Place, Gathered, Input!Cardinality, Cardinality
  <2> QED BY <2>2 DEF Rank
<1>3. Input!Sorted = [m \in 1..n |-> Gathered[CHOOSE k \in 1..n : Input!Place(k) = m]]
  BY DEF Input!Sorted, Gathered
<1> HIDE DEF id
<1>4. ASSUME NEW m \in 1..n, NEW k \in 1..n, Rank(id, n, k) = m
      PROVE  Input!Sorted[m] = Gathered[k]
  <2> DEFINE c == CHOOSE l \in 1..n : Input!Place(l) = m
  <2>1. c \in 1..n /\ Input!Place(c) = m
    BY <1>2, <1>4
  <2>2. Input!Sorted[m] = Gathered[c]
    BY <1>3
  <2> HIDE DEF c
  <2>3. c = k
    BY <1>1, <1>2, <1>4, <2>1, RanksAre
  <2> QED BY <2>2, <2>3
<1>5. Len(Input!Sorted) = n
  BY <1>3
<1>6. ASSUME Input!OverlapIn(Input!Sorted) PROVE ~OwnIds
  <2>1. PICK i \in 2..n : Input!Id(Input!Sorted[i - 1]) = Input!Id(Input!Sorted[i])
    BY <1>5, <1>6 DEF Input!OverlapIn
  <2>2. i \in 1..n /\ i - 1 \in 1..n /\ i # i - 1
    OBVIOUS
  <2>3. PICK k \in 1..n : Rank(id, n, k) = i
    BY <1>1, <2>2, RanksAre
  <2>4. PICK j \in 1..n : Rank(id, n, j) = i - 1
    BY <1>1, <2>2, RanksAre
  <2>5. Input!Sorted[i] = Gathered[k] /\ Input!Sorted[i - 1] = Gathered[j] /\ j # k
    BY <1>4, <2>2, <2>3, <2>4
  <2> QED BY <2>1, <2>5 DEF OwnIds
<1>7. ASSUME ~OwnIds PROVE Input!OverlapIn(Input!Sorted)
  <2>1. PICK a \in 1..n, b \in 1..n : a # b /\ id[a] = id[b]
    BY <1>1, <1>7 DEF OwnIds
  <2>2. Meet(id, n)
    BY <1>1, <2>1, EqualIdsMeet
  <2>3. PICK i \in 2..n, j \in 1..n, k \in 1..n :
          Rank(id, n, j) = i - 1 /\ Rank(id, n, k) = i /\ id[j] = id[k]
    BY <2>2 DEF Meet
  <2>4. i \in 1..n /\ i - 1 \in 1..n
    OBVIOUS
  <2>5. Input!Sorted[i - 1] = Gathered[j] /\ Input!Sorted[i] = Gathered[k]
    BY <1>4, <2>3, <2>4
  <2>6. Input!Id(Input!Sorted[i - 1]) = Input!Id(Input!Sorted[i])
    BY <1>1, <2>3, <2>5
  <2> QED BY <1>5, <2>6 DEF Input!OverlapIn
<1> QED BY <1>6, <1>7

-------------------------------------------------------------------------------
(* ---- what merge makes of the rows ------------------------------------- *)

LEMMA GatheredAre ==
  ASSUME InputsInv, RowsInv
  PROVE  /\ Len(Gathered) \in Nat /\ DOMAIN Gathered = 1..Len(Gathered)
         /\ \A m \in 1..Len(Gathered) :
              \E f \in Input!DataFiles : \E j \in 1..Input!Rows(f) :
                Gathered[m] = <<f, j>> /\ f < position
         /\ \A m \in 1..Len(Gathered) : Gathered[m] # Torn /\ Input!Id(Gathered[m]) \in Nat
         /\ \A a, b \in 1..Len(Gathered) : a # b => Gathered[a] # Gathered[b]
<1>1. PICK rows : rows = Gathered /\ InOrder(rows, Input!DataFiles, RowCounts, position)
  BY DEF RowsInv
<1>2. rows \in Seq(Nat \X Nat) /\ Len(rows) \in Nat /\ DOMAIN rows = 1..Len(rows)
      /\ \A m \in 1..Len(rows) : rows[m] \in Nat \X Nat
  BY <1>1 DEF InOrder
<1>3. ASSUME NEW m \in 1..Len(rows)
      PROVE  /\ \E f \in Input!DataFiles : \E j \in 1..Input!Rows(f) :
                  rows[m] = <<f, j>> /\ f < position
             /\ rows[m] # Torn /\ Input!Id(rows[m]) \in Nat
  <2>0. PICK f \in Input!DataFiles : \E j \in 1..Input!Rows(f) : rows[m] = <<f, j>> /\ f < position
    <3>1. rows[m] = <<rows[m][1], rows[m][2]>>
      BY <1>2
    <3>2. /\ rows[m][1] \in Input!DataFiles /\ rows[m][1] < position
          /\ rows[m][2] \in 1..RowCounts[rows[m][1]]
      BY <1>1 DEF InOrder
    <3>3. RowCounts[rows[m][1]] = Input!Rows(rows[m][1])
      BY <3>2 DEF RowCounts
    <3> QED BY <3>1, <3>2, <3>3
  <2>1. PICK j \in 1..Input!Rows(f) : rows[m] = <<f, j>> /\ f < position
    BY <2>0
  <2>2. f \in DOMAIN snapshots /\ snapshots[f].ids \in Seq(Nat)
    BY DEF Input!DataFiles, InputsInv, Input!IsEntry
  <2>3. snapshots[f].ids[j] \in Nat
    BY <2>2 DEF Input!Rows
  <2>4. Input!Id(rows[m]) = snapshots[f].ids[j]
    BY <2>1 DEF Input!Id
  <2>5. rows[m] # Torn
    BY <1>2, MergeAssumed
  <2> QED BY <2>1, <2>3, <2>4, <2>5
<1>4. ASSUME NEW a \in 1..Len(rows), NEW b \in 1..Len(rows), a # b
      PROVE  rows[a] # rows[b]
  <2>1. \A c, d \in 1..Len(rows) : c < d => rows[c] # rows[d]
    <3> SUFFICES ASSUME NEW c \in 1..Len(rows), NEW d \in 1..Len(rows), c < d
                 PROVE  rows[c] # rows[d]
      OBVIOUS
    <3>1. rows[c][1] < rows[d][1] \/ (rows[c][1] = rows[d][1] /\ rows[c][2] < rows[d][2])
      BY <1>1 DEF InOrder
    <3>2. rows[c][1] \in Nat /\ rows[c][2] \in Nat
      BY <1>2
    <3> QED BY <3>1, <3>2
  <2>2. a < b \/ b < a
    BY <1>4
  <2> QED BY <2>1, <2>2
<1> QED BY <1>1, <1>2, <1>3, <1>4

(* When the loop is through, the rows are those of all files.              *)
LEMMA GatheredAreAll ==
  ASSUME InputsInv, RowsInv, position \in Nat, position > Len(snapshots)
  PROVE  /\ Input!ToSet(Gathered) = Input!AllRows
         /\ Input!Cardinality(Input!AllRows) = Len(Gathered)
<1>1. PICK n \in Nat : n = Len(Gathered)
  BY GatheredAre
<1>2. \A f \in Input!DataFiles :
        f \in Nat /\ f < position /\ DOMAIN snapshots[f].ids = 1..Input!Rows(f)
  <2> TAKE f \in Input!DataFiles
  <2>1. f \in DOMAIN snapshots
    BY DEF Input!DataFiles
  <2>2. f \in 1..Len(snapshots) /\ Len(snapshots) \in Nat
    BY <2>1 DEF InputsInv
  <2>3. DOMAIN snapshots[f].ids = 1..Input!Rows(f)
    BY <2>1 DEF InputsInv, Input!IsEntry, Input!Rows
  <2> QED BY <2>2, <2>3
<1>3. \A r : r \in Input!AllRows <=>
        \E f \in Input!DataFiles : \E j \in 1..Input!Rows(f) : r = <<f, j>>
  <2> DEFINE RowsOf(f) == {<<f, j>> : j \in DOMAIN snapshots[f].ids}
  <2>1. \A r : r \in Input!AllRows <=> \E f \in Input!DataFiles : r \in RowsOf(f)
    BY DEF Input!AllRows
  <2>2. \A f \in Input!DataFiles : \A r :
          r \in RowsOf(f) <=> \E j \in 1..Input!Rows(f) : r = <<f, j>>
    BY <1>2
  <2> HIDE DEF RowsOf
  <2> QED BY <2>1, <2>2
<1>4. \A m \in 1..n : Gathered[m] \in Input!AllRows
  BY <1>1, <1>3, GatheredAre
<1>5. ASSUME NEW r \in Input!AllRows PROVE \E m \in 1..n : Gathered[m] = r
  <2>0. PICK f \in Input!DataFiles : \E j \in 1..Input!Rows(f) : r = <<f, j>>
    BY <1>3
  <2>1. PICK j \in 1..Input!Rows(f) : r = <<f, j>>
    BY <2>0
  <2>2. f < position /\ RowCounts[f] = Input!Rows(f)
    BY <1>2 DEF RowCounts
  <2>3. \E m \in 1..Len(Gathered) : Gathered[m] = <<f, j>>
    BY <2>2 DEF RowsInv, InOrder
  <2> QED BY <1>1, <2>1, <2>3
<1>6. Input!ToSet(Gathered) = {Gathered[m] : m \in 1..n}
  BY <1>1, GatheredAre DEF Input!ToSet
<1>7. Input!ToSet(Gathered) = Input!AllRows
  BY <1>4, <1>5, <1>6
<1>8. Cardinality(Input!AllRows) = n
  <2> DEFINE g == [m \in 1..n |-> Gathered[m]]
  <2>1. g \in [1..n -> Input!AllRows]
    BY <1>4
  <2>2. \A a, b \in 1..n : g[a] = g[b] => a = b
    BY <1>1, GatheredAre
  <2>3. \A r \in Input!AllRows : \E m \in 1..n : g[m] = r
    BY <1>5
  <2> HIDE DEF g
  <2>4. g \in Bijection(1..n, Input!AllRows)
    BY <2>1, <2>2, <2>3 DEF Bijection, Injection, IsInjective, Surjection
  <2>5. ExistsBijection(1..n, Input!AllRows)
    BY <2>4 DEF ExistsBijection
  <2>6. IsFiniteSet(1..n) /\ Cardinality(1..n) = n
    <3>1. 1 \in Int /\ n \in Int /\ (IF 1 > n THEN 0 ELSE n - 1 + 1) = n
      OBVIOUS
    <3>2. IsFiniteSet(1..n) /\ Cardinality(1..n) = IF 1 > n THEN 0 ELSE n - 1 + 1
      BY <3>1, FS_Interval, Zenon
    <3> QED BY <3>1, <3>2
  <2>7. Cardinality(Input!AllRows) = Cardinality(1..n)
    BY <2>5, <2>6, FS_Bijection, Zenon
  <2> QED BY <2>6, <2>7
<1>9. Input!Cardinality(Input!AllRows) = Cardinality(Input!AllRows)
  BY DEF Input!Cardinality, Cardinality
<1> QED BY <1>1, <1>7, <1>8, <1>9

(* A number is stored as it is if and only if it is below `top`.           *)
LEMMA DtypeIs ==
  ASSUME NEW n \in Nat, NEW kind, kind.top \in Nat \ {0}, kind.sign \in BOOLEAN
  PROVE  Input!InDtype(n, kind) = n <=> n < kind.top
<1>1. PICK top \in Nat \ {0} : top = kind.top
  OBVIOUS
<1>2. PICK all \in Nat \ {0} : all = IF kind.sign THEN 2 * top ELSE top
  OBVIOUS
<1>3. PICK low \in 0..(all - 1) : low = n % all
  <2>1. n % all \in 0..(all - 1)
    BY Z3
  <2> QED BY <2>1
<1>4. Input!InDtype(n, kind) = IF kind.sign /\ low >= top THEN low - all ELSE low
  BY <1>1, <1>2, <1>3 DEF Input!InDtype
<1>5. CASE n < top
  <2>1. n \in 0..(all - 1) /\ n = 0 * all + n
    BY <1>2, <1>5
  <2>2. n % all = n
    BY <2>1, QuotientIs
  <2>3. ~(low >= top) /\ low = n
    BY <1>3, <1>5, <2>2
  <2> QED BY <1>1, <1>4, <1>5, <2>3
<1>6. CASE ~(n < top)
  <2>1. CASE kind.sign /\ low >= top
    <3>1. low - all < 0
      OBVIOUS
    <3> QED BY <1>1, <1>4, <1>6, <2>1, <3>1
  <2>2. CASE ~(kind.sign /\ low >= top)
    <3>1. low < top
      <4>1. CASE kind.sign
        BY <2>2, <4>1
      <4>2. CASE ~kind.sign
        BY <1>2, <4>2
      <4> QED BY <4>1, <4>2
    <3> QED BY <1>1, <1>4, <1>6, <2>2, <3>1
  <2> QED BY <2>1, <2>2
<1> QED BY <1>5, <1>6

-------------------------------------------------------------------------------
(* ---- the steps of merge and of a read --------------------------------- *)

(* No file of a compatible directory stops merge.                          *)
LEMMA CompatibleJoins ==
  ASSUME InputsInv, merging, Input!Compatible, NEW f \in Input!DataFiles
  PROVE  Input!Joinable(f)
<1>1. /\ f \in DOMAIN snapshots /\ snapshots[f].whole /\ snapshots[f].n = Input!Rows(f)
      /\ Input!Rows(f) > 0 /\ snapshots[f].schema = snapshots[Input!First].schema
  BY DEF Input!Compatible, Input!DataFiles
<1>2. Input!Count(f) = snapshots[f].n
  BY <1>1, CountIs DEF InputsInv
<1> QED BY <1>1, <1>2 DEF Input!Joinable, Input!Readable, Input!Agrees

LEMMA JoinKeepsInv ==
  ASSUME MergeInv, Input!Join PROVE MergeInv'
<1>1. /\ stage = "join" /\ position \in Input!DataFiles /\ position' = position + 1
      /\ value' = IF position = Input!First THEN Input!RootAttributes(position) ELSE value
      /\ UNCHANGED <<snapshots, merging, limit, stage>>
  BY DEF Input!Join, Input!arguments
<1>2. /\ Input!DataFiles' = Input!DataFiles /\ Input!First' = Input!First /\ InputsInv'
      /\ \A f : Input!RootAttributes(f)' = Input!RootAttributes(f)
  BY <1>1, ArgumentsStay DEF MergeInv
<1>3. merging /\ InputsInv /\ Input!DataFiles # {} /\ RowsInv /\ position \in Nat \ {0}
      /\ (position > Input!First => DOMAIN value = DOMAIN Input!RootAttributes(Input!First))
  BY <1>1 DEF MergeInv
<1>4. RowsInv'
  BY <1>3, JoinKeepsRows
<1>5. Input!First \in Nat /\ position \in Nat /\ Input!First <= position
  BY <1>1, <1>3, FirstIs DEF InputsInv
<1>6. DOMAIN value' = DOMAIN Input!RootAttributes(Input!First)
  BY <1>1, <1>3, <1>5
<1> QED BY <1>1, <1>2, <1>3, <1>4, <1>6 DEF MergeInv

LEMMA JoinThrowsKeepsInv ==
  ASSUME MergeInv, Input!JoinThrows PROVE MergeInv'
<1>1. /\ stage = "join" /\ position \in Input!DataFiles /\ ~Input!Joinable(position)
      /\ stage' = "error"
      /\ UNCHANGED <<snapshots, merging, limit, position, columns, value, joined>>
  BY DEF Input!JoinThrows, Input!arguments
<1>2. merging /\ InputsInv
  BY <1>1 DEF MergeInv
<1>3. ~Input!Compatible
  BY <1>1, <1>2, CompatibleJoins
<1>4. Input!MergesCompatible' /\ InputsInv'
  BY <1>1, <1>2, <1>3, ArgumentsStay DEF Input!MergesCompatible
<1> QED BY <1>1, <1>4 DEF MergeInv

LEMMA CheckKeepsInv ==
  ASSUME MergeInv, Input!CheckIds PROVE MergeInv'
<1>1. /\ stage = "join" /\ position > Len(snapshots)
      /\ stage' = IF Input!OverlapIn(Input!Sorted) THEN "error" ELSE "attributes"
      /\ UNCHANGED <<snapshots, merging, limit, position, columns, value, joined>>
  BY DEF Input!CheckIds, Input!arguments
<1>2. /\ merging /\ InputsInv /\ Input!DataFiles # {} /\ RowsInv /\ position \in Nat \ {0}
      /\ (position > Input!First => DOMAIN value = DOMAIN Input!RootAttributes(Input!First))
  BY <1>1, SMTT(30) DEF MergeInv
<1>3. Input!OverlapIn(Input!Sorted) <=> ~OwnIds
  BY <1>2, GatheredAre, OverlapIs
<1>4. /\ Input!DataFiles' = Input!DataFiles /\ Input!First' = Input!First /\ InputsInv'
      /\ (Input!Compatible' <=> Input!Compatible) /\ RowCounts' = RowCounts
      /\ \A f : Input!RootAttributes(f)' = Input!RootAttributes(f)
      /\ \A r : Input!Id(r)' = Input!Id(r)
  BY <1>1, <1>2, ArgumentsStay
<1>5. CASE stage' = "attributes"
  <2>1. OwnIds
    BY <1>1, <1>3, <1>5
  <2>2. RowsInv' /\ OwnIds'
    <3>1. Gathered' = Gathered /\ columns' = columns /\ position' = position
      BY <1>1 DEF Gathered
    <3>2. InOrder(Gathered', Input!DataFiles', RowCounts', position')
      BY <1>2, <1>4, <3>1 DEF RowsInv
    <3> QED BY <1>2, <1>4, <2>1, <3>1, <3>2 DEF RowsInv, OwnIds
  <2> QED BY <1>1, <1>2, <1>4, <1>5, <2>2 DEF MergeInv
<1>6. CASE stage' = "error"
  <2>1. PICK a \in 1..Len(Gathered), b \in 1..Len(Gathered) :
          a # b /\ Input!Id(Gathered[a]) = Input!Id(Gathered[b])
    BY <1>1, <1>3, <1>6 DEF OwnIds
  <2>2. PICK f \in Input!DataFiles : \E i \in 1..Input!Rows(f) : Gathered[a] = <<f, i>>
    BY <1>2, GatheredAre
  <2>3. PICK i \in 1..Input!Rows(f) : Gathered[a] = <<f, i>>
    BY <2>2
  <2>4. PICK g \in Input!DataFiles : \E j \in 1..Input!Rows(g) : Gathered[b] = <<g, j>>
    BY <1>2, GatheredAre
  <2>5. PICK j \in 1..Input!Rows(g) : Gathered[b] = <<g, j>>
    BY <2>4
  <2>6. <<f, i>> # <<g, j>>
    BY <1>2, <2>1, <2>3, <2>5, GatheredAre
  <2>7. snapshots[f].ids[i] = snapshots[g].ids[j]
    BY <2>1, <2>3, <2>5 DEF Input!Id
  <2>8. ~Input!Compatible
    BY <2>6, <2>7 DEF Input!Compatible
  <2>9. Input!MergesCompatible'
    BY <1>4, <2>8 DEF Input!MergesCompatible
  <2> QED BY <1>1, <1>4, <1>6, <2>9 DEF MergeInv
<1> QED BY <1>1, <1>5, <1>6

(* The counters a file has, and what they can hold.                        *)
LEMMA CounterIs ==
  ASSUME InputsInv, NEW f \in DOMAIN snapshots, NEW key \in DOMAIN Input!RootAttributes(f)
  PROVE  /\ key \in Keys
         /\ snapshots[f].attrs[key].shape \in {"scalar", "array"}
         /\ snapshots[f].attrs[key].top \in Nat \ {0}
         /\ snapshots[f].attrs[key].sign \in BOOLEAN
         /\ key = "npart" => snapshots[f].n < snapshots[f].attrs[key].top
<1>1. key \in Keys /\ snapshots[f].attrs[key].shape # "none" /\ Input!IsEntry(snapshots[f])
  BY DEF Input!RootAttributes, InputsInv
<1>2. snapshots[f].attrs[key] \in
        [shape : {"scalar", "array", "none"}, top : Nat \ {0}, sign : BOOLEAN]
      /\ (key = "npart" => snapshots[f].n < snapshots[f].attrs[key].top)
  BY <1>1 DEF Input!IsEntry
<1> QED BY <1>1, <1>2

LEMMA SetKeepsInv ==
  ASSUME MergeInv, Input!SetAttributes PROVE MergeInv'
<1> DEFINE fit == \A key \in DOMAIN value :
                    /\ snapshots[Input!First].attrs[key].shape = "scalar"
                    /\ Input!Merged(key) < snapshots[Input!First].attrs[key].top
<1>1. /\ stage = "attributes" /\ UNCHANGED <<snapshots, merging, limit, position, columns, joined>>
      /\ IF fit THEN value' = [key \in DOMAIN value |-> Input!Merged(key)] /\ stage' = "done"
         ELSE value' = value /\ stage' = "error"
  BY DEF Input!SetAttributes, Input!arguments, Input!Fits
<1>2. /\ merging /\ InputsInv /\ Input!DataFiles # {} /\ RowsInv /\ position \in Nat \ {0}
      /\ (position > Input!First => DOMAIN value = DOMAIN Input!RootAttributes(Input!First))
      /\ position > Len(snapshots) /\ OwnIds
  BY <1>1 DEF MergeInv
<1>3. /\ Input!DataFiles' = Input!DataFiles /\ Input!First' = Input!First /\ InputsInv'
      /\ (Input!Compatible' <=> Input!Compatible) /\ RowCounts' = RowCounts
      /\ Input!AllRows' = Input!AllRows
      /\ \A f : Input!RootAttributes(f)' = Input!RootAttributes(f)
      /\ \A r : Input!Id(r)' = Input!Id(r)
  BY <1>1, <1>2, ArgumentsStay
<1>4. Input!First \in DOMAIN snapshots /\ position > Input!First
  <2>1. Input!First \in 1..Len(snapshots) /\ Len(snapshots) \in Nat
    BY <1>2, FirstIs DEF InputsInv
  <2> QED BY <1>2, <2>1 DEF InputsInv
<1>5. DOMAIN value = DOMAIN Input!RootAttributes(Input!First)
  BY <1>2, <1>4
<1>6. PICK n \in Nat : n = Len(Gathered) /\ n = Len(columns[0])
                       /\ n = Input!Cardinality(Input!AllRows)
  BY <1>2, GatheredAre, GatheredAreAll DEF Gathered
<1>7. \A key \in DOMAIN value :
        /\ key \in Keys
        /\ snapshots[Input!First].attrs[key].shape \in {"scalar", "array"}
        /\ snapshots[Input!First].attrs[key].top \in Nat \ {0}
        /\ snapshots[Input!First].attrs[key].sign \in BOOLEAN
  BY <1>2, <1>4, <1>5, CounterIs
<1>8. CASE fit
  <2>1. /\ value' = [key \in DOMAIN value |-> Input!Merged(key)] /\ stage' = "done"
    BY <1>1, <1>8
  <2>2. ASSUME NEW key \in DOMAIN value, key \in {"npart", "npart_total"}
        PROVE  Input!InDtype(value'[key], snapshots[Input!First].attrs[key]) = n
    <3>1. value'[key] = n /\ Input!Merged(key) = n
      BY <1>6, <2>1, <2>2 DEF Input!Merged
    <3>2. n < snapshots[Input!First].attrs[key].top
      BY <1>8, <3>1
    <3> QED BY <1>7, <3>1, <3>2, DtypeIs
  <2>3. Input!CountsTrue'
    BY <1>1, <1>3, <1>6, <2>1, <2>2 DEF Input!CountsTrue
  <2>4. RowsInv' /\ OwnIds'
    <3>1. Gathered' = Gathered /\ columns' = columns /\ position' = position
      BY <1>1 DEF Gathered
    <3>2. InOrder(Gathered', Input!DataFiles', RowCounts', position')
      BY <1>2, <1>3, <3>1 DEF RowsInv
    <3> QED BY <1>2, <1>3, <3>1, <3>2 DEF RowsInv, OwnIds
  <2>5. DOMAIN value' = DOMAIN value
    BY <2>1
  <2> HIDE DEF fit
  <2> QED BY <1>1, <1>2, <1>3, <1>5, <2>1, <2>3, <2>4, <2>5 DEF MergeInv
<1>9. CASE ~fit
  <2>1. stage' = "error"
    BY <1>1, <1>9
  <2>2. PICK key \in DOMAIN value :
          \/ snapshots[Input!First].attrs[key].shape # "scalar"
          \/ ~(Input!Merged(key) < snapshots[Input!First].attrs[key].top)
    BY <1>9
  <2>3. ASSUME Input!Compatible, ~(Input!Merged(key) < snapshots[Input!First].attrs[key].top)
        PROVE  Input!InDtype(n, snapshots[Input!First].attrs[key]) # n
    <3>1. n > 0
      <4>1. Input!First \in Input!DataFiles /\ Input!Rows(Input!First) > 0
        BY <1>2, <2>3, FirstIs DEF Input!Compatible, Input!DataFiles
      <4>2. Input!Rows(Input!First) \in Nat /\ Input!First \in Nat
        BY <1>2, <1>4, CountIs DEF InputsInv
      <4>3. RowCounts[Input!First] = Input!Rows(Input!First) /\ 1 \in 1..Input!Rows(Input!First)
        BY <4>1, <4>2 DEF RowCounts
      <4>4. \E m \in 1..Len(Gathered) : Gathered[m] = <<Input!First, 1>>
        <5>1. Input!First < position
          BY <1>2, <1>4, <4>2
        <5>2. \A j \in 1..RowCounts[Input!First] :
                \E m \in 1..Len(Gathered) : Gathered[m] = <<Input!First, j>>
          BY <1>2, <4>1, <5>1 DEF RowsInv, InOrder
        <5> QED BY <4>3, <5>2
      <4> QED BY <1>6, <4>4
    <3>2. Input!Merged(key) \in Nat /\ Input!Merged(key) <= n
      BY <1>6, <3>1 DEF Input!Merged
    <3>3. ~(n < snapshots[Input!First].attrs[key].top)
      BY <1>7, <2>3, <3>2
    <3> QED BY <1>7, <3>3, DtypeIs
  <2>4. Input!Compatible =>
          \E k \in Keys :
            \/ snapshots[Input!First].attrs[k].shape = "array"
            \/ Input!InDtype(n, snapshots[Input!First].attrs[k]) # n
    BY <1>7, <2>2, <2>3
  <2>5. Input!MergesCompatible'
    BY <1>1, <1>3, <1>6, <2>4 DEF Input!MergesCompatible
  <2> HIDE DEF fit
  <2> QED BY <1>1, <1>2, <1>3, <2>1, <2>5 DEF MergeInv
<1> QED BY <1>8, <1>9

(* A snapshot that is read alone.                                          *)
LEMMA ReadKeepsInv ==
  ASSUME MergeInv, Input!Read PROVE MergeInv'
<1>1. /\ stage = "read" /\ Input!Readable(1) /\ columns' = Input!Snapshot(1)
      /\ value' = Input!RootAttributes(1) /\ stage' = "done"
      /\ UNCHANGED <<snapshots, merging, limit, position, joined>>
  BY DEF Input!Read, Input!arguments
<1>2. ~merging /\ InputsInv /\ 1 \in DOMAIN snapshots /\ snapshots[1].format # "config"
  BY <1>1 DEF MergeInv, InputsInv
<1>3. PICK n \in Nat : n = Input!Count(1) /\ n <= snapshots[1].n /\ snapshots[1].n \in Nat
  BY <1>2, CountIs
<1>4. columns' = [i \in 0..6 |-> [j \in 1..n |-> <<1, j>>]]
  BY <1>1, <1>2, <1>3, SnapshotIs
<1>5. /\ \A i \in 0..6 : columns'[i] = [j \in 1..n |-> <<1, j>>]
      /\ \A i \in 0..6 : Len(columns'[i]) = n
      /\ \A i \in 0..6, j \in 1..n : columns'[i][j] = <<1, j>>
  BY <1>4
<1>6. Input!RowsWhole'
  <2>1. ASSUME NEW i \in 0..6, NEW j \in 1..n
        PROVE  /\ Len(columns'[i]) = Len(columns'[0])
               /\ columns'[i][j] = columns'[0][j]
               /\ columns'[0][j] # Torn
               /\ columns'[0][j][2] = IF j > 1 /\ columns'[0][j - 1][1] = columns'[0][j][1]
                                      THEN columns'[0][j - 1][2] + 1 ELSE 1
    <3>1. columns'[0][j] = <<1, j>> /\ columns'[i][j] = <<1, j>>
          /\ Len(columns'[i]) = n /\ Len(columns'[0]) = n
      BY <1>5
    <3>2. <<1, j>> # Torn
      BY MergeAssumed
    <3>3. CASE j > 1
      <4>1. columns'[0][j - 1] = <<1, j - 1>>
        BY <1>5, <3>3
      <4>2. columns'[0][j - 1][1] = 1 /\ columns'[0][j - 1][2] = j - 1
        BY <4>1
      <4>3. columns'[0][j][1] = 1 /\ columns'[0][j][2] = j
        BY <3>1
      <4>4. (j - 1) + 1 = j
        OBVIOUS
      <4> QED BY <3>1, <3>2, <3>3, <4>2, <4>3, <4>4
    <3>4. CASE ~(j > 1)
      <4>1. columns'[0][j][2] = 1
        BY <3>1, <3>4
      <4> QED BY <3>1, <3>2, <3>4, <4>1
    <3> QED BY <3>3, <3>4
  <2>2. Len(columns'[0]) = n
    BY <1>5
  <2> QED BY <2>1, <2>2 DEF Input!RowsWhole, Input!Fields
<1>7. Input!DataFiles = {1}
  BY <1>2 DEF Input!DataFiles, InputsInv
<1>8. Input!First = 1
  BY <1>2, <1>7, FirstIs
<1>9. Input!First' = 1 /\ InputsInv'
  BY <1>1, <1>2, <1>8, ArgumentsStay
<1>10. ASSUME "npart" \in DOMAIN value'
       PROVE  Input!InDtype(value'["npart"], snapshots[1].attrs["npart"]) = n
  <2>1. "npart" \in DOMAIN Input!RootAttributes(1)
    BY <1>1, <1>10
  <2>2. value'["npart"] = n
    BY <1>1, <1>3, <2>1 DEF Input!RootAttributes
  <2>3. /\ snapshots[1].attrs["npart"].top \in Nat \ {0}
        /\ snapshots[1].attrs["npart"].sign \in BOOLEAN
        /\ snapshots[1].n < snapshots[1].attrs["npart"].top
    BY <1>2, <2>1, CounterIs
  <2>4. n < snapshots[1].attrs["npart"].top
    BY <1>3, <2>3
  <2> QED BY <2>2, <2>3, <2>4, DtypeIs
<1>11. Input!CountsTrue'
  <2>1. Len(columns'[0]) = n /\ merging' = merging /\ snapshots' = snapshots
    BY <1>1, <1>5
  <2> QED BY <1>2, <1>9, <1>10, <2>1 DEF Input!CountsTrue
<1> QED BY <1>1, <1>2, <1>6, <1>9, <1>11 DEF MergeInv

LEMMA ReadThrowsKeepsInv ==
  ASSUME MergeInv, Input!ReadThrows PROVE MergeInv'
<1>1. /\ stage = "read" /\ stage' = "error"
      /\ UNCHANGED <<snapshots, merging, limit, position, columns, value, joined>>
  BY DEF Input!ReadThrows, Input!arguments
<1>2. ~merging' /\ InputsInv' /\ position' \in Nat \ {0}
  BY <1>1, ArgumentsStay DEF MergeInv
<1>3. Input!MergesCompatible'
  BY <1>2 DEF Input!MergesCompatible
<1> QED BY <1>1, <1>2, <1>3 DEF MergeInv

LEMMA MergeStays ==
  ASSUME MergeInv, UNCHANGED <<rowVars, stage>> PROVE MergeInv'
<1>1. UNCHANGED <<snapshots, merging, limit, position, columns, value, joined, stage>>
  BY DEF rowVars
<1>2. /\ Input!DataFiles' = Input!DataFiles /\ Input!First' = Input!First
      /\ (InputsInv => InputsInv') /\ RowCounts' = RowCounts
      /\ (Input!Compatible' <=> Input!Compatible) /\ Input!AllRows' = Input!AllRows
      /\ \A f : Input!RootAttributes(f)' = Input!RootAttributes(f)
      /\ \A r : Input!Id(r)' = Input!Id(r)
  BY <1>1, ArgumentsStay
<1>3. Gathered' = Gathered /\ columns' = columns /\ position' = position
  BY <1>1 DEF Gathered
<1>4. InOrder(Gathered, Input!DataFiles, RowCounts, position)
        => InOrder(Gathered', Input!DataFiles', RowCounts', position')
  BY <1>2, <1>3
<1>5. (RowsInv => RowsInv') /\ (OwnIds => OwnIds') /\ (Nothing => Nothing')
  BY <1>2, <1>3, <1>4 DEF RowsInv, OwnIds, Nothing
<1>6. Input!CountsTrue => Input!CountsTrue'
  BY <1>1, <1>2 DEF Input!CountsTrue
<1>7. Input!RowsWhole => Input!RowsWhole'
  BY <1>1 DEF Input!RowsWhole
<1>8. Input!MergesCompatible => Input!MergesCompatible'
  BY <1>1, <1>2 DEF Input!MergesCompatible
<1> QED BY <1>1, <1>2, <1>5, <1>6, <1>7, <1>8 DEF MergeInv

LEMMA MergeNextKeepsInv ==
  ASSUME MergeInv, Input!Next PROVE MergeInv'
<1>1. CASE Input!Done
  <2>1. UNCHANGED <<rowVars, stage>>
    BY <1>1 DEF Input!Done, Input!vars, Input!arguments, rowVars
  <2> QED BY <2>1, MergeStays
<1> QED BY <1>1, ReadKeepsInv, ReadThrowsKeepsInv, DiscoverKeepsInv, SkipKeepsInv, JoinKeepsInv,
           JoinThrowsKeepsInv, CheckKeepsInv, SetKeepsInv DEF Input!Next

(* The invariant says what is checked of the rows.                         *)
LEMMA MergeInvImplies ==
  ASSUME MergeInv PROVE Input!MergeKept
<1>1. InputsInv
  BY DEF MergeInv
<1>2. Input!RowsWhole
  <2>1. CASE stage = "error"
    BY <2>1 DEF Input!RowsWhole
  <2>2. CASE Nothing
    <3>1. Len(columns[0]) = 0
      BY <2>2 DEF Nothing
    <3> QED BY <3>1 DEF Input!RowsWhole
  <2>3. CASE RowsInv
    <3>1. \A i \in 0..6 : columns[i] = Gathered
      BY <2>3 DEF RowsInv
    <3>2. \A m \in 1..Len(Gathered) :
            /\ Gathered[m] # Torn
            /\ Gathered[m][2] = IF m > 1 /\ Gathered[m - 1][1] = Gathered[m][1]
                             THEN Gathered[m - 1][2] + 1 ELSE 1
      BY <1>1, <2>3, GatheredAre DEF RowsInv, InOrder
    <3>3. columns[0] = Gathered
      BY DEF Gathered
    <3> HIDE DEF Gathered
    <3> QED BY <3>1, <3>2, <3>3 DEF Input!RowsWhole, Input!Fields
  <2>4. CASE stage = "done" /\ ~merging
    BY <2>4 DEF MergeInv
  <2> QED BY <2>1, <2>2, <2>3, <2>4 DEF MergeInv
<1>3. Input!MergeExact
  <2> SUFFICES ASSUME stage = "done", merging
               PROVE  /\ Input!ToSet(columns[0]) = Input!AllRows
                      /\ \A i, j \in DOMAIN columns[0] :
                           i # j => Input!Id(columns[0][i]) # Input!Id(columns[0][j])
    BY DEF Input!MergeExact
  <2>1. RowsInv /\ position > Len(snapshots) /\ position \in Nat /\ OwnIds
    BY DEF MergeInv
  <2>2. Input!ToSet(Gathered) = Input!AllRows /\ DOMAIN Gathered = 1..Len(Gathered)
    BY <1>1, <2>1, GatheredAre, GatheredAreAll
  <2> QED BY <2>1, <2>2 DEF OwnIds, Gathered
<1>4. Input!CountsTrue
  BY DEF MergeInv, Input!CountsTrue
<1>5. Input!MergesCompatible
  BY DEF MergeInv, Input!MergesCompatible
<1> QED BY <1>2, <1>3, <1>4, <1>5 DEF Input!MergeKept

RowsPart == part = "rows" => MergeInv

(* A read takes the first rows of its file, all seven fields of a particle *)
(* from the same row; merge joins what fits together, every row of every   *)
(* file once and in order, throws when two have one ID, and the counters   *)
(* it writes are the number of the rows after the conversion to their      *)
(* dtype (batch.cpp:39-137, native.cpp:84).                                *)
THEOREM SnapshotsAreJoined == Spec => []SnapshotsJoined
<1>1. Init => RowsPart
  BY MergeInitInv DEF Init, RowsPart
<1>2. RowsPart /\ [Next]_vars => RowsPart'
  <2> SUFFICES ASSUME RowsPart, [Next]_vars, part' = "rows" PROVE MergeInv'
    BY DEF RowsPart
  <2>1. CASE part = "rows" /\ Input!Next
    BY <2>1, MergeNextKeepsInv DEF RowsPart
  <2>2. CASE UNCHANGED vars
    <3>1. UNCHANGED <<rowVars, stage>> /\ part' = part
      BY <2>2 DEF vars, inputVars
    <3> QED BY <3>1, MergeStays DEF RowsPart
  <2> QED BY <2>1, <2>2 DEF Next
<1>3. RowsPart => SnapshotsJoined
  BY MergeInvImplies DEF RowsPart, SnapshotsJoined
<1> QED BY <1>1, <1>2, <1>3, PTL DEF Spec
-------------------------------------------------------------------------------
(* ---- sums -------------------------------------------------------------- *)

(* The recursive function by which the library adds up f over the subsets  *)
(* of S, and the sum of f over S.                                          *)
Pick(s) == CHOOSE x \in s : TRUE
Step(f, g, s) == IF s = {} THEN 0 ELSE f[Pick(s)] + g[s \ {Pick(s)}]
Iterated(f, S, g) == g = [s \in SUBSET S |-> Step(f, g, s)]
Total(f, S) == (CHOOSE g : Iterated(f, S, g))[S]

LEMMA SumIsTotal ==
  ASSUME NEW f
  PROVE  /\ Summary!SumFunction(f) = Total(f, DOMAIN f)
         /\ \A S : Summary!SumFunctionOnSet(f, S) = Total(f, S)
BY DEF Summary!SumFunction, Summary!SumFunctionOnSet, Summary!FoldFunctionOnSet,
       Summary!MapThenFoldSet, Total, Iterated, Step, Pick

LEMMA Picked ==
  ASSUME NEW S, IsFiniteSet(S), NEW s \in SUBSET S
  PROVE  /\ IsFiniteSet(s) /\ Cardinality(s) \in Nat
         /\ Cardinality(s) = 0 <=> s = {}
         /\ s # {} => Pick(s) \in s
         /\ s \ {Pick(s)} \in SUBSET S
         /\ s # {} => Cardinality(s \ {Pick(s)}) = Cardinality(s) - 1
<1>1. IsFiniteSet(s)
  BY FS_Subset
<1>2. s # {} => Pick(s) \in s
  BY DEF Pick
<1> QED BY <1>1, <1>2, FS_CardinalityType, FS_EmptySet, FS_RemoveElement

(* There is such a function: one for the subsets of fewer than k members   *)
(* gives one for those of k.                                               *)
Until(f, S, k, g) == \A s \in SUBSET S : Cardinality(s) <= k => g[s] = Step(f, g, s)
Reached(f, S, k) == \E g : Until(f, S, k, g)

LEMMA FirstReached ==
  ASSUME NEW f, NEW S, IsFiniteSet(S)
  PROVE  Reached(f, S, 0)
<1> DEFINE g == [s \in SUBSET S |-> 0]
<1>1. ASSUME NEW s \in SUBSET S, Cardinality(s) <= 0 PROVE s = {}
  <2>1. Cardinality(s) \in Nat /\ (Cardinality(s) = 0 <=> s = {})
    BY Picked
  <2> QED BY <1>1, <2>1
<1>2. \A s \in SUBSET S : Cardinality(s) <= 0 => g[s] = Step(f, g, s)
  BY <1>1 DEF Step
<1> QED BY <1>2 DEF Until, Reached

LEMMA NextReached ==
  ASSUME NEW f, NEW S, IsFiniteSet(S), NEW k \in Nat, Reached(f, S, k)
  PROVE  Reached(f, S, k + 1)
<1>1. PICK g : Until(f, S, k, g)
  BY DEF Reached
<1> DEFINE h == [s \in SUBSET S |-> Step(f, g, s)]
<1>2. \A s \in SUBSET S : h[s] = Step(f, g, s)
  OBVIOUS
<1>3. \A s \in SUBSET S : Cardinality(s) <= k => h[s] = g[s]
  BY <1>1, <1>2 DEF Until
<1> HIDE DEF h
<1>4. \A s \in SUBSET S : Cardinality(s) <= k + 1 => Step(f, h, s) = Step(f, g, s)
  <2> TAKE s \in SUBSET S
  <2> HAVE Cardinality(s) <= k + 1
  <2>1. CASE s = {}
    BY <2>1 DEF Step
  <2>2. CASE s # {}
    <3>1. s \ {Pick(s)} \in SUBSET S /\ Cardinality(s \ {Pick(s)}) <= k
      BY <2>2, Picked
    <3>2. h[s \ {Pick(s)}] = g[s \ {Pick(s)}]
      BY <1>3, <3>1
    <3> QED BY <3>2 DEF Step
  <2> QED BY <2>1, <2>2
<1>5. Until(f, S, k + 1, h)
  BY <1>2, <1>4 DEF Until
<1> QED BY <1>5 DEF Reached

LEMMA AllReached ==
  ASSUME NEW f, NEW S, IsFiniteSet(S), NEW k \in Nat
  PROVE  Reached(f, S, k)
<1> DEFINE T == {n \in Nat : ~Reached(f, S, n)}
<1> SUFFICES ASSUME T # {} PROVE FALSE
  OBVIOUS
<1>1. T \subseteq Nat
  OBVIOUS
<1>2. PICK n \in T : \A m \in T : n <= m
  BY <1>1, LeastNatural
<1>3. n \in Nat /\ ~Reached(f, S, n)
  OBVIOUS
<1>4. n # 0
  BY <1>3, FirstReached
<1>5. n - 1 \in Nat /\ n - 1 \notin T
  BY <1>2, <1>3, <1>4
<1>6. Reached(f, S, n - 1)
  BY <1>5
<1>7. Reached(f, S, (n - 1) + 1)
  BY <1>5, <1>6, NextReached
<1> QED BY <1>3, <1>7

LEMMA IterationExists ==
  ASSUME NEW f, NEW S, IsFiniteSet(S)
  PROVE  Iterated(f, S, CHOOSE g : Iterated(f, S, g))
<1>1. Cardinality(S) \in Nat /\ \A s \in SUBSET S : Cardinality(s) <= Cardinality(S)
  BY FS_CardinalityType, FS_Subset
<1>2. PICK g : Until(f, S, Cardinality(S), g)
  BY <1>1, AllReached DEF Reached
<1> DEFINE h == [s \in SUBSET S |-> g[s]]
<1>3. \A s \in SUBSET S : g[s] = Step(f, g, s)
  BY <1>1, <1>2 DEF Until
<1>4. \A s \in SUBSET S : h[s] = g[s]
  OBVIOUS
<1>5. \A s \in SUBSET S : Step(f, h, s) = Step(f, g, s)
  <2> TAKE s \in SUBSET S
  <2>1. s \ {Pick(s)} \in SUBSET S
    OBVIOUS
  <2> HIDE DEF h
  <2> QED BY <1>4, <2>1 DEF Step
<1>6. h = [s \in SUBSET S |-> Step(f, h, s)]
  <2> DEFINE e == [s \in SUBSET S |-> Step(f, h, s)]
  <2>1. \A s \in SUBSET S : e[s] = Step(f, h, s)
    OBVIOUS
  <2>2. \A s \in SUBSET S : h[s] = e[s]
    BY <1>3, <1>4, <1>5, <2>1
  <2>3. e = [s \in SUBSET S |-> e[s]]
    OBVIOUS
  <2>4. h = [s \in SUBSET S |-> h[s]]
    OBVIOUS
  <2> HIDE DEF h, e
  <2>5. h = e
    BY <2>2, <2>3, <2>4
  <2> QED BY <2>5 DEF e
<1> HIDE DEF h
<1>7. Iterated(f, S, h)
  BY <1>6 DEF Iterated
<1> QED BY <1>7

(* What it gives for a set depends on f there only.                        *)
LEMMA IterationsAgree ==
  ASSUME NEW f, NEW S, IsFiniteSet(S), NEW g, Iterated(f, S, g),
         NEW e, NEW U, IsFiniteSet(U), NEW h, Iterated(e, U, h),
         NEW A, A \subseteq S, A \subseteq U, \A x \in A : f[x] = e[x]
  PROVE  g[A] = h[A]
<1> DEFINE T == {Cardinality(s) : s \in {a \in SUBSET A : g[a] # h[a]}}
<1> SUFFICES ASSUME g[A] # h[A] PROVE FALSE
  OBVIOUS
<1>1. IsFiniteSet(A) /\ \A s \in SUBSET A : Cardinality(s) \in Nat
  BY Picked
<1>2. T \subseteq Nat /\ T # {}
  BY <1>1
<1>3. PICK n \in T : \A m \in T : n <= m
  BY <1>2, LeastNatural
<1>4. PICK s \in SUBSET A : g[s] # h[s] /\ Cardinality(s) = n
  BY <1>3
<1>5. \A a \in SUBSET A : g[a] # h[a] => n <= Cardinality(a)
  BY <1>3
<1>6. s \in SUBSET S /\ s \in SUBSET U
  BY <1>4
<1>7. g[s] = Step(f, g, s) /\ h[s] = Step(e, h, s)
  <2>1. \A a \in SUBSET S : g[a] = Step(f, g, a)
    BY DEF Iterated
  <2>2. \A a \in SUBSET U : h[a] = Step(e, h, a)
    BY DEF Iterated
  <2> QED BY <1>6, <2>1, <2>2
<1>8. s # {}
  BY <1>4, <1>7 DEF Step
<1>9. Pick(s) \in A /\ s \ {Pick(s)} \in SUBSET A /\ Cardinality(s \ {Pick(s)}) < n
  BY <1>1, <1>4, <1>8, Picked
<1>10. g[s \ {Pick(s)}] = h[s \ {Pick(s)}]
  BY <1>1, <1>2, <1>3, <1>5, <1>9
<1>11. f[Pick(s)] = e[Pick(s)]
  BY <1>9
<1> QED BY <1>4, <1>7, <1>10, <1>11 DEF Step

LEMMA TotalSame ==
  ASSUME NEW S, IsFiniteSet(S), NEW f, NEW e, \A x \in S : f[x] = e[x]
  PROVE  Total(f, S) = Total(e, S)
BY IterationExists, IterationsAgree DEF Total

LEMMA TotalEmpty ==
  ASSUME NEW f PROVE Total(f, {}) = 0
<1> DEFINE g == CHOOSE g : Iterated(f, {}, g)
<1>1. Iterated(f, {}, g)
  BY FS_EmptySet, IterationExists
<1> HIDE DEF g
<1>2. g[{}] = 0
  BY <1>1 DEF Iterated, Step
<1> QED BY <1>2 DEF Total, g

LEMMA TotalPicked ==
  ASSUME NEW f, NEW S, IsFiniteSet(S), S # {}
  PROVE  Total(f, S) = f[Pick(S)] + Total(f, S \ {Pick(S)})
<1> DEFINE s == S \ {Pick(S)}
           g == CHOOSE g : Iterated(f, S, g)
           h == CHOOSE h : Iterated(f, s, h)
<1>1. IsFiniteSet(s)
  BY FS_Subset
<1>2. Iterated(f, S, g) /\ Iterated(f, s, h)
  BY <1>1, IterationExists
<1>3. Total(f, S) = g[S] /\ Total(f, s) = h[s]
  BY DEF Total
<1> HIDE DEF g, h
<1>4. g[s] = h[s]
  BY <1>1, <1>2, IterationsAgree
<1>5. g[S] = Step(f, g, S)
  BY <1>2 DEF Iterated
<1> QED BY <1>3, <1>4, <1>5 DEF Step

LEMMA TotalType ==
  ASSUME NEW f, NEW S, IsFiniteSet(S), \A x \in S : f[x] \in Nat
  PROVE  Total(f, S) \in Nat
<1> DEFINE T == {Cardinality(s) : s \in {a \in SUBSET S : Total(f, a) \notin Nat}}
<1> SUFFICES ASSUME Total(f, S) \notin Nat PROVE FALSE
  OBVIOUS
<1>1. \A s \in SUBSET S : IsFiniteSet(s) /\ Cardinality(s) \in Nat
  BY Picked
<1>2. T \subseteq Nat /\ T # {}
  BY <1>1
<1>3. PICK n \in T : \A m \in T : n <= m
  BY <1>2, LeastNatural
<1>4. PICK s \in SUBSET S : Total(f, s) \notin Nat /\ Cardinality(s) = n
  BY <1>3
<1>5. \A a \in SUBSET S : Total(f, a) \notin Nat => n <= Cardinality(a)
  BY <1>3
<1>6. s # {}
  BY <1>4, TotalEmpty
<1>7. Pick(s) \in S /\ s \ {Pick(s)} \in SUBSET S /\ Cardinality(s \ {Pick(s)}) < n
  BY <1>1, <1>4, <1>6, Picked
<1>8. Total(f, s \ {Pick(s)}) \in Nat
  BY <1>1, <1>2, <1>3, <1>5, <1>7
<1>9. Total(f, s) = f[Pick(s)] + Total(f, s \ {Pick(s)})
  BY <1>1, <1>6, TotalPicked
<1>10. f[Pick(s)] \in Nat
  BY <1>7
<1> QED BY <1>4, <1>8, <1>9, <1>10

(* Any member may be taken out first.                                      *)
Takes(f, s) == \A x \in s : Total(f, s) = f[x] + Total(f, s \ {x})

LEMMA TotalTakes ==
  ASSUME NEW f, NEW S, IsFiniteSet(S), \A x \in S : f[x] \in Nat
  PROVE  Takes(f, S)
<1> DEFINE T == {Cardinality(s) : s \in {a \in SUBSET S : ~Takes(f, a)}}
<1> SUFFICES ASSUME ~Takes(f, S) PROVE FALSE
  OBVIOUS
<1>1. \A s \in SUBSET S : IsFiniteSet(s) /\ Cardinality(s) \in Nat
  BY Picked
<1>2. T \subseteq Nat /\ T # {}
  BY <1>1
<1>3. PICK n \in T : \A m \in T : n <= m
  BY <1>2, LeastNatural
<1>4. PICK s \in SUBSET S : ~Takes(f, s) /\ Cardinality(s) = n
  BY <1>3
<1>5. \A a \in SUBSET S : ~Takes(f, a) => n <= Cardinality(a)
  BY <1>3
<1>6. PICK x \in s : Total(f, s) # f[x] + Total(f, s \ {x})
  BY <1>4 DEF Takes
<1> DEFINE c == Pick(s)
<1>7. c \in s /\ Total(f, s) = f[c] + Total(f, s \ {c})
  BY <1>1, <1>4, <1>6, Picked, TotalPicked
<1>8. c # x
  BY <1>6, <1>7
<1>9. ASSUME NEW y \in s PROVE Takes(f, s \ {y})
  <2>1. s \ {y} \in SUBSET S /\ Cardinality(s \ {y}) = n - 1
    BY <1>1, <1>4, FS_RemoveElement
  <2>2. n \in Nat
    BY <1>2, <1>3
  <2>3. ~(n <= Cardinality(s \ {y}))
    BY <2>1, <2>2
  <2> QED BY <1>5, <2>1, <2>3
<1> HIDE DEF c
<1>10. Total(f, s \ {c}) = f[x] + Total(f, (s \ {c}) \ {x})
  BY <1>6, <1>7, <1>8, <1>9 DEF Takes
<1>11. Total(f, s \ {x}) = f[c] + Total(f, (s \ {x}) \ {c})
  BY <1>6, <1>7, <1>8, <1>9 DEF Takes
<1>12. (s \ {c}) \ {x} = (s \ {x}) \ {c}
  OBVIOUS
<1>13. f[c] \in Nat /\ f[x] \in Nat
  BY <1>6, <1>7
<1>14. Total(f, (s \ {x}) \ {c}) \in Nat
  <2>1. (s \ {x}) \ {c} \in SUBSET S
    OBVIOUS
  <2> QED BY <1>1, <2>1, TotalType
<1>15. Total(f, s) = f[x] + Total(f, s \ {x})
  <2> DEFINE rest == Total(f, (s \ {x}) \ {c})
  <2>1. Total(f, s \ {c}) = f[x] + rest /\ Total(f, s \ {x}) = f[c] + rest
    BY <1>10, <1>11, <1>12
  <2> HIDE DEF rest
  <2>2. rest \in Nat
    BY <1>14 DEF rest
  <2> QED BY <1>7, <1>13, <2>1, <2>2
<1> QED BY <1>6, <1>15

LEMMA TotalWith ==
  ASSUME NEW f, NEW S, IsFiniteSet(S), NEW x, x \notin S,
         \A y \in S \cup {x} : f[y] \in Nat
  PROVE  /\ IsFiniteSet(S \cup {x})
         /\ Total(f, S) \in Nat
         /\ Total(f, S \cup {x}) = f[x] + Total(f, S)
<1>1. IsFiniteSet(S \cup {x})
  BY FS_AddElement
<1>2. Takes(f, S \cup {x})
  BY <1>1, TotalTakes
<1>3. (S \cup {x}) \ {x} = S
  OBVIOUS
<1>4. Total(f, S) \in Nat
  BY TotalType
<1> QED BY <1>1, <1>2, <1>3, <1>4 DEF Takes

(* The sum over two disjoint sets.                                         *)
LEMMA TotalUnion ==
  ASSUME NEW f, NEW A, NEW B, IsFiniteSet(A), IsFiniteSet(B), A \cap B = {},
         \A x \in A \cup B : f[x] \in Nat
  PROVE  /\ Total(f, A) \in Nat /\ Total(f, B) \in Nat
         /\ Total(f, A \cup B) = Total(f, A) + Total(f, B)
<1> DEFINE Adds(b) == Total(f, A \cup b) = Total(f, A) + Total(f, b)
           T == {Cardinality(s) : s \in {a \in SUBSET B : ~Adds(a)}}
<1>0. Total(f, A) \in Nat /\ \A b \in SUBSET B : Total(f, b) \in Nat
  <2>1. Total(f, A) \in Nat
    BY TotalType
  <2>2. ASSUME NEW b \in SUBSET B PROVE Total(f, b) \in Nat
    BY FS_Subset, TotalType
  <2> QED BY <2>1, <2>2
<1> SUFFICES ASSUME ~Adds(B) PROVE FALSE
  BY <1>0
<1>1. \A s \in SUBSET B : IsFiniteSet(s) /\ Cardinality(s) \in Nat
  BY Picked
<1> HIDE DEF Adds
<1>2. T \subseteq Nat /\ T # {}
  BY <1>1
<1>3. PICK n \in T : \A m \in T : n <= m
  BY <1>2, LeastNatural
<1>4. PICK s \in SUBSET B : ~Adds(s) /\ Cardinality(s) = n
  BY <1>3
<1>5. \A a \in SUBSET B : ~Adds(a) => n <= Cardinality(a)
  BY <1>3
<1>6. s # {}
  <2> SUFFICES ASSUME s = {} PROVE FALSE
    OBVIOUS
  <2>1. A \cup s = A
    OBVIOUS
  <2> QED BY <1>0, <1>4, <2>1, TotalEmpty DEF Adds
<1>7. PICK x : x \in s
  BY <1>6
<1> DEFINE r == s \ {x}
<1>8. r \in SUBSET B /\ Cardinality(r) = n - 1 /\ IsFiniteSet(r) /\ n \in Nat
  BY <1>1, <1>2, <1>3, <1>4, <1>7, FS_RemoveElement
<1>9. Adds(r)
  <2>1. ~(n <= Cardinality(r))
    BY <1>8
  <2> QED BY <1>5, <1>8, <2>1
<1>10. s = r \cup {x} /\ A \cup s = (A \cup r) \cup {x} /\ x \notin r /\ x \notin A \cup r
  BY <1>7
<1>11. \A y \in (A \cup r) \cup {x} : f[y] \in Nat
  BY <1>7, <1>8
<1>12. IsFiniteSet(A \cup r)
  BY <1>8, FS_Union
<1> HIDE DEF r
<1>13. Total(f, s) = f[x] + Total(f, r)
  BY <1>8, <1>10, <1>11, TotalWith
<1>14. Total(f, A \cup s) = f[x] + Total(f, A \cup r)
  BY <1>10, <1>11, <1>12, TotalWith
<1>15. f[x] \in Nat /\ Total(f, r) \in Nat
  BY <1>0, <1>8, <1>11
<1> QED BY <1>0, <1>4, <1>9, <1>13, <1>14, <1>15 DEF Adds

(* A sum of sums of parts, and what remains.                               *)
LEMMA TotalSingle ==
  ASSUME NEW f, NEW x, f[x] \in Nat
  PROVE  Total(f, {x}) = f[x]
<1>1. IsFiniteSet({}) /\ x \notin {} /\ {x} = {} \cup {x}
  BY FS_EmptySet
<1>2. \A y \in {} \cup {x} : f[y] \in Nat
  OBVIOUS
<1>3. Total(f, {} \cup {x}) = f[x] + Total(f, {})
  BY <1>1, <1>2, TotalWith
<1> QED BY <1>1, <1>3, TotalEmpty
(* The sum over the three groups.                                          *)
LEMMA TotalOfGroups ==
  ASSUME NEW f,
         f["positions"] \in Nat, f["id"] \in Nat, f["velocities"] \in Nat
  PROVE  Total(f, {"positions", "id", "velocities"}) = f["positions"] + f["id"] + f["velocities"]
<1>1. IsFiniteSet({"positions"}) /\ IsFiniteSet({"positions", "id"})
  <2>1. IsFiniteSet({"positions"}) /\ {"positions", "id"} = {"positions"} \cup {"id"}
    BY FS_Singleton
  <2> QED BY <2>1, FS_AddElement
<1>2. Total(f, {"positions"} \cup {"id"}) = f["id"] + Total(f, {"positions"})
  <2>1. \A y \in {"positions"} \cup {"id"} : f[y] \in Nat
    OBVIOUS
  <2>2. "id" \notin {"positions"}
    OBVIOUS
  <2> QED BY <1>1, <2>1, <2>2, TotalWith
<1>3. Total(f, {"positions", "id"} \cup {"velocities"}) = f["velocities"] + Total(f, {"positions", "id"})
  <2>1. \A y \in {"positions", "id"} \cup {"velocities"} : f[y] \in Nat
    OBVIOUS
  <2>2. "velocities" \notin {"positions", "id"}
    OBVIOUS
  <2> QED BY <1>1, <2>1, <2>2, TotalWith
<1>4. /\ {"positions"} \cup {"id"} = {"positions", "id"}
      /\ {"positions", "id"} \cup {"velocities"} = {"positions", "id", "velocities"}
  OBVIOUS
<1>5. Total(f, {"positions"}) = f["positions"]
  BY TotalSingle
<1> DEFINE one == Total(f, {"positions"})
           two == Total(f, {"positions", "id"})
           three == Total(f, {"positions", "id", "velocities"})
<1>6. one = f["positions"] /\ two = f["id"] + one /\ three = f["velocities"] + two
  BY <1>2, <1>3, <1>4, <1>5
<1> HIDE DEF one, two, three
<1>7. three = f["positions"] + f["id"] + f["velocities"]
  BY <1>6
<1> QED BY <1>7 DEF three

-------------------------------------------------------------------------------
(* ---- the numbers of a batch ------------------------------------------- *)

IsInput(f) == f \in [count : Counts, widths : Widths, package : Packages]

LEMMA SummaryAssumed ==
  /\ FileCount \in Nat \ {0}
  /\ Counts \subseteq Nat \ {0}
  /\ \A w \in Widths : w \in [Summary!Names -> Nat \ {0}]
  /\ \A q \in Packages :
       /\ q \in [DOMAIN q -> Nat \ {0}] /\ IsFiniteSet(DOMAIN q)
       /\ Summary!Manifest \in DOMAIN q
       /\ \A path \in DOMAIN q : path # Summary!Manifest => path[1] \in Summary!Stems
  /\ None \notin Summary!Groups
  /\ None \notin [Summary!Groups -> [original : Nat, compressed : Nat]]
BY FilesAssumption DEF Summary!BatchSummaryAssumption, IsFiniteSet, Summary!IsFiniteSet

LEMMA NamesFinite == IsFiniteSet(Summary!Names)
<1> DEFINE P == {"x"} \cup {"y"} \cup {"z"}
           V == {"vx"} \cup {"vy"} \cup {"vz"}
<1>1. IsFiniteSet(P) /\ IsFiniteSet(V) /\ IsFiniteSet({"id"})
  BY FS_Singleton, FS_Union
<1>2. Summary!Names = {"id"} \cup P \cup V
  BY DEF Summary!Names, Summary!PositionNames, Summary!VelocityNames
<1> QED BY <1>1, <1>2, FS_Union

(* The fields of a file belong to one group each.                          *)
FieldsOf(g) == {n \in Summary!Names : Summary!GroupOfField(n) = g}

LEMMA FieldsAddUp ==
  ASSUME NEW w \in [Summary!Names -> Nat]
  PROVE  /\ \A g \in Summary!Groups : Total(w, FieldsOf(g)) \in Nat
         /\ Total(w, FieldsOf("positions")) + Total(w, FieldsOf("id"))
              + Total(w, FieldsOf("velocities")) = Total(w, Summary!Names)
<1> DEFINE A == FieldsOf("positions")
           B == FieldsOf("id")
           C == FieldsOf("velocities")
<1>1. \A n \in Summary!Names :
        /\ Summary!GroupOfField(n) \in {"positions", "id", "velocities"}
        /\ w[n] \in Nat
  BY DEF Summary!GroupOfField
<1>2. /\ A \cup B \cup C = Summary!Names
      /\ A \cap B = {} /\ (A \cup B) \cap C = {}
  BY <1>1 DEF FieldsOf
<1>3. IsFiniteSet(A) /\ IsFiniteSet(B) /\ IsFiniteSet(C) /\ IsFiniteSet(A \cup B)
  BY <1>2, NamesFinite, FS_Subset
<1>4. \A n \in A \cup B \cup C : w[n] \in Nat
  BY <1>1, <1>2
<1> HIDE DEF A, B, C
<1>5. /\ Total(w, A) \in Nat /\ Total(w, B) \in Nat
      /\ Total(w, A \cup B) = Total(w, A) + Total(w, B)
  BY <1>2, <1>3, <1>4, TotalUnion
<1>6. /\ Total(w, C) \in Nat
      /\ Total(w, (A \cup B) \cup C) = Total(w, A \cup B) + Total(w, C)
  BY <1>2, <1>3, <1>4, TotalUnion
<1>7. \A g \in Summary!Groups : Total(w, FieldsOf(g)) \in {Total(w, A), Total(w, B), Total(w, C)}
  BY DEF A, B, C, Summary!Groups
<1>8. Total(w, A) + Total(w, B) + Total(w, C) = Total(w, Summary!Names)
  BY <1>2, <1>5, <1>6
<1> QED BY <1>5, <1>6, <1>7, <1>8 DEF A, B, C

(* So do the files of a package, but for its manifest.                     *)
PathsOf(q, g) == {path \in DOMAIN q : Summary!GroupOfPath(path) = g}

LEMMA PathsAddUp ==
  ASSUME NEW q \in Packages
  PROVE  /\ Total(q, DOMAIN q) \in Nat /\ q[Summary!Manifest] \in Nat
         /\ \A g \in Summary!Groups : Total(q, PathsOf(q, g)) \in Nat
         /\ Total(q, PathsOf(q, "positions")) + Total(q, PathsOf(q, "id"))
              + Total(q, PathsOf(q, "velocities")) + q[Summary!Manifest] = Total(q, DOMAIN q)
<1> DEFINE A == PathsOf(q, "positions")
           B == PathsOf(q, "id")
           C == PathsOf(q, "velocities")
           m == Summary!Manifest
<1>1. /\ IsFiniteSet(DOMAIN q) /\ m \in DOMAIN q
      /\ \A path \in DOMAIN q : q[path] \in Nat
      /\ \A path \in DOMAIN q : path # m => path[1] \in Summary!Stems
  BY SummaryAssumed
<1>2. \A path \in DOMAIN q : path # m =>
        Summary!GroupOfPath(path) \in {"positions", "id", "velocities"}
  BY <1>1 DEF Summary!GroupOfPath, Summary!Stems, Summary!Names, Summary!PositionNames,
              Summary!VelocityNames
<1>3. Summary!GroupOfPath(m) \notin {"positions", "id", "velocities"}
  <2>1. m[1] = "manifest"
    BY DEF Summary!Manifest
  <2>2. Summary!GroupOfPath(m) = None
    BY <2>1 DEF Summary!GroupOfPath, Summary!PositionNames, Summary!VelocityNames
  <2> QED BY <2>2, SummaryAssumed DEF Summary!Groups
<1>4. /\ A \cup B \cup C \cup {m} = DOMAIN q
      /\ A \cap B = {} /\ (A \cup B) \cap C = {} /\ m \notin A \cup B \cup C
  BY <1>1, <1>2, <1>3 DEF PathsOf
<1>5. /\ IsFiniteSet(A) /\ IsFiniteSet(B) /\ IsFiniteSet(C)
      /\ IsFiniteSet(A \cup B) /\ IsFiniteSet(A \cup B \cup C)
  BY <1>1, <1>4, FS_Subset
<1>6. \A path \in A \cup B \cup C \cup {m} : q[path] \in Nat
  BY <1>1, <1>4
<1> HIDE DEF A, B, C, m
<1>7. /\ Total(q, A) \in Nat /\ Total(q, B) \in Nat
      /\ Total(q, A \cup B) = Total(q, A) + Total(q, B)
  BY <1>4, <1>5, <1>6, TotalUnion
<1>8. /\ Total(q, C) \in Nat
      /\ Total(q, (A \cup B) \cup C) = Total(q, A \cup B) + Total(q, C)
  BY <1>4, <1>5, <1>6, TotalUnion
<1>9. Total(q, (A \cup B \cup C) \cup {m}) = q[m] + Total(q, A \cup B \cup C)
  BY <1>4, <1>5, <1>6, TotalWith
<1>10. q[m] \in Nat
  BY <1>6
<1>11. \A g \in Summary!Groups :
         Total(q, PathsOf(q, g)) \in {Total(q, A), Total(q, B), Total(q, C)}
  BY DEF A, B, C, Summary!Groups
<1>12. Total(q, A) + Total(q, B) + Total(q, C) + q[m] = Total(q, DOMAIN q)
  BY <1>4, <1>7, <1>8, <1>9, <1>10
<1>13. Total(q, DOMAIN q) \in Nat
  BY <1>7, <1>8, <1>10, <1>12
<1> QED BY <1>7, <1>8, <1>10, <1>11, <1>12, <1>13 DEF A, B, C, m

(* What a report says, whichever it is, is what is true of the file.       *)
LEMMA PayloadType ==
  ASSUME NEW f, IsInput(f)
  PROVE  /\ f.count \in Nat /\ f.package \in Packages /\ f.widths \in [Summary!Names -> Nat]
         /\ Summary!Payload(f) = f.count * Total(f.widths, Summary!Names)
         /\ Summary!PackageSize(f) = Total(f.package, DOMAIN f.package)
         /\ Summary!Payload(f) \in Nat /\ Summary!PackageSize(f) \in Nat
<1>1. /\ f.count \in Nat /\ f.package \in Packages /\ f.widths \in [Summary!Names -> Nat]
  BY SummaryAssumed DEF IsInput
<1>2. DOMAIN f.widths = Summary!Names
  BY <1>1
<1>3. Summary!Payload(f) = f.count * Total(f.widths, Summary!Names)
  BY <1>2, SumIsTotal DEF Summary!Payload
<1>4. Summary!PackageSize(f) = Total(f.package, DOMAIN f.package)
  BY SumIsTotal DEF Summary!PackageSize
<1>5. Total(f.widths, Summary!Names) \in Nat
  BY <1>1, NamesFinite, TotalType
<1>6. Total(f.package, DOMAIN f.package) \in Nat
  BY <1>1, PathsAddUp
<1>7. f.count * Total(f.widths, Summary!Names) \in Nat
  BY <1>1, <1>5
<1> QED BY <1>1, <1>3, <1>4, <1>6, <1>7

LEMMA SizesReported ==
  ASSUME NEW f
  PROVE  LET sizes == Summary!SizesOf(f)
         IN  /\ "selected_original_payload_bytes" \in DOMAIN sizes
             /\ sizes["selected_original_payload_bytes"] = Summary!Payload(f)
             /\ "selected_particle_count" \notin DOMAIN sizes
             /\ "compressed_total_bytes" \in DOMAIN sizes <=> command # "preprocess"
             /\ "compressed_components_bytes" \in DOMAIN sizes <=> command # "preprocess"
             /\ command # "preprocess" =>
                  /\ sizes["compressed_total_bytes"] = Summary!PackageSize(f)
                  /\ sizes["compressed_components_bytes"] = f.package
BY DEF Summary!SizesOf

LEMMA ReportIsTrue ==
  ASSUME NEW f, IsInput(f), NEW report, report = Summary!Report(f)
  PROVE  /\ Summary!Particles(report) = f.count
         /\ \A n \in Summary!Names : Summary!Width(report, n) = f.widths[n]
         /\ Summary!Value(report.sizes, "selected_original_payload_bytes", 0) = Summary!Payload(f)
         /\ "compressed_total_bytes" \in DOMAIN report.sizes <=> command # "preprocess"
         /\ "compressed_components_bytes" \in DOMAIN report.sizes <=> command # "preprocess"
         /\ command # "preprocess" =>
              /\ report.sizes["compressed_total_bytes"] = Summary!PackageSize(f)
              /\ report.sizes["compressed_components_bytes"] = f.package
<1>1. CASE metrics
  <2>1. report = Summary!MetricsOf(f)
    BY <1>1 DEF Summary!Report
  <2>2. /\ DOMAIN report = {"sizes", "fields"}
        /\ report.sizes = [k \in DOMAIN Summary!SizesOf(f) \cup {"selected_particle_count"} |->
                             IF k \in DOMAIN Summary!SizesOf(f) THEN Summary!SizesOf(f)[k]
                             ELSE f.count]
        /\ \A n \in Summary!Names : report.fields[n] = [original_dtype |-> f.widths[n]]
    BY <2>1 DEF Summary!MetricsOf
  <2>3. Summary!Particles(report) = f.count
    BY <2>2, SizesReported DEF Summary!Particles, Summary!Value
  <2>4. \A n \in Summary!Names : Summary!Width(report, n) = f.widths[n]
    <3> TAKE n \in Summary!Names
    <3> DEFINE field == report.fields[n]
    <3>1. field = [original_dtype |-> f.widths[n]]
      BY <2>2
    <3>2. "dtype" \notin DOMAIN field /\ "original_dtype" \in DOMAIN field
          /\ field["original_dtype"] = f.widths[n]
      BY <3>1
    <3>3. Summary!Width(report, n) =
            Summary!Value(field, "dtype", Summary!Value(field, "original_dtype", None))
      BY DEF Summary!Width
    <3> HIDE DEF field
    <3> QED BY <3>2, <3>3 DEF Summary!Value
  <2> QED BY <2>2, <2>3, <2>4, SizesReported DEF Summary!Value
<1>2. CASE ~metrics
  <2>1. report = Summary!ManifestOf(f)
    BY <1>2 DEF Summary!Report
  <2>2. /\ "count" \in DOMAIN report /\ report["count"] = f.count
        /\ report.sizes = Summary!SizesOf(f)
        /\ \A n \in Summary!Names : report.fields[n] = [dtype |-> f.widths[n]]
    BY <2>1 DEF Summary!ManifestOf
  <2>3. Summary!Particles(report) = f.count
    BY <2>2 DEF Summary!Particles, Summary!Value
  <2>4. \A n \in Summary!Names : Summary!Width(report, n) = f.widths[n]
    <3> TAKE n \in Summary!Names
    <3> DEFINE field == report.fields[n]
    <3>1. field = [dtype |-> f.widths[n]]
      BY <2>2
    <3>2. "dtype" \in DOMAIN field /\ field["dtype"] = f.widths[n]
      BY <3>1
    <3>3. Summary!Width(report, n) =
            Summary!Value(field, "dtype", Summary!Value(field, "original_dtype", None))
      BY DEF Summary!Width
    <3> HIDE DEF field
    <3> QED BY <3>2, <3>3 DEF Summary!Value
  <2> QED BY <2>2, <2>3, <2>4, SizesReported DEF Summary!Value
<1> QED BY <1>1, <1>2
(* ---- the loop over the results ---------------------------------------- *)

(* What is given, and the files passed that succeeded.                     *)
GivenInv ==
  /\ command \in {"preprocess", "compress", "roundtrip"}
  /\ files \in [Summary!Index -> [count : Counts, widths : Widths, package : Packages]]
  /\ \A f \in Summary!Index : results[f] \in Summary!Results(files[f])
  /\ next \in 0..FileCount
Succeeded == {f \in 0..(next - 1) : results[f].succeeded}
CountOf == [f \in Summary!Index |-> files[f].count]
PayloadOf == [f \in Summary!Index |-> Summary!Payload(files[f])]
SizeOf == [f \in Summary!Index |-> Summary!PackageSize(files[f])]
ManifestOf == [f \in Summary!Index |-> files[f].package[Summary!Manifest]]

(* The totals are sums over them.                                          *)
TotalsInv ==
  /\ success = Cardinality(Succeeded)
  /\ particles = Total(CountOf, Succeeded)
  /\ original = Total(PayloadOf, Succeeded)
  /\ compressed = IF command = "preprocess" THEN 0 ELSE Total(SizeOf, Succeeded)
  /\ complete \in BOOLEAN
  /\ complete <=> Succeeded = 0..(next - 1) /\ (command = "preprocess" => next = 0)
  /\ groups_available \in BOOLEAN
  /\ groups_available <=> (command = "preprocess" => Succeeded = {})

(* The groups are a partition of the totals, but for the manifests.        *)
GroupsInv ==
  /\ groups \in [Summary!Groups -> [original : Nat, compressed : Nat]]
  /\ groups["positions"].original + groups["id"].original + groups["velocities"].original
       = original
  /\ command # "preprocess" =>
       groups["positions"].compressed + groups["id"].compressed
         + groups["velocities"].compressed + Total(ManifestOf, Succeeded) = compressed

(* Every file passed has its entry.                                        *)
ListingsInv ==
  /\ DOMAIN listings = 0..(next - 1)
  /\ \A f \in 0..(next - 1) :
       /\ listings[f].status = "success" <=> results[f].succeeded
       /\ results[f].succeeded => listings[f].particle_count = files[f].count

(* The Json of the batch.                                                  *)
BatchInv ==
  batch # None =>
    /\ next = FileCount
    /\ LET whole == complete /\ success > 0
       IN  batch = [successful_files |-> success, failed_files |-> FileCount - success,
                    total_particle_count |-> particles, original |-> original,
                    compressed |-> IF whole THEN compressed ELSE None,
                    field_groups |-> IF whole /\ groups_available THEN groups ELSE None]

SummaryInv == GivenInv /\ TotalsInv /\ GroupsInv /\ ListingsInv /\ BatchInv

LEMMA InputsKnown ==
  ASSUME GivenInv
  PROVE  /\ Summary!Index = 0..(FileCount - 1) /\ FileCount \in Nat \ {0} /\ next \in Nat
         /\ \A f \in Summary!Index :
              /\ IsInput(files[f])
              /\ CountOf[f] \in Nat /\ CountOf[f] = files[f].count
              /\ PayloadOf[f] \in Nat /\ PayloadOf[f] = Summary!Payload(files[f])
              /\ SizeOf[f] \in Nat /\ SizeOf[f] = Summary!PackageSize(files[f])
              /\ ManifestOf[f] \in Nat /\ ManifestOf[f] = files[f].package[Summary!Manifest]
         /\ Succeeded \subseteq Summary!Index /\ IsFiniteSet(Succeeded)
         /\ Cardinality(Succeeded) \in Nat
<1>1. Summary!Index = 0..(FileCount - 1) /\ FileCount \in Nat \ {0} /\ next \in Nat
  BY SummaryAssumed DEF Summary!Index, GivenInv
<1>2. \A f \in Summary!Index : IsInput(files[f])
  BY DEF GivenInv, IsInput
<1>3. \A f \in Summary!Index :
        /\ CountOf[f] \in Nat /\ CountOf[f] = files[f].count
        /\ PayloadOf[f] \in Nat /\ PayloadOf[f] = Summary!Payload(files[f])
        /\ SizeOf[f] \in Nat /\ SizeOf[f] = Summary!PackageSize(files[f])
        /\ ManifestOf[f] \in Nat /\ ManifestOf[f] = files[f].package[Summary!Manifest]
  <2> TAKE f \in Summary!Index
  <2>1. /\ files[f].count \in Nat /\ Summary!Payload(files[f]) \in Nat
        /\ Summary!PackageSize(files[f]) \in Nat /\ files[f].package \in Packages
    BY <1>2, PayloadType
  <2>2. files[f].package[Summary!Manifest] \in Nat
    BY <2>1, PathsAddUp
  <2> QED BY <2>1, <2>2 DEF CountOf, PayloadOf, SizeOf, ManifestOf
<1>4. Succeeded \subseteq 0..(next - 1) /\ 0..(next - 1) \subseteq Summary!Index
  BY <1>1 DEF Succeeded, GivenInv
<1>5. IsFiniteSet(Succeeded) /\ Cardinality(Succeeded) \in Nat
  <2>1. IsFiniteSet(0..(next - 1))
    BY <1>1, FS_Interval
  <2> QED BY <1>4, <2>1, FS_Subset, FS_CardinalityType
<1> QED BY <1>1, <1>2, <1>3, <1>4, <1>5

LEMMA SummaryInitInv ==
  ASSUME Summary!Init PROVE SummaryInv
<1>1. GivenInv
  <2>1. /\ command \in {"preprocess", "compress", "roundtrip"} /\ next = 0
        /\ files \in [Summary!Index -> [count : Counts, widths : Widths, package : Packages]]
        /\ \A f \in Summary!Index : results[f] \in Summary!Results(files[f])
    BY DEF Summary!Init
  <2> QED BY <2>1, SummaryAssumed DEF GivenInv
<1>2. Succeeded = {} /\ 0..(next - 1) = {}
  BY DEF Succeeded, Summary!Init
<1>3. TotalsInv
  <2>1. Cardinality(Succeeded) = 0
    BY <1>2, FS_EmptySet
  <2>2. Total(CountOf, Succeeded) = 0 /\ Total(PayloadOf, Succeeded) = 0 /\ Total(SizeOf, Succeeded) = 0
    BY <1>2, TotalEmpty
  <2> QED BY <1>2, <2>1, <2>2 DEF TotalsInv, Summary!Init
<1>4. GroupsInv
  <2>1. /\ groups = [g \in Summary!Groups |-> [original |-> 0, compressed |-> 0]]
        /\ original = 0 /\ compressed = 0
    BY DEF Summary!Init
  <2>2. {"positions", "id", "velocities"} = Summary!Groups
    BY DEF Summary!Groups
  <2>3. Total(ManifestOf, Succeeded) = 0
    BY <1>2, TotalEmpty
  <2> QED BY <2>1, <2>2, <2>3 DEF GroupsInv
<1>5. ListingsInv
  BY <1>2 DEF ListingsInv, Summary!Init
<1>6. BatchInv
  BY DEF BatchInv, Summary!Init
<1> QED BY <1>1, <1>3, <1>4, <1>5, <1>6 DEF SummaryInv

(* What Take adds of a file.                                               *)
LEMMA Taking ==
  ASSUME GivenInv, Summary!Take
  PROVE  /\ next \in Summary!Index /\ results[next].succeeded
         /\ particles' = particles + CountOf[next]
         /\ original' = original + PayloadOf[next]
         /\ compressed' = compressed + (IF command = "preprocess" THEN 0 ELSE SizeOf[next])
         /\ complete' = (complete /\ command # "preprocess")
         /\ groups_available' = (groups_available /\ command # "preprocess")
         /\ groups' = [g \in Summary!Groups |->
              [original |-> groups[g].original
                              + files[next].count * Total(files[next].widths, FieldsOf(g)),
               compressed |-> groups[g].compressed
                 + (IF command = "preprocess" THEN 0
                    ELSE Total(files[next].package, PathsOf(files[next].package, g)))]]
         /\ success' = success + 1 /\ next' = next + 1
         /\ UNCHANGED <<command, files, results, batch>>
         /\ listings' = [f \in DOMAIN listings \cup {next} |->
              IF f = next THEN Summary!Entry(results[next]) ELSE listings[f]]
         /\ Summary!Entry(results[next]).status = "success"
         /\ Summary!Entry(results[next]).particle_count = files[next].count
<1> DEFINE f == files[next]
           report == results[next].report
           sizes == report.sizes
           components == Summary!Value(sizes, "compressed_components_bytes", [q \in {} |-> 0])
<1>1. next \in Summary!Index /\ results[next].succeeded /\ IsInput(f)
  <2>1. next < FileCount /\ results[next].succeeded
    BY DEF Summary!Take
  <2> QED BY <2>1, InputsKnown DEF GivenInv
<1>2. report = Summary!Report(f) /\ "report" \in DOMAIN results[next]
  <2>1. results[next] \in Summary!Results(f)
    BY <1>1 DEF GivenInv
  <2>2. results[next] # [succeeded |-> FALSE]
    BY <1>1
  <2>3. PICK b \in BOOLEAN : results[next] = [succeeded |-> b, report |-> Summary!Report(f)]
    BY <2>1, <2>2 DEF Summary!Results
  <2> QED BY <2>3
<1> HIDE DEF f, report
<1>3. /\ Summary!Particles(report) = f.count
      /\ \A n \in Summary!Names : Summary!Width(report, n) = f.widths[n]
      /\ Summary!Value(sizes, "selected_original_payload_bytes", 0) = Summary!Payload(f)
      /\ "compressed_total_bytes" \in DOMAIN sizes <=> command # "preprocess"
      /\ "compressed_components_bytes" \in DOMAIN sizes <=> command # "preprocess"
      /\ command # "preprocess" =>
           /\ sizes["compressed_total_bytes"] = Summary!PackageSize(f)
           /\ sizes["compressed_components_bytes"] = f.package
  BY <1>1, <1>2, ReportIsTrue
<1>4. ASSUME NEW g \in Summary!Groups
      PROVE  Summary!SumFunction([n \in {m \in Summary!Names : Summary!GroupOfField(m) = g} |->
                                    Summary!Width(report, n)])
               = Total(f.widths, FieldsOf(g))
  <2> DEFINE h == [n \in FieldsOf(g) |-> Summary!Width(report, n)]
  <2>1. Summary!SumFunction(h) = Total(h, FieldsOf(g))
    BY SumIsTotal
  <2>2. \A n \in FieldsOf(g) : h[n] = f.widths[n]
    BY <1>3 DEF FieldsOf
  <2>3. IsFiniteSet(FieldsOf(g))
    BY NamesFinite, FS_Subset DEF FieldsOf
  <2> HIDE DEF h
  <2>4. Total(h, FieldsOf(g)) = Total(f.widths, FieldsOf(g))
    BY <2>2, <2>3, TotalSame
  <2> QED BY <2>1, <2>4 DEF h, FieldsOf
<1>5. ASSUME NEW g \in Summary!Groups
      PROVE  Summary!SumFunctionOnSet(components,
                 {q \in DOMAIN components : Summary!GroupOfPath(q) = g})
               = IF command = "preprocess" THEN 0 ELSE Total(f.package, PathsOf(f.package, g))
  <2>1. CASE command = "preprocess"
    <3>1. components = [q \in {} |-> 0]
      BY <1>3, <2>1 DEF Summary!Value
    <3> HIDE DEF components
    <3>2. {q \in DOMAIN components : Summary!GroupOfPath(q) = g} = {}
      BY <3>1
    <3>3. Total(components, {}) = 0
      BY TotalEmpty
    <3> QED BY <2>1, <3>2, <3>3, SumIsTotal
  <2>2. CASE command # "preprocess"
    <3>1. components = f.package
      BY <1>3, <2>2 DEF Summary!Value
    <3> HIDE DEF components
    <3> QED BY <2>2, <3>1, SumIsTotal DEF PathsOf
  <2> QED BY <2>1, <2>2
<1>6. Summary!Value(sizes, "compressed_total_bytes", 0)
        = IF command = "preprocess" THEN 0 ELSE Summary!PackageSize(f)
  BY <1>3 DEF Summary!Value
<1>7. /\ particles' = particles + Summary!Particles(report)
      /\ original' = original + Summary!Value(sizes, "selected_original_payload_bytes", 0)
      /\ compressed' = compressed + Summary!Value(sizes, "compressed_total_bytes", 0)
      /\ complete' = (complete /\ "compressed_total_bytes" \in DOMAIN sizes)
      /\ groups_available' = (groups_available /\ "compressed_components_bytes" \in DOMAIN sizes)
  BY DEF Summary!Take, report
<1>8. groups' = [g \in Summary!Groups |->
        [original |-> groups[g].original
           + Summary!Particles(report)
             * Summary!SumFunction([n \in {m \in Summary!Names : Summary!GroupOfField(m) = g} |->
                                      Summary!Width(report, n)]),
         compressed |-> groups[g].compressed
           + Summary!SumFunctionOnSet(components,
               {q \in DOMAIN components : Summary!GroupOfPath(q) = g})]]
  BY DEF Summary!Take, report
<1>9. /\ success' = success + 1 /\ next' = next + 1
      /\ UNCHANGED <<command, files, results, batch>>
      /\ listings' = [k \in DOMAIN listings \cup {next} |->
              IF k = next THEN Summary!Entry(results[next]) ELSE listings[k]]
  BY DEF Summary!Take
<1>10. /\ Summary!Entry(results[next]).status = "success"
       /\ Summary!Entry(results[next]).particle_count = f.count
  BY <1>1, <1>2, <1>3 DEF Summary!Entry, report
<1>11. groups' = [g \in Summary!Groups |->
              [original |-> groups[g].original + f.count * Total(f.widths, FieldsOf(g)),
               compressed |-> groups[g].compressed
                 + (IF command = "preprocess" THEN 0
                    ELSE Total(f.package, PathsOf(f.package, g)))]]
  <2> HIDE DEF components
  <2> QED BY <1>3, <1>4, <1>5, <1>8
<1>12. /\ CountOf[next] = f.count /\ PayloadOf[next] = Summary!Payload(f)
       /\ SizeOf[next] = Summary!PackageSize(f)
  BY <1>1 DEF CountOf, PayloadOf, SizeOf, f
<1>13. /\ complete' = (complete /\ command # "preprocess")
       /\ groups_available' = (groups_available /\ command # "preprocess")
  BY <1>3, <1>7
<1>14. /\ particles' = particles + CountOf[next]
       /\ original' = original + PayloadOf[next]
       /\ compressed' = compressed + (IF command = "preprocess" THEN 0 ELSE SizeOf[next])
  BY <1>3, <1>6, <1>7, <1>12
<1> QED BY <1>1, <1>9, <1>10, <1>11, <1>13, <1>14 DEF f
LEMMA ConstantsStay ==
  ASSUME UNCHANGED files
  PROVE  CountOf' = CountOf /\ PayloadOf' = PayloadOf /\ SizeOf' = SizeOf /\ ManifestOf' = ManifestOf
BY DEF CountOf, PayloadOf, SizeOf, ManifestOf

LEMMA FilePassed ==
  ASSUME GivenInv, next \in Summary!Index, next' = next + 1, UNCHANGED results
  PROVE  /\ next \notin Succeeded /\ next \notin 0..(next - 1)
         /\ 0..(next' - 1) = 0..(next - 1) \cup {next}
         /\ results[next].succeeded => Succeeded' = Succeeded \cup {next}
         /\ ~results[next].succeeded => Succeeded' = Succeeded
<1>1. next \in Nat
  BY InputsKnown
<1>2. next \notin 0..(next - 1) /\ 0..(next' - 1) = 0..(next - 1) \cup {next}
  BY <1>1
<1>3. Succeeded' = {f \in 0..(next' - 1) : results[f].succeeded}
  BY DEF Succeeded
<1>4. next \notin Succeeded
  BY <1>2 DEF Succeeded
<1> QED BY <1>2, <1>3, <1>4 DEF Succeeded

LEMMA FailedKeepsInv ==
  ASSUME SummaryInv, Summary!TakeFailed PROVE SummaryInv'
<1> USE DEF SummaryInv
<1>1. /\ next < FileCount /\ ~results[next].succeeded /\ complete' = FALSE /\ next' = next + 1
      /\ UNCHANGED <<command, metrics, files, results, success, particles, original, compressed,
                     groups, groups_available, batch>>
      /\ listings' = [f \in DOMAIN listings \cup {next} |->
              IF f = next THEN Summary!Entry(results[next]) ELSE listings[f]]
  BY DEF Summary!TakeFailed
<1>2. next \in Summary!Index
  BY <1>1, InputsKnown DEF GivenInv
<1>3. /\ next \notin Succeeded /\ next \notin 0..(next - 1)
      /\ 0..(next' - 1) = 0..(next - 1) \cup {next} /\ Succeeded' = Succeeded
  BY <1>1, <1>2, FilePassed
<1>4. CountOf' = CountOf /\ PayloadOf' = PayloadOf /\ SizeOf' = SizeOf /\ ManifestOf' = ManifestOf
  BY <1>1, ConstantsStay
<1>5. GivenInv'
  <2>1. \A f \in Summary!Index : Summary!Results(files[f])' = Summary!Results(files[f])
    BY <1>1 DEF Summary!Results, Summary!Report, Summary!ManifestOf, Summary!MetricsOf, Summary!SizesOf
  <2>2. next' \in 0..FileCount
    BY <1>1, <1>2, InputsKnown
  <2> QED BY <1>1, <2>1, <2>2 DEF GivenInv
<1>6. TotalsInv'
  BY <1>1, <1>3, <1>4 DEF TotalsInv
<1>7. GroupsInv'
  BY <1>1, <1>3, <1>4 DEF GroupsInv
<1>8. ListingsInv'
  <2>1. Summary!Entry(results[next]).status = "failed"
    BY <1>1 DEF Summary!Entry
  <2>2. DOMAIN listings' = 0..(next' - 1)
    BY <1>1, <1>3 DEF ListingsInv
  <2>3. ASSUME NEW f \in 0..(next' - 1)
        PROVE  /\ listings'[f].status = "success" <=> results[f].succeeded
               /\ results[f].succeeded => listings'[f].particle_count = files[f].count
    <3>1. CASE f = next
      <4>1. listings'[f] = Summary!Entry(results[next])
        BY <1>1, <3>1
      <4> QED BY <1>1, <2>1, <3>1, <4>1
    <3>2. CASE f \in 0..(next - 1)
      <4>1. listings'[f] = listings[f]
        BY <1>1, <1>3, <3>2 DEF ListingsInv
      <4> QED BY <3>2, <4>1 DEF ListingsInv
    <3> QED BY <1>3, <3>1, <3>2
  <2> QED BY <1>1, <2>2, <2>3 DEF ListingsInv
<1>9. BatchInv'
  BY <1>1, InputsKnown DEF BatchInv
<1> QED BY <1>5, <1>6, <1>7, <1>8, <1>9

LEMMA TakeKeepsInv ==
  ASSUME SummaryInv, Summary!Take PROVE SummaryInv'
<1> USE DEF SummaryInv
<1> DEFINE f == files[next]
           W(g) == Total(f.widths, FieldsOf(g))
           Q(g) == Total(f.package, PathsOf(f.package, g))
<1>1. /\ next \in Summary!Index /\ results[next].succeeded
      /\ particles' = particles + CountOf[next]
      /\ original' = original + PayloadOf[next]
      /\ compressed' = compressed + (IF command = "preprocess" THEN 0 ELSE SizeOf[next])
      /\ complete' = (complete /\ command # "preprocess")
      /\ groups_available' = (groups_available /\ command # "preprocess")
      /\ groups' = [g \in Summary!Groups |->
              [original |-> groups[g].original + f.count * W(g),
               compressed |-> groups[g].compressed
                 + (IF command = "preprocess" THEN 0 ELSE Q(g))]]
      /\ success' = success + 1 /\ next' = next + 1
      /\ UNCHANGED <<command, files, results, batch>>
      /\ listings' = [k \in DOMAIN listings \cup {next} |->
              IF k = next THEN Summary!Entry(results[next]) ELSE listings[k]]
      /\ Summary!Entry(results[next]).status = "success"
      /\ Summary!Entry(results[next]).particle_count = f.count
  BY Taking
<1>2. /\ next \notin Succeeded /\ next \notin 0..(next - 1)
      /\ 0..(next' - 1) = 0..(next - 1) \cup {next} /\ Succeeded' = Succeeded \cup {next}
  BY <1>1, FilePassed
<1>3. CountOf' = CountOf /\ PayloadOf' = PayloadOf /\ SizeOf' = SizeOf /\ ManifestOf' = ManifestOf
  BY <1>1, ConstantsStay
<1>4. /\ IsFiniteSet(Succeeded) /\ Cardinality(Succeeded) \in Nat /\ next \in Nat
      /\ \A k \in Succeeded \cup {next} : /\ CountOf[k] \in Nat /\ PayloadOf[k] \in Nat
                                          /\ SizeOf[k] \in Nat /\ ManifestOf[k] \in Nat
  BY <1>1, InputsKnown
<1>5. /\ IsInput(f) /\ PayloadOf[next] = Summary!Payload(f) /\ SizeOf[next] = Summary!PackageSize(f)
      /\ ManifestOf[next] = f.package[Summary!Manifest]
  BY <1>1, InputsKnown
<1> HIDE DEF f, W, Q
<1>6. /\ Total(CountOf, Succeeded') = CountOf[next] + Total(CountOf, Succeeded)
      /\ Total(CountOf, Succeeded) \in Nat
  BY <1>2, <1>4, TotalWith
<1>7. /\ Total(PayloadOf, Succeeded') = PayloadOf[next] + Total(PayloadOf, Succeeded)
      /\ Total(PayloadOf, Succeeded) \in Nat
  BY <1>2, <1>4, TotalWith
<1>8. /\ Total(SizeOf, Succeeded') = SizeOf[next] + Total(SizeOf, Succeeded)
      /\ Total(SizeOf, Succeeded) \in Nat
  BY <1>2, <1>4, TotalWith
<1>9. /\ Total(ManifestOf, Succeeded') = ManifestOf[next] + Total(ManifestOf, Succeeded)
      /\ Total(ManifestOf, Succeeded) \in Nat
  BY <1>2, <1>4, TotalWith
<1>10. GivenInv'
  <2>1. \A k \in Summary!Index : Summary!Results(files[k])' = Summary!Results(files[k])
    <3>1. UNCHANGED metrics
      BY DEF Summary!Take
    <3> QED BY <1>1, <3>1 DEF Summary!Results, Summary!Report, Summary!ManifestOf,
                              Summary!MetricsOf, Summary!SizesOf
  <2>2. next' \in 0..FileCount
    BY <1>1, InputsKnown
  <2> QED BY <1>1, <2>1, <2>2 DEF GivenInv
<1>11. TotalsInv'
  <2>1. success' = Cardinality(Succeeded')
    <3>1. Cardinality(Succeeded \cup {next}) = Cardinality(Succeeded) + 1
      BY <1>2, <1>4, FS_AddElement
    <3> QED BY <1>1, <1>2, <3>1 DEF TotalsInv
  <2>2. /\ particles' = Total(CountOf', Succeeded')
        /\ original' = Total(PayloadOf', Succeeded')
        /\ compressed' = IF command' = "preprocess" THEN 0 ELSE Total(SizeOf', Succeeded')
    <3>1. CountOf[next] \in Nat /\ PayloadOf[next] \in Nat /\ SizeOf[next] \in Nat
      BY <1>4
    <3> QED BY SMTT(30), <1>1, <1>3, <1>6, <1>7, <1>8, <3>1 DEF TotalsInv
  <2>3. complete' \in BOOLEAN /\ groups_available' \in BOOLEAN
    BY <1>1
  <2>4. complete' <=> Succeeded' = 0..(next' - 1) /\ (command' = "preprocess" => next' = 0)
    <3>1. Succeeded' = 0..(next' - 1) <=> Succeeded = 0..(next - 1)
      BY <1>2
    <3>2. next' # 0
      BY <1>1, <1>4
    <3>3. complete <=> Succeeded = 0..(next - 1) /\ (command = "preprocess" => next = 0)
      BY DEF TotalsInv
    <3>4. complete' <=> complete /\ command # "preprocess"
      BY <1>1
    <3> QED BY <1>1, <3>1, <3>2, <3>3, <3>4
  <2>5. groups_available' <=> (command' = "preprocess" => Succeeded' = {})
    <3>1. Succeeded' # {}
      BY <1>2
    <3>2. groups_available <=> (command = "preprocess" => Succeeded = {})
      BY DEF TotalsInv
    <3>3. groups_available' <=> groups_available /\ command # "preprocess"
      BY <1>1
    <3> QED BY <1>1, <3>1, <3>2, <3>3
  <2> QED BY <2>1, <2>2, <2>3, <2>4, <2>5 DEF TotalsInv
<1>12. GroupsInv'
  <2>1. /\ f.count \in Nat /\ f.package \in Packages /\ f.widths \in [Summary!Names -> Nat]
        /\ Summary!Payload(f) = f.count * Total(f.widths, Summary!Names)
        /\ Summary!PackageSize(f) = Total(f.package, DOMAIN f.package)
    BY <1>5, PayloadType
  <2>2. /\ \A g \in Summary!Groups : W(g) \in Nat
        /\ W("positions") + W("id") + W("velocities") = Total(f.widths, Summary!Names)
    BY <2>1, FieldsAddUp DEF W
  <2>3. /\ \A g \in Summary!Groups : Q(g) \in Nat
        /\ f.package[Summary!Manifest] \in Nat
        /\ Q("positions") + Q("id") + Q("velocities") + f.package[Summary!Manifest]
             = Total(f.package, DOMAIN f.package)
    BY <2>1, PathsAddUp DEF Q
  <2>4. {"positions", "id", "velocities"} = Summary!Groups
    BY DEF Summary!Groups
  <2>5. ASSUME NEW g \in Summary!Groups
        PROVE  /\ groups[g].original \in Nat /\ groups[g].compressed \in Nat
               /\ f.count * W(g) \in Nat
               /\ groups'[g].original = groups[g].original + f.count * W(g)
               /\ groups'[g].compressed = groups[g].compressed
                    + (IF command = "preprocess" THEN 0 ELSE Q(g))
    <3>1. groups[g] \in [original : Nat, compressed : Nat]
      BY DEF GroupsInv
    <3>2. f.count * W(g) \in Nat
      BY <2>1, <2>2
    <3> QED BY <1>1, <3>1, <3>2
  <2>6. groups' \in [Summary!Groups -> [original : Nat, compressed : Nat]]
    <3>1. ASSUME NEW g \in Summary!Groups
          PROVE  [original |-> groups[g].original + f.count * W(g),
                  compressed |-> groups[g].compressed
                    + (IF command = "preprocess" THEN 0 ELSE Q(g))]
                   \in [original : Nat, compressed : Nat]
      BY <2>3, <2>5
    <3> QED BY <1>1, <3>1
  <2>7. groups'["positions"].original + groups'["id"].original + groups'["velocities"].original
          = original'
    <3>1. f.count * (W("positions") + W("id") + W("velocities"))
            = f.count * W("positions") + f.count * W("id") + f.count * W("velocities")
      BY <2>1, <2>2, <2>4
    <3>2. PayloadOf[next] = f.count * W("positions") + f.count * W("id") + f.count * W("velocities")
      BY <1>5, <2>1, <2>2, <3>1
    <3>3. original' = original + PayloadOf[next]
      BY <1>1
    <3>4. groups["positions"].original + groups["id"].original + groups["velocities"].original = original
      BY DEF GroupsInv
    <3> QED BY <2>4, <2>5, <3>2, <3>3, <3>4
  <2>8. ASSUME command # "preprocess"
        PROVE  groups'["positions"].compressed + groups'["id"].compressed
                 + groups'["velocities"].compressed + Total(ManifestOf, Succeeded') = compressed'
    <3>1. SizeOf[next] = Q("positions") + Q("id") + Q("velocities") + ManifestOf[next]
      BY <1>5, <2>1, <2>3
    <3>2. compressed' = compressed + SizeOf[next]
      BY <1>1, <2>8
    <3>3. groups["positions"].compressed + groups["id"].compressed
            + groups["velocities"].compressed + Total(ManifestOf, Succeeded) = compressed
      BY <2>8 DEF GroupsInv
    <3>4. ManifestOf[next] \in Nat
      BY <1>4
    <3>5. \A g \in {"positions", "id", "velocities"} :
            /\ groups[g].compressed \in Nat /\ Q(g) \in Nat
            /\ groups'[g].compressed = groups[g].compressed + Q(g)
      BY <2>3, <2>4, <2>5, <2>8
    <3> QED BY <1>9, <3>1, <3>2, <3>3, <3>4, <3>5
  <2> QED BY <1>1, <1>3, <2>6, <2>7, <2>8 DEF GroupsInv
<1>13. ListingsInv'
  <2>1. DOMAIN listings' = 0..(next' - 1)
    BY <1>1, <1>2 DEF ListingsInv
  <2>2. ASSUME NEW k \in 0..(next' - 1)
        PROVE  /\ listings'[k].status = "success" <=> results[k].succeeded
               /\ results[k].succeeded => listings'[k].particle_count = files[k].count
    <3>1. CASE k = next
      <4>1. listings'[k] = Summary!Entry(results[next])
        BY <1>1, <3>1
      <4> QED BY <1>1, <3>1, <4>1 DEF f
    <3>2. CASE k \in 0..(next - 1)
      <4>1. listings'[k] = listings[k]
        BY <1>1, <1>2, <3>2 DEF ListingsInv
      <4> QED BY <3>2, <4>1 DEF ListingsInv
    <3> QED BY <1>2, <3>1, <3>2
  <2> QED BY <1>1, <2>1, <2>2 DEF ListingsInv
<1>14. BatchInv'
  <2>1. batch = None
    BY <1>1, InputsKnown DEF BatchInv
  <2> QED BY <1>1, <2>1 DEF BatchInv
<1> QED BY <1>10, <1>11, <1>12, <1>13, <1>14

LEMMA SummariseKeepsInv ==
  ASSUME SummaryInv, Summary!Summarise PROVE SummaryInv'
<1>1. /\ next = FileCount
      /\ UNCHANGED <<command, metrics, files, results, next, success, particles, original,
                     compressed, complete, groups, groups_available, listings>>
      /\ LET whole == complete /\ success > 0
         IN  batch' = [successful_files |-> success, failed_files |-> FileCount - success,
                    total_particle_count |-> particles, original |-> original,
                    compressed |-> IF whole THEN compressed ELSE None,
                    field_groups |-> IF whole /\ groups_available THEN groups ELSE None]
  BY DEF Summary!Summarise, Summary!totals
<1>2. CountOf' = CountOf /\ PayloadOf' = PayloadOf /\ SizeOf' = SizeOf /\ ManifestOf' = ManifestOf
  BY <1>1, ConstantsStay
<1>3. Succeeded' = Succeeded
  BY <1>1 DEF Succeeded
<1>4. GivenInv'
  <2>1. \A k \in Summary!Index : Summary!Results(files[k])' = Summary!Results(files[k])
    BY <1>1 DEF Summary!Results, Summary!Report, Summary!ManifestOf, Summary!MetricsOf, Summary!SizesOf
  <2> QED BY <1>1, <2>1 DEF GivenInv, SummaryInv
<1>5. TotalsInv' /\ GroupsInv' /\ ListingsInv'
  BY <1>1, <1>2, <1>3 DEF SummaryInv, TotalsInv, GroupsInv, ListingsInv
<1>6. BatchInv'
  BY <1>1 DEF BatchInv
<1> QED BY <1>4, <1>5, <1>6 DEF SummaryInv

LEMMA SummaryStays ==
  ASSUME SummaryInv, UNCHANGED summaryVars PROVE SummaryInv'
<1>1. UNCHANGED <<command, metrics, files, results, next, success, particles, original,
                  compressed, complete, groups, groups_available, listings, batch>>
  BY DEF summaryVars
<1>2. CountOf' = CountOf /\ PayloadOf' = PayloadOf /\ SizeOf' = SizeOf /\ ManifestOf' = ManifestOf
  BY <1>1, ConstantsStay
<1>3. Succeeded' = Succeeded
  BY <1>1 DEF Succeeded
<1>4. GivenInv'
  <2>1. \A k \in Summary!Index : Summary!Results(files[k])' = Summary!Results(files[k])
    BY <1>1 DEF Summary!Results, Summary!Report, Summary!ManifestOf, Summary!MetricsOf, Summary!SizesOf
  <2> QED BY <1>1, <2>1 DEF GivenInv, SummaryInv
<1>5. TotalsInv' /\ GroupsInv' /\ ListingsInv' /\ BatchInv'
  BY <1>1, <1>2, <1>3 DEF SummaryInv, TotalsInv, GroupsInv, ListingsInv, BatchInv
<1> QED BY <1>4, <1>5 DEF SummaryInv
LEMMA SummaryNextKeepsInv ==
  ASSUME SummaryInv, Summary!Next PROVE SummaryInv'
<1>1. CASE Summary!Done
  <2>1. UNCHANGED summaryVars
    BY <1>1 DEF Summary!Done, Summary!vars, Summary!totals, summaryVars
  <2> QED BY <2>1, SummaryStays
<1> QED BY <1>1, FailedKeepsInv, TakeKeepsInv, SummariseKeepsInv DEF Summary!Next

(* Sums of the properties over files.                                      *)
LEMMA SumsOfFiles ==
  ASSUME GivenInv, NEW S \in SUBSET Summary!Index
  PROVE  /\ Summary!SumFunction([f \in S |-> files[f].count]) = Total(CountOf, S)
         /\ Summary!SumFunction([f \in S |-> Summary!Payload(files[f])]) = Total(PayloadOf, S)
         /\ Summary!SumFunction([f \in S |-> Summary!PackageSize(files[f])]) = Total(SizeOf, S)
         /\ Summary!SumFunction([f \in S |-> files[f].package[Summary!Manifest]])
              = Total(ManifestOf, S)
<1>1. IsFiniteSet(S)
  <2>1. IsFiniteSet(0..(FileCount - 1)) /\ Summary!Index = 0..(FileCount - 1)
    BY InputsKnown, FS_Interval
  <2> QED BY <2>1, FS_Subset
<1>2. ASSUME NEW e, NEW h, DOMAIN h = S, \A f \in S : h[f] = e[f]
      PROVE  Summary!SumFunction(h) = Total(e, S)
  BY <1>1, <1>2, SumIsTotal, TotalSame
<1> DEFINE h1 == [f \in S |-> files[f].count]
           h2 == [f \in S |-> Summary!Payload(files[f])]
           h3 == [f \in S |-> Summary!PackageSize(files[f])]
           h4 == [f \in S |-> files[f].package[Summary!Manifest]]
<1>3. /\ DOMAIN h1 = S /\ DOMAIN h2 = S /\ DOMAIN h3 = S /\ DOMAIN h4 = S
      /\ \A f \in S : /\ h1[f] = CountOf[f] /\ h2[f] = PayloadOf[f]
                      /\ h3[f] = SizeOf[f] /\ h4[f] = ManifestOf[f]
  BY DEF CountOf, PayloadOf, SizeOf, ManifestOf
<1> HIDE DEF h1, h2, h3, h4
<1>4. /\ Summary!SumFunction(h1) = Total(CountOf, S)
      /\ Summary!SumFunction(h2) = Total(PayloadOf, S)
      /\ Summary!SumFunction(h3) = Total(SizeOf, S)
      /\ Summary!SumFunction(h4) = Total(ManifestOf, S)
  BY <1>2, <1>3
<1> QED BY <1>4 DEF h1, h2, h3, h4

(* The batch is written when all files have passed.                        *)
LEMMA AllPassed ==
  ASSUME SummaryInv, batch # None
  PROVE  /\ Succeeded = Summary!Successes /\ Summary!Successes \in SUBSET Summary!Index
         /\ Summary!Index = 0..(next - 1) /\ DOMAIN listings = Summary!Index
         /\ {f \in DOMAIN listings : listings[f].status = "success"} = Succeeded
         /\ batch.total_particle_count = Total(CountOf, Succeeded)
         /\ batch.original = Total(PayloadOf, Succeeded)
         /\ batch.failed_files = FileCount - Cardinality(Succeeded)
         /\ LET whole == Succeeded = Summary!Index /\ command # "preprocess"
            IN  /\ batch.compressed = IF whole THEN Total(SizeOf, Succeeded) ELSE None
                /\ batch.field_groups = IF whole THEN groups ELSE None
<1>1. next = FileCount /\ Summary!Index = 0..(next - 1) /\ FileCount \in Nat \ {0}
  BY InputsKnown DEF SummaryInv, BatchInv
<1>2. Succeeded = Summary!Successes /\ Summary!Successes \in SUBSET Summary!Index
  BY <1>1 DEF Succeeded, Summary!Successes
<1>3. DOMAIN listings = Summary!Index
      /\ {f \in DOMAIN listings : listings[f].status = "success"} = Succeeded
  BY <1>1 DEF SummaryInv, ListingsInv, Succeeded
<1>4. success = Cardinality(Succeeded) /\ particles = Total(CountOf, Succeeded)
      /\ original = Total(PayloadOf, Succeeded)
  BY DEF SummaryInv, TotalsInv
<1>5. (complete /\ success > 0) <=> Succeeded = Summary!Index /\ command # "preprocess"
  <2>1. complete <=> Succeeded = Summary!Index /\ command # "preprocess"
    BY <1>1 DEF SummaryInv, TotalsInv
  <2>2. Succeeded = Summary!Index => success > 0
    <3> HAVE Succeeded = Summary!Index
    <3>1. 0 \in Succeeded /\ IsFiniteSet(Succeeded) /\ Cardinality(Succeeded) \in Nat
      BY <1>1, InputsKnown DEF SummaryInv
    <3>2. Cardinality(Succeeded) # 0
      BY <3>1, FS_EmptySet
    <3> QED BY <1>4, <3>1, <3>2
  <2> QED BY <2>1, <2>2
<1>6. Succeeded = Summary!Index /\ command # "preprocess"
        => groups_available /\ compressed = Total(SizeOf, Succeeded)
  BY DEF SummaryInv, TotalsInv
<1> DEFINE whole == complete /\ success > 0
<1>7. batch = [successful_files |-> success, failed_files |-> FileCount - success,
               total_particle_count |-> particles, original |-> original,
               compressed |-> IF whole THEN compressed ELSE None,
               field_groups |-> IF whole /\ groups_available THEN groups ELSE None]
  BY DEF SummaryInv, BatchInv
<1>8. /\ batch.total_particle_count = particles /\ batch.original = original
      /\ batch.failed_files = FileCount - success
      /\ batch.compressed = IF whole THEN compressed ELSE None
      /\ batch.field_groups = IF whole /\ groups_available THEN groups ELSE None
  BY <1>7
<1>9. whole <=> Succeeded = Summary!Index /\ command # "preprocess"
  BY <1>5
<1> HIDE DEF whole
<1> QED BY <1>1, <1>2, <1>3, <1>4, <1>6, <1>8, <1>9

LEMMA GroupsAreAPartition ==
  ASSUME SummaryInv PROVE Summary!GroupsAddUp
<1> SUFFICES ASSUME batch # None, batch.field_groups # None
             PROVE  LET g == batch.field_groups
                    IN  /\ Summary!SumFunction([k \in Summary!Groups |-> g[k].original])
                             = batch.original
                        /\ Summary!SumFunction([k \in Summary!Groups |-> g[k].compressed])
                             + Summary!SumFunction([f \in Summary!Index |->
                                                      files[f].package[Summary!Manifest]])
                             = batch.compressed
  BY DEF Summary!GroupsAddUp, Summary!Sum
<1>1. /\ batch.original = Total(PayloadOf, Succeeded)
      /\ Succeeded = Summary!Index /\ command # "preprocess"
      /\ batch.compressed = Total(SizeOf, Succeeded) /\ batch.field_groups = groups
  BY AllPassed
<1>2. GroupsInv /\ original = Total(PayloadOf, Succeeded) /\ compressed = Total(SizeOf, Succeeded)
  BY <1>1 DEF SummaryInv, TotalsInv
<1>3. Summary!SumFunction([f \in Summary!Index |-> files[f].package[Summary!Manifest]])
        = Total(ManifestOf, Succeeded)
  BY <1>1, SumsOfFiles DEF SummaryInv
<1> DEFINE h == [k \in Summary!Groups |-> groups[k].original]
           c == [k \in Summary!Groups |-> groups[k].compressed]
<1>4. Summary!Groups = {"positions", "id", "velocities"}
  BY DEF Summary!Groups
<1>5. \A k \in Summary!Groups : /\ h[k] = groups[k].original /\ h[k] \in Nat
                                /\ c[k] = groups[k].compressed /\ c[k] \in Nat
  <2> TAKE k \in Summary!Groups
  <2>1. groups[k] \in [original : Nat, compressed : Nat]
    BY <1>2 DEF GroupsInv
  <2> QED BY <2>1
<1>6. /\ Summary!SumFunction(h) = Total(h, {"positions", "id", "velocities"})
      /\ Summary!SumFunction(c) = Total(c, {"positions", "id", "velocities"})
  BY <1>4, SumIsTotal
<1> HIDE DEF h, c
<1>7. /\ h["positions"] \in Nat /\ h["id"] \in Nat /\ h["velocities"] \in Nat
      /\ c["positions"] \in Nat /\ c["id"] \in Nat /\ c["velocities"] \in Nat
  BY <1>4, <1>5
<1>8. /\ Total(h, {"positions", "id", "velocities"}) = h["positions"] + h["id"] + h["velocities"]
      /\ Total(c, {"positions", "id", "velocities"}) = c["positions"] + c["id"] + c["velocities"]
  BY <1>7, TotalOfGroups
<1>9. /\ h["positions"] + h["id"] + h["velocities"] = original
      /\ c["positions"] + c["id"] + c["velocities"] + Total(ManifestOf, Succeeded) = compressed
  BY <1>1, <1>2, <1>4, <1>5 DEF GroupsInv
<1>10. /\ Summary!SumFunction(h) = batch.original
       /\ Summary!SumFunction(c) + Total(ManifestOf, Succeeded) = batch.compressed
  BY <1>1, <1>2, <1>6, <1>8, <1>9
<1> QED BY <1>1, <1>3, <1>10 DEF h, c

LEMMA SizesAreOfAllOrNone ==
  ASSUME SummaryInv PROVE Summary!WholeOrNothing
<1> SUFFICES ASSUME batch # None
             PROVE  IF Summary!Successes = Summary!Index /\ command # "preprocess"
                    THEN /\ batch.compressed =
                              Summary!SumFunction([f \in Summary!Index |->
                                                     Summary!PackageSize(files[f])])
                         /\ batch.field_groups # None
                    ELSE batch.compressed = None /\ batch.field_groups = None
  BY DEF Summary!WholeOrNothing, Summary!Sum
<1>1. Summary!SumFunction([f \in Summary!Index |-> Summary!PackageSize(files[f])])
        = Total(SizeOf, Summary!Index)
  BY SumsOfFiles DEF SummaryInv
<1>2. groups # None
  BY SummaryAssumed DEF SummaryInv, GroupsInv
<1> QED BY <1>1, <1>2, AllPassed

LEMMA SuccessesAreCounted ==
  ASSUME SummaryInv PROVE Summary!CountedOnce
<1> DEFINE S == {f \in DOMAIN listings : listings[f].status = "success"}
<1>0. ASSUME batch # None =>
               /\ batch.total_particle_count =
                    Summary!SumFunction([f \in Summary!Successes |-> files[f].count])
               /\ batch.total_particle_count =
                    Summary!SumFunction([f \in S |-> listings[f].particle_count])
               /\ batch.original =
                    Summary!SumFunction([f \in Summary!Successes |-> Summary!Payload(files[f])])
               /\ batch.failed_files = Cardinality(Summary!Index \ S)
      PROVE  Summary!CountedOnce
  BY <1>0 DEF Summary!CountedOnce, Summary!Sum, Cardinality, Summary!Cardinality
<1> SUFFICES ASSUME batch # None
             PROVE  /\ batch.total_particle_count =
                         Summary!SumFunction([f \in Summary!Successes |-> files[f].count])
                    /\ batch.total_particle_count =
                         Summary!SumFunction([f \in S |-> listings[f].particle_count])
                    /\ batch.original =
                         Summary!SumFunction([f \in Summary!Successes |-> Summary!Payload(files[f])])
                    /\ batch.failed_files = Cardinality(Summary!Index \ S)
  BY <1>0
<1>1. /\ S = Succeeded /\ Summary!Successes = Succeeded /\ Succeeded \in SUBSET Summary!Index
      /\ batch.total_particle_count = Total(CountOf, Succeeded)
      /\ batch.original = Total(PayloadOf, Succeeded)
      /\ batch.failed_files = FileCount - Cardinality(Succeeded)
      /\ Summary!Index = 0..(next - 1)
  BY AllPassed
<1>2. /\ Summary!SumFunction([f \in Succeeded |-> files[f].count]) = Total(CountOf, Succeeded)
      /\ Summary!SumFunction([f \in Succeeded |-> Summary!Payload(files[f])])
           = Total(PayloadOf, Succeeded)
  BY <1>1, SumsOfFiles DEF SummaryInv
<1>3. Summary!SumFunction([f \in S |-> listings[f].particle_count])
        = Summary!SumFunction([f \in Succeeded |-> files[f].count])
  <2>1. \A f \in Succeeded : listings[f].particle_count = files[f].count
    BY <1>1 DEF SummaryInv, ListingsInv, Succeeded
  <2> HIDE DEF S
  <2>2. [f \in S |-> listings[f].particle_count] = [f \in Succeeded |-> files[f].count]
    BY <1>1, <2>1
  <2> QED BY <2>2
<1>4. Cardinality(Summary!Index \ S) = FileCount - Cardinality(Succeeded)
  <2>1. IsFiniteSet(Summary!Index) /\ Cardinality(Summary!Index) = FileCount
    <3>1. Summary!Index = 0..(FileCount - 1) /\ FileCount \in Nat \ {0}
      BY InputsKnown DEF SummaryInv
    <3>2. IsFiniteSet(0..(FileCount - 1)) /\ Cardinality(0..(FileCount - 1)) = FileCount - 1 - 0 + 1
      BY <3>1, FS_Interval
    <3> QED BY <3>1, <3>2
  <2>2. Cardinality(Summary!Index \ Succeeded)
          = Cardinality(Summary!Index) - Cardinality(Summary!Index \cap Succeeded)
    BY <2>1, FS_Difference
  <2>3. Summary!Index \cap Succeeded = Succeeded
    BY <1>1
  <2> HIDE DEF S
  <2> QED BY <1>1, <2>1, <2>2, <2>3
<1> HIDE DEF S
<1> QED BY <1>1, <1>2, <1>3, <1>4

LEMMA SummaryInvImplies ==
  ASSUME SummaryInv PROVE Summary!SummaryTrue
BY GroupsAreAPartition, SizesAreOfAllOrNone, SuccessesAreCounted DEF Summary!SummaryTrue

SummaryPart == part = "summary" => SummaryInv

(* The numbers of batch_metrics.json are those of its files: every byte of *)
(* the fields, and every file of a package but its manifest, is counted in *)
(* one group, the compressed size is of all files or null, and what counts *)
(* is what succeeded (batch.cpp:307-358).                                  *)
THEOREM SummaryStaysTrue == Spec => []SummaryIsTrue
<1>1. Init => SummaryPart
  BY SummaryInitInv DEF Init, SummaryPart
<1>2. SummaryPart /\ [Next]_vars => SummaryPart'
  <2> SUFFICES ASSUME SummaryPart, [Next]_vars, part' = "summary" PROVE SummaryInv'
    BY DEF SummaryPart
  <2>1. CASE part = "summary" /\ Summary!Next
    BY <2>1, SummaryNextKeepsInv DEF SummaryPart
  <2>2. CASE UNCHANGED vars
    <3>1. UNCHANGED summaryVars /\ part' = part
      BY <2>2 DEF vars, packageVars
    <3> QED BY <3>1, SummaryStays DEF SummaryPart
  <2> QED BY <2>1, <2>2 DEF Next
<1>3. SummaryPart => SummaryIsTrue
  BY SummaryInvImplies DEF SummaryPart, SummaryIsTrue
<1> QED BY <1>1, <1>2, <1>3, PTL DEF Spec
================================================================================
