---------------------------- MODULE RowOrderProofs ----------------------------
(***************************************************************************)
(* Theorems about RowOrder, for every number of particles, every ID and    *)
(* every chunk size.  The inductive invariant RowInv says which rows each  *)
(* column, stream and decoded array holds at each stage; it rests on facts *)
(* about the row operations of RowPermutations, which come first.          *)
(***************************************************************************)
EXTENDS RowOrder, FunctionTheorems, FiniteSetTheorems, TLAPS

(* There are finitely many rows.                                           *)
LEMMA RowsFinite == IsFiniteSet(Rows) /\ Cardinality(Rows) = N
<1>1. IsFiniteSet(0..(N - 1)) /\ Cardinality(0..(N - 1)) = N
  BY FS_Interval, RowsAssumption
<1> QED BY <1>1 DEF Rows

(* An array of rows without repetition is an order: no row is missing.     *)
LEMMA DistinctIsOrder ==
  ASSUME NEW f \in [Rows -> Rows], \A i, j \in Rows : f[i] = f[j] => i = j
  PROVE  f \in Orders
<1>1. f \in Injection(Rows, Rows)
  BY Fun_IsInj
<1>2. f \in Surjection(Rows, Rows)
  BY <1>1, RowsFinite, FS_Injection
<1> QED BY <1>1, <1>2, Fun_IsBij DEF Orders

LEMMA OrderProperties ==
  ASSUME NEW f \in Orders
  PROVE  /\ f \in [Rows -> Rows]
         /\ \A i, j \in Rows : f[i] = f[j] => i = j
         /\ \A t \in Rows : \E i \in Rows : f[i] = t
BY Fun_BijectionProperties DEF Orders

(* The inverse is an order again, and undoes the order.                    *)
LEMMA InverseProperties ==
  ASSUME NEW f \in Orders
  PROVE  /\ InverseOrder(f) \in Orders
         /\ \A i \in Rows : InverseOrder(f)[f[i]] = i
         /\ \A t \in Rows : f[InverseOrder(f)[t]] = t
<1>1. InverseOrder(f) \in Orders /\ \A i \in Rows : InverseOrder(f)[f[i]] = i
  BY Fun_BijInverse DEF Orders, InverseOrder
<1>2. ASSUME NEW t \in Rows PROVE f[InverseOrder(f)[t]] = t
  <2>1. PICK i \in Rows : f[i] = t
    BY OrderProperties
  <2> QED BY <1>1, <2>1
<1> QED BY <1>1, <1>2

(* Gathering by an order keeps every row exactly once.                     *)
LEMMA GatherIsOrder ==
  ASSUME NEW col \in Orders, NEW f \in Orders
  PROVE  Gather(col, f) \in Orders
<1>1. /\ col \in [Rows -> Rows] /\ f \in [Rows -> Rows]
      /\ \A i, j \in Rows : col[i] = col[j] => i = j
      /\ \A i, j \in Rows : f[i] = f[j] => i = j
  BY OrderProperties
<1>2. Gather(col, f) \in [Rows -> Rows]
  BY <1>1 DEF Gather
<1>3. \A i, j \in Rows : Gather(col, f)[i] = Gather(col, f)[j] => i = j
  BY <1>1 DEF Gather
<1> QED BY <1>2, <1>3, DistinctIsOrder

(* The gather of the decoder undoes the gather of the encoder.             *)
LEMMA GatherInverse ==
  ASSUME NEW col \in [Rows -> Rows], NEW f \in Orders
  PROVE  Gather(Gather(col, f), InverseOrder(f)) = col
<1>1. /\ InverseOrder(f) \in [Rows -> Rows]
      /\ \A t \in Rows : f[InverseOrder(f)[t]] = t
  BY InverseProperties, OrderProperties
<1> QED BY <1>1 DEF Gather

(* Ranks tell the rows apart, so a stable sort is an order, and it sorts.  *)
LEMMA RankIsOrder ==
  ASSUME NEW key \in [Rows -> Int]
  PROVE  /\ Rank(key) \in Orders
         /\ \A r, s \in Rows : Rank(key)[r] < Rank(key)[s]
              <=> r \in Before(key, s)
<1>1. \A r \in Rows : r \in Int
  BY DEF Rows
<1>2. \A r \in Rows : /\ Before(key, r) \in SUBSET Rows
                      /\ r \notin Before(key, r)
                      /\ IsFiniteSet(Before(key, r))
                      /\ Cardinality(Before(key, r)) \in Nat
  <2> SUFFICES ASSUME NEW r \in Rows
               PROVE  /\ Before(key, r) \in SUBSET Rows
                      /\ r \notin Before(key, r)
                      /\ IsFiniteSet(Before(key, r))
                      /\ Cardinality(Before(key, r)) \in Nat
    OBVIOUS
  <2>1. Before(key, r) \in SUBSET Rows /\ r \notin Before(key, r)
    BY <1>1 DEF Before
  <2>2. IsFiniteSet(Before(key, r))
    BY <2>1, RowsFinite, FS_Subset
  <2> QED BY <2>1, <2>2, FS_CardinalityType
<1>3. ASSUME NEW r \in Rows, NEW s \in Rows, r \in Before(key, s)
      PROVE  Cardinality(Before(key, r)) < Cardinality(Before(key, s))
  <2>1. Before(key, r) \subseteq Before(key, s)
    BY <1>1, <1>3 DEF Before
  <2>2. Before(key, r) # Before(key, s)
    BY <1>2, <1>3
  <2>3. /\ Cardinality(Before(key, r)) <= Cardinality(Before(key, s))
        /\ Cardinality(Before(key, r)) # Cardinality(Before(key, s))
    BY <1>2, <2>1, <2>2, FS_Subset
  <2> QED BY <1>2, <2>3
<1>4. \A r, s \in Rows : r # s => r \in Before(key, s) \/ s \in Before(key, r)
  BY <1>1 DEF Before
<1>5. \A r \in Rows : Cardinality(Before(key, r)) \in Rows
  <2> SUFFICES ASSUME NEW r \in Rows
               PROVE  Cardinality(Before(key, r)) \in Rows
    OBVIOUS
  <2>1. Before(key, r) # Rows
    BY <1>2
  <2>2. /\ Cardinality(Before(key, r)) <= N
        /\ Cardinality(Before(key, r)) # N
    BY <1>2, <2>1, RowsFinite, FS_Subset
  <2> QED BY <1>2, <2>2, RowsAssumption DEF Rows
<1>6. Rank(key) \in [Rows -> Rows]
  BY <1>5 DEF Rank
<1>7. \A r, s \in Rows : Rank(key)[r] = Rank(key)[s] => r = s
  BY <1>2, <1>3, <1>4 DEF Rank
<1>8. Rank(key) \in Orders
  BY <1>6, <1>7, DistinctIsOrder
<1>9. ASSUME NEW r \in Rows, NEW s \in Rows
      PROVE  Rank(key)[r] < Rank(key)[s] <=> r \in Before(key, s)
  <2>1. CASE r = s
    BY <1>2, <2>1 DEF Rank
  <2>2. CASE r # s
    BY <1>2, <1>3, <1>4, <2>2 DEF Rank
  <2> QED BY <2>1, <2>2
<1> QED BY <1>8, <1>9

THEOREM StableOrderSorts ==
  ASSUME NEW key \in [Rows -> Int]
  PROVE  /\ StableOrder(key) \in Orders
         /\ \A i, j \in Rows : i < j =>
              LET r == StableOrder(key)[i]  s == StableOrder(key)[j]
              IN  key[r] < key[s] \/ (key[r] = key[s] /\ r < s)
<1>1. /\ StableOrder(key) \in Orders
      /\ \A t \in Rows : Rank(key)[StableOrder(key)[t]] = t
  BY RankIsOrder, InverseProperties DEF StableOrder
<1>2. ASSUME NEW i \in Rows, NEW j \in Rows, i < j
      PROVE  StableOrder(key)[i] \in Before(key, StableOrder(key)[j])
  <2>1. StableOrder(key)[i] \in Rows /\ StableOrder(key)[j] \in Rows
    BY <1>1, OrderProperties
  <2> QED BY <1>1, <1>2, <2>1, RankIsOrder
<1> QED BY <1>1, <1>2 DEF Before

(* A chunk starts at a row number that is not negative.                    *)
LEMMA BaseIsNat ==
  ASSUME NEW i \in Rows, NEW chunk \in Nat
  PROVE  Base(i, chunk) \in Nat
<1>1. CASE chunk = 0
  BY <1>1 DEF Base
<1>2. CASE chunk # 0
  <2>1. i \div chunk \in Nat
    BY <1>2 DEF Rows
  <2>2. (i \div chunk) * chunk \in Nat
    BY <2>1
  <2> QED BY <1>2, <2>2 DEF Base
<1> QED BY <1>1, <1>2

(* A sidecar that passes both checks of `restore` names every row once, in *)
(* chunks of any size, the short last chunk included: nothing is lost by   *)
(* applying its inverse (pipeline.cpp:801-813).                            *)
THEOREM AcceptedSidecarIsOrder ==
  ASSUME NEW chunk \in Nat, NEW local \in [Rows -> Int],
         IndexInRange(local, chunk), NoTargetTwice(local, chunk)
  PROVE  Target(local, chunk) \in Orders
<1>1. ASSUME NEW i \in Rows
      PROVE  Base(i, chunk) + local[i] \in Rows
  <2>1. Base(i, chunk) \in Nat
    BY BaseIsNat
  <2>2. LocalCount(i, chunk) <= N - Base(i, chunk)
    BY <2>1, RowsAssumption DEF LocalCount
  <2>3. LocalCount(i, chunk) \in Int
    BY <2>1, RowsAssumption DEF LocalCount
  <2>4. 0 <= local[i] /\ local[i] < LocalCount(i, chunk)
    BY DEF IndexInRange
  <2> QED BY <2>1, <2>2, <2>3, <2>4, RowsAssumption DEF Rows
<1>2. Target(local, chunk) \in [Rows -> Rows]
  BY <1>1 DEF Target
<1> QED BY <1>2, DistinctIsOrder DEF NoTargetTwice

-------------------------------------------------------------------------------
(* The pipeline.                                                           *)

LEMMA IdentityIsOrder == Identity \in Orders
<1>1. Identity \in [Rows -> Rows] /\ \A i, j \in Rows : Identity[i] = Identity[j] => i = j
  BY DEF Identity
<1> QED BY <1>1, DistinctIsOrder

LEMMA GatherIdentity ==
  ASSUME NEW f \in Orders
  PROVE  Gather(Identity, f) = f
<1>1. f \in [Rows -> Rows]
  BY OrderProperties
<1> QED BY <1>1 DEF Gather, Identity

LEMMA SortsAreOrders ==
  ASSUME TypeOK, NEW a \in Columns, NEW b \in Columns
  PROVE  StableIdOrder(a) \in Orders /\ HybridOrder(a, b) \in Orders
<1>1. [r \in Rows |-> id[a[r]]] \in [Rows -> Int]
  BY RowOrderAssumption DEF TypeOK, Columns
<1>2. [r \in Rows |-> cell[b[r]] * IdSpan + id[a[r]]] \in [Rows -> Int]
  BY RowOrderAssumption DEF TypeOK, Columns
<1> QED BY <1>1, <1>2, StableOrderSorts DEF StableIdOrder, HybridOrder

LEMMA CanonIsOrder ==
  ASSUME TypeOK, OrderInv
  PROVE  /\ Canon \in Orders /\ Canon \in Columns
         /\ VelRows \in Orders /\ VelRows \in Columns
         /\ HybridOrder(Canon, Canon) \in Orders
<1>1. Canon \in Orders
  BY IdentityIsOrder DEF Canon, OrderInv
<1>2. Canon \in Columns
  BY <1>1, OrderProperties DEF Columns
<1>3. HybridOrder(Canon, Canon) \in Orders
  BY <1>2, SortsAreOrders
<1>4. VelRows \in Orders
  BY <1>1, <1>3, GatherIsOrder DEF VelRows
<1> QED BY <1>1, <1>2, <1>3, <1>4, OrderProperties DEF Columns

(* A column that is scattered to the cells of distinct IDs is found again. *)
LEMMA DenseIsLoaded ==
  ASSUME TypeOK, DistinctIds, NEW ids \in Orders, NEW values \in Columns
  PROVE  Loaded(Dense(ids, values), ids) = values
<1>1. /\ ids \in [Rows -> Rows]
      /\ \A r, s \in Rows : id[ids[r]] = id[ids[s]] => r = s
  BY OrderProperties DEF DistinctIds, TypeOK
<1>2. ASSUME NEW r \in Rows
      PROVE  (CHOOSE s \in Rows : id[ids[s]] = id[ids[r]]) = r
  BY <1>1
<1>3. ASSUME NEW r \in Rows
      PROVE  Dense(ids, values).values[id[ids[r]]] = values[r]
  BY <1>2 DEF Dense
<1>4. Loaded(Dense(ids, values), ids) = [r \in Rows |-> values[r]]
  BY <1>3, ZenonT(60) DEF Loaded, Dense
<1> QED BY <1>4 DEF Columns

LEMMA PlainIsLoaded ==
  ASSUME NEW ids, NEW values
  PROVE  Loaded(Plain(values), ids) = values /\ Plain(values).values = values
BY DEF Loaded, Plain

(* A sidecar of the encoder is accepted, is an order, and is undone.       *)
LEMMA LocalOrderFacts ==
  ASSUME NEW chunk \in Nat, NEW local \in LocalOrders(chunk)
  PROVE  /\ local \in [Rows -> Int] /\ local # None
         /\ Target(local, chunk) \in Orders
         /\ ~ Rejected(local, chunk)
<1>1. /\ local \in [Rows -> Rows]
      /\ IndexInRange(local, chunk) /\ NoTargetTwice(local, chunk)
  BY DEF LocalOrders
<1>2. local \in [Rows -> Int]
  BY <1>1 DEF Rows
<1>3. Target(local, chunk) \in Orders
  BY <1>1, <1>2, AcceptedSidecarIsOrder
<1> QED BY <1>1, <1>2, <1>3, RowOrderAssumption DEF Rejected

LEMMA RestoreUndoes ==
  ASSUME NEW chunk \in Nat, NEW local \in LocalOrders(chunk),
         NEW values \in Columns
  PROVE  /\ Restored(Gather(values, Target(local, chunk)), local, chunk) = values
         /\ values \in Orders => Gather(values, Target(local, chunk)) \in Orders
BY LocalOrderFacts, GatherInverse, GatherIsOrder DEF Restored, Columns

LEMMA PackageChunk ==
  ASSUME TypeOK
  PROVE  package.chunk \in Nat
<1>1. package.chunk \in Chunks \/ package.chunk = 0
  BY DEF TypeOK
<1>2. \A c \in Chunks : c \in Nat
  BY RowOrderAssumption
<1>3. 0 \in Nat
  OBVIOUS
<1> QED BY <1>1, <1>2, <1>3, Zenon

(* Whatever sidecar is accepted, restoring loses no row.                   *)
LEMMA RestoredIsOrder ==
  ASSUME NEW chunk \in Nat, NEW local \in [Rows -> Int] \cup {None},
         ~ Rejected(local, chunk), NEW values \in Orders
  PROVE  Restored(values, local, chunk) \in Orders
<1>1. CASE local = None
  BY <1>1 DEF Restored
<1>2. CASE local # None
  <2>1. Target(local, chunk) \in Orders
    BY <1>2, AcceptedSidecarIsOrder DEF Rejected
  <2> QED BY <1>2, <2>1, InverseProperties, GatherIsOrder DEF Restored
<1> QED BY <1>1, <1>2

-------------------------------------------------------------------------------
LEMMA RowInit == Init => RowInv
<1> SUFFICES ASSUME Init PROVE RowInv
  OBVIOUS
<1>1. Identity \in Columns
  BY DEF Identity, Columns
<1>2. TypeOK
  <2>1. cell \in [Rows -> 0..(Cells - 1)]
    BY RowOrderAssumption DEF Init
  <2>2. /\ package.velOrder = None /\ package.posOrder = None
        /\ package.chunk = 0
    BY DEF Init, NoPackage
  <2>3. /\ column \in [id : Columns, pos : Columns, vel : Columns]
        /\ out \in [id : Columns \cup {None}, pos : Columns \cup {None},
                    vel : Columns \cup {None}]
    BY <1>1 DEF Init
  <2> QED BY <2>1, <2>2, <2>3 DEF Init, TypeOK, Stages
<1>3. OrderInv /\ ColumnInv
  BY DEF Init, OrderInv, ColumnInv, Canon
<1>4. PackageInv
  BY DEF Init, PackageInv, NoPackage
<1>5. OutInv /\ OnlyDamageRejected /\ MetricsAligned
  BY DEF Init, OutInv, OnlyDamageRejected, MetricsAligned, Reconstructed
<1> QED BY <1>2, <1>3, <1>4, <1>5 DEF RowInv

(* Canon, VelRows and the reading of a stream do not change while IDs,     *)
(* mapping, order and layout do not.                                       *)
LEMMA SameRows ==
  ASSUME UNCHANGED <<id, mapping, order, structured, cell>>
  PROVE  /\ Canon' = Canon /\ VelRows' = VelRows
         /\ DistinctIds' = DistinctIds
         /\ StableIdOrder(Identity)' = StableIdOrder(Identity)
         /\ \A s, i : Loaded(s, i)' = Loaded(s, i)
BY DEF Canon, VelRows, HybridOrder, StableIdOrder, DistinctIds, Loaded

LEMMA InferStructuredStep ==
  ASSUME RowInv, InferStructured
  PROVE  RowInv'
<1> USE DEF RowInv, InferStructured
<1>1. Canon' = Canon /\ DistinctIds' = DistinctIds /\ mapping = "original_row"
  BY DEF Canon, DistinctIds, OrderInv
<1>2. TypeOK'
  BY DEF TypeOK, Stages
<1>3. OrderInv'
  BY <1>1 DEF OrderInv, StructuredPossible, IsTriplet
<1>4. ColumnInv'
  BY <1>1 DEF ColumnInv
<1>5. PackageInv'
  BY DEF PackageInv
<1>6. OutInv' /\ OnlyDamageRejected' /\ MetricsAligned'
  BY DEF OutInv, OnlyDamageRejected, MetricsAligned, Reconstructed
<1> QED BY <1>2, <1>3, <1>4, <1>5, <1>6

(* Both ways of choosing a canonical order gather identity columns.        *)
LEMMA GatheredColumns ==
  ASSUME RowInv, stage = "canonicalise", NEW ord \in Orders, GatherAll(ord)
  PROVE  /\ column' = [id |-> ord, pos |-> ord, vel |-> ord]
         /\ Gather(column.pos, ord) = ord
         /\ ord \in Columns
         /\ column.id = Identity
<1>1. column = [id |-> Identity, pos |-> Identity, vel |-> Identity]
  BY DEF RowInv, OrderInv, ColumnInv, Canon
<1> QED BY <1>1, GatherIdentity, OrderProperties DEF GatherAll, Columns

LEMMA CanonicalByPositionStep ==
  ASSUME RowInv, CanonicalByPosition
  PROVE  RowInv'
<1> USE DEF RowInv, CanonicalByPosition
<1>1. /\ column' = [id |-> order', pos |-> order', vel |-> order']
      /\ package'.pos = Plain(order') /\ order' \in Columns
      /\ Canon' = order' /\ DistinctIds' = DistinctIds
  BY GatheredColumns DEF PackageInv, Canon, DistinctIds
<1>2. TypeOK'
  BY <1>1 DEF TypeOK, Stages, PackageInv
<1>3. OrderInv'
  BY <1>1 DEF OrderInv
<1>4. ColumnInv'
  BY <1>1 DEF ColumnInv
<1>5. PackageInv'
  BY <1>1 DEF PackageInv
<1>6. OutInv' /\ OnlyDamageRejected' /\ MetricsAligned'
  BY DEF OutInv, OnlyDamageRejected, MetricsAligned, Reconstructed
<1> QED BY <1>2, <1>3, <1>4, <1>5, <1>6

LEMMA CanonicalByIdStep ==
  ASSUME RowInv, CanonicalById
  PROVE  RowInv'
<1> USE DEF RowInv, CanonicalById
<1>1. column.id = Identity /\ Identity \in Columns
  BY DEF OrderInv, ColumnInv, Canon, TypeOK
<1>2. order' \in Orders /\ order' = StableIdOrder(Identity)
  BY <1>1, SortsAreOrders
<1>3. /\ column' = [id |-> order', pos |-> order', vel |-> order']
      /\ order' \in Columns
      /\ Canon' = order' /\ DistinctIds' = DistinctIds
      /\ StableIdOrder(Identity)' = StableIdOrder(Identity)
  BY <1>2, GatheredColumns DEF Canon, DistinctIds, StableIdOrder
<1>4. TypeOK'
  BY <1>2, <1>3 DEF TypeOK, Stages
<1>5. OrderInv'
  BY <1>2, <1>3 DEF OrderInv
<1>6. ColumnInv'
  BY <1>3 DEF ColumnInv
<1>7. PackageInv'
  BY DEF PackageInv
<1>8. OutInv' /\ OnlyDamageRejected' /\ MetricsAligned'
  BY DEF OutInv, OnlyDamageRejected, MetricsAligned, Reconstructed
<1> QED BY <1>4, <1>5, <1>6, <1>7, <1>8

LEMMA CanonicalAsReadStep ==
  ASSUME RowInv, CanonicalAsRead
  PROVE  RowInv'
<1> USE DEF RowInv, CanonicalAsRead
<1>1. Canon' = Canon /\ DistinctIds' = DistinctIds
  BY DEF Canon, DistinctIds
<1>2. TypeOK'
  BY DEF TypeOK, Stages
<1>3. OrderInv'
  BY <1>1 DEF OrderInv
<1>4. ColumnInv'
  BY <1>1 DEF ColumnInv
<1>5. PackageInv'
  BY DEF PackageInv
<1>6. OutInv' /\ OnlyDamageRejected' /\ MetricsAligned'
  BY DEF OutInv, OnlyDamageRejected, MetricsAligned, Reconstructed
<1> QED BY <1>2, <1>3, <1>4, <1>5, <1>6

(* The hybrid order of compress is taken of the canonical rows.            *)
LEMMA PrepareLayoutStep ==
  ASSUME RowInv, PrepareLayout
  PROVE  RowInv'
<1> USE DEF RowInv, PrepareLayout
<1>1. /\ Canon' = Canon /\ VelRows' = VelRows /\ DistinctIds' = DistinctIds
      /\ StableIdOrder(Identity)' = StableIdOrder(Identity)
  BY SameRows
<1>2. column = [id |-> Canon, pos |-> Canon, vel |-> Canon]
  BY DEF ColumnInv
<1>3. column' = [id |-> Canon, pos |-> Canon, vel |-> VelRows]
  <2>1. CASE structured
    <3>1. package.pos.values = Canon
      BY <2>1 DEF OrderInv, PackageInv, Plain
    <3> QED BY <1>2, <2>1, <3>1 DEF VelRows
  <2>2. CASE ~ structured
    BY <1>2, <2>2 DEF VelRows
  <2> QED BY <2>1, <2>2
<1>4. TypeOK'
  BY <1>3, CanonIsOrder DEF TypeOK, Stages
<1>5. OrderInv'
  BY <1>1 DEF OrderInv
<1>6. ColumnInv'
  BY <1>1, <1>3 DEF ColumnInv
<1>7. PackageInv'
  BY <1>1 DEF PackageInv
<1>8. OutInv' /\ OnlyDamageRejected' /\ MetricsAligned'
  BY DEF OutInv, OnlyDamageRejected, MetricsAligned, Reconstructed
<1> QED BY <1>4, <1>5, <1>6, <1>7, <1>8

LEMMA FieldStreamIsLoaded ==
  ASSUME TypeOK, OrderInv, column.id = Canon, NEW values \in Columns
  PROVE  Loaded(FieldStream(values), Canon) = values
BY CanonIsOrder, DenseIsLoaded, PlainIsLoaded DEF FieldStream, OrderInv

LEMMA EncodeFieldsStep ==
  ASSUME RowInv, EncodeFields
  PROVE  RowInv'
<1> USE DEF RowInv, EncodeFields
<1>1. /\ Canon' = Canon /\ VelRows' = VelRows /\ DistinctIds' = DistinctIds
      /\ StableIdOrder(Identity)' = StableIdOrder(Identity)
      /\ \A s, i : Loaded(s, i)' = Loaded(s, i)
  BY SameRows
<1>2. column = [id |-> Canon, pos |-> Canon, vel |-> VelRows]
  BY DEF ColumnInv
<1>3. Canon \in Columns /\ VelRows \in Columns /\ VelRows \in Orders
  BY CanonIsOrder
<1>4. package'.id = Plain(Canon) /\ Loaded(package'.pos, Canon) = Canon
  <2>1. CASE IsTriplet(opts.pos)
    BY <1>2, <2>1, PlainIsLoaded DEF PackageInv
  <2>2. CASE ~ IsTriplet(opts.pos)
    BY <1>2, <1>3, <2>2, FieldStreamIsLoaded DEF PackageInv
  <2> QED BY <2>1, <2>2
<1>5. ~ IsTriplet(opts.vel) => Loaded(package'.vel, Canon) = VelRows
  BY <1>2, <1>3, FieldStreamIsLoaded DEF PackageInv
<1>6. /\ package'.posOrder = None /\ package'.velOrder = None /\ ~ damaged
      /\ package'.chunk = package.chunk
  BY DEF PackageInv
<1>7. TypeOK'
  BY <1>6 DEF TypeOK, Stages
<1>8. OrderInv'
  BY <1>1 DEF OrderInv
<1>9. ColumnInv'
  BY <1>1, <1>2 DEF ColumnInv
<1>10. PackageInv'
  <2>1. package' = [id |-> package'.id, pos |-> package'.pos,
                    vel |-> package'.vel, posOrder |-> package'.posOrder,
                    velOrder |-> package'.velOrder, chunk |-> package'.chunk]
    BY DEF PackageInv
  <2>2. Yields(package.pos, package.posOrder, 0, Canon)'
    BY <1>1, <1>4, <1>6 DEF Yields, Restored
  <2>3. stage' = "published" =>
          /\ Loaded(package'.vel, Canon) = VelRows
          /\ Yields(package.vel, package.velOrder, package.chunk, VelRows)'
    BY <1>1, <1>5, <1>6 DEF Yields, Restored
  <2> QED BY <1>1, <1>3, <1>4, <1>6, <2>1, <2>2, <2>3, CanonIsOrder DEF PackageInv
<1>11. OutInv' /\ OnlyDamageRejected' /\ MetricsAligned'
  BY DEF OutInv, OnlyDamageRejected, MetricsAligned, Reconstructed
<1> QED BY <1>7, <1>8, <1>9, <1>10, <1>11

LEMMA EncodeVelocitiesStep ==
  ASSUME RowInv, EncodeVelocities
  PROVE  RowInv'
<1> USE DEF RowInv, EncodeVelocities
<1>1. /\ Canon' = Canon /\ VelRows' = VelRows /\ DistinctIds' = DistinctIds
      /\ StableIdOrder(Identity)' = StableIdOrder(Identity)
      /\ \A s, i : Loaded(s, i)' = Loaded(s, i)
  BY SameRows
<1>2. opts.chunk \in Chunks /\ opts.chunk \in Nat
  BY RowOrderAssumption DEF TypeOK, Options
<1>3. column = [id |-> Canon, pos |-> Canon, vel |-> VelRows]
  BY DEF ColumnInv
<1>4. VelRows \in Columns /\ VelRows \in Orders
  BY CanonIsOrder
<1>5. PICK local \in LocalOrders(opts.chunk) :
        package' = [package EXCEPT
                      !.vel = Plain(Gather(column.vel, Target(local, opts.chunk))),
                      !.velOrder = local,
                      !.chunk = opts.chunk]
  OBVIOUS
<1>6. /\ package'.vel = Plain(Gather(VelRows, Target(local, opts.chunk)))
      /\ package'.velOrder = local /\ package'.chunk = opts.chunk
      /\ package'.id = package.id /\ package'.pos = package.pos
      /\ package'.posOrder = package.posOrder
      /\ package' = [id |-> package'.id, pos |-> package'.pos,
                     vel |-> package'.vel, posOrder |-> package'.posOrder,
                     velOrder |-> package'.velOrder, chunk |-> package'.chunk]
  BY <1>3, <1>5 DEF PackageInv
<1>7. /\ Loaded(package'.vel, Canon) \in Orders
      /\ Restored(Loaded(package'.vel, Canon), local, opts.chunk) = VelRows
      /\ local \in [Rows -> Int]
  BY <1>2, <1>4, <1>6, RestoreUndoes, PlainIsLoaded, LocalOrderFacts
<1>8. TypeOK'
  BY <1>2, <1>6, <1>7 DEF TypeOK, Stages
<1>9. OrderInv'
  BY <1>1 DEF OrderInv
<1>10. ColumnInv'
  BY DEF ColumnInv
<1>11. PackageInv'
  <2>1. Yields(package.vel, package.velOrder, package.chunk, VelRows)'
    BY <1>1, <1>6, <1>7 DEF Yields, Restored
  <2>2. Yields(package.pos, package.posOrder, 0, Canon)'
    BY <1>1, <1>6 DEF Yields, Restored, PackageInv
  <2>3. ~ damaged /\ package.id = Plain(Canon) /\ package.posOrder = None
    BY DEF PackageInv
  <2> QED BY <1>1, <1>6, <1>7, <2>1, <2>2, <2>3 DEF PackageInv
<1>12. OutInv' /\ OnlyDamageRejected' /\ MetricsAligned'
  BY DEF OutInv, OnlyDamageRejected, MetricsAligned, Reconstructed
<1> QED BY <1>8, <1>9, <1>10, <1>11, <1>12

LEMMA EncodeBlockwiseStep ==
  ASSUME RowInv, EncodeBlockwise
  PROVE  RowInv'
<1> USE DEF RowInv, EncodeBlockwise
<1>1. /\ Canon' = Canon /\ VelRows' = VelRows /\ DistinctIds' = DistinctIds
      /\ StableIdOrder(Identity)' = StableIdOrder(Identity)
      /\ \A s, i : Loaded(s, i)' = Loaded(s, i)
  BY SameRows
<1>2. column.vel = VelRows /\ VelRows \in Orders
  BY CanonIsOrder DEF ColumnInv
<1>3. /\ package'.velOrder = None /\ package'.posOrder = None /\ ~ damaged
      /\ package'.chunk = package.chunk /\ package'.pos = package.pos
      /\ package'.id = Plain(Canon)
      /\ Loaded(package'.vel, Canon) = VelRows
      /\ package' = [id |-> package'.id, pos |-> package'.pos,
                     vel |-> package'.vel, posOrder |-> package'.posOrder,
                     velOrder |-> package'.velOrder, chunk |-> package'.chunk]
  BY <1>2, PlainIsLoaded DEF PackageInv
<1>4. TypeOK'
  BY <1>3 DEF TypeOK, Stages
<1>5. OrderInv'
  BY <1>1 DEF OrderInv
<1>6. ColumnInv'
  BY DEF ColumnInv
<1>7. PackageInv'
  <2>1. Yields(package.vel, package.velOrder, package.chunk, VelRows)'
    BY <1>1, <1>3 DEF Yields, Restored
  <2>2. Yields(package.pos, package.posOrder, 0, Canon)'
    BY <1>1, <1>3 DEF Yields, Restored, PackageInv
  <2> QED BY <1>1, <1>2, <1>3, <2>1, <2>2 DEF PackageInv
<1>8. OutInv' /\ OnlyDamageRejected' /\ MetricsAligned'
  BY DEF OutInv, OnlyDamageRejected, MetricsAligned, Reconstructed
<1> QED BY <1>4, <1>5, <1>6, <1>7, <1>8

LEMMA LegacyPackageStep ==
  ASSUME RowInv, LegacyPackage
  PROVE  RowInv'
<1> USE DEF RowInv, LegacyPackage
<1>1. /\ Canon' = Canon /\ VelRows' = VelRows /\ DistinctIds' = DistinctIds
      /\ StableIdOrder(Identity)' = StableIdOrder(Identity)
      /\ \A s, i : Loaded(s, i)' = Loaded(s, i)
  BY SameRows
<1>2. column = [id |-> Canon, pos |-> Canon, vel |-> Canon] /\ VelRows = Canon
  BY DEF ColumnInv, OrderInv, VelRows
<1>3. Canon \in Columns /\ Canon \in Orders
  BY CanonIsOrder
<1>4. PICK local \in LocalOrders(0) :
        package' = [package EXCEPT
                      !.id = Plain(column.id),
                      !.pos = Plain(Gather(column.pos, Target(local, 0))),
                      !.vel = Plain(column.vel),
                      !.posOrder = local]
  OBVIOUS
<1>5. /\ package'.id = Plain(Canon)
      /\ package'.pos = Plain(Gather(Canon, Target(local, 0)))
      /\ package'.vel = Plain(Canon)
      /\ package'.posOrder = local /\ local \in LocalOrders(0)
      /\ package'.velOrder = None /\ ~ damaged
      /\ package'.chunk = package.chunk
      /\ package' = [id |-> package'.id, pos |-> package'.pos,
                     vel |-> package'.vel, posOrder |-> package'.posOrder,
                     velOrder |-> package'.velOrder, chunk |-> package'.chunk]
  BY <1>2, <1>4 DEF PackageInv
<1>6. /\ Restored(Loaded(package'.pos, Canon), local, 0) = Canon
      /\ Loaded(package'.pos, Canon) \in Orders
      /\ Loaded(package'.vel, Canon) = Canon
      /\ local \in [Rows -> Rows]
  BY <1>3, <1>5, RestoreUndoes, PlainIsLoaded DEF LocalOrders
<1>7. TypeOK'
  BY <1>5, <1>6 DEF TypeOK, Stages
<1>8. OrderInv'
  BY <1>1 DEF OrderInv
<1>9. ColumnInv'
  BY DEF ColumnInv
<1>10. PackageInv'
  <2>1. Yields(package.pos, package.posOrder, 0, Canon)'
    BY <1>1, <1>5, <1>6 DEF Yields, Restored
  <2>2. Yields(package.vel, package.velOrder, package.chunk, VelRows)'
    BY <1>1, <1>2, <1>5, <1>6 DEF Yields, Restored
  <2> QED BY <1>1, <1>3, <1>5, <1>6, <2>1, <2>2 DEF PackageInv
<1>11. OutInv' /\ OnlyDamageRejected' /\ MetricsAligned'
  BY DEF OutInv, OnlyDamageRejected, MetricsAligned, Reconstructed
<1> QED BY <1>7, <1>8, <1>9, <1>10, <1>11

(* After the damage nothing is known of velocity_order but its type.       *)
LEMMA DamageStep ==
  ASSUME RowInv, Damage
  PROVE  RowInv'
<1> USE DEF RowInv, Damage
<1>1. /\ Canon' = Canon /\ VelRows' = VelRows /\ DistinctIds' = DistinctIds
      /\ StableIdOrder(Identity)' = StableIdOrder(Identity)
      /\ \A s, i : Loaded(s, i)' = Loaded(s, i)
  BY SameRows
<1>2. PICK i \in Rows, v \in -1..N :
        package' = [package EXCEPT !.velOrder[i] = v]
  OBVIOUS
<1>3. /\ package'.id = package.id /\ package'.pos = package.pos
      /\ package'.vel = package.vel /\ package'.posOrder = package.posOrder
      /\ package'.chunk = package.chunk
      /\ package'.velOrder = [package.velOrder EXCEPT ![i] = v]
      /\ package' = [id |-> package'.id, pos |-> package'.pos,
                     vel |-> package'.vel, posOrder |-> package'.posOrder,
                     velOrder |-> package'.velOrder, chunk |-> package'.chunk]
  BY <1>2 DEF PackageInv
<1>4. package'.velOrder \in [Rows -> Int]
  <2>1. package.velOrder \in [Rows -> Int] /\ v \in Int
    BY RowsAssumption DEF TypeOK
  <2> QED BY <1>3, <2>1
<1>5. TypeOK'
  BY <1>3, <1>4 DEF TypeOK, Stages
<1>6. OrderInv'
  BY <1>1 DEF OrderInv
<1>7. ColumnInv'
  BY DEF ColumnInv
<1>8. PackageInv'
  <2>1. Yields(package.pos, package.posOrder, 0, Canon)'
    BY <1>1, <1>3 DEF Yields, Restored, PackageInv
  <2> QED BY <1>1, <1>3, <2>1 DEF PackageInv
<1>9. OutInv' /\ OnlyDamageRejected' /\ MetricsAligned'
  BY DEF OutInv, OnlyDamageRejected, MetricsAligned, Reconstructed
<1> QED BY <1>5, <1>6, <1>7, <1>8, <1>9

LEMMA DecodeFieldsStep ==
  ASSUME RowInv, DecodeFields
  PROVE  RowInv'
<1> USE DEF RowInv, DecodeFields
<1>1. /\ Canon' = Canon /\ VelRows' = VelRows /\ DistinctIds' = DistinctIds
      /\ StableIdOrder(Identity)' = StableIdOrder(Identity)
  BY SameRows
<1>2. out' = [id |-> Canon, pos |-> Loaded(package.pos, Canon),
              vel |-> Loaded(package.vel, Canon)]
  BY DEF PackageInv, Plain
<1>3. /\ out'.id = Canon /\ Canon \in Columns
      /\ out'.pos \in Orders /\ out'.pos \in Columns
      /\ out'.vel \in Orders /\ out'.vel \in Columns
  BY <1>2, CanonIsOrder, OrderProperties DEF PackageInv, Columns
<1>4. TypeOK'
  BY <1>2, <1>3 DEF TypeOK, Stages
<1>5. OrderInv'
  BY <1>1 DEF OrderInv
<1>6. ColumnInv'
  BY DEF ColumnInv
<1>7. PackageInv'
  BY DEF PackageInv
<1>8. OutInv'
  <2>1. /\ package.posOrder \in LocalOrders(0) \cup {None}
        /\ Restored(out'.pos, package.posOrder, 0) = Canon
    BY <1>2 DEF PackageInv, Yields
  <2>2. ~ damaged =>
          /\ package.velOrder \in LocalOrders(package.chunk) \cup {None}
          /\ Restored(out'.vel, package.velOrder, package.chunk) = VelRows
    BY <1>2 DEF PackageInv, Yields
  <2>3. /\ (LocalOrders(0))' = LocalOrders(0)
        /\ (LocalOrders(package.chunk))' = LocalOrders(package.chunk)
        /\ Restored(out.pos, package.posOrder, 0)'
             = Restored(out'.pos, package.posOrder, 0)
        /\ Restored(out.vel, package.velOrder, package.chunk)'
             = Restored(out'.vel, package.velOrder, package.chunk)
    BY DEF Restored
  <2> QED BY <1>1, <1>3, <2>1, <2>2, <2>3 DEF OutInv, Reconstructed
<1>9. OnlyDamageRejected' /\ MetricsAligned'
  BY DEF OnlyDamageRejected, MetricsAligned
<1> QED BY <1>4, <1>5, <1>6, <1>7, <1>8, <1>9

LEMMA RestoreOrdersStep ==
  ASSUME RowInv, RestoreOrders
  PROVE  RowInv'
<1> USE DEF RowInv, RestoreOrders
<1>1. /\ Canon' = Canon /\ VelRows' = VelRows /\ DistinctIds' = DistinctIds
      /\ StableIdOrder(Identity)' = StableIdOrder(Identity)
  BY SameRows
<1>2. package.chunk \in Nat
  BY PackageChunk
<1>3. /\ out'.id = Canon
      /\ out'.pos = Restored(out.pos, package.posOrder, 0)
      /\ out'.vel = Restored(out.vel, package.velOrder, package.chunk)
      /\ out' = [id |-> out'.id, pos |-> out'.pos, vel |-> out'.vel]
  BY DEF TypeOK, OutInv
<1>4. /\ Canon \in Columns /\ out'.pos = Canon
      /\ out'.vel \in Orders /\ out'.vel \in Columns
      /\ ~ damaged => out'.vel = VelRows
  BY <1>2, <1>3, CanonIsOrder, RestoredIsOrder, OrderProperties
  DEF OutInv, TypeOK, Columns
<1>5. TypeOK'
  BY <1>3, <1>4 DEF TypeOK, Stages
<1>6. OrderInv'
  BY <1>1 DEF OrderInv
<1>7. ColumnInv'
  BY DEF ColumnInv
<1>8. PackageInv'
  BY DEF PackageInv
<1>9. OutInv' /\ OnlyDamageRejected' /\ MetricsAligned'
  BY <1>1, <1>3, <1>4 DEF OutInv, OnlyDamageRejected, MetricsAligned, Reconstructed
<1> QED BY <1>5, <1>6, <1>7, <1>8, <1>9

(* What compress wrote is never refused, so the package was damaged.       *)
LEMMA RejectOrdersStep ==
  ASSUME RowInv, RejectOrders
  PROVE  RowInv'
<1> USE DEF RowInv, RejectOrders
<1>1. /\ Canon' = Canon /\ DistinctIds' = DistinctIds
      /\ StableIdOrder(Identity)' = StableIdOrder(Identity)
  BY SameRows
<1>2. package.chunk \in Nat
  BY PackageChunk
<1>3. damaged
  <2>1. ~ Rejected(None, 0) /\ ~ Rejected(None, package.chunk)
    BY DEF Rejected
  <2>2. ~ Rejected(package.posOrder, 0)
    BY <2>1, LocalOrderFacts DEF OutInv
  <2>3. ASSUME ~ damaged PROVE ~ Rejected(package.velOrder, package.chunk)
    BY <1>2, <2>1, <2>3, LocalOrderFacts DEF OutInv
  <2> QED BY <2>2, <2>3
<1>4. TypeOK'
  BY DEF TypeOK, Stages
<1>5. OrderInv'
  BY <1>1 DEF OrderInv
<1>6. ColumnInv' /\ PackageInv'
  BY DEF ColumnInv, PackageInv
<1>7. OutInv' /\ OnlyDamageRejected' /\ MetricsAligned'
  BY <1>3 DEF OutInv, OnlyDamageRejected, MetricsAligned, Reconstructed
<1> QED BY <1>4, <1>5, <1>6, <1>7

LEMMA InvertHybridStep ==
  ASSUME RowInv, InvertHybrid
  PROVE  RowInv'
<1> USE DEF RowInv, InvertHybrid
<1>1. /\ Canon' = Canon /\ DistinctIds' = DistinctIds
      /\ StableIdOrder(Identity)' = StableIdOrder(Identity)
  BY SameRows
<1>2. /\ out.id = Canon /\ out.pos = Canon /\ out.vel \in Orders
      /\ ~ damaged => out.vel = VelRows
      /\ out = [id |-> out.id, pos |-> out.pos, vel |-> out.vel]
  BY DEF OutInv, TypeOK
<1>3. /\ Canon \in Columns /\ Canon \in Orders
      /\ HybridOrder(Canon, Canon) \in Orders
  BY CanonIsOrder
<1>4. /\ out'.id = Canon /\ out'.pos = Canon /\ out'.vel \in Orders
      /\ ~ damaged => out'.vel = Canon
      /\ out' = [id |-> out'.id, pos |-> out'.pos, vel |-> out'.vel]
  <2>1. CASE structured
    <3>1. out'.vel = Gather(out.vel, InverseOrder(HybridOrder(Canon, Canon)))
      BY <1>2, <2>1
    <3>2. out'.vel \in Orders
      BY <1>2, <1>3, <3>1, InverseProperties, GatherIsOrder
    <3>3. ~ damaged => out'.vel = Canon
      BY <1>2, <1>3, <2>1, <3>1, GatherInverse DEF VelRows, Columns
    <3> QED BY <1>2, <2>1, <3>2, <3>3
  <2>2. CASE ~ structured
    BY <1>2, <2>2 DEF VelRows
  <2> QED BY <2>1, <2>2
<1>5. TypeOK'
  BY <1>3, <1>4, OrderProperties, ZenonT(60) DEF TypeOK, Stages, Columns
<1>6. OrderInv'
  BY <1>1 DEF OrderInv
<1>7. ColumnInv' /\ PackageInv'
  BY DEF ColumnInv, PackageInv
<1>8. OutInv' /\ OnlyDamageRejected' /\ MetricsAligned'
  BY <1>1, <1>4 DEF OutInv, OnlyDamageRejected, MetricsAligned, Reconstructed
<1> QED BY <1>5, <1>6, <1>7, <1>8

LEMMA AlignAsReadStep ==
  ASSUME RowInv, AlignAsRead
  PROVE  RowInv'
<1> USE DEF RowInv, AlignAsRead
<1>1. /\ Canon' = Canon /\ DistinctIds' = DistinctIds
      /\ StableIdOrder(Identity)' = StableIdOrder(Identity)
  BY SameRows
<1>2. out.id = Canon /\ Canon \in Columns /\ Canon \in Orders
  BY CanonIsOrder DEF OutInv, Reconstructed
<1>3. align' = Canon
  BY DEF Canon
<1>4. TypeOK'
  BY <1>2, <1>3 DEF TypeOK, Stages
<1>5. OrderInv'
  BY <1>1 DEF OrderInv
<1>6. ColumnInv' /\ PackageInv'
  BY DEF ColumnInv, PackageInv
<1>7. OutInv' /\ OnlyDamageRejected' /\ MetricsAligned'
  BY <1>1, <1>2, <1>3 DEF OutInv, OnlyDamageRejected, MetricsAligned, Reconstructed
<1> QED BY <1>4, <1>5, <1>6, <1>7

LEMMA AlignByTemporaryStep ==
  ASSUME RowInv, AlignByTemporary
  PROVE  RowInv'
<1> USE DEF RowInv, AlignByTemporary
<1>1. /\ Canon' = Canon /\ DistinctIds' = DistinctIds
      /\ StableIdOrder(Identity)' = StableIdOrder(Identity)
  BY SameRows
<1>2. out.id = Canon /\ Canon \in Columns /\ Canon \in Orders
  BY CanonIsOrder DEF OutInv, Reconstructed
<1>3. align' = Canon
  BY DEF Canon
<1>4. TypeOK'
  BY <1>2, <1>3 DEF TypeOK, Stages
<1>5. OrderInv'
  BY <1>1 DEF OrderInv
<1>6. ColumnInv' /\ PackageInv'
  BY DEF ColumnInv, PackageInv
<1>7. OutInv' /\ OnlyDamageRejected' /\ MetricsAligned'
  BY <1>1, <1>2, <1>3 DEF OutInv, OnlyDamageRejected, MetricsAligned, Reconstructed
<1> QED BY <1>4, <1>5, <1>6, <1>7

LEMMA AlignBySortStep ==
  ASSUME RowInv, AlignBySort
  PROVE  RowInv'
<1> USE DEF RowInv, AlignBySort
<1>1. /\ Canon' = Canon /\ DistinctIds' = DistinctIds
      /\ StableIdOrder(Identity)' = StableIdOrder(Identity)
  BY SameRows
<1>2. out.id = Canon /\ Canon \in Columns /\ Canon \in Orders
  BY CanonIsOrder DEF OutInv, Reconstructed
<1>3. align' = Canon
  BY DEF Canon, OrderInv
<1>4. TypeOK'
  BY <1>2, <1>3 DEF TypeOK, Stages
<1>5. OrderInv'
  BY <1>1 DEF OrderInv
<1>6. ColumnInv' /\ PackageInv'
  BY DEF ColumnInv, PackageInv
<1>7. OutInv' /\ OnlyDamageRejected' /\ MetricsAligned'
  BY <1>1, <1>2, <1>3 DEF OutInv, OnlyDamageRejected, MetricsAligned, Reconstructed
<1> QED BY <1>4, <1>5, <1>6, <1>7

(* Distinct IDs are found in the source at the particle they belong to.    *)
LEMMA AlignByLookupStep ==
  ASSUME RowInv, AlignByLookup
  PROVE  RowInv'
<1> USE DEF RowInv, AlignByLookup
<1>1. /\ Canon' = Canon /\ DistinctIds' = DistinctIds
      /\ StableIdOrder(Identity)' = StableIdOrder(Identity)
  BY SameRows
<1>2. out.id = Canon /\ Canon \in Columns /\ Canon \in Orders
  BY CanonIsOrder DEF OutInv, Reconstructed
<1>3. IF DistinctIds THEN stage' = "compared" /\ align' = Canon
                     ELSE stage' = "unaligned" /\ align' = align
  <2>1. Canon \in [Rows -> Rows]
    BY <1>2 DEF Columns
  <2>2. ASSUME DistinctIds, NEW r \in Rows
        PROVE  (CHOOSE s \in Rows : id[s] = id[Canon[r]]) = Canon[r]
    BY <2>1, <2>2 DEF DistinctIds
  <2>3. CASE DistinctIds
    <3>1. align' = [r \in Rows |-> CHOOSE s \in Rows : id[s] = id[Canon[r]]]
      BY <1>2, <2>3
    <3>2. align' = [r \in Rows |-> Canon[r]]
      BY <2>2, <2>3, <3>1
    <3> QED BY <2>1, <2>3, <3>2
  <2>4. CASE ~ DistinctIds
    BY <2>4
  <2> QED BY <2>3, <2>4
<1>4. TypeOK'
  BY <1>2, <1>3 DEF TypeOK, Stages
<1>5. OrderInv'
  BY <1>1 DEF OrderInv
<1>6. ColumnInv' /\ PackageInv'
  BY DEF ColumnInv, PackageInv
<1>7. OutInv' /\ OnlyDamageRejected' /\ MetricsAligned'
  BY <1>1, <1>2, <1>3 DEF OutInv, OnlyDamageRejected, MetricsAligned, Reconstructed
<1> QED BY <1>4, <1>5, <1>6, <1>7

-------------------------------------------------------------------------------
LEMMA RowStep == RowInv /\ [Next]_vars => RowInv'
<1> SUFFICES ASSUME RowInv, [Next]_vars PROVE RowInv'
  OBVIOUS
<1>1. CASE Compress
  BY <1>1, InferStructuredStep, CanonicalByPositionStep, CanonicalByIdStep,
     CanonicalAsReadStep, PrepareLayoutStep, EncodeFieldsStep,
     EncodeVelocitiesStep, EncodeBlockwiseStep DEF Compress
<1>2. CASE LegacyPackage
  BY <1>2, LegacyPackageStep
<1>3. CASE Damage
  BY <1>3, DamageStep
<1>4. CASE Decompress
  BY <1>4, DecodeFieldsStep, RestoreOrdersStep, RejectOrdersStep,
     InvertHybridStep DEF Decompress
<1>5. CASE Metrics
  BY <1>5, AlignAsReadStep, AlignByTemporaryStep, AlignBySortStep,
     AlignByLookupStep DEF Metrics
<1>6. CASE UNCHANGED vars
  <2>1. /\ Canon' = Canon /\ VelRows' = VelRows /\ DistinctIds' = DistinctIds
        /\ StableIdOrder(Identity)' = StableIdOrder(Identity)
        /\ \A s, i : Loaded(s, i)' = Loaded(s, i)
    BY <1>6, SameRows DEF vars
  <2>2. TypeOK' /\ OrderInv' /\ ColumnInv'
    BY <1>6, <2>1 DEF vars, RowInv, TypeOK, OrderInv, ColumnInv
  <2>3. PackageInv'
    BY <1>6, <2>1 DEF vars, RowInv, PackageInv, Yields, Restored
  <2>4. OutInv' /\ OnlyDamageRejected' /\ MetricsAligned'
    BY <1>6, <2>1 DEF vars, RowInv, OutInv, OnlyDamageRejected, MetricsAligned,
       Reconstructed, Restored
  <2> QED BY <2>2, <2>3, <2>4 DEF RowInv
<1> QED BY <1>1, <1>2, <1>3, <1>4, <1>5, <1>6 DEF Next, Ended

(* The inductive invariant holds in every reachable state.                 *)
THEOREM RowInvariance == Spec => []RowInv
BY RowInit, RowStep, PTL DEF Spec

(* Every variable keeps the type it has in the program.                    *)
THEOREM RowTypes == Spec => []TypeOK
<1>1. RowInv => TypeOK
  BY DEF RowInv
<1> QED BY <1>1, RowInvariance, PTL

(* Any number of particles, any IDs, any codec order and any chunk size:   *)
(* the ID, the position and the velocity of a decoded row belong together. *)
THEOREM RowsStayAttached == Spec => []RowsAttached
<1>1. RowInv => RowsAttached
  BY DEF RowInv, OutInv, RowsAttached
<1> QED BY <1>1, RowInvariance, PTL

(* No decoded column lost or repeated a particle, damaged sidecar or not.  *)
THEOREM RowsAreNeverLost == Spec => []NoRowLost
<1>1. RowInv => NoRowLost
  BY CanonIsOrder DEF RowInv, OutInv, NoRowLost
<1> QED BY <1>1, RowInvariance, PTL

(* decompress refuses no package that compress wrote.                      *)
THEOREM PackagesAreAccepted == Spec => []OnlyDamageRejected
<1>1. RowInv => OnlyDamageRejected
  BY DEF RowInv
<1> QED BY <1>1, RowInvariance, PTL

(* Rows come back as read, or stably sorted by ID, as the manifest says.   *)
THEOREM MappingIsKept == Spec => []MappingKept
<1>1. ASSUME RowInv PROVE MappingKept
  <2>1. SUFFICES ASSUME Reconstructed, mapping = "id_sorted",
                        NEW r \in Rows, NEW s \in Rows, r < s
                 PROVE  \/ id[out.id[r]] < id[out.id[s]]
                        \/ /\ id[out.id[r]] = id[out.id[s]]
                           /\ out.id[r] < out.id[s]
    BY <1>1 DEF MappingKept, RowInv, OutInv, Canon
  <2> DEFINE key == [i \in Rows |-> id[i]]
  <2>2. out.id = StableOrder(key)
    BY <1>1, <2>1 DEF RowInv, OutInv, OrderInv, Canon, StableIdOrder, Identity
  <2>3. key \in [Rows -> Int]
    BY <1>1, RowOrderAssumption DEF RowInv, TypeOK
  <2>4. /\ StableOrder(key) \in [Rows -> Rows]
        /\ \/ key[StableOrder(key)[r]] < key[StableOrder(key)[s]]
           \/ /\ key[StableOrder(key)[r]] = key[StableOrder(key)[s]]
              /\ StableOrder(key)[r] < StableOrder(key)[s]
    BY <2>1, <2>3, StableOrderSorts, OrderProperties
  <2> QED BY <2>2, <2>4
<1> QED BY <1>1, RowInvariance, PTL

(* Metrics compare every decoded row with the particle it came from.       *)
THEOREM MetricsStayAligned == Spec => []MetricsAligned
<1>1. RowInv => MetricsAligned
  BY DEF RowInv
<1> QED BY <1>1, RowInvariance, PTL
===============================================================================
