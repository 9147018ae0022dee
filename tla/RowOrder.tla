------------------------------- MODULE RowOrder -------------------------------
(***************************************************************************)
(* Which particle every decoded value belongs to.  compress and decompress *)
(* of src/pipeline.cpp reorder the rows of a snapshot several times: a     *)
(* position codec imposes its own order, or the rows are sorted by ID;     *)
(* the structured layout reorders the velocities by a key that is computed *)
(* again while decoding; the velocity codec imposes an order of its own,   *)
(* globally, per chunk or per block, which a sidecar file undoes; the      *)
(* lattice layout scatters values to cells that are found again from the   *)
(* decoded IDs; metrics.cpp aligns the result with the source file.        *)
(*                                                                         *)
(* A column maps a row to a particle, and a particle is its row in the     *)
(* source file.  The codecs (LCP, XnYZip, SZ3, SZO, pcodec) are external:  *)
(* a triplet codec returns the values it was given in an order of its own  *)
(* choice and reports that order; the others keep the order.               *)
(***************************************************************************)
EXTENDS RowPermutations

CONSTANTS
  IdSpan,   (* particle IDs are 0..IdSpan-1                                *)
  Cells,    (* a decoded position lies in one of the cells 0..Cells-1      *)
  Chunks,   (* the values of --vel-chunk-size that are tried               *)
  None      (* no order, no sidecar                                        *)

ASSUME RowOrderAssumption ==
  /\ IdSpan \in Nat \ {0}
  /\ Cells \in Nat \ {0}
  /\ Chunks \subseteq Nat
  /\ None \notin [Rows -> Int]

VARIABLES
  opts,       (* the options that decide about orders                      *)
  id,         (* the ID of each particle                                   *)
  stage,      (* the statement that is next                                *)
  column,     (* data[0], data[1..3] and data[4..6] of compress            *)
  mapping,    (* m["ordering"]["reconstructed_rows"]["mapping"]            *)
  order,      (* the canonical order, also the temporary artifact          *)
  structured, (* the structured layout is enabled                          *)
  lattice,    (* the lattice layout is enabled                             *)
  cell,       (* the cell each particle's decoded position lies in         *)
  package,    (* the streams under compressed/                             *)
  damaged,    (* a sidecar of the package was changed on disk              *)
  out,        (* decoded[] of decompress                                   *)
  align       (* the source row each output row is compared with           *)

vars == <<opts, id, stage, column, mapping, order, structured, lattice, cell,
          package, damaged, out, align>>

Compressors == {"lcp", "xnyzip", "szo", "sz3", "pcodec"}
IsTriplet(c) == c \in {"lcp", "xnyzip"}
IsShaped(c) == c \in {"szo", "sz3"}

(* The conditions of validate() in src/cli.cpp on these options.           *)
Valid(o) ==
  /\ ~ (o.lattice /\ o.structureAware)
  /\ o.vel = "lcp" => o.pos = "lcp"
  /\ o.vel = "xnyzip" => o.pos \in {"lcp", "xnyzip"}
  /\ o.chunk # 0 => IsTriplet(o.vel)
  /\ o.blockwise => o.pos = "lcp" /\ o.vel = "lcp" /\ o.chunk = 0

Options ==
  {o \in [pos : Compressors, vel : Compressors, chunk : Chunks, sort : BOOLEAN,
          blockwise : BOOLEAN, lattice : BOOLEAN, structureAware : BOOLEAN] :
     Valid(o)}

LatticePossible ==
  opts.lattice /\ IsShaped(opts.vel) /\ (IsTriplet(opts.pos) \/ IsShaped(opts.pos))

StructuredPossible ==
  opts.structureAware /\ opts.pos = "xnyzip" /\ opts.vel \in {"szo", "xnyzip"}

DistinctIds == \A p, q \in Rows : id[p] = id[q] => p = q

Identity == [r \in Rows |-> r]
Columns == [Rows -> Rows]

(* stable_id_order of a column of IDs.                                     *)
StableIdOrder(ids) == StableOrder([r \in Rows |-> id[ids[r]]])

(* hybrid_order: the Morton code of the decoded position's cell, then the  *)
(* Morton code of the ID's lattice site, which tells IDs apart.            *)
HybridOrder(ids, positions) ==
  StableOrder([r \in Rows |-> cell[positions[r]] * IdSpan + id[ids[r]]])

(* The streams of a field group: `kind` says how decompress reads them.    *)
Plain(values) == [kind |-> "plain", values |-> values]
(* lattice_encode scatters to the cell of each ID; the holes it fills are  *)
(* never read back.                                                        *)
Dense(ids, values) ==
  [kind |-> "lattice",
   values |-> [c \in {id[ids[r]] : r \in Rows} |->
                 values[CHOOSE r \in Rows : id[ids[r]] = c]]]

(* load_field: lattice_decode gathers with the cells of the decoded IDs.   *)
Loaded(stream, ids) ==
  IF stream.kind = "lattice"
    THEN [r \in Rows |-> stream.values[id[ids[r]]]]
    ELSE stream.values

NoPackage == [id |-> None, pos |-> None, vel |-> None,
              posOrder |-> None, velOrder |-> None, chunk |-> 0]

Init ==
  /\ opts \in Options
  /\ id \in [Rows -> 0..(IdSpan - 1)]
  /\ stage = "loaded"
  /\ column = [id |-> Identity, pos |-> Identity, vel |-> Identity]
  /\ mapping = "original_row"
  /\ order = None
  /\ structured = FALSE
  /\ lattice = FALSE
  /\ cell = [p \in Rows |-> 0]
  /\ package = NoPackage
  /\ damaged = FALSE
  /\ out = [id |-> None, pos |-> None, vel |-> None]
  /\ align = None

-------------------------------------------------------------------------------
(* Mistakes: each operator is the one of its name with one plausible bug,  *)
(* to see that the properties below notice it.                             *)

(* std::sort for std::stable_sort.                                         *)
CanonicalByIdUnstable ==
  /\ stage = "canonicalise"
  /\ ~ IsTriplet(opts.pos)
  /\ opts.sort \/ LatticePossible
  /\ order' \in {f \in Orders : \A r, s \in Rows : r < s => id[f[r]] <= id[f[s]]}
  /\ column' = [c \in DOMAIN column |-> Gather(column[c], order')]
  /\ mapping' = "id_sorted"
  /\ stage' = "layout"
  /\ UNCHANGED <<opts, id, structured, lattice, cell, package, damaged, out,
                 align>>

(* The manifest gets the size of the first chunk, not the chunk size.      *)
EncodeVelocitiesFirstChunk ==
  /\ stage = "velocities"
  /\ ~ opts.blockwise
  /\ \E local \in LocalOrders(opts.chunk) :
       package' =
         [package EXCEPT
            !.vel = Plain(Gather(column.vel, Target(local, opts.chunk))),
            !.velOrder = local,
            !.chunk = LocalCount(0, opts.chunk)]
  /\ stage' = "published"
  /\ UNCHANGED <<opts, id, column, mapping, order, structured, lattice, cell,
                 damaged, out, align>>

(* `seen[target]` is not looked at.                                        *)
RejectedOutOfRange(local, chunk) ==
  local # None /\ ~ IndexInRange(local, chunk)

(* `seen[value]` for `seen[target]`.                                       *)
RejectedSeenValue(local, chunk) ==
  /\ local # None
  /\ ~ (IndexInRange(local, chunk) /\ IsInjective(local))

(* The velocities are gathered by the hybrid order once more.              *)
InvertHybridTwice ==
  /\ stage = "hybrid"
  /\ out' = IF structured
              THEN [out EXCEPT !.vel = Gather(@, HybridOrder(out.id, out.pos))]
              ELSE out
  /\ stage' = "reconstructed"
  /\ UNCHANGED <<opts, id, column, mapping, order, structured, lattice, cell,
                 package, damaged, align>>

(* The temporary order is read as source row -> output row.                *)
AlignByInverse ==
  /\ stage = "reconstructed"
  /\ mapping # "original_row"
  /\ align' = InverseOrder(order)
  /\ stage' = "compared"
  /\ UNCHANGED <<opts, id, column, mapping, order, structured, lattice, cell,
                 package, damaged, out>>

-------------------------------------------------------------------------------
(* compress                                                                *)

(* infer_lattice accepts the snapshot, or the layout stays disabled; only  *)
(* the check for duplicate IDs matters to the orders.  The cells of the    *)
(* decoded positions are read by the structured layout alone.              *)
InferStructured ==
  /\ stage = "loaded"
  /\ structured' \in {s \in BOOLEAN : s => StructuredPossible /\ DistinctIds}
  /\ cell' \in IF structured' THEN [Rows -> 0..(Cells - 1)] ELSE {cell}
  /\ stage' = "canonicalise"
  /\ UNCHANGED <<opts, id, column, mapping, order, lattice, package, damaged,
                 out, align>>

GatherAll(ord) ==
  column' = [id |-> Gather(column.id, ord),
             pos |-> Gather(column.pos, ord),
             vel |-> Gather(column.vel, ord)]

(* encode_triplet of the positions returns c.order, and every column is    *)
(* gathered by it; the stream decodes to the positions in that order.      *)
CanonicalByPosition ==
  /\ stage = "canonicalise"
  /\ IsTriplet(opts.pos)
  /\ order' \in Orders
  /\ GatherAll(order')
  /\ package' = [package EXCEPT !.pos = Plain(Gather(column.pos, order'))]
  /\ mapping' = "position_sorted"
  /\ stage' = "layout"
  /\ UNCHANGED <<opts, id, structured, lattice, cell, damaged, out, align>>

CanonicalById ==
  /\ stage = "canonicalise"
  /\ ~ IsTriplet(opts.pos)
  /\ opts.sort \/ LatticePossible
  /\ order' = StableIdOrder(column.id)
  /\ GatherAll(order')
  /\ mapping' = "id_sorted"
  /\ stage' = "layout"
  /\ UNCHANGED <<opts, id, structured, lattice, cell, package, damaged, out,
                 align>>

CanonicalAsRead ==
  /\ stage = "canonicalise"
  /\ ~ IsTriplet(opts.pos)
  /\ ~ (opts.sort \/ LatticePossible)
  /\ stage' = "layout"
  /\ UNCHANGED <<opts, id, column, mapping, order, structured, lattice, cell,
                 package, damaged, out, align>>

(* infer_lattice for the lattice layout; the velocities of the structured  *)
(* layout are gathered by the hybrid order of the canonical positions,     *)
(* decoded again from the stream just written.                             *)
PrepareLayout ==
  /\ stage = "layout"
  /\ lattice' \in {l \in BOOLEAN : l => LatticePossible /\ DistinctIds}
  /\ column' =
       IF structured
         THEN [column EXCEPT !.vel =
                 Gather(@, HybridOrder(column.id, package.pos.values))]
         ELSE column
  /\ stage' = "encode"
  /\ UNCHANGED <<opts, id, mapping, order, structured, cell, package, damaged,
                 out, align>>

(* save_field("id") and the jobs of the fieldwise groups.                  *)
FieldStream(values) ==
  IF lattice THEN Dense(column.id, values) ELSE Plain(values)

EncodeFields ==
  /\ stage = "encode"
  /\ package' =
       [package EXCEPT
          !.id = Plain(column.id),
          !.pos = IF IsTriplet(opts.pos) THEN @ ELSE FieldStream(column.pos),
          !.vel = IF IsTriplet(opts.vel) THEN @ ELSE FieldStream(column.vel)]
  /\ stage' = IF IsTriplet(opts.vel) THEN "velocities" ELSE "published"
  /\ UNCHANGED <<opts, id, column, mapping, order, structured, lattice, cell,
                 damaged, out, align>>

(* encode_triplet of the velocities: entry i of the stream is the row      *)
(* Base(i) + local[i], and local is saved as velocity_order.               *)
EncodeVelocities ==
  /\ stage = "velocities"
  /\ ~ opts.blockwise
  /\ \E local \in LocalOrders(opts.chunk) :
       package' =
         [package EXCEPT
            !.vel = Plain(Gather(column.vel, Target(local, opts.chunk))),
            !.velOrder = local,
            !.chunk = opts.chunk]
  /\ stage' = "published"
  /\ UNCHANGED <<opts, id, column, mapping, order, structured, lattice, cell,
                 damaged, out, align>>

(* encode_blockwise: decode_blockwise puts every value back to the row it  *)
(* came from, and velocity_order is marked as applied while decoding.      *)
EncodeBlockwise ==
  /\ stage = "velocities"
  /\ opts.blockwise
  /\ package' = [package EXCEPT !.vel = Plain(column.vel)]
  /\ stage' = "published"
  /\ UNCHANGED <<opts, id, column, mapping, order, structured, lattice, cell,
                 damaged, out, align>>

(* A package of an older writer: positions in the codec's order with an    *)
(* `order` sidecar, the other fields as read (decompress still restores    *)
(* it).                                                                    *)
LegacyPackage ==
  /\ stage = "loaded"
  /\ opts.pos = "lcp" /\ opts.vel = "pcodec"
  /\ ~ opts.structureAware /\ ~ opts.lattice
  /\ \E local \in LocalOrders(0) :
       package' = [package EXCEPT
                     !.id = Plain(column.id),
                     !.pos = Plain(Gather(column.pos, Target(local, 0))),
                     !.vel = Plain(column.vel),
                     !.posOrder = local]
  /\ stage' = "published"
  /\ UNCHANGED <<opts, id, column, mapping, order, structured, lattice, cell,
                 damaged, out, align>>

(* One entry of velocity_order changes between writing and reading.        *)
Damage ==
  /\ stage = "published"
  /\ ~ damaged
  /\ package.velOrder # None
  /\ \E i \in Rows, v \in -1..N :
       /\ v # package.velOrder[i]
       /\ package' = [package EXCEPT !.velOrder[i] = v]
  /\ damaged' = TRUE
  /\ UNCHANGED <<opts, id, stage, column, mapping, order, structured, lattice,
                 cell, out, align>>

-------------------------------------------------------------------------------
(* decompress                                                              *)

DecodeFields ==
  /\ stage = "published"
  /\ out' = LET ids == package.id.values
            IN [id |-> ids,
                pos |-> Loaded(package.pos, ids),
                vel |-> Loaded(package.vel, ids)]
  /\ stage' = "restore"
  /\ UNCHANGED <<opts, id, column, mapping, order, structured, lattice, cell,
                 package, damaged, align>>

(* The lambda `restore`: "Invalid order index", "Duplicate order index",   *)
(* or the inverse is applied.                                              *)
Rejected(local, chunk) ==
  /\ local # None
  /\ ~ (IndexInRange(local, chunk) /\ NoTargetTwice(local, chunk))

Restored(values, local, chunk) ==
  IF local = None THEN values
  ELSE Gather(values, InverseOrder(Target(local, chunk)))

(* restore(1, "order"); restore(4, "velocity_order")                       *)
RestoreOrders ==
  /\ stage = "restore"
  /\ ~ Rejected(package.posOrder, 0)
  /\ ~ Rejected(package.velOrder, package.chunk)
  /\ out' = [out EXCEPT
               !.pos = Restored(@, package.posOrder, 0),
               !.vel = Restored(@, package.velOrder, package.chunk)]
  /\ stage' = "hybrid"
  /\ UNCHANGED <<opts, id, column, mapping, order, structured, lattice, cell,
                 package, damaged, align>>

RejectOrders ==
  /\ stage = "restore"
  /\ Rejected(package.posOrder, 0) \/ Rejected(package.velOrder, package.chunk)
  /\ stage' = "rejected"
  /\ UNCHANGED <<opts, id, column, mapping, order, structured, lattice, cell,
                 package, damaged, out, align>>

(* The hybrid order of the decoded IDs and positions, inverted.            *)
InvertHybrid ==
  /\ stage = "hybrid"
  /\ out' = IF structured
              THEN [out EXCEPT !.vel =
                      Gather(@, InverseOrder(HybridOrder(out.id, out.pos)))]
              ELSE out
  /\ stage' = "reconstructed"
  /\ UNCHANGED <<opts, id, column, mapping, order, structured, lattice, cell,
                 package, damaged, align>>

-------------------------------------------------------------------------------
(* compute_metrics: the source row that each reconstructed row is compared *)
(* with.  `temporary`: the artifact of the canonical order still exists.   *)

AlignAsRead ==
  /\ stage = "reconstructed"
  /\ mapping = "original_row"
  /\ align' = Identity
  /\ stage' = "compared"
  /\ UNCHANGED <<opts, id, column, mapping, order, structured, lattice, cell,
                 package, damaged, out>>

AlignByTemporary ==
  /\ stage = "reconstructed"
  /\ mapping # "original_row"
  /\ align' = order
  /\ stage' = "compared"
  /\ UNCHANGED <<opts, id, column, mapping, order, structured, lattice, cell,
                 package, damaged, out>>

AlignBySort ==
  /\ stage = "reconstructed"
  /\ mapping = "id_sorted"
  /\ align' = StableIdOrder(Identity)
  /\ stage' = "compared"
  /\ UNCHANGED <<opts, id, column, mapping, order, structured, lattice, cell,
                 package, damaged, out>>

(* Look every ID up in the source; duplicates cannot be aligned.           *)
AlignByLookup ==
  /\ stage = "reconstructed"
  /\ mapping = "position_sorted"
  /\ IF DistinctIds
       THEN /\ align' = [r \in Rows |-> CHOOSE s \in Rows : id[s] = id[out.id[r]]]
            /\ stage' = "compared"
       ELSE /\ stage' = "unaligned"
            /\ UNCHANGED align
  /\ UNCHANGED <<opts, id, column, mapping, order, structured, lattice, cell,
                 package, damaged, out>>

Ended ==
  stage \in {"rejected", "compared", "unaligned"} /\ UNCHANGED vars

Compress ==
  \/ InferStructured \/ CanonicalByPosition \/ CanonicalById \/ CanonicalAsRead
  \/ PrepareLayout \/ EncodeFields \/ EncodeVelocities \/ EncodeBlockwise

Decompress == DecodeFields \/ RestoreOrders \/ RejectOrders \/ InvertHybrid

Metrics == AlignAsRead \/ AlignByTemporary \/ AlignBySort \/ AlignByLookup

Next ==
  Compress \/ LegacyPackage \/ Damage \/ Decompress \/ Metrics \/ Ended

Spec == Init /\ [][Next]_vars

-------------------------------------------------------------------------------
(* Properties.                                                             *)

Stages == {"loaded", "canonicalise", "layout", "encode", "velocities",
           "published", "restore", "rejected", "hybrid", "reconstructed",
           "compared", "unaligned"}

TypeOK ==
  /\ opts \in Options
  /\ id \in [Rows -> 0..(IdSpan - 1)]
  /\ stage \in Stages
  /\ column \in [id : Columns, pos : Columns, vel : Columns]
  /\ mapping \in {"original_row", "position_sorted", "id_sorted"}
  /\ order \in Orders \cup {None}
  /\ structured \in BOOLEAN
  /\ lattice \in BOOLEAN
  /\ cell \in [Rows -> 0..(Cells - 1)]
  /\ package.velOrder \in [Rows -> Int] \cup {None}
  /\ package.posOrder \in [Rows -> Rows] \cup {None}
  /\ package.chunk \in Chunks \cup {0}
  /\ damaged \in BOOLEAN
  /\ out \in [id : Columns \cup {None}, pos : Columns \cup {None},
               vel : Columns \cup {None}]
  /\ align \in Columns \cup {None}

(* The rows are those of the canonical order, or as they were read.        *)
Canon == IF mapping = "original_row" THEN Identity ELSE order

Reconstructed == stage \in {"reconstructed", "compared", "unaligned"}

(* "IDs remain attached to the same particle" (README.md:59): whatever the *)
(* codecs, the layout, the chunks and the sort, the ID, the position and   *)
(* the velocity of a reconstructed row belong to one particle.             *)
RowsAttached ==
  Reconstructed /\ ~ damaged => out.id = out.pos /\ out.id = out.vel

(* A reconstruction holds every particle's values exactly once, even when  *)
(* it was made from an order sidecar that changed on disk and was not      *)
(* recognised (pipeline.cpp:805, 808).                                     *)
NoRowLost ==
  Reconstructed => out.id \in Orders /\ out.pos \in Orders /\ out.vel \in Orders

(* Every package that compress writes is accepted by decompress: the       *)
(* checks of `restore` refuse damaged sidecars only.                       *)
OnlyDamageRejected == stage = "rejected" => damaged

(* "--sort applies a stable ID sort" (README.md:59): rows come back in the *)
(* order the manifest's mapping names.                                     *)
MappingKept ==
  Reconstructed =>
    /\ mapping = "original_row" => out.id = Identity
    /\ mapping = "id_sorted" => \A r, s \in Rows : r < s =>
         \/ id[out.id[r]] < id[out.id[s]]
         \/ id[out.id[r]] = id[out.id[s]] /\ out.id[r] < out.id[s]

(* metrics.cpp compares every reconstructed row with its own particle,     *)
(* whichever of the four alignments it can use.                            *)
MetricsAligned == stage = "compared" => align = out.id
-------------------------------------------------------------------------------
(* The inductive invariant: which rows every column and every stream holds *)
(* between two steps.                                                      *)

(* The velocities' rows once PrepareLayout is done.                        *)
VelRows ==
  IF structured THEN Gather(Canon, HybridOrder(Canon, Canon)) ELSE Canon

(* A stream that decompress turns into `rows`, given the canonical IDs.    *)
Yields(stream, sidecar, chunk, rows) ==
  Restored(Loaded(stream, Canon), sidecar, chunk) = rows

OrderInv ==
  /\ mapping = "original_row" => order = None
  /\ mapping # "original_row" => order \in Orders
  /\ mapping = "id_sorted" => order = StableIdOrder(Identity)
  /\ stage \in {"loaded", "canonicalise"} => mapping = "original_row"
  /\ lattice \/ structured => DistinctIds
  /\ structured => IsTriplet(opts.pos) /\ stage # "loaded"

ColumnInv ==
  /\ stage \in {"loaded", "canonicalise", "layout"} =>
       column = [id |-> Canon, pos |-> Canon, vel |-> Canon]
  /\ stage \in {"encode", "velocities"} =>
       column = [id |-> Canon, pos |-> Canon, vel |-> VelRows]

PackageInv ==
  /\ package = [id |-> package.id, pos |-> package.pos, vel |-> package.vel,
                posOrder |-> package.posOrder, velOrder |-> package.velOrder,
                chunk |-> package.chunk]
  /\ stage \in {"loaded", "canonicalise", "layout", "encode", "velocities"} =>
       /\ ~ damaged
       /\ package.posOrder = None /\ package.velOrder = None
  /\ stage \in {"layout", "encode"} /\ IsTriplet(opts.pos) =>
       package.pos = Plain(Canon)
  /\ stage \in {"velocities", "published"} =>
       /\ package.id = Plain(Canon)
       /\ Loaded(package.pos, Canon) \in Orders
       /\ package.posOrder \in LocalOrders(0) \cup {None}
       /\ Yields(package.pos, package.posOrder, 0, Canon)
  /\ stage = "published" =>
       /\ Loaded(package.vel, Canon) \in Orders
       /\ ~ damaged =>
            /\ package.velOrder \in LocalOrders(package.chunk) \cup {None}
            /\ Yields(package.vel, package.velOrder, package.chunk, VelRows)

OutInv ==
  /\ stage = "restore" =>
       /\ out.id = Canon
       /\ package.posOrder \in LocalOrders(0) \cup {None}
       /\ Restored(out.pos, package.posOrder, 0) = Canon
       /\ out.vel \in Orders
       /\ ~ damaged =>
            /\ package.velOrder \in LocalOrders(package.chunk) \cup {None}
            /\ Restored(out.vel, package.velOrder, package.chunk) = VelRows
  /\ stage = "hybrid" =>
       /\ out.id = Canon /\ out.pos = Canon
       /\ out.vel \in Orders
       /\ ~ damaged => out.vel = VelRows
  /\ Reconstructed =>
       /\ out.id = Canon /\ out.pos = Canon
       /\ out.vel \in Orders
       /\ ~ damaged => out.vel = Canon

RowInv ==
  /\ TypeOK
  /\ OrderInv
  /\ ColumnInv
  /\ PackageInv
  /\ OutInv
  /\ OnlyDamageRejected
  /\ MetricsAligned
===============================================================================
