---------------------------- MODULE BatchSummary ----------------------------
(***************************************************************************)
(* The numbers of batch_metrics.json (src/batch.cpp:256-406): what         *)
(* run_directory adds up from the results its children left.  A report is  *)
(* the manifest of a package, or its metrics.json, which names the same    *)
(* facts by other keys; a package that was only preprocessed has no sizes, *)
(* and a failed file may or may not have left a report.  The sizes of a    *)
(* package are those of the report, which for metrics.json are the ones    *)
(* before the manifest's last update (src/pipeline.cpp:895-907).           *)
(***************************************************************************)
EXTENDS Integers, FiniteSets, Functions

CONSTANTS
  FileCount,   (* paths.size()                                             *)
  Counts,      (* particles of a file                                      *)
  Widths,      (* bytes of a value, in every field of a file               *)
  Packages,    (* the files of a package and their sizes: functions on     *)
               (* names <<stem, extension>>                                *)
  null         (* Json(nullptr)                                            *)

Index == 0..(FileCount - 1)
Manifest == <<"manifest", "json">>
PositionNames == {"x", "y", "z"}
VelocityNames == {"vx", "vy", "vz"}
Names == {"id"} \cup PositionNames \cup VelocityNames
Groups == {"positions", "id", "velocities"}

(* The stems of what preprocess and compress write to compressed/.         *)
Stems == Names \cup {"positions", "velocities", "order", "velocity_order", "velocity_block_ids"}

BatchSummaryAssumption ==
  /\ FileCount \in Nat \ {0}
  /\ Counts \subseteq Nat \ {0}
  /\ \A w \in Widths : w \in [Names -> Nat \ {0}]
  /\ \A p \in Packages :
       /\ p \in [DOMAIN p -> Nat \ {0}] /\ IsFiniteSet(DOMAIN p) /\ Manifest \in DOMAIN p
       /\ \A path \in DOMAIN p : path # Manifest => path[1] \in Stems
  /\ null \notin Groups \cup [Groups -> [original : Nat, compressed : Nat]]

VARIABLES
  command, metrics,   (* of the Options                                    *)
  files,              (* what is true of each file                         *)
  results,            (* results[index]                                    *)
  i,                  (* the loop over the results                         *)
  success, count, original, compressed, complete,
  groups, groups_available,
  entries,
  batch               (* the Json that is written, null before             *)

totals == <<success, count, original, compressed, complete, groups, groups_available, entries>>
vars == <<command, metrics, files, results, i, totals, batch>>

(* ---- the reports ------------------------------------------------------ *)

Payload(f) == f.count * SumFunction(f.widths)
PackageSize(f) == SumFunction(f.package)

(* The sizes a manifest has after preprocess, and after update_sizes.      *)
SizesOf(f) ==
  IF command = "preprocess" THEN [selected_original_payload_bytes |-> Payload(f)]
  ELSE [selected_original_payload_bytes |-> Payload(f),
        compressed_total_bytes |-> PackageSize(f),
        compressed_components_bytes |-> f.package]

ManifestOf(f) ==
  [count |-> f.count, sizes |-> SizesOf(f),
   fields |-> [n \in Names |-> [dtype |-> f.widths[n]]]]

(* compute_metrics: it has no "count", and its sizes are those of the       *)
(* manifest at that time, with one more entry.                             *)
MetricsOf(f) ==
  [sizes |-> [k \in DOMAIN SizesOf(f) \cup {"selected_particle_count"} |->
                IF k \in DOMAIN SizesOf(f) THEN SizesOf(f)[k] ELSE f.count],
   fields |-> [n \in Names |-> [original_dtype |-> f.widths[n]]]]

Report(f) == IF metrics THEN MetricsOf(f) ELSE ManifestOf(f)

(* run() threw, or its report is there and the exit status decides.        *)
Results(f) ==
  {[succeeded |-> FALSE]} \cup {[succeeded |-> b, report |-> Report(f)] : b \in BOOLEAN}

Init ==
  /\ command \in {"preprocess", "compress", "roundtrip"}
  /\ metrics \in BOOLEAN /\ (metrics => command = "roundtrip")
  /\ files \in [Index -> [count : Counts, widths : Widths, package : Packages]]
  /\ results \in [Index -> UNION {Results(files[f]) : f \in Index}]
  /\ \A f \in Index : results[f] \in Results(files[f])
  /\ i = 0
  /\ success = 0 /\ count = 0 /\ original = 0 /\ compressed = 0 /\ complete = TRUE
  /\ groups = [g \in Groups |-> [original |-> 0, compressed |-> 0]]
  /\ groups_available = TRUE
  /\ entries = [f \in {} |-> null]
  /\ batch = null

(* ---- the loop --------------------------------------------------------- *)

(* json.value(key, default)                                                *)
Value(json, key, default) == IF key \in DOMAIN json THEN json[key] ELSE default

(* The mistake: a report without "count" has no particles.                 *)
ParticlesByCount(report) == Value(report, "count", 0)
Particles(report) ==
  Value(report, "count", Value(report.sizes, "selected_particle_count", 0))
Width(report, n) ==
  Value(report.fields[n], "dtype", Value(report.fields[n], "original_dtype", null))

GroupOfField(n) ==
  CASE n = "id" -> "id" [] n \in PositionNames -> "positions" [] OTHER -> "velocities"

(* The prefixes, with their last dot, are the stems.  The mistake: the     *)
(* stems of the velocities before there were packed orders.                *)
GroupOfPathOlder(path) ==
  CASE path[1] \in {"positions", "order"} \cup PositionNames -> "positions"
    [] path[1] \in {"velocities", "velocity_order"} \cup VelocityNames -> "velocities"
    [] path[1] = "id" -> "id"
    [] OTHER -> null
GroupOfPath(path) ==
  CASE path[1] \in {"positions", "order"} \cup PositionNames -> "positions"
    [] path[1] \in {"velocities", "velocity_order", "velocity_block_ids"} \cup VelocityNames
         -> "velocities"
    [] path[1] = "id" -> "id"
    [] OTHER -> null

Entry(r) ==
  [status |-> IF r.succeeded THEN "success" ELSE "failed",
   particle_count |-> IF "report" \in DOMAIN r THEN Particles(r.report) ELSE null]

(* The mistake: a failed file does not spoil the totals.                   *)
TakeFailedLightly ==
  /\ i < FileCount /\ ~results[i].succeeded
  /\ entries' = [f \in DOMAIN entries \cup {i} |-> IF f = i THEN Entry(results[i]) ELSE entries[f]]
  /\ i' = i + 1
  /\ UNCHANGED <<command, metrics, files, results, success, count, original, compressed,
                 complete, groups, groups_available, batch>>

TakeFailed ==
  /\ i < FileCount /\ ~results[i].succeeded
  /\ entries' = [f \in DOMAIN entries \cup {i} |-> IF f = i THEN Entry(results[i]) ELSE entries[f]]
  /\ complete' = FALSE
  /\ i' = i + 1
  /\ UNCHANGED <<command, metrics, files, results, success, count, original, compressed,
                 groups, groups_available, batch>>

Take ==
  /\ i < FileCount /\ results[i].succeeded
  /\ LET report == results[i].report
         sizes == report.sizes
         components == Value(sizes, "compressed_components_bytes", [p \in {} |-> 0])
         Original(g) == Particles(report)
                        * SumFunction([n \in {m \in Names : GroupOfField(m) = g} |-> Width(report, n)])
         Compressed(g) == SumFunctionOnSet(components, {p \in DOMAIN components : GroupOfPath(p) = g})
     IN  /\ count' = count + Particles(report)
         /\ original' = original + Value(sizes, "selected_original_payload_bytes", 0)
         /\ compressed' = compressed + Value(sizes, "compressed_total_bytes", 0)
         /\ complete' = (complete /\ "compressed_total_bytes" \in DOMAIN sizes)
         /\ groups_available' =
              (groups_available /\ "compressed_components_bytes" \in DOMAIN sizes)
         /\ groups' = [g \in Groups |-> [original |-> groups[g].original + Original(g),
                                         compressed |-> groups[g].compressed + Compressed(g)]]
  /\ success' = success + 1
  /\ entries' = [f \in DOMAIN entries \cup {i} |-> IF f = i THEN Entry(results[i]) ELSE entries[f]]
  /\ i' = i + 1
  /\ UNCHANGED <<command, metrics, files, results, batch>>

(* complete = complete && success > 0, and the Json of the batch.          *)
Summarise ==
  /\ i = FileCount /\ batch = null
  /\ LET whole == complete /\ success > 0
     IN  batch' = [successful_files |-> success, failed_files |-> FileCount - success,
                   total_particle_count |-> count, original |-> original,
                   compressed |-> IF whole THEN compressed ELSE null,
                   field_groups |-> IF whole /\ groups_available THEN groups ELSE null]
  /\ UNCHANGED <<command, metrics, files, results, i, totals>>

Done == batch # null /\ UNCHANGED vars

Next == TakeFailed \/ Take \/ Summarise \/ Done

Spec == Init /\ [][Next]_vars

-------------------------------------------------------------------------------
Sum(Op(_), S) == SumFunction([f \in S |-> Op(files[f])])
Successes == {f \in Index : results[f].succeeded}

(* The groups of the summary are a partition of the whole: no byte of the  *)
(* selected fields, and no file of a package but its manifest, is left out *)
(* of a group or counted in two, whatever codecs wrote the package.        *)
GroupsAddUp ==
  batch # null /\ batch.field_groups # null =>
    LET g == batch.field_groups
        ManifestSize(f) == f.package[Manifest]
    IN  /\ SumFunction([k \in Groups |-> g[k].original]) = batch.original
        /\ SumFunction([k \in Groups |-> g[k].compressed]) + Sum(ManifestSize, Index)
             = batch.compressed

(* A compressed size is of all files or of none: a failed file, or a       *)
(* package without streams, makes it null, and nothing else does.          *)
WholeOrNothing ==
  batch # null =>
    IF Successes = Index /\ command # "preprocess"
    THEN batch.compressed = Sum(PackageSize, Index) /\ batch.field_groups # null
    ELSE batch.compressed = null /\ batch.field_groups = null

(* What is counted is what succeeded, whichever report told it: the        *)
(* particles of the summary are those of the entries marked as successes.  *)
CountedOnce ==
  batch # null =>
    LET ParticleCount(f) == f.count
        S == {f \in DOMAIN entries : entries[f].status = "success"}
    IN  /\ batch.total_particle_count = Sum(ParticleCount, Successes)
        /\ batch.total_particle_count = SumFunction([f \in S |-> entries[f].particle_count])
        /\ batch.original = Sum(Payload, Successes)
        /\ batch.failed_files = Cardinality(Index \ S)

(* The numbers of batch_metrics.json are those of its files.               *)
SummaryTrue == GroupsAddUp /\ WholeOrNothing /\ CountedOnce
===============================================================================
