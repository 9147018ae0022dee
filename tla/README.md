# Formal models of particle_compressors_cpp

This directory holds TLA+ specifications of the particle compression pipeline
(`src/src`, `src/include/particle`), TLC configurations that check them on small
instances, and theorems that TLAPS proves for every instance. Paths below are
relative to the repository root.

| Module | Models | Checked by | Proved in |
| --- | --- | --- | --- |
| `MapOutcome` | what `parallel_map` promises (abstract) | | |
| `ParallelMap` | `parallel_map`, thread by thread | `MCParallelMap.cfg` | `ParallelMapProofs` |
| `RowPermutations` | gather, stable sort, chunk-local orders | through `RowOrder` | `RowOrderProofs` |
| `RowOrder` | which particle every row belongs to, from the raw fields to the metrics | `MCRowOrder.cfg` | `RowOrderProofs` |
| `Package` | the files of one work directory over a sequence of commands | `MCPackage.cfg` | `PackageProofs` |
| `Batch` | `run_directory`: parent, children, result files, restarts | `MCBatchPool.cfg`, `MCBatchRerun.cfg`, `MCBatchTruncated.cfg` | `BatchProofs` |
| `BatchSummary` | the numbers of `batch_metrics.json` | `MCFiles.cfg` | `FileProofs` |
| `TripletEncoder` | XnYZip validation and retries of every chunk, the settings stored for all | `MCTripletEncoder.cfg`, `MCTripletCodes.cfg` | `TripletEncoderProofs` |
| `ChunkContainer` | the framed stream of chunks, written, damaged and read | `MCFiles.cfg` | `FileProofs` |
| `BlockwiseOrder` | the bit-packed order inside LCP blocks | `MCLayouts.cfg` | `LayoutProofs` |
| `Huffman` | delta and Huffman coding of block IDs | `MCTripletCodes.cfg` | `TripletEncoderProofs` |
| `BitNumbers` | powers of two and running sums | through the two before | with them |
| `ErrorBudget` | an error bound from the options to the verdict of the metrics | `MCErrorBudget.cfg` | `ErrorBudgetProofs` |
| `LatticeBox` | the dense periodic box of the lattice layout | `MCLayouts.cfg` | `LayoutProofs` |
| `LatticeResidual` | positions as residuals to their lattice site | `MCLayouts.cfg` | `LayoutProofs` |
| `SpaceCurves` | Hilbert codes of particle IDs | `MCEncodings.cfg` | |
| `ShapedSearch` | the search of axis orders and directions of a box | `MCLayouts.cfg` | `LayoutProofs` |
| `ManifestSize` | the manifest that lists its own size | `MCFiles.cfg` | `FileProofs` |
| `JsonText` | rendering and reading of JSON | `MCEncodings.cfg` | |
| `Merge` | reading of snapshots and joining of a directory | `MCFiles.cfg` | `FileProofs` |
| `FieldSearch` | which HDF5 datasets are the particle fields | `MCFiles.cfg` | `FileProofs` |

Run a model with `tlc -config MCRowOrder.cfg MCRowOrder.tla`, a proof with
`tlapm RowOrderProofs.tla`. `PROJECT.json` maps every definition to its source
lines and lists runs, mutants, hazards and theorems.

## 1. Inventory of the system

The program is one command-line executable with four commands: `preprocess`
reads an HDF5 or native snapshot of particles (ID, three positions, three
velocities) and writes raw fields and a manifest; `compress` does that and then
writes the compressed streams; `decompress` reads a package and writes
`reconstructed.h5`; `roundtrip` does all of it and may compute metrics. An input
that is a directory makes a batch of one process per file, or with `--merge` one
joined snapshot.

| Component (source) | State | Operations | Hard behaviour |
| --- | --- | --- | --- |
| Worker pool (`runtime.hpp:20`) | atomic counter and flag, first exception, result vector | `parallel_map` | threads race for indices and for the first exception; thread creation can fail half way |
| Row order (`pipeline.cpp:354-831`, `layout.cpp`, `data.cpp:122-139`) | seven columns, canonical order, sidecars | canonical sort, layouts, triplet codecs, inverses | up to four reorderings that have to be undone in the right order, one of them recomputed from decoded data |
| Work directory (`pipeline.cpp:66-917`, `data.cpp:151`, `json_io.cpp`) | `manifest.json`, `input_adapters/`, `preprocessed/`, `compressed/`, `decompressed/`, `reconstructed.h5`, `metrics.json` | the four commands, `--force`, `--clean-raw` | nothing is atomic: a kill or a full disk leaves any prefix of the writes |
| Batch (`batch.cpp:173-414`) | map of active children, results, `.batch-result.json`, `batch_metrics.json` | launch, wait, collect, summarise | children end in any order, are killed, outlive their parent; old result files |
| Merge (`batch.cpp:77-171`) | joined snapshot, `merged.h5` and its temporary | join, check IDs, publish | publication by rename |
| Chunk container (`triplets.cpp:151-258`) | framed byte stream | encode, decode | unsigned arithmetic on untyped lengths |
| XnYZip retries (`triplets.cpp:70-149`) | attempt, quantizer, bound | validate, retry | six attempts, two ways to retry |
| Blockwise order (`triplets.cpp:261-353`) | packed bits, block IDs | pack, unpack | bit widths, population checks |
| Delta-Huffman (`huffman.cpp`) | code table | encode, decode | canonical codes, end of input |
| Layout geometry (`layout.cpp`, `shaped.cpp`, `layout_pipeline.cpp`) | lattice, axes, wraps | infer, scatter, gather, Hilbert and Morton codes | periodic wrap-around, bit widths |
| Error-bound budget (`pipeline.cpp:35-63`, `208-297`) | bounds per field | select, distribute | floating point |
| Metrics (`metrics.cpp`) | report | align, compare | four alignments |
| Size accounting (`pipeline.cpp:329-353`) | sizes in the manifest | iterate | the manifest contains its own size |
| Command line, configuration (`cli.cpp`, `main.cpp`) | options | parse, validate | combinations of options |
| Field codecs, JSON, HDF5, native input (`codecs.cpp`, `json_io.cpp`, `hdf5.cpp`, `native.cpp`) | none | convert, read, write | input and output |
| Vendored code and empty submodules | | LCP, XnYZip, SZ3, SZO, pcodec, HDF5, yaml-cpp, nlohmann JSON, CLI11 | external |

How they interact: `run` calls `preprocess`, `compress`, `decompress` and
`compute_metrics`, which hand each other one manifest in memory and files on
disk. `compress` and `decompress` call `parallel_map` for the fieldwise jobs,
`encode_triplet` and `decode_triplet` for the chunks. `run_directory` forks, and
every child calls `run` in a directory of its own; parent and child communicate
by one JSON file and the exit status. Two commands in one directory communicate
only through its files.

What makes each part correct:

- pool: every job runs once, the caller gets all results or the first exception,
  nothing runs after the return, the call returns;
- row order: the columns of a row stay together, no row is lost or doubled, the
  rows have the order the manifest names, the metrics compare like with like;
- work directory: a package consists of files of one command, a manifest names
  only what was made from its package, nothing is overwritten without `--force`;
- batch: the pool is bounded, every failure counts, no success is borrowed from
  another batch, the batch ends.

The hazards of this code, each at its line and with the properties aimed at it,
are in `PROJECT.json`.

## 2. The models

Next to some operators stands a *mistake*: the same operator with one plausible
bug. Mistakes are used by no specification; substituted for the operator they
vary, they show that a property notices the bug (`PROJECT.json`, `mutants`).

### ParallelMap and MapOutcome

`ParallelMap` has one program counter for the caller (which is thread 0 and works
like the others) and for each `std::jthread`. Every atomic access (`while
(!failed)`, `fetch_add`), every call of `function` and every statement of the
critical section (the lock, the test of `error`, its assignment, the store of
`failed`) is a step: without the lock two threads could both find `error` empty
(`LockUnguarded`). `Spawn` creates the threads one by
one while those before work already; `SpawnFail` is `emplace_back` throwing, which
unwinds the block and joins, but does not set `failed`: the threads that exist
finish all jobs first, and `Unwound` waits for them. The result of call `i` is `i`
itself, so a value at a wrong place is visible. `threw` is a history variable.

`MapOutcome` is the promise: a job completes or fails in one step, and the call
returns everything, rethrows a failure, or gives up for lack of a thread.
`ImplementsMapOutcome` is the refinement, with `value <- result` and the
exception visible only at the end.

### RowPermutations and RowOrder

A column is a function from rows to particles, and a particle is its row in the
source file, so "the velocity of row r belongs to the particle of row r" is an
equation between columns. The actions follow `compress`, `decompress` and
`compute_metrics` statement by statement:

| Action | Code |
| --- | --- |
| `InferStructured`, `PrepareLayout` | `pipeline.cpp:400-418`, `438-466`; whether `infer_lattice` accepts is open, duplicate IDs excepted |
| `CanonicalByPosition`, `CanonicalById`, `CanonicalAsRead` | `420-437`; a triplet codec returns any order |
| `EncodeFields`, `EncodeVelocities`, `EncodeBlockwise` | `531-628`; chunk-local orders of any codec |
| `Damage` | one entry of the sidecar changes on disk, to a valid or invalid index |
| `DecodeFields`, `RestoreOrders`, `RejectOrders`, `InvertHybrid` | `726-831` |
| `LegacyPackage` | the `order` sidecar of an older writer, which `restore(1, "order")` still reads |
| `Align...` | `metrics.cpp:52-104` |

Codecs are external: they reorder or they do not, and the values are as good as
the particle's. What is abstracted: positions and velocities are one column each
(the three fields of a group are always reordered together, and a fieldwise
field goes through the same code for each of the three); the position's
contribution to the hybrid key is a cell number chosen freely per particle, and
the part of the key that comes from the ID distinguishes IDs (the Morton code of
a lattice site is injective up to the 10 bits that `validate_structured`
enforces); the decoded positions that `compress` uses for the key are the
stream's content, as `pipeline.cpp:428` decodes it again. `encode_blockwise` is
taken together with `decode_blockwise`, as restoring every value to its row;
`BlockwiseOrder` opens it (`RowsRestored` is what `RowOrder` assumes). Inside
one roundtrip the temporary order artifact always exists when `compute_metrics`
runs, so `AlignBySort` and `AlignByLookup` are reached through the library
function only, on a package whose raw files were cleaned.

### Package

The state is, for every file, the number of the command whose input it holds
(its *generation*), `Partial`, or `None`, together with the manifest on disk
(generation, whether compressed fields are listed, whether `reconstructed.h5` is
named) and the running command. One statement that writes is one action, named
after it; `preprocessed/` and `decompressed/` count as one file each, the streams
are told apart. `Inputs` are the kinds of input a command may be given: a native
snapshot is first copied to `input_adapters/<input>.h5` (`WriteAdapter`, between
`CheckManifest` and `CheckOutputs`, by `write_hdf5(adapter, source, true)`), a
directory with `--merge` becomes `merged.h5`, an HDF5 file is neither. That
two native inputs of different names have two copies is left out: there is one,
which every native input replaces. The streams are written in any order, which
allows more than the code does. Four manifests are written by a roundtrip (`pipeline.cpp:326, 694,
875, 907`). At every statement a command may throw (`Throw`), be killed or find
the disk full (`Break...`), which leaves a half-written file or a half-removed
directory. `Put` and `PutManifest` also allow the failure nobody sees: the
`ofstream` is tested before its destructor flushes it (`json_io.cpp:147`,
`data.cpp:160`), so the command goes on; the history variable `unseen` marks it.
Assumptions about external code: HDF5 reports a failed write, a truncated stream
does not decode, `rename` is atomic.

The commands of a directory run one after the other. Two at a time, as an orphan
of a killed batch and its successor would be, are in `Batch`, which does not look
into the package.

### Batch

`child[r][f]` is the process for file `f` of the `r`-th batch in the same
directory: it runs the pipeline, reads its report, opens (truncates), writes and
closes `.batch-result.json`, and exits with 0 or 2; `Kill` ends it anywhere. The
parent's loop is `Launch`, `Wait`, `Collect` (or `CollectThrows`), `OpenSummary`,
`WriteSummary`. `Collect` is one step although it is `exists`, `read_json` and
`remove`: only a process of an earlier batch could come between them, and the
content it could leave is among those the model has already. `Restart` starts the
batch again with `--force`; children of a batch whose parent was killed or threw
go on meanwhile, and share the work directory. `handle` says whether a process
writes into the file that is in the directory or into one that was removed;
`Contended` lets two writers of one file leave a mixture. `quiet` is a history
variable.

`RunThrows` and `RunReturns` stand for the pipeline: `Package` is its detail, and
`BatchSummary` is the detail of `WriteSummary`. Not modelled: `EINTR`, a directory
that changes during the batch.

### TripletEncoder

One chunk is one job of `parallel_map`; a step is one attempt of `encode_native`
(compress, decompress, measure), so the attempts of different chunks interleave.
The codec leaves any error of `Errors` or throws. `Retry` and `Refuse` are the end
of the loop body: positions change from the first to the cube quantizer once, then the
bound shrinks by the excess or by 1 %, and the chunk is refused when nothing is
left. When `parallel_map` has returned (`MapOutcome`'s promise: all values or the
first exception), the join passes over the chunks, compares their settings with
those of chunk 0 and stores them. Bounds are whole numbers of which `Requested`
are 100 %; `Infinite` stands for a non-finite result.

### ChunkContainer

A stream is a size and a map from offsets to 64-bit words and intact payloads; a
word read at any other offset is arbitrary (`Junk`), as payload bytes are.
`EncodeChunk` frames a chunk, `EncodeBatch` the batch segments that another writer
of `LCPCHK2` makes and the decoder still reads. One word, payload, the magic or
the size is damaged, then `decode_triplet` runs statement by statement with
subtraction modulo `Modulus`, so a wrap-around is visible.

### BlockwiseOrder and Huffman

`BlockwiseOrder`: LCP writes the rows block after block, in any order of the
blocks and of the rows inside each (`Compress`). `PackBlock` appends the bits of
one block, the place of every written row among the rows of its block with as many
bits as the block's population needs, and `PackDone` fills the last word. One block
ID, one bit or the number of words is damaged; `Check`, `DecodeBlock`,
`RejectBlock` and `DecodeDone` are `decode_blockwise` with all its checks.

`Huffman`: a node of the queue is its frequency, its smallest symbol, its serial
number and, instead of its children, the depths of the leaves below it, which is
what the walk at `huffman.cpp:83-95` computes. `Merge` joins two nodes. `canonical`
is called on both sides, one entry per step: `AssignCode` fills the next code up to
the entry's length and increments it, `RejectCode` is its exception. `Write` joins
the codes; the table, a bit or the bit count is damaged; `ReadTable`, `CodesDone`
and `ReadBit` decode bit by bit, and a walk through the trie is the set of codes
that begin with the bits read since its root (`InTrie`, `Leaf`). Bits are sequences
of 0 and 1. `Shortest` and `TableJudged` compare with reference definitions: all
lengths that satisfy Kraft's inequality, and the sum of that inequality.

### ErrorBudget

One group of fields from `selection` to `compute_metrics`. Lengths are whole
numbers of a small unit, measured after the division by `position_scale`: integers
of the source lie `Unit` apart, the floats codecs work on `Grid`, and the values of
a floating-point source `step`, one of `Steps`. A step that divides `Grid` stands
for doubles; `Grid` itself for float32 without a scale; any other for float32
positions with `--position-scale`, whose values divided by the scale lie between
the floats. A cast chooses one of the nearest floats, a codec any value within its
bound. `Restore` is `pipeline.cpp:841-865`: positions of a lossy codec are
multiplied by the scale and rounded to the nearest value of the source's dtype,
whole for integers, which are then clamped, and a float for floating-point sources.
`Judge` compares with the tolerance of `metrics.cpp:170` and `213`, the part
`Slack` of the larger of 1 and the bound. `sz3` and `szo` are used alike.

Two simplifications: the arithmetic of doubles is exact, and the values of a dtype
are evenly spaced. The second is exact for the floats between two powers of two; a
field that spans several has the largest of its spacings as `step` where the
properties name an error.

### LatticeBox, LatticeResidual, SpaceCurves, ShapedSearch

The parts of the lattice and structured layouts. `LatticeBox`: `infer_lattice`
finds the smallest periodic box per axis (largest gap), `lattice_encode` scatters
and fills holes with the running index, `load_lattice` and `lattice_decode` take
the field out again; the score that chooses the ID base is left open.
`LatticeResidual`: one coordinate of one particle, its distance from the site
around the period, the number of turns, every rounding to float and the guard
taken off the bound. `SpaceCurves`: a walk along the Hilbert curve that decodes
every place to an ID and encodes it again. `ShapedSearch`: the trials of
`encode_shaped` with any lengths of the streams, damaged metadata, and
`decode_shaped`.

### ManifestSize, JsonText

`ManifestSize` iterates `update_sizes` with an arbitrary function from the listed
size to the length of the text, discovered as it is asked for. `JsonText` renders
a nested value to characters, cuts the text anywhere or appends a character, and
reads it with `Reader`; what `Package` and `Batch` call `Partial` is such a cut
text.

### Merge, FieldSearch, BatchSummary

`Merge` reads one snapshot (with `--limit`) or all of a directory: the pairs of
`cfg` and `dat` files, their size checks and seven reads, the checks of
`read_hdf5`, the comparison of schemas, the joined columns, the duplicate test,
and the counters written into attributes of a fixed width. A value is the
particle it belongs to. `FieldSearch` is one level below: which dataset of a file
becomes which field, and that `write_hdf5`'s output is read the same way; of the
refusals of `read_hdf5` it has only the one for a field that is not found, and
`Merge` the one for columns of different length. The refusals of datasets with
several dimensions, of floating-point IDs and of integer velocities
(`hdf5.cpp:230`, `238`, `240`) depend on one dataset alone and are left out.
`BatchSummary` adds up the results of files of every outcome, whose reports are
manifests or `metrics.json`. The sizes in it are those a report has:
`metrics.json` copies them before the last `update_sizes` of the manifest
(`pipeline.cpp:895-907`), so its sums may differ from the sizes on disk by what
that update changes in the length of the manifest.

## 3. What the runs check

| Run | Bounds | What it shows |
| --- | --- | --- |
| `parallel_map` | 4 jobs, 3 threads | `SlotsExclusive`, `FirstErrorKept`, `ImplementsMapOutcome`, `Terminates` |
| `row_order` | 3 particles, 3 IDs, 2 cells, chunks of 2 or none | `RowsAttached`, `NoRowLost`, `MappingKept`, `MetricsAligned` |
| `package` | 2 streams, 3 commands, native and merged inputs | `OneGeneration`, `ArtifactOfPackage`, `NothingOverwritten`, `ReportOfPackage`, `DecompressKeepsPackage`, `SuccessIsWhole` |
| `batch_pool` | 3 files, 2 workers, 1 batch | `PoolBounded`, `StatusHonest`, `BatchEnds` |
| `batch_rerun` | 1 file, 3 batches | `SuccessIsEarned`, `ReportsFresh` |
| `batch_truncated` | 1 file, 1 batch | `FailureReflected` is violated, see below |
| `chunk_settings` | 3 chunks with 3 errors of a codec | `StoredSettingsFit` (of `TripletEncoder`) |
| `streams` | 1 stream with 6 errors | `RetriesEarned` (of `TripletEncoder`) |
| | up to 5 values of 2 bits | `ShortestCode`, `DamageJudged` (of `Huffman`) |
| `files` | 3 rows, words modulo 256, 3 payload lengths | `EntriesInStream`, `DecodedAsFramed` (of `ChunkContainer`) |
| | 6 lengths, 10 rounds | `SizesAreTrue` (of `ManifestSize`) |
| | 2 files, 3 kinds of package | `SummaryIsTrue` (of `BatchSummary`) |
| | up to 3 files, 3 IDs | `SnapshotsJoined` (of `Merge`) |
| | up to 4 datasets in 4 groups | `FieldsFound` (of `FieldSearch`) |
| `error_budget` | 2 components, 2 particles, 3 spacings of the source | `RequestKept`, `VectorKept`, `VerdictFair` |
| `layouts` | period 24, 5 sites, floats 3 apart | `LatticeKept`, `ResidualShort` (of `LatticeResidual`) |
| | side 5, up to 4 particles | `BoxSmallest`, `FieldKept` (of `LatticeBox`) |
| | boxes 1x3x2 and 2x1x2 | `ShapedKept` (of `ShapedSearch`) |
| | 5 rows, 3 blocks, words of 4 bits | `OrderKept` (of `BlockwiseOrder`) |
| `encodings` | two members, depth 2 | `OnlyWholeRead` (of `JsonText`) |
| | sides 2, 3, 4, 5, 8 | `CurveComplete` (of `SpaceCurves`) |

Components without common state share a run where they serve one subject:
`MCFiles`, `MCLayouts`, `MCTripletCodes` and `MCEncodings` choose in the initial
state (`part`) which component the behaviour is about, and the others keep their
idle values. The
reachable states are the disjoint union of those of the components, and nothing
is said about their interaction. Their
properties are conjunctions that each module defines at its end:

| Property of a run | Conjuncts, defined in the module |
| --- | --- |
| `DecodedAsFramed` | `FramingChecked`, `Undamaged`, `AcceptedWhole` |
| `OrderKept` | `RowsRestored`, `EveryParticleOnce`, `SidecarChecked` |
| `ShortestCode`, `DamageJudged` | `RoundTrip`, `Shortest`; `TableJudged`, `AcceptedReencodes` |
| `ResidualShort` | `ShorterWay`, `InsideAccepted` |
| `FieldKept` | `CellsOwned`, `HolesBetween`, `FieldRestored` |
| `CurveComplete` | `CodesInvert`, `EveryIdHasACode`, `CurveUnbroken` |
| `ShapedKept` | `CellsBack`, `SearchWhole`, `CellsOnce`, `AxesJudged` |
| `SnapshotsJoined` | `RowsWhole`, `MergeExact`, `CountsTrue`, `MergesCompatible` |
| `FieldsFound` | `SpeciesTogether`, `FoundByFirstAlias`, `ReconstructionReadAlike` |
| `SummaryIsTrue` | `GroupsAddUp`, `WholeOrNothing`, `CountedOnce` |
| `SizesAreTrue` | `SettledIsExact`, `RecordedNearActual`, `GivesUpInCycle` |
| `OnlyWholeRead` | `ReadsBack`, `CutRejected`, `LongerRejected` |
| `RetriesEarned` | `AttemptsDiffer`, `RefusalEarned` |

Why the bounds are enough. Three threads are needed for one to catch while
another waits for the lock and a third claims; four jobs give every thread one
and leave one to be claimed after a throw. Three particles give orders that are not their own
inverse, chunks of two leave a chunk of one (the short tail), three IDs allow all
of them to be equal, two, or distinct. Three files and two workers make the
parent wait before the last launch; children of two different batches and the
leftovers of a third need three batches, and files of one batch do not share
anything, so one file is enough there. Three commands are a package, the command
that replaces it and is cut off, and the one that reads what is left; two streams
are enough for one to be old and one new. The run of `Package` uses the symmetry
of the streams, whose names no definition mentions.

The six errors of the single stream in `streams` let an attempt fit, miss by less
than the 1 % step, by more, by more than the bound, or be non-finite, so that each
of the six attempts can be the last; the three chunks of `chunk_settings` give the first, a middle
and the last one settings of their own. Three rows with chunks of one to three make
one to three entries, batch segments among them, with a short tail; 33 bytes are
a payload long enough for its length word to be misread as two more entries, and
255 the word whose addition wraps. Five rows in three blocks give populations of
one (no bits), two and three (a bit pattern that is no place). Five Huffman
values of four symbols are the fewest with a code of length three, and
`MaxValues` also bounds the lengths a damaged table may claim; side 5 is the smallest with
gaps of different length on both sides of the border, and four particles leave
holes before, between and behind. Sides 3 and 5 are no powers of two, 8 needs
three digits. Two members nested once beyond the limit reach every state of the
reader. Six lengths are more than one cycle and fewer than the ten rounds that
`GivesUpInCycle` needs. In `error_budget` a unit is no multiple of the grid, so
casts cost something, and the bounds lie below, at and above that cost; two
components are enough for one to drive the common bound. The spacings 1, 3 and 4
beside a grid of 3 are doubles, float32 without and with a scale; with `One` 1 and
`Slack` 4 the tolerance of the metrics is 0 for the two smaller bounds and more
than half a spacing for the largest, so a dropped rounding is tolerated in some
states and not in others. Three files are needed
for an ID to be equal in two that are not neighbours. Four datasets are two
fields of two species.

Apart from `Commands` of `Package` and `Runs` of `Batch`, which count commands and
batches, the modules have no bound but the size of their data: every behaviour
ends. Deadlock is checked in every run; the states in which everything is done
stutter (`Finished`, `Ended`, `Stopped`, `AllDone`).

**Fairness.** `ParallelMap!FairSpec` is weak fairness of each thread, the
operating system's scheduling; it assumes that a call of `function` ends and that
a thread waiting for the mutex gets it, for which weak fairness is enough here
because every thread takes the lock at most once per failed call. It is not
assumed that threads can be created or calls succeed. `Batch!FairSpec` is weak
fairness of the parent's and each child's own steps; kills, restarts and the
parent's death are never forced. Nothing depends on strong fairness.

**Disagreement found.** `batch_truncated`: a child killed between opening and
finishing `.batch-result.json` leaves a truncated file. The parent's `read_json`
at `batch.cpp:245` throws outside any handler, so that the batch ends without a
summary (an old `batch_metrics.json` stays) and without waiting for its other
children. The regression test says at `tests/runtime_interop.py:51` "A failed
child is reflected in the batch summary and process status."; the process status
is 2, the summary is not written. The shortest counterexample has one file:
`Launch`, `RunThrows`, `OpenResult`, `Kill`, `Wait`, `CollectThrows`.

**What the code does not promise.** `decompress` rewrites `manifest.json` in place,
twice, so a kill at that moment makes a good package unreadable;
`DecompressKeepsPackage` allows that and nothing else.
`preprocess` writes the HDF5 copy of a native input with `force` set
(`pipeline.cpp:146`). A command without `--force` therefore replaces a copy that a
failed command left before it wrote a manifest, and a command with `--force`
replaces the copy of a good package before the other outputs and the bounds are
checked, unlike what the comment at `pipeline.cpp:316`, "Validate every output
before replacing an existing package", says of the rest. `NothingOverwritten`
names the first case as its exception: the copy may be replaced where no manifest
refers to it, and a package without `--force` is safe, copy included.
`SuccessIsWhole` excludes unseen flush failures. `ReportOfPackage` is about
`roundtrip`, the only command that removes the old `metrics.json`; after
`compress --force` the old report and the old `reconstructed.h5` stay, though the
manifest no longer names the latter (`ArtifactOfPackage`). `ReportsFresh` needs
that no child of an older batch was alive at the start.

While modelling the values, containers and inputs we also met the following; the
properties are stated so that they hold, and no doc says otherwise:

- the metadata of a chunked stream keep `validated_max_l2_error` and
  `compression_attempts` of chunk 0 only (`triplets.cpp:181`);
- a damaged length of an inner entry is noticed only as far as the bytes it then
  points at do not look like an entry (`FramingChecked`, `AcceptedWhole`);
- an absolute bound of positions is a bound of the codec: cast and rounding come
  on top (`RequestKept`); a relative bound smaller than they are gives the codec
  bound 0, and one flat axis does so for the shared bound of lcp velocities;
- with `--position-scale`, positions of a floating-point source are multiplied and
  rounded to the source's dtype once more by decompress (`pipeline.cpp:848-857`).
  The allowance for rounding is 0 for them (`pipeline.cpp:211`), so a relative or
  a vector bound that the codec has spent is exceeded by up to half a spacing of
  the dtype per component (`Lost`), and metrics report a miss when that is more
  than their tolerance. `RequestKept`, `VectorKept` and `VerdictFair` say that
  this is the whole excess, for these fields, and that no other field has any;
- the default relative bound wins over `--abs-eb` unless it is set to null;
- when the size of the manifest has not settled after ten rounds, the sizes on
  record are off by the difference of the text's lengths (`RecordedNearActual`);
  the sizes in `metrics.json` are those of the manifest before its last update;
- a changed `axis_flips` of a shaped field is accepted and mirrors the box
  (`AxesJudged`);
- `merge` keeps the mutable attributes of the first file, compares root
  attributes in the order of their creation, and checks only integer counters
  against their width (`CountsTrue` is about those);
- `read_hdf5` may take fields from different groups when groups are nested, or
  name their fields by different aliases (`SpeciesTogether` says when not);
- file names that are equal but for leading zeros of a number have no defined
  order, and numbers of more than 30 digits are ordered as text (`batch.cpp:22`).

## 4. What is proved

All theorems hold for every value of the constants that the modules' named
assumptions allow (naturals, and values that differ from them).

**`ParallelMapProofs`.** The inductive invariant `MapInv` joins the type
invariant with five parts: which helpers exist (`CreationInv`), that every index
below the counter has its result, its exception or a thread inside its call
(`ClaimInv`), who holds the lock (`MutexInv`), that a throw not yet recorded is
still being caught (`ErrorInv`), and that the caller returns only after the joins
(`ReturnInv`). None of the properties is inductive alone: `OutcomeFaithful`
needs that a finished thread has seen the counter past the end or the flag, and
with `ClaimInv` that nothing is then missing. `Invariance` gives `TypeCorrect`,
`SlotsAreExclusive`, `OutcomeIsFaithful`, `NobodyOutlivesTheCall`;
`FirstErrorIsKept` is the action property from the same invariant: `error` is
assigned one step after it was found empty, and stays empty in between because
`MutexInv` puts nobody else between the lock and its release; `Implements`
shows that initial states map to initial states and every step to a step of
`MapOutcome` or a stutter.

**`RowOrderProofs`.** `RowInv` says, for each stage, which rows every column and
every stream holds: `Canon` before the layout, `VelRows` for the velocities after
it, and that a stream `Yields` its rows once its sidecar is undone. There is one
lemma per action. The theorems `RowsStayAttached`, `RowsAreNeverLost`,
`PackagesAreAccepted`, `MappingIsKept` and `MetricsStayAligned` follow from it;
`RowsAreNeverLost` holds for damaged packages too, because whatever passes
`restore` is a permutation. Two theorems are about the operators alone.
`StableOrderSorts`: the rank function of a key is a permutation of the rows, and
its inverse sorts them, stably; it rests on the cardinality of initial segments,
not on induction over data. `AcceptedSidecarIsOrder`: a sidecar that passes the
range test and the duplicate test of `restore` is a permutation, for every chunk
size and particle count, the short last chunk included (an injection of a finite
set into itself).

**`TripletEncoderProofs`.** `EncoderInv`: each chunk's attempts are a chain in
which every attempt missed and its settings follow from the one before (the
quantizer changes at most once, then the bound strictly falls, `OrderInv`), what a
chunk returned or threw agrees with its last attempt (`ValueInv`, `ThrewInv`), and
what the join has passed agrees with what it stored (`JoinInv`).
`NoAttemptRepeated` needs the chain, because two attempts that are not neighbours
must differ too; `StoredFits` needs the join together with every chunk's last
attempt. `RefusalsEarned` reads off the same chain that a refused chunk used up
its attempts or its bound, and `RetriesAreEarned` is the conjunction that the run
checks.

The second half of the module is about `Huffman`, under the specification
`TripletSpec` that the run checks. Two invariants are proved:

- `CodesInv` says, per stage, what the encoder and the decoder have. While nodes
  are joined they are a forest (`Forest`): finitely many, over disjoint sets of
  leaves that together are all symbols, no leaf deeper than the joins so far
  allow, and the leaves of each exactly fill its code space (`NodeIs`), which is
  why the encoder's own table is never refused. While codes are assigned
  (`CanonInv`), read as binary fractions they lie side by side from 0 in the order
  of the entries: the code of an entry begins where the room of those before it
  ends, `following` is the end of the room spent, and `overflow` holds exactly when
  all of it is (`IncrementIs`). From this follow both halves of `TableJudged`: the
  table is refused exactly when the lengths exceed the space, and since intervals
  do not overlap no code begins another (`CanonicalPrefixFree`). While bits are
  read (`ReadingInv`), the values so far, encoded again, and the bits since the
  root of the trie are the bits read; at the end that is `AcceptedReencodes`. For
  an undamaged stream the values so far are the first of the array and the path in
  the trie is a proper beginning of the code of the next (`Follows`), so no bit can
  be refused: `RoundTrip`.
- `CostInv` is the optimality. `Bounded(heap)` holds while nodes are joined: for
  all lengths of the symbols that fit into the code space there are lengths for the
  nodes of the queue that fit and, with what lies below the nodes, cost no more.
  The step is the exchange argument. Any lengths can be changed, at no cost, so that
  two nodes share the greatest length (`TwoLongest`: the Kraft sum of all the others
  is a multiple of the next larger room, so a lone deepest node leaves room to be
  raised), these may be the two lightest (`Exchange`), and one bit less gives a
  length for the joined node (`BoundedJoined`). When one node is left
  the depths are of least cost (`OneTreeBest`), and the bits written are that cost
  (`EncodedCosts`: counting by position equals counting by symbol).

`DamageStaysJudged` and `StreamStaysShortest` follow for every array, every range
of values and every size of a byte. `Shortest` ranges over lengths up to
`MaxValues`; a longer one never helps, since at most `MaxValues` symbols occur.

**`ErrorBudgetProofs`.** `BudgetInv` follows the error of a value through the
stages: at most `cast` after preprocess, at most the given bound more after the
codec, at most `Rounding` and `Lost` more after decompress, with what is given
at most what remains of the request. That `Lost` is 0 for doubles and for floats
without a scale is `NearestIsSame`: what the codec returned is then a value of
the source's dtype already, and the rounding changes nothing
(`RestoredFromDecoded`). `IntegersAreTight` also needs that restored integers
are multiples of the unit. `RequestsAreKept` covers lcp, sz3 and szo for one
component. `VerdictInv` adds what the vector and the verdict need: that the
codec keeps the vector bound before preparation (`VectorInv`), that pcodec
changes nothing (`LosslessInv`), that no codec is given more than the manifest
records (`GivenInv`), and what each verdict compared (`JudgedInv`).
`VectorsAreKept` then adds the error of the preparation and of the codec as
vectors: `InnerProductBounded` is the inequality of Cauchy and Schwarz in three
dimensions, by Lagrange's sum of squares, from which `LengthsAddUp` gives the
triangle inequality on squared lengths; the last rounding is taken off every
component first (`BeyondWithinVector`). `VerdictsAreFair` reads the same
invariant backwards: if the metrics report a missed bound although every codec
kept what it was given, the bound was relative and smaller than the cost of the
preparation, or the last rounding of scaled positions is beyond the tolerance;
for a vector, `BoundsAddUp` adds the tolerance to the length.

**`LayoutProofs`.** One invariant per part of `MCLayouts`.

- `ResidualInv`. `LatticeKeepsBound`: what the guard takes off covers the two
  roundings to float of the decoder and the measured error of the encoder,
  wherever the residual lies around the period; `Decomposed` shows that distance,
  site and turns give the position back. `ResidualIsShort`: the residual is the
  shorter way around, and a position inside the box is never refused.
- `BoxInv` (`IdsInv`, `InferredInv`, `FilledInv`). `BoxStaysSmallest`: wherever a
  box starts, to hold the IDs it must reach to within the largest gap of the whole
  period (`AnyReaches`), and the box that starts behind that gap reaches no farther
  (`BehindGap`). `FieldStaysKept`: the
  cell of an ID is a number with the box's sides as mixed radix, so different IDs
  have different cells (`CellsDiffer`), and filling the holes writes only cells
  that no particle has.
- `ShapedInv`. `ShapedStaysKept`: a transposition by any axis order and directions
  is a bijection of the cells (`TransposeIs`), `next_permutation` and the eight
  directions leave no trial out (`NextPermutationIs`, `FlipsAreLeft`), and `best`
  is the smallest of what was tried. Metadata that pass the checks of
  `decode_shaped` name a bijection, so damage mirrors or permutes the values and
  loses none (`AcceptedIs`).
- `BlockInv`. `OrderStaysKept`: there is an assignment `o` of blocks to rows, the
  one before any damage, to which the stream belongs (`StreamOf`: the populations of
  the blocks add up to all rows, and the rows of every block stand together). `Holds`
  says that the bits at a block's place are the digits of its rows' places, for
  every block packed so far; `BitsAre` and `FromBitsType` show that digits of a
  number below a power of two give the number back and that any digits give one
  below it, `WidthIs` that the width is large enough, `PaddedIs` that padding is
  less than a word. While the decoder runs (`Progress`), each block it passed has
  the population the stream announces, the rows passed hold exactly the particles
  of the stream so far, each once, and without damage each its own. A block whose
  places passed the two tests names every row of it once (an injection of a finite
  set into itself). A changed ID makes two populations disagree with the stream,
  whichever of the two blocks comes first, so it never ends accepted.

**`FileProofs`.** One invariant per proved part of `MCFiles`.

- `ChunkInv`. While the stream is written, its entries form a chain (`Chain`:
  each begins where the one before it ends; `Framed`, `Limited`: in the stream
  and below the modulus). While it is read, `ReadInv` says that the reader's
  offset lies in the stream, whatever was damaged: `EntriesStayInStream` follows,
  and the subtraction in the size test cannot wrap. `StreamsAreFramed` needs what
  the reader has passed: until it meets the damage it is at an entry of the chain
  with the rows of the entries before it (`Straight`, `Counted`), a damaged
  header, word or size is met before the frame is complete, and a payload is at
  its own place (`InPlace`).
- `SizeInv` (`WalkInv`, `RoundInv`, `SettledInv`). `SizesStayTrue`: the
  walk over the listed sizes follows the lengths of the text. When it settles the
  two agree; when it gives up after more rounds than there are lengths, the sizes
  it has seen are closed under the walk and none of them is its own length, which
  is a cycle.
- `FieldsInv` (`VisitInv`, `FoundInv`, `WrittenInv`). `FieldsAreFound`: what the
  visit keeps of a name is the path last visited, and of the groups that have the
  same names the one that sorts last has the last path of every name
  (`LastGroupWins`); a file that `write_hdf5` wrote has one path per name and is
  read alike.
- `MergeInv` (`InputsInv`, `RowsInv`, `OwnIds`). `SnapshotsAreJoined`: `InOrder`
  describes the joined rows without counting (each row is followed by the next
  of its file or the first of a later one); two equal IDs are adjacent in sorted
  order (`EqualIdsMeet`, by ranks), so a test of neighbours finds every overlap;
  a counter that fits the dtype is stored whole (`CounterIs`).
- `SummaryInv` (`GivenInv`, `TotalsInv`, `GroupsInv`, `ListingsInv`, `BatchInv`).
  `SummaryStaysTrue` needs the theory of sums over finite sets. The library
  defines them by a recursive function on sets that takes an arbitrary element
  first; `IterationExists` and `IterationsAgree` show that the function exists and
  is unique, `TotalTakes` that any element may be taken first, `TotalOfGroups`
  that groups which partition a set partition its sum.

Induction over data is replaced by the least counterexample throughout: a set of
naturals without a least element is empty (`LeastNatural`), from the
library's theorem that `<` is well-founded. The recursive functions of the
library's folds are ordinary functions and can be expanded, and so are the powers
and sums of `BitNumbers`: `RecursionExists` constructs the function a recursion
describes, once, and `PowersAre` and `SumsAre` apply it. Its sorting operator
and its function combinators `@@` and `:>` cannot be reasoned about by the
provers, so the models state sorted orders by ranks. Some lemmas on natural
numbers and on sums over finite sets are stated in two proof modules:
the modules would have to share one that extends none of their variables.

**`BatchProofs`.** `BatchInv`: which children of the current batch may live
(`PoolInv`, which gives the bound from the cardinality of `active`), that a
launched file that is no longer awaited has ended (`SettledInv`), where a success
comes from (`EarnedInv`, `HonestInv`), who has a result file open (`LedgerInv`),
and, while no older child lives, which content a result file can have
(`FreshInv`). `ReportsFresh` is not inductive without the last two: the content
of the file is decided several steps before it is collected.

**`PackageProofs`.** `PackageInv` has one part per thing that a later statement
relies on: which commands reach a statement (`CommandInv`), how old the manifest
on disk and the streams beside it are (`GenerationInv`), that the manifest in
memory agrees with it (`MemoryInv`), what was tested before it is replaced
(`UntouchedInv`; for the copy of a native input that is the manifest only),
which report may be found (`ReportInv`), what a decompress carries
(`CarriedInv`) and what was written without an unseen failure (`WrittenInv`).
All are checked by TLC on the instance of `MCPackage` first. The proof has one
lemma per action, and the actions that throw or break off are proved for every
statement at once.

The assumptions are the modules' named `ASSUME`s; TLC evaluates them in the runs
(those of the modules that `MCFiles`, `MCLayouts` and `MCTripletCodes` instantiate
are definitions which these assume). Beyond types they say:

- `ChunkContainer`: a whole stream is shorter than the modulus of `size_t`;
- `ManifestSize`: the lengths of the manifest's text are finitely many, and there
  are at least two rounds (the code has ten);
- `ErrorBudget`: a group has at most three components;
- `LatticeResidual`: the period is even in the unit of the model, which makes
  half a period a number of the model;
- `Merge`: the row a torn read leaves is no row of a file;
- `FieldSearch`: no name is an alias of two fields, and no dataset is a group;
- `BlockwiseOrder`: there is at least one row, and finitely many blocks (LCP's own
  order and its block numbers are external: any order that keeps the rows of a
  block together, any numbers);
- `Huffman`: sizes are positive; the check `n > 255` of a length
  (`huffman.cpp:24`) is left out, since no array of the model is that long;
- `BatchSummary`: the files under `compressed/` are those the program writes
  (`pipeline.cpp:191`, `304-311`, `578`, `610`), since `update_sizes` lists
  whatever is there, while the groups know only these names; and `null` is neither
  a group's name nor the groups.

Some theorems state more than the runs list, because
a theorem for every instance makes the run superfluous: type correctness,
`OutcomeFaithful`, `JoinedBeforeReturn`, `OnlyDamageRejected`,
`SettledBeforeSummary`, `NeverMixed`, `MergedIsWhole`, `IntegersTight`.

**Only model-checked.**

- The liveness properties `Terminates` and `BatchEnds`: fairness and ENABLED are
  out of the prover's reach.
- `OnlyWholeRead` of `JsonText` and `CurveComplete` of `SpaceCurves`: recursive
  operators and bitwise operations, which a module with a proof may not reach.
- `FailureReflected`, which the code violates.

## 5. Not modelled

- The codecs (pcodec, SZ3, SZO, LCP, XnYZip) are external and, as submodules, not
  in the repository: the models let them do all their contract allows.
  `codecs.cpp` and `szo_profile.cpp` call them and pad short fields to 10000
  values by repeating the last one, without state or decision of their own. The
  norm that XnYZip's validation measures is one number of the model.
- Floating-point statistics: RMSE, PSNR, correlations, ratios, times and medians,
  and the score by which `infer_lattice` chooses axes and ID base (the models
  allow every choice). Bounds and rounding are modelled in whole units.
- Bytes of numbers: conversions between dtypes and HDF5 attributes, which the HDF5
  library makes. Widths are modelled where a counter can overflow them.
- Parsing of the command line and YAML, the sort by natural names.
- Which exception type a library call raises (`pipeline.cpp:415`).
- Vendored code: HDF5 under `src/tools`, nlohmann JSON and CLI11 are more than
  99 % of the lines in the repository and third-party libraries, not this
  program. The definitions map about 70 % of the 3883 lines of the program itself
  (`src/src`, `src/include/particle`), and hence less than 1 % of all lines; more
  of the repository could only be covered by modelling those libraries.

## 6. What is left

1. `BlockwiseOrder` shown to refine the step `EncodeBlockwise` of `RowOrder`
   (`RowsRestored`, which is proved, is what that step assumes).
2. `OnlyWholeRead`: the reader of `JsonText` as functions on positions instead of
   recursive operators, so that a module with proofs may use it.
3. `CurveComplete`: the digits of `SpaceCurves` as functions instead of bitwise
   operations; `CodesInvert` needs only that one pass of the state is invertible.
