------------------------------- MODULE Package -------------------------------
(***************************************************************************)
(* The files of one work directory over a sequence of commands: run,       *)
(* preprocess, compress and decompress of src/pipeline.cpp, merge of       *)
(* src/batch.cpp, and the file operations of data.cpp, json_io.cpp and     *)
(* hdf5.cpp they use.  What is in a file is only the number of the command *)
(* whose input it holds, its generation.                                   *)
(*                                                                         *)
(* One statement that writes is one step.  A command can throw, and its    *)
(* process can be killed, before or inside every statement: the file that  *)
(* was being written is then left half written.  write_bytes and           *)
(* write_json leave the last flush to the destructor of their ofstream:    *)
(* when that fails, nobody sees it and the command goes on.  HDF5 is       *)
(* external, and is taken to report its failures.                          *)
(***************************************************************************)
EXTENDS Integers

CONSTANTS
  Streams,   (* the files under compressed/                                *)
  Commands,  (* bound: how many commands are run                           *)
  Inputs,    (* what they may be given: an HDF5 file, a native snapshot of *)
             (* two files, a directory that --merge makes one file of      *)
  None,      (* no such file                                               *)
  Partial    (* a file that is only partly written                         *)

(* The other files: the HDF5 copy of a native input under input_adapters/, *)
(* the rows under preprocessed/ and decompressed/, the merged snapshot and *)
(* its temporary, the result and the report.                               *)
Others == {"adapter", "preprocessed", "decompressed", "merged", "merging",
           "reconstructed", "metrics"}
Files == Streams \cup Others

Gen == 0..Commands
Mixed == 0   (* streams of several generations decoded as one package      *)

VARIABLES
  count,     (* commands started so far: the generation of the last one    *)
  cmd,       (* the options of the last command                            *)
  pc,        (* its next statement, or "idle"                              *)
  status,    (* how it ended, or "running"                                 *)
  todo,      (* the streams compress has still to write                    *)
  m,         (* its manifest in memory                                     *)
  decoded,   (* the generation decompress has decoded                      *)
  file,      (* the files                                                  *)
  manifest,  (* manifest.json                                              *)
  unseen,    (* history: a flush of this command failed unseen             *)
  before     (* history: file and manifest when the command started        *)

vars == <<count, cmd, pc, status, todo, m, decoded, file, manifest, unseen,
          before>>

Names == {"preprocess", "compress", "roundtrip", "decompress"}

(* --metrics exists for roundtrip, an input for all but decompress.        *)
Options ==
  {o \in [name : Names, input : Inputs \cup {"none"}, force : BOOLEAN, metrics : BOOLEAN,
          clean : BOOLEAN] :
     /\ o.metrics => o.name = "roundtrip"
     /\ o.input = "none" <=> o.name = "decompress"
     /\ o.clean => o.name \in {"roundtrip", "decompress"}}

Decodes == cmd.name \in {"roundtrip", "decompress"}

(* `complete`: compressed_fields is not empty.  `rebuilt`: artifacts names *)
(* reconstructed.h5.                                                       *)
Manifest(g, complete, rebuilt) ==
  [gen |-> g, complete |-> complete, rebuilt |-> rebuilt]
Manifests == [gen : Gen, complete : BOOLEAN, rebuilt : BOOLEAN]

ASSUME PackageAssumption ==
  /\ Streams # {} /\ Streams \cap Others = {}
  /\ Commands \in Nat \ {0}
  /\ Inputs \subseteq {"hdf5", "native", "merge"}
  /\ None # Partial
  /\ None \notin Int /\ Partial \notin Int
  /\ None \notin Manifests /\ Partial \notin Manifests

Init ==
  /\ count = 0
  /\ cmd = [name |-> "decompress", input |-> "none", force |-> FALSE,
            metrics |-> FALSE, clean |-> FALSE]
  /\ pc = "idle"
  /\ status = "ok"
  /\ todo = {}
  /\ m = Manifest(0, FALSE, FALSE)
  /\ decoded = 0
  /\ file = [f \in Files |-> None]
  /\ manifest = None
  /\ unseen = FALSE
  /\ before = [file |-> file, manifest |-> None]

Exists(f) == file[f] # None
(* require_output lets the command go on.                                  *)
Allowed(f) == cmd.force \/ ~ Exists(f)

(* write_bytes and write_json: the content is in the file, or part of it   *)
(* is and the failure went unseen.                                         *)
Put(f, content) ==
  \E stored \in {content, Partial} :
    /\ file' = [file EXCEPT ![f] = stored]
    /\ unseen' = (unseen \/ stored = Partial)

PutManifest(content) ==
  \E stored \in {content, Partial} :
    /\ manifest' = stored
    /\ unseen' = (unseen \/ stored = Partial)

-------------------------------------------------------------------------------
(* Mistakes: each operator is the one of its name with one plausible bug,  *)
(* to see that the properties below notice it.                             *)

(* The first manifest is written to memory only.                           *)
WriteFirstManifestLater ==
  /\ pc = "first_manifest"
  /\ m' = Manifest(count, FALSE, FALSE)
  /\ todo' = Streams
  /\ pc' = "streams"
  /\ UNCHANGED <<count, cmd, status, decoded, file, manifest, unseen, before>>

(* The manifest is not asked for before the adapter is written.            *)
CheckManifestNot ==
  /\ pc = "preprocess"
  /\ pc' = IF cmd.input = "native" THEN "adapter" ELSE "check"
  /\ UNCHANGED <<count, cmd, status, todo, m, decoded, file, manifest, unseen,
                 before>>

(* An old report is left alone.                                            *)
KeepMetrics ==
  /\ pc = "drop_metrics"
  /\ cmd.name = "roundtrip" => Allowed("metrics")
  /\ pc' = "preprocess"
  /\ UNCHANGED <<count, cmd, status, todo, m, decoded, file, manifest, unseen,
                 before>>

(* merged.h5 is written in place.                                          *)
WriteMergedInPlace ==
  /\ pc = "merge_write"
  /\ \E content \in {count, Partial} :
       /\ file' = [file EXCEPT !["merging"] = count, !["merged"] = content]
       /\ pc' = IF content = Partial THEN "idle" ELSE "merge_rename"
       /\ status' = IF content = Partial THEN "killed" ELSE "running"
  /\ UNCHANGED <<count, cmd, todo, m, decoded, manifest, unseen, before>>

(* A missing or truncated manifest is not noticed.                         *)
ReadAnyManifest ==
  /\ pc = "read_manifest"
  /\ m' = manifest
  /\ pc' = "decode"
  /\ UNCHANGED <<count, cmd, status, todo, decoded, file, manifest, unseen,
                 before>>

(* decompress takes the manifest by value: run() writes its own again.     *)
WriteThirdManifestByValue ==
  /\ pc = "third_manifest"
  /\ PutManifest(Manifest(m.gen, m.complete, TRUE))
  /\ pc' = IF cmd.metrics THEN "metrics" ELSE "clean"
  /\ UNCHANGED <<count, cmd, status, todo, m, decoded, file, before>>

(* decompress empties compressed/ once it has read the streams.            *)
WriteDecodedMoving ==
  /\ pc = "write_decoded"
  /\ Allowed("decompressed")
  /\ file' = [f \in Files |-> IF f = "decompressed" THEN decoded
                              ELSE IF f \in Streams THEN None ELSE file[f]]
  /\ pc' = "write_hdf5"
  /\ UNCHANGED <<count, cmd, status, todo, m, decoded, manifest, unseen,
                 before>>

(* artifacts of an earlier package are carried over.                       *)
CarryArtifacts ==
  /\ pc = "first_manifest"
  /\ m' = Manifest(count, FALSE, Exists("reconstructed"))
  /\ PutManifest(m')
  /\ IF cmd.name = "preprocess"
       THEN pc' = "idle" /\ status' = "ok" /\ UNCHANGED todo
       ELSE pc' = "streams" /\ todo' = Streams /\ UNCHANGED status
  /\ UNCHANGED <<count, cmd, decoded, file, before>>

-------------------------------------------------------------------------------
Start ==
  /\ pc = "idle" /\ count < Commands
  /\ count' = count + 1
  /\ cmd' \in Options
  /\ pc' = IF cmd'.name = "decompress" THEN "read_manifest"
           ELSE IF cmd'.input = "merge" THEN "merge_check" ELSE "drop_metrics"
  /\ status' = "running"
  /\ todo' = {}
  /\ m' = Manifest(0, FALSE, FALSE)
  /\ decoded' = 0
  /\ unseen' = FALSE
  /\ before' = [file |-> file, manifest |-> manifest]
  /\ UNCHANGED <<file, manifest>>

Goto(label) == pc' = label /\ UNCHANGED <<count, cmd, before>>
Finish == pc' = "idle" /\ status' = "ok" /\ UNCHANGED <<count, cmd, before>>

(* merge(): both outputs are free, the temporary is written, and renamed.  *)
MergeCheck ==
  /\ pc = "merge_check"
  /\ Allowed("merged") /\ Allowed("merging")
  /\ Goto("merge_write")
  /\ UNCHANGED <<status, todo, m, decoded, file, manifest, unseen>>

MergeWrite ==
  /\ pc = "merge_write"
  /\ file' = [file EXCEPT !["merging"] = count]
  /\ Goto("merge_rename")
  /\ UNCHANGED <<status, todo, m, decoded, manifest, unseen>>

MergeRename ==
  /\ pc = "merge_rename"
  /\ file' = [file EXCEPT !["merged"] = file["merging"], !["merging"] = None]
  /\ Goto("drop_metrics")
  /\ UNCHANGED <<status, todo, m, decoded, manifest, unseen>>

(* run(): a roundtrip removes the report of the package it replaces.       *)
DropMetrics ==
  /\ pc = "drop_metrics"
  /\ cmd.name = "roundtrip" => Allowed("metrics")
  /\ file' = IF cmd.name = "roundtrip" THEN [file EXCEPT !["metrics"] = None]
             ELSE file
  /\ Goto("preprocess")
  /\ UNCHANGED <<status, todo, m, decoded, manifest, unseen>>

(* preprocess: the input is read, and there must be no package yet.        *)
CheckManifest ==
  /\ pc = "preprocess"
  /\ cmd.force \/ manifest = None
  /\ Goto(IF cmd.input = "native" THEN "adapter" ELSE "check")
  /\ UNCHANGED <<status, todo, m, decoded, file, manifest, unseen>>

(* write_hdf5(adapter, source, true): with or without --force.             *)
WriteAdapter ==
  /\ pc = "adapter"
  /\ file' = [file EXCEPT !["adapter"] = count]
  /\ Goto("check")
  /\ UNCHANGED <<status, todo, m, decoded, manifest, unseen>>

(* Casts and bounds, and then the other outputs are checked.               *)
CheckOutputs ==
  /\ pc = "check"
  /\ Allowed("preprocessed")
  /\ Goto("wipe")
  /\ UNCHANGED <<status, todo, m, decoded, file, manifest, unseen>>

(* fs::remove_all(work / "compressed"), with --force.                      *)
Wipe ==
  /\ pc = "wipe"
  /\ file' = [f \in Files |-> IF cmd.force /\ f \in Streams THEN None ELSE file[f]]
  /\ Goto("write_rows")
  /\ UNCHANGED <<status, todo, m, decoded, manifest, unseen>>

WriteRows ==
  /\ pc = "write_rows"
  /\ Put("preprocessed", count)
  /\ Goto("first_manifest")
  /\ UNCHANGED <<status, todo, m, decoded, manifest>>

(* The manifest of preprocess: no compressed_fields yet.                   *)
WriteFirstManifest ==
  /\ pc = "first_manifest"
  /\ m' = Manifest(count, FALSE, FALSE)
  /\ PutManifest(m')
  /\ IF cmd.name = "preprocess"
       THEN Finish /\ UNCHANGED todo
       ELSE Goto("streams") /\ todo' = Streams /\ UNCHANGED status
  /\ UNCHANGED <<decoded, file>>

(* save_field and save_triplet of compress, in any order, when the raw     *)
(* fields it reads first have their size (read_array).                     *)
WriteStream(s) ==
  /\ pc = "streams" /\ s \in todo
  /\ Allowed(s)
  /\ file["preprocessed"] # Partial
  /\ Put(s, count)
  /\ todo' = todo \ {s}
  /\ Goto(IF todo' = {} THEN "last_manifest" ELSE "streams")
  /\ UNCHANGED <<status, m, decoded, manifest>>

WriteLastManifest ==
  /\ pc = "last_manifest"
  /\ m' = Manifest(m.gen, TRUE, m.rebuilt)
  /\ PutManifest(m')
  /\ IF Decodes THEN Goto("decode") /\ UNCHANGED status ELSE Finish
  /\ UNCHANGED <<todo, decoded, file>>

(* read_json throws when there is no manifest, or half of one.             *)
ReadManifest ==
  /\ pc = "read_manifest"
  /\ manifest \notin {None, Partial}
  /\ m' = manifest
  /\ Goto("decode")
  /\ UNCHANGED <<status, todo, decoded, file, manifest, unseen>>

(* decompress up to the last codec: a missing or truncated stream throws.  *)
Decode ==
  /\ pc = "decode"
  /\ Allowed("reconstructed")
  /\ m.complete
  /\ \A s \in Streams : file[s] \notin {None, Partial}
  /\ decoded' = IF \A s \in Streams : file[s] = m.gen THEN m.gen ELSE Mixed
  /\ Goto("write_decoded")
  /\ UNCHANGED <<status, todo, m, file, manifest, unseen>>

WriteDecoded ==
  /\ pc = "write_decoded"
  /\ Allowed("decompressed")
  /\ Put("decompressed", decoded)
  /\ Goto("write_hdf5")
  /\ UNCHANGED <<status, todo, m, decoded, manifest>>

WriteHdf5 ==
  /\ pc = "write_hdf5"
  /\ Allowed("reconstructed")
  /\ file' = [file EXCEPT !["reconstructed"] = decoded]
  /\ Goto("third_manifest")
  /\ UNCHANGED <<status, todo, m, decoded, manifest, unseen>>

(* The end of decompress.                                                  *)
WriteThirdManifest ==
  /\ pc = "third_manifest"
  /\ m' = Manifest(m.gen, m.complete, TRUE)
  /\ PutManifest(m')
  /\ Goto(IF cmd.metrics THEN "metrics" ELSE "clean")
  /\ UNCHANGED <<status, todo, decoded, file>>

WriteMetrics ==
  /\ pc = "metrics"
  /\ Put("metrics", file["reconstructed"])
  /\ Goto("clean")
  /\ UNCHANGED <<status, todo, m, decoded, manifest>>

CleanRaw ==
  /\ pc = "clean"
  /\ file' = IF cmd.clean
               THEN [file EXCEPT !["preprocessed"] = None, !["decompressed"] = None]
               ELSE file
  /\ Goto("fourth_manifest")
  /\ UNCHANGED <<status, todo, m, decoded, manifest, unseen>>

(* The end of run(): sizes and timing again.                               *)
WriteFourthManifest ==
  /\ pc = "fourth_manifest"
  /\ PutManifest(m)
  /\ Finish
  /\ UNCHANGED <<todo, m, decoded, file>>

-------------------------------------------------------------------------------
(* The file a statement is writing, and the files it removes.              *)
Writing ==
  CASE pc = "merge_write" -> {"merging"}
    [] pc = "adapter" -> {"adapter"}
    [] pc = "write_rows" -> {"preprocessed"}
    [] pc = "streams" -> {s \in todo : Allowed(s)}
    [] pc = "write_decoded" -> {f \in {"decompressed"} : Allowed(f)}
    [] pc = "write_hdf5" -> {"reconstructed"}
    [] pc = "metrics" -> {"metrics"}
    [] OTHER -> {}

Removing ==
  CASE pc = "wipe" -> IF cmd.force THEN Streams ELSE {}
    [] pc = "clean" -> IF cmd.clean THEN {"preprocessed", "decompressed"} ELSE {}
    [] OTHER -> {}

Manifesting ==
  pc \in {"first_manifest", "last_manifest", "third_manifest", "fourth_manifest"}

(* An exception of this statement before it changes a file: a refused      *)
(* output, an invalid input, a codec or a bound that fails.  merge catches *)
(* it to remove its temporary.                                             *)
Throw ==
  /\ pc # "idle"
  /\ pc' = "idle"
  /\ status' = "error"
  /\ file' = IF pc \in {"merge_write", "merge_rename"}
               THEN [file EXCEPT !["merging"] = None] ELSE file
  /\ UNCHANGED <<count, cmd, todo, m, decoded, manifest, unseen, before>>

(* The process dies, or its write fails, inside this statement.            *)
Broken(how) ==
  /\ pc' = "idle"
  /\ status' = how
  /\ UNCHANGED <<count, cmd, todo, m, decoded, unseen, before>>

BreakWrite(how) ==
  /\ \E f \in Writing :
       file' = [file EXCEPT ![f] =
                  IF f = "merging" /\ how = "disk" THEN None ELSE Partial]
  /\ Broken(how)
  /\ UNCHANGED manifest

BreakManifest(how) ==
  /\ Manifesting
  /\ manifest' = Partial
  /\ Broken(how)
  /\ UNCHANGED file

BreakRemove(how) ==
  /\ \E gone \in SUBSET Removing :
       file' = [f \in Files |-> IF f \in gone THEN None ELSE file[f]]
  /\ Broken(how)
  /\ UNCHANGED manifest

Break ==
  \E how \in {"killed", "disk"} :
    pc # "idle" /\ (BreakWrite(how) \/ BreakManifest(how) \/ BreakRemove(how))

Run ==
  \/ MergeCheck \/ MergeWrite \/ MergeRename \/ DropMetrics
  \/ CheckManifest \/ WriteAdapter \/ CheckOutputs \/ Wipe
  \/ WriteRows \/ WriteFirstManifest
  \/ \E s \in Streams : WriteStream(s)
  \/ WriteLastManifest
  \/ ReadManifest \/ Decode \/ WriteDecoded \/ WriteHdf5 \/ WriteThirdManifest
  \/ WriteMetrics \/ CleanRaw \/ WriteFourthManifest

AllDone == pc = "idle" /\ count = Commands /\ UNCHANGED vars

Next == Start \/ Run \/ Throw \/ Break \/ AllDone

Spec == Init /\ [][Next]_vars

-------------------------------------------------------------------------------
(* Properties.                                                             *)

Labels == {"idle", "merge_check", "merge_write", "merge_rename", "drop_metrics",
           "preprocess", "adapter", "check", "wipe", "write_rows",
           "first_manifest", "streams", "last_manifest", "read_manifest",
           "decode", "write_decoded", "write_hdf5", "third_manifest",
           "metrics", "clean", "fourth_manifest"}

Contents == Gen \cup {None, Partial}

TypeOK ==
  /\ count \in Gen
  /\ cmd \in Options
  /\ pc \in Labels
  /\ status \in {"running", "ok", "error", "disk", "killed"}
  /\ todo \in SUBSET Streams
  /\ m \in Manifests
  /\ decoded \in Gen
  /\ file \in [Files -> Contents]
  /\ manifest \in Manifests \cup {None, Partial}
  /\ unseen \in BOOLEAN
  /\ before \in [file : [Files -> Contents],
                  manifest : Manifests \cup {None, Partial}]

Readable == manifest \notin {None, Partial}

(* A manifest that lists compressed fields never has streams of another    *)
(* package beside it, wherever the command that replaced it was cut off:   *)
(* preprocess writes the new manifest, without fields, before compress     *)
(* writes the first stream (pipeline.cpp:321-326).                         *)
OneGeneration ==
  Readable /\ manifest.complete =>
    \A s \in Streams : file[s] \in {None, Partial, manifest.gen}

(* Whatever was cut off before, a reconstruction holds one package, and    *)
(* not some fields of one and some fields of another.                      *)
NeverMixed ==
  \A f \in {"decompressed", "reconstructed", "metrics"} : file[f] # Mixed

(* A manifest names reconstructed.h5 only if that file, when it is whole,  *)
(* was rebuilt from this very package, not from the one it replaced.       *)
ArtifactOfPackage ==
  Readable /\ manifest.rebuilt =>
    file["reconstructed"] \in {manifest.gen, Partial}

(* Without --force nothing that was there when the command began is        *)
(* changed or removed, however the command ends, apart from the manifest   *)
(* that decompress updates, the directories of --clean-raw, and the copy   *)
(* of a native input: preprocess replaces it unasked (pipeline.cpp:146),   *)
(* but only where no manifest refers to it.                                *)
NothingOverwritten ==
  ~ cmd.force =>
    /\ \A f \in Files : before.file[f] # None =>
         \/ file[f] = before.file[f]
         \/ cmd.clean /\ f \in {"preprocessed", "decompressed"}
         \/ f = "adapter" /\ cmd.input = "native" /\ before.manifest = None
    /\ before.manifest # None /\ cmd.name # "decompress" =>
         manifest = before.manifest

(* A roundtrip never ends beside the report of the package it replaced: it *)
(* removes metrics.json before anything else (pipeline.cpp:885), so that a *)
(* new manifest and an old report are never found together.                *)
ReportOfPackage ==
  cmd.name = "roundtrip" /\ Readable /\ manifest.gen = count =>
    file["metrics"] \in {None, Partial, count}

(* However a decompress ends, it has changed no stream, and rewritten the  *)
(* manifest of a package, in place and twice, to one of the same package   *)
(* only.  It may leave half a manifest: nothing protects against that, but *)
(* a write that was cut off or failed unseen is the only way to it.        *)
DecompressKeepsPackage ==
  cmd.name = "decompress" =>
    /\ \A s \in Streams : file[s] = before.file[s]
    /\ \/ manifest = before.manifest
       \/ /\ before.manifest \notin {None, Partial}
          /\ \/ manifest = Partial /\ (unseen \/ status \in {"killed", "disk"})
             \/ /\ Readable
                /\ manifest.gen = before.manifest.gen
                /\ manifest.complete = before.manifest.complete

(* A command that reports success has left what it promises, unless a      *)
(* flush failed unseen.                                                    *)
SuccessIsWhole ==
  pc = "idle" /\ status = "ok" /\ count > 0 /\ ~ unseen =>
    /\ Readable
    /\ cmd.name # "decompress" => manifest.gen = count
    /\ cmd.name # "preprocess" =>
         manifest.complete /\ \A s \in Streams : file[s] = manifest.gen
    /\ Decodes => manifest.rebuilt /\ file["reconstructed"] = manifest.gen
    /\ cmd.metrics => file["metrics"] = count
    /\ cmd.input = "native" => file["adapter"] = count

(* merged.h5 is published by a rename (batch.cpp:140): it is never half    *)
(* written, although its temporary may be left behind.                     *)
MergedIsWhole == file["merged"] # Partial

-------------------------------------------------------------------------------
(* The inductive strengthening of the invariants above.  The statements of *)
(* a command in their order: nothing of the package is touched; the old    *)
(* streams are gone; compress writes; decompress has a manifest; it has    *)
(* decoded.                                                                *)
Checking == {"adapter", "check", "wipe"}
Early == {"merge_check", "merge_write", "merge_rename", "drop_metrics", "preprocess"}
           \cup Checking
Cleared == {"write_rows", "first_manifest"}
Packing == {"streams", "last_manifest"}
Rebuilt == {"third_manifest", "metrics", "clean", "fourth_manifest"}
Decoded == {"write_decoded", "write_hdf5"} \cup Rebuilt
Reading == {"decode"} \cup Decoded

CommandInv ==
  /\ pc \in Early \cup Cleared \cup Packing => cmd.name # "decompress"
  /\ pc = "read_manifest" => cmd.name = "decompress"
  /\ pc = "metrics" => cmd.metrics
  /\ pc = "adapter" => cmd.input = "native"
  /\ pc # "idle" => count > 0 /\ status = "running"

(* The manifest is older than the command until preprocess writes it, and  *)
(* its streams are its own or gone.                                        *)
GenerationInv ==
  /\ manifest = None => \A s \in Streams : file[s] = None
  /\ Readable => 0 < manifest.gen /\ manifest.gen <= count
  /\ pc \in Early \cup Cleared /\ Readable => manifest.gen < count
  /\ pc \in Checking => cmd.force \/ manifest = None
  /\ pc \in Cleared => \A s \in Streams : file[s] = None

(* The manifest in memory: compress has its own, without fields yet; one   *)
(* that is decoded agrees with the file, and its streams are its own.      *)
MemoryInv ==
  /\ pc \in Packing => /\ m.gen = count /\ ~ m.complete /\ ~ m.rebuilt
                       /\ manifest \in {m, Partial}
                       /\ \A s \in Streams : file[s] \in {None, Partial, count}
  /\ pc \in Reading => /\ 0 < m.gen /\ m.gen <= count /\ manifest # None
                       /\ Readable => manifest.gen = m.gen /\ manifest.complete = m.complete
                       /\ m.complete => \A s \in Streams : file[s] \in {None, Partial, m.gen}
                       /\ cmd.name # "decompress" => m.gen = count /\ m.complete
  /\ pc \in Decoded => /\ m.complete /\ decoded = m.gen
                       /\ \A s \in Streams : file[s] = m.gen
  /\ pc \in Rebuilt => file["reconstructed"] = m.gen
  /\ pc \in Rebuilt \ {"third_manifest"} => m.rebuilt

MergeInv == pc = "merge_rename" => file["merging"] = count

(* What a statement overwrites without asking was asked for before it.     *)
UntouchedInv ==
  ~ cmd.force =>
    /\ pc \in {"merge_write", "merge_rename"} =>
         before.file["merging"] = None /\ before.file["merged"] = None
    /\ cmd.metrics /\ pc \in {"preprocess"} \cup Checking \cup Cleared
                              \cup Packing \cup Reading =>
         before.file["metrics"] = None
    /\ cmd.name # "decompress" /\ pc \in Checking \cup Cleared \cup Packing \cup Reading =>
         before.manifest = None
    /\ pc \in {"wipe", "write_rows"} => cmd.clean \/ before.file["preprocessed"] = None
    /\ pc \in {"write_decoded", "write_hdf5"} => before.file["reconstructed"] = None

(* From its start to its end a roundtrip has no report but its own.        *)
ReportInv ==
  cmd.name = "roundtrip" =>
    /\ pc \in {"preprocess"} \cup Checking \cup Cleared => file["metrics"] = None
    /\ pc \in Packing \cup Reading => file["metrics"] \in {None, Partial, count}

(* decompress carries the manifest it read.                                *)
CarriedInv ==
  cmd.name = "decompress" =>
    /\ \A s \in Streams : file[s] = before.file[s]
    /\ pc = "read_manifest" => manifest = before.manifest
    /\ pc \in Reading => /\ before.manifest \notin {None, Partial}
                         /\ m.gen = before.manifest.gen /\ m.complete = before.manifest.complete

(* What has been written without a failure is there.                       *)
WrittenInv ==
  /\ cmd.input = "native" /\ pc \in {"check", "wipe"} \cup Cleared \cup Packing \cup Reading =>
       file["adapter"] = count
  /\ pc = "last_manifest" => todo = {}
  /\ pc \in Packing /\ ~ unseen => \A s \in Streams \ todo : file[s] = count
  /\ pc \in {"clean", "fourth_manifest"} /\ cmd.metrics /\ ~ unseen =>
       file["metrics"] = count

PackageInv ==
  /\ TypeOK
  /\ CommandInv /\ GenerationInv /\ MemoryInv
  /\ OneGeneration /\ NeverMixed /\ ArtifactOfPackage
  /\ MergeInv /\ MergedIsWhole
  /\ UntouchedInv /\ NothingOverwritten
  /\ ReportInv /\ ReportOfPackage
  /\ CarriedInv /\ DecompressKeepsPackage
  /\ WrittenInv /\ SuccessIsWhole
===============================================================================
