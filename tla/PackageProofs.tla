---------------------------- MODULE PackageProofs ----------------------------
(***************************************************************************)
(* Theorems about Package, for every number of streams and of commands,    *)
(* whatever is refused, fails or is killed on the way.                     *)
(*                                                                         *)
(* The inductive invariant is PackageInv.  CommandInv says which command   *)
(* can be at which statement; GenerationInv and MemoryInv tie the manifest *)
(* on disk, the one in memory and the streams to one generation, with the  *)
(* streams gone before a new manifest is written; ReportInv, CarriedInv    *)
(* and WrittenInv follow the report, the manifest of decompress and what   *)
(* has been written; UntouchedInv remembers what was found free.  One      *)
(* lemma per part, with one step per action.                               *)
(***************************************************************************)
EXTENDS Package, TLAPS

(* The fields of a manifest.                                               *)
LEMMA ManifestIs ==
  ASSUME NEW g \in Gen, NEW complete \in BOOLEAN, NEW rebuilt \in BOOLEAN
  PROVE  /\ Manifest(g, complete, rebuilt) \in Manifests
         /\ Manifest(g, complete, rebuilt).gen = g
         /\ Manifest(g, complete, rebuilt).complete = complete
         /\ Manifest(g, complete, rebuilt).rebuilt = rebuilt
BY DEF Manifest, Manifests

LEMMA ManifestFields ==
  ASSUME NEW x \in Manifests
  PROVE  /\ x \notin {None, Partial}
         /\ x.gen \in Gen /\ x.complete \in BOOLEAN /\ x.rebuilt \in BOOLEAN
BY PackageAssumption DEF Manifests

(* A write of one of the other files.                                     *)
LEMMA PutIs ==
  ASSUME TypeOK, NEW f \in Files, NEW content \in Gen, Put(f, content)
  PROVE  /\ file' \in [Files -> Contents]
         /\ file'[f] \in {content, Partial}
         /\ \A other \in Files : other # f => file'[other] = file[other]
         /\ unseen' \in BOOLEAN
         /\ ~ unseen' => ~ unseen /\ file'[f] = content
<1>1. file \in [Files -> Contents] /\ unseen \in BOOLEAN /\ content \in Contents
  BY DEF TypeOK, Contents
<1>2. PICK stored \in {content, Partial} :
        file' = [file EXCEPT ![f] = stored] /\ unseen' = (unseen \/ stored = Partial)
  BY DEF Put
<1>3. stored \in Contents
  BY <1>1 DEF Contents
<1> QED BY <1>1, <1>2, <1>3

(* The three steps that make a new manifest in memory.                     *)
LEMMA FirstManifestIs ==
  ASSUME TypeOK, WriteFirstManifest
  PROVE  /\ m' \in Manifests /\ m'.gen = count /\ ~ m'.complete /\ ~ m'.rebuilt
         /\ manifest' \in {m', Partial} /\ unseen' \in BOOLEAN
         /\ ~ unseen' => ~ unseen /\ manifest' = m'
<1>1. count \in Gen /\ unseen \in BOOLEAN
  BY DEF TypeOK
<1>2. m' = Manifest(count, FALSE, FALSE) /\ PutManifest(m')
  BY DEF WriteFirstManifest
<1> QED BY ONLY <1>1, <1>2, ManifestIs DEF PutManifest

LEMMA LastManifestIs ==
  ASSUME TypeOK, WriteLastManifest
  PROVE  /\ m' \in Manifests /\ m'.gen = m.gen /\ m'.complete /\ m'.rebuilt = m.rebuilt
         /\ manifest' \in {m', Partial} /\ unseen' \in BOOLEAN
         /\ ~ unseen' => ~ unseen /\ manifest' = m'
<1>1. m \in Manifests /\ unseen \in BOOLEAN
  BY DEF TypeOK
<1>2. m' = Manifest(m.gen, TRUE, m.rebuilt) /\ PutManifest(m')
  BY DEF WriteLastManifest
<1> QED BY ONLY <1>1, <1>2, ManifestFields, ManifestIs DEF PutManifest

LEMMA ThirdManifestIs ==
  ASSUME TypeOK, WriteThirdManifest
  PROVE  /\ m' \in Manifests /\ m'.gen = m.gen /\ m'.complete = m.complete /\ m'.rebuilt
         /\ manifest' \in {m', Partial} /\ unseen' \in BOOLEAN
         /\ ~ unseen' => ~ unseen /\ manifest' = m'
<1>1. m \in Manifests /\ unseen \in BOOLEAN
  BY DEF TypeOK
<1>2. m' = Manifest(m.gen, m.complete, TRUE) /\ PutManifest(m')
  BY DEF WriteThirdManifest
<1> QED BY ONLY <1>1, <1>2, ManifestFields, ManifestIs DEF PutManifest

(* The last manifest of a decoding command is the one in memory.           *)
LEMMA FourthManifestIs ==
  ASSUME TypeOK, WriteFourthManifest
  PROVE  /\ manifest' \in {m, Partial} /\ unseen' \in BOOLEAN
         /\ ~ unseen' => ~ unseen /\ manifest' = m
BY DEF TypeOK, WriteFourthManifest, PutManifest

(* What a broken statement leaves half written.                            *)
LEMMA WritingIs ==
  ASSUME NEW f \in Writing
  PROVE  \/ pc = "merge_write" /\ f = "merging"
         \/ pc = "adapter" /\ f = "adapter"
         \/ pc = "write_rows" /\ f = "preprocessed"
         \/ pc = "streams" /\ f \in todo /\ Allowed(f)
         \/ pc = "write_decoded" /\ f = "decompressed" /\ Allowed(f)
         \/ pc = "write_hdf5" /\ f = "reconstructed"
         \/ pc = "metrics" /\ f = "metrics"
BY DEF Writing

-------------------------------------------------------------------------------
(* Types.                                                                  *)
LEMMA TypeStep ==
  ASSUME TypeOK, Next
  PROVE  TypeOK'
<1> USE PackageAssumption DEF TypeOK, Contents, Labels, Files, Others
<1>1. CASE Start
  <2>1. count' \in Gen /\ decoded' \in Gen /\ 0 \in Gen
    BY <1>1 DEF Start, Gen
  <2>2. m' \in Manifests
    BY <1>1, <2>1, ManifestIs DEF Start
  <2> QED BY <1>1, <2>1, <2>2 DEF Start
<1>2. CASE MergeCheck
  BY <1>2 DEF MergeCheck, Goto
<1>3. CASE MergeWrite
  BY <1>3 DEF MergeWrite, Goto
<1>4. CASE MergeRename
  BY <1>4 DEF MergeRename, Goto
<1>5. CASE DropMetrics
  BY <1>5 DEF DropMetrics, Goto
<1>6. CASE CheckManifest
  BY <1>6 DEF CheckManifest, Goto
<1>7. CASE WriteAdapter
  BY <1>7 DEF WriteAdapter, Goto
<1>8. CASE CheckOutputs
  BY <1>8 DEF CheckOutputs, Goto
<1>9. CASE Wipe
  BY <1>9 DEF Wipe, Goto
<1>10. CASE WriteRows
  BY <1>10 DEF WriteRows, Put, Goto
<1>11. CASE WriteFirstManifest
  <2>1. /\ m' \in Manifests /\ unseen' \in BOOLEAN
        /\ manifest' \in Manifests \cup {None, Partial}
    BY <1>11, FirstManifestIs
  <2> QED BY <1>11, <2>1 DEF WriteFirstManifest, Finish, Goto
<1>12. ASSUME NEW s \in Streams, WriteStream(s) PROVE TypeOK'
  BY <1>12 DEF WriteStream, Put, Goto
<1>13. CASE WriteLastManifest
  <2>1. /\ m' \in Manifests /\ unseen' \in BOOLEAN
        /\ manifest' \in Manifests \cup {None, Partial}
    BY <1>13, LastManifestIs
  <2> QED BY <1>13, <2>1 DEF WriteLastManifest, Finish, Goto
<1>14. CASE ReadManifest
  BY <1>14 DEF ReadManifest, Goto
<1>15. CASE Decode
  <2>1. decoded' \in Gen
    BY <1>15, ManifestFields DEF Decode, Mixed, Gen
  <2> QED BY <1>15, <2>1 DEF Decode, Goto
<1>16. CASE WriteDecoded
  BY <1>16 DEF WriteDecoded, Put, Goto
<1>17. CASE WriteHdf5
  BY <1>17 DEF WriteHdf5, Goto
<1>18. CASE WriteThirdManifest
  <2>1. /\ m' \in Manifests /\ unseen' \in BOOLEAN
        /\ manifest' \in Manifests \cup {None, Partial}
    BY <1>18, ThirdManifestIs
  <2> QED BY <1>18, <2>1 DEF WriteThirdManifest, Finish, Goto
<1>19. CASE WriteMetrics
  BY <1>19 DEF WriteMetrics, Put, Goto
<1>20. CASE CleanRaw
  BY <1>20 DEF CleanRaw, Goto
<1>21. CASE WriteFourthManifest
  <2>1. manifest' \in Manifests \cup {None, Partial} /\ unseen' \in BOOLEAN
    BY <1>21 DEF WriteFourthManifest, PutManifest
  <2> QED BY <1>21, <2>1 DEF WriteFourthManifest, Finish
<1>22. CASE Throw
  BY <1>22 DEF Throw
<1>23. ASSUME NEW how \in {"killed", "disk"}, pc # "idle", BreakWrite(how)
       PROVE TypeOK'
  BY <1>23 DEF BreakWrite, Broken, Writing
<1>24. ASSUME NEW how \in {"killed", "disk"}, pc # "idle", BreakManifest(how)
       PROVE TypeOK'
  BY <1>24 DEF BreakManifest, Broken, Manifesting
<1>25. ASSUME NEW how \in {"killed", "disk"}, pc # "idle", BreakRemove(how)
       PROVE TypeOK'
  BY <1>25 DEF BreakRemove, Broken, Removing
<1>26. CASE UNCHANGED vars
  BY <1>26 DEF vars
<1> QED
  BY <1>1, <1>2, <1>3, <1>4, <1>5, <1>6, <1>7, <1>8, <1>9, <1>10, <1>11,
     <1>12, <1>13, <1>14, <1>15, <1>16, <1>17, <1>18, <1>19, <1>20, <1>21,
     <1>22, <1>23, <1>24, <1>25, <1>26
     DEF Next, Run, Break, AllDone

(* Which command is at which statement.                                    *)
LEMMA CommandStep ==
  ASSUME TypeOK, TypeOK', CommandInv, Next
  PROVE  CommandInv'
<1> USE DEF CommandInv, Early, Checking, Cleared, Packing
<1>1. CASE Start
  BY <1>1, PackageAssumption DEF Start, TypeOK, Gen
<1>2. CASE MergeCheck
  BY <1>2 DEF MergeCheck, Goto
<1>3. CASE MergeWrite
  BY <1>3 DEF MergeWrite, Goto
<1>4. CASE MergeRename
  BY <1>4 DEF MergeRename, Goto
<1>5. CASE DropMetrics
  BY <1>5 DEF DropMetrics, Goto
<1>6. CASE CheckManifest
  BY <1>6 DEF CheckManifest, Goto
<1>7. CASE WriteAdapter
  BY <1>7 DEF WriteAdapter, Goto
<1>8. CASE CheckOutputs
  BY <1>8 DEF CheckOutputs, Goto
<1>9. CASE Wipe
  BY <1>9 DEF Wipe, Goto
<1>10. CASE WriteRows
  BY <1>10 DEF WriteRows, Put, Goto
<1>11. CASE WriteFirstManifest
  BY <1>11, FirstManifestIs DEF WriteFirstManifest, Finish, Goto
<1>12. ASSUME NEW s \in Streams, WriteStream(s) PROVE CommandInv'
  BY <1>12 DEF WriteStream, Put, Goto
<1>13. CASE WriteLastManifest
  BY <1>13, LastManifestIs DEF WriteLastManifest, Finish, Goto
<1>14. CASE ReadManifest
  BY <1>14 DEF ReadManifest, Goto
<1>15. CASE Decode
  BY <1>15 DEF Decode, Goto
<1>16. CASE WriteDecoded
  BY <1>16 DEF WriteDecoded, Put, Goto
<1>17. CASE WriteHdf5
  BY <1>17 DEF WriteHdf5, Goto
<1>18. CASE WriteThirdManifest
  BY <1>18, ThirdManifestIs DEF WriteThirdManifest, Finish, Goto
<1>19. CASE WriteMetrics
  BY <1>19 DEF WriteMetrics, Put, Goto
<1>20. CASE CleanRaw
  BY <1>20 DEF CleanRaw, Goto
<1>21. CASE WriteFourthManifest
  BY <1>21, FourthManifestIs DEF WriteFourthManifest, Finish, Goto
<1>22. CASE Throw
  BY <1>22 DEF Throw
<1>23. ASSUME NEW how \in {"killed", "disk"}, pc # "idle", BreakWrite(how)
       PROVE CommandInv'
  <2>1. PICK f \in Writing :
          file' = [file EXCEPT ![f] =
                     IF f = "merging" /\ how = "disk" THEN None ELSE Partial]
    BY <1>23 DEF BreakWrite
  <2> QED BY <1>23, <2>1, WritingIs DEF BreakWrite, Broken
<1>24. ASSUME NEW how \in {"killed", "disk"}, pc # "idle", BreakManifest(how)
       PROVE CommandInv'
  BY <1>24 DEF BreakManifest, Broken, Manifesting
<1>25. ASSUME NEW how \in {"killed", "disk"}, pc # "idle", BreakRemove(how)
       PROVE CommandInv'
  BY <1>25 DEF BreakRemove, Broken, Removing
<1>26. CASE UNCHANGED vars
  BY <1>26 DEF vars
<1> QED
  BY <1>1, <1>2, <1>3, <1>4, <1>5, <1>6, <1>7, <1>8, <1>9, <1>10, <1>11,
     <1>12, <1>13, <1>14, <1>15, <1>16, <1>17, <1>18, <1>19, <1>20, <1>21,
     <1>22, <1>23, <1>24, <1>25, <1>26
     DEF Next, Run, Break, AllDone

(* The generation of the manifest, and of the streams before compress.     *)
LEMMA GenerationStep ==
  ASSUME TypeOK, TypeOK', CommandInv, GenerationInv, MemoryInv, OneGeneration,
         Next
  PROVE  GenerationInv'
<1> USE PackageAssumption, ManifestFields DEF GenerationInv, CommandInv,
        Readable, Early, Checking, Cleared, TypeOK, Files, Others, Gen
<1>1. CASE Start
  BY <1>1 DEF Start
<1>2. CASE MergeCheck
  BY <1>2 DEF MergeCheck, Goto
<1>3. CASE MergeWrite
  BY <1>3 DEF MergeWrite, Goto
<1>4. CASE MergeRename
  BY <1>4 DEF MergeRename, Goto
<1>5. CASE DropMetrics
  BY <1>5 DEF DropMetrics, Goto
<1>6. CASE CheckManifest
  BY <1>6 DEF CheckManifest, Goto
<1>7. CASE WriteAdapter
  BY <1>7 DEF WriteAdapter, Goto
<1>8. CASE CheckOutputs
  BY <1>8 DEF CheckOutputs, Goto
<1>9. CASE Wipe
  BY <1>9 DEF Wipe, Goto
<1>10. CASE WriteRows
  BY <1>10 DEF WriteRows, Put, Goto
<1>11. CASE WriteFirstManifest
  <2>1. manifest' # None /\ (Readable' => manifest'.gen = count)
    BY <1>11, FirstManifestIs
  <2>2. pc' \in {"idle", "streams"} /\ count' = count /\ 0 < count
    BY <1>11 DEF WriteFirstManifest, Finish, Goto
  <2> QED BY <2>1, <2>2
<1>12. ASSUME NEW s \in Streams, WriteStream(s) PROVE GenerationInv'
  <2>1. manifest # None /\ (Readable => manifest = m)
    BY <1>12 DEF WriteStream, MemoryInv, Packing
  <2> QED BY <1>12, <2>1 DEF WriteStream, Goto
<1>13. CASE WriteLastManifest
  <2>1. manifest' # None /\ (Readable' => manifest'.gen = count)
    BY <1>13, LastManifestIs DEF WriteLastManifest, MemoryInv, Packing
  <2>2. pc' \in {"idle", "decode"} /\ count' = count /\ 0 < count
    BY <1>13 DEF WriteLastManifest, Finish, Goto
  <2> QED BY <2>1, <2>2
<1>14. CASE ReadManifest
  BY <1>14 DEF ReadManifest, Goto
<1>15. CASE Decode
  BY <1>15 DEF Decode, Goto
<1>16. CASE WriteDecoded
  BY <1>16 DEF WriteDecoded, Put, Goto
<1>17. CASE WriteHdf5
  BY <1>17 DEF WriteHdf5, Goto
<1>18. CASE WriteThirdManifest
  BY <1>18, ThirdManifestIs DEF WriteThirdManifest, MemoryInv, Reading,
     Decoded, Rebuilt, Finish, Goto
<1>19. CASE WriteMetrics
  BY <1>19 DEF WriteMetrics, Put, Goto
<1>20. CASE CleanRaw
  BY <1>20 DEF CleanRaw, Goto
<1>21. CASE WriteFourthManifest
  BY <1>21, FourthManifestIs DEF WriteFourthManifest, MemoryInv, Reading,
     Decoded, Rebuilt, Finish, Goto
<1>22. CASE Throw
  BY <1>22 DEF Throw
<1>23. ASSUME NEW how \in {"killed", "disk"}, pc # "idle", BreakWrite(how)
       PROVE GenerationInv'
  <2>1. PICK f \in Writing :
          file' = [file EXCEPT ![f] =
                     IF f = "merging" /\ how = "disk" THEN None ELSE Partial]
    BY <1>23 DEF BreakWrite
  <2>2. pc = "streams" => manifest # None
    BY DEF MemoryInv, Packing
  <2> QED BY <1>23, <2>1, <2>2, WritingIs DEF BreakWrite, Broken
<1>24. ASSUME NEW how \in {"killed", "disk"}, pc # "idle", BreakManifest(how)
       PROVE GenerationInv'
  BY <1>24 DEF BreakManifest, Broken, Manifesting
<1>25. ASSUME NEW how \in {"killed", "disk"}, pc # "idle", BreakRemove(how)
       PROVE GenerationInv'
  BY <1>25 DEF BreakRemove, Broken, Removing
<1>26. CASE UNCHANGED vars
  BY <1>26 DEF vars
<1> QED
  BY <1>1, <1>2, <1>3, <1>4, <1>5, <1>6, <1>7, <1>8, <1>9, <1>10, <1>11,
     <1>12, <1>13, <1>14, <1>15, <1>16, <1>17, <1>18, <1>19, <1>20, <1>21,
     <1>22, <1>23, <1>24, <1>25, <1>26
     DEF Next, Run, Break, AllDone

(* The manifest in memory, and the streams compress and decompress see.    *)
LEMMA MemoryStep ==
  ASSUME TypeOK, TypeOK', CommandInv, GenerationInv, MemoryInv, OneGeneration,
         Next
  PROVE  MemoryInv'
<1> USE PackageAssumption, ManifestFields DEF MemoryInv, Readable, Packing,
        Reading, Decoded, Rebuilt, TypeOK, Files, Others, Gen
<1>1. CASE Start
  BY <1>1 DEF Start
<1>2. CASE MergeCheck
  BY <1>2 DEF MergeCheck, Goto
<1>3. CASE MergeWrite
  BY <1>3 DEF MergeWrite, Goto
<1>4. CASE MergeRename
  BY <1>4 DEF MergeRename, Goto
<1>5. CASE DropMetrics
  BY <1>5 DEF DropMetrics, Goto
<1>6. CASE CheckManifest
  BY <1>6 DEF CheckManifest, Goto
<1>7. CASE WriteAdapter
  BY <1>7 DEF WriteAdapter, Goto
<1>8. CASE CheckOutputs
  BY <1>8 DEF CheckOutputs, Goto
<1>9. CASE Wipe
  BY <1>9 DEF Wipe, Goto
<1>10. CASE WriteRows
  BY <1>10 DEF WriteRows, Put, Goto
<1>11. CASE WriteFirstManifest
  BY <1>11, FirstManifestIs DEF WriteFirstManifest, Finish, Goto, GenerationInv,
     Cleared
<1>12. ASSUME NEW s \in Streams, WriteStream(s) PROVE MemoryInv'
  BY <1>12 DEF WriteStream, Put, Goto
<1>13. CASE WriteLastManifest
  <2>1. /\ m.gen = count /\ 0 < count
        /\ \A s \in Streams : file[s] \in {None, Partial, count}
    BY <1>13 DEF WriteLastManifest, CommandInv
  <2>2. pc' \in {"idle", "decode"} /\ count' = count /\ file' = file
    BY <1>13 DEF WriteLastManifest, Finish, Goto
  <2>3. /\ m'.gen = m.gen /\ m'.complete /\ m' \in Manifests
        /\ manifest' \in {m', Partial}
    BY ONLY <1>13, TypeOK, LastManifestIs
  <2>4. count \in Int /\ cmd' = cmd
    BY <1>13 DEF WriteLastManifest, Finish, Goto
  <2>5. Readable' => manifest' = m'
    BY <2>3
  <2>6. manifest' # None /\ 0 < m'.gen /\ m'.gen <= count'
    BY <2>1, <2>2, <2>3, <2>4
  <2>7. \A s \in Streams : file'[s] \in {None, Partial, m'.gen}
    BY <2>1, <2>2, <2>3
  <2> QED BY ONLY <2>1, <2>2, <2>3, <2>4, <2>5, <2>6, <2>7
          DEF MemoryInv, Packing, Reading, Decoded, Rebuilt
<1>14. CASE ReadManifest
  BY <1>14 DEF ReadManifest, Goto, GenerationInv, CommandInv, OneGeneration
<1>15. CASE Decode
  BY <1>15 DEF Decode, Goto
<1>16. CASE WriteDecoded
  BY <1>16 DEF WriteDecoded, Put, Goto
<1>17. CASE WriteHdf5
  BY <1>17 DEF WriteHdf5, Goto
<1>18. CASE WriteThirdManifest
  BY <1>18, ThirdManifestIs DEF WriteThirdManifest, Finish, Goto
<1>19. CASE WriteMetrics
  BY <1>19 DEF WriteMetrics, Put, Goto
<1>20. CASE CleanRaw
  BY <1>20 DEF CleanRaw, Goto
<1>21. CASE WriteFourthManifest
  BY <1>21, FourthManifestIs DEF WriteFourthManifest, Finish, Goto
<1>22. CASE Throw
  BY <1>22 DEF Throw
<1>23. ASSUME NEW how \in {"killed", "disk"}, pc # "idle", BreakWrite(how)
       PROVE MemoryInv'
  <2>1. PICK f \in Writing :
          file' = [file EXCEPT ![f] =
                     IF f = "merging" /\ how = "disk" THEN None ELSE Partial]
    BY <1>23 DEF BreakWrite
  <2> QED BY <1>23, <2>1, WritingIs DEF BreakWrite, Broken
<1>24. ASSUME NEW how \in {"killed", "disk"}, pc # "idle", BreakManifest(how)
       PROVE MemoryInv'
  BY <1>24 DEF BreakManifest, Broken, Manifesting
<1>25. ASSUME NEW how \in {"killed", "disk"}, pc # "idle", BreakRemove(how)
       PROVE MemoryInv'
  BY <1>25 DEF BreakRemove, Broken, Removing
<1>26. CASE UNCHANGED vars
  BY <1>26 DEF vars
<1> QED
  BY <1>1, <1>2, <1>3, <1>4, <1>5, <1>6, <1>7, <1>8, <1>9, <1>10, <1>11,
     <1>12, <1>13, <1>14, <1>15, <1>16, <1>17, <1>18, <1>19, <1>20, <1>21,
     <1>22, <1>23, <1>24, <1>25, <1>26
     DEF Next, Run, Break, AllDone

(* The streams of a manifest with fields are of its generation.            *)
LEMMA OneGenerationStep ==
  ASSUME TypeOK, TypeOK', CommandInv, GenerationInv, MemoryInv, OneGeneration,
         Next
  PROVE  OneGeneration'
<1> USE PackageAssumption, ManifestFields DEF OneGeneration, MemoryInv,
        Readable, Packing, Reading, Decoded, Rebuilt, TypeOK, Files, Others,
        Gen
<1>1. CASE Start
  BY <1>1 DEF Start
<1>2. CASE MergeCheck
  BY <1>2 DEF MergeCheck, Goto
<1>3. CASE MergeWrite
  BY <1>3 DEF MergeWrite, Goto
<1>4. CASE MergeRename
  BY <1>4 DEF MergeRename, Goto
<1>5. CASE DropMetrics
  BY <1>5 DEF DropMetrics, Goto
<1>6. CASE CheckManifest
  BY <1>6 DEF CheckManifest, Goto
<1>7. CASE WriteAdapter
  BY <1>7 DEF WriteAdapter, Goto
<1>8. CASE CheckOutputs
  BY <1>8 DEF CheckOutputs, Goto
<1>9. CASE Wipe
  BY <1>9 DEF Wipe, Goto
<1>10. CASE WriteRows
  BY <1>10 DEF WriteRows, Put, Goto
<1>11. CASE WriteFirstManifest
  BY <1>11, FirstManifestIs DEF WriteFirstManifest, Finish, Goto, GenerationInv,
     Cleared
<1>12. ASSUME NEW s \in Streams, WriteStream(s) PROVE OneGeneration'
  BY <1>12 DEF WriteStream, Put, Goto
<1>13. CASE WriteLastManifest
  BY <1>13, LastManifestIs DEF WriteLastManifest, Finish, Goto
<1>14. CASE ReadManifest
  BY <1>14 DEF ReadManifest, Goto
<1>15. CASE Decode
  BY <1>15 DEF Decode, Goto
<1>16. CASE WriteDecoded
  BY <1>16 DEF WriteDecoded, Put, Goto
<1>17. CASE WriteHdf5
  BY <1>17 DEF WriteHdf5, Goto
<1>18. CASE WriteThirdManifest
  BY <1>18, ThirdManifestIs DEF WriteThirdManifest, Finish, Goto
<1>19. CASE WriteMetrics
  BY <1>19 DEF WriteMetrics, Put, Goto
<1>20. CASE CleanRaw
  BY <1>20 DEF CleanRaw, Goto
<1>21. CASE WriteFourthManifest
  BY <1>21, FourthManifestIs DEF WriteFourthManifest, Finish, Goto
<1>22. CASE Throw
  BY <1>22 DEF Throw
<1>23. ASSUME NEW how \in {"killed", "disk"}, pc # "idle", BreakWrite(how)
       PROVE OneGeneration'
  <2>1. PICK f \in Writing :
          file' = [file EXCEPT ![f] =
                     IF f = "merging" /\ how = "disk" THEN None ELSE Partial]
    BY <1>23 DEF BreakWrite
  <2> QED BY <1>23, <2>1, WritingIs DEF BreakWrite, Broken
<1>24. ASSUME NEW how \in {"killed", "disk"}, pc # "idle", BreakManifest(how)
       PROVE OneGeneration'
  BY <1>24 DEF BreakManifest, Broken, Manifesting
<1>25. ASSUME NEW how \in {"killed", "disk"}, pc # "idle", BreakRemove(how)
       PROVE OneGeneration'
  BY <1>25 DEF BreakRemove, Broken, Removing
<1>26. CASE UNCHANGED vars
  BY <1>26 DEF vars
<1> QED
  BY <1>1, <1>2, <1>3, <1>4, <1>5, <1>6, <1>7, <1>8, <1>9, <1>10, <1>11,
     <1>12, <1>13, <1>14, <1>15, <1>16, <1>17, <1>18, <1>19, <1>20, <1>21,
     <1>22, <1>23, <1>24, <1>25, <1>26
     DEF Next, Run, Break, AllDone

(* What is decoded is one package.                                         *)
LEMMA NeverMixedStep ==
  ASSUME TypeOK, TypeOK', CommandInv, MemoryInv, NeverMixed, Next
  PROVE  NeverMixed'
<1> USE PackageAssumption, ManifestFields DEF NeverMixed, Mixed, MemoryInv,
        Readable, Packing, Reading, Decoded, Rebuilt, TypeOK, Files, Others,
        Gen
<1>1. CASE Start
  BY <1>1 DEF Start
<1>2. CASE MergeCheck
  BY <1>2 DEF MergeCheck, Goto
<1>3. CASE MergeWrite
  BY <1>3 DEF MergeWrite, Goto
<1>4. CASE MergeRename
  BY <1>4 DEF MergeRename, Goto
<1>5. CASE DropMetrics
  BY <1>5 DEF DropMetrics, Goto
<1>6. CASE CheckManifest
  BY <1>6 DEF CheckManifest, Goto
<1>7. CASE WriteAdapter
  BY <1>7 DEF WriteAdapter, Goto
<1>8. CASE CheckOutputs
  BY <1>8 DEF CheckOutputs, Goto
<1>9. CASE Wipe
  BY <1>9 DEF Wipe, Goto
<1>10. CASE WriteRows
  BY <1>10 DEF WriteRows, Put, Goto
<1>11. CASE WriteFirstManifest
  BY <1>11, FirstManifestIs DEF WriteFirstManifest, Finish, Goto
<1>12. ASSUME NEW s \in Streams, WriteStream(s) PROVE NeverMixed'
  BY <1>12 DEF WriteStream, Put, Goto
<1>13. CASE WriteLastManifest
  BY <1>13, LastManifestIs DEF WriteLastManifest, Finish, Goto
<1>14. CASE ReadManifest
  BY <1>14 DEF ReadManifest, Goto
<1>15. CASE Decode
  BY <1>15 DEF Decode, Goto
<1>16. CASE WriteDecoded
  BY <1>16 DEF WriteDecoded, Put, Goto
<1>17. CASE WriteHdf5
  BY <1>17 DEF WriteHdf5, Goto
<1>18. CASE WriteThirdManifest
  BY <1>18, ThirdManifestIs DEF WriteThirdManifest, Finish, Goto
<1>19. CASE WriteMetrics
  BY <1>19 DEF WriteMetrics, Put, Goto
<1>20. CASE CleanRaw
  BY <1>20 DEF CleanRaw, Goto
<1>21. CASE WriteFourthManifest
  BY <1>21, FourthManifestIs DEF WriteFourthManifest, Finish, Goto
<1>22. CASE Throw
  BY <1>22 DEF Throw
<1>23. ASSUME NEW how \in {"killed", "disk"}, pc # "idle", BreakWrite(how)
       PROVE NeverMixed'
  <2>1. PICK f \in Writing :
          file' = [file EXCEPT ![f] =
                     IF f = "merging" /\ how = "disk" THEN None ELSE Partial]
    BY <1>23 DEF BreakWrite
  <2> QED BY <1>23, <2>1, WritingIs DEF BreakWrite, Broken
<1>24. ASSUME NEW how \in {"killed", "disk"}, pc # "idle", BreakManifest(how)
       PROVE NeverMixed'
  BY <1>24 DEF BreakManifest, Broken, Manifesting
<1>25. ASSUME NEW how \in {"killed", "disk"}, pc # "idle", BreakRemove(how)
       PROVE NeverMixed'
  BY <1>25 DEF BreakRemove, Broken, Removing
<1>26. CASE UNCHANGED vars
  BY <1>26 DEF vars
<1> QED
  BY <1>1, <1>2, <1>3, <1>4, <1>5, <1>6, <1>7, <1>8, <1>9, <1>10, <1>11,
     <1>12, <1>13, <1>14, <1>15, <1>16, <1>17, <1>18, <1>19, <1>20, <1>21,
     <1>22, <1>23, <1>24, <1>25, <1>26
     DEF Next, Run, Break, AllDone

(* The reconstruction a manifest names.                                    *)
LEMMA ArtifactStep ==
  ASSUME TypeOK, TypeOK', CommandInv, MemoryInv, ArtifactOfPackage, Next
  PROVE  ArtifactOfPackage'
<1> USE PackageAssumption, ManifestFields DEF ArtifactOfPackage, MemoryInv,
        Readable, Packing, Reading, Decoded, Rebuilt, TypeOK, Files, Others,
        Gen
<1>1. CASE Start
  BY <1>1 DEF Start
<1>2. CASE MergeCheck
  BY <1>2 DEF MergeCheck, Goto
<1>3. CASE MergeWrite
  BY <1>3 DEF MergeWrite, Goto
<1>4. CASE MergeRename
  BY <1>4 DEF MergeRename, Goto
<1>5. CASE DropMetrics
  BY <1>5 DEF DropMetrics, Goto
<1>6. CASE CheckManifest
  BY <1>6 DEF CheckManifest, Goto
<1>7. CASE WriteAdapter
  BY <1>7 DEF WriteAdapter, Goto
<1>8. CASE CheckOutputs
  BY <1>8 DEF CheckOutputs, Goto
<1>9. CASE Wipe
  BY <1>9 DEF Wipe, Goto
<1>10. CASE WriteRows
  BY <1>10 DEF WriteRows, Put, Goto
<1>11. CASE WriteFirstManifest
  BY <1>11, FirstManifestIs DEF WriteFirstManifest, Finish, Goto
<1>12. ASSUME NEW s \in Streams, WriteStream(s) PROVE ArtifactOfPackage'
  BY <1>12 DEF WriteStream, Put, Goto
<1>13. CASE WriteLastManifest
  BY <1>13, LastManifestIs DEF WriteLastManifest, Finish, Goto
<1>14. CASE ReadManifest
  BY <1>14 DEF ReadManifest, Goto
<1>15. CASE Decode
  BY <1>15 DEF Decode, Goto
<1>16. CASE WriteDecoded
  BY <1>16 DEF WriteDecoded, Put, Goto
<1>17. CASE WriteHdf5
  BY <1>17 DEF WriteHdf5, Goto
<1>18. CASE WriteThirdManifest
  BY <1>18, ThirdManifestIs DEF WriteThirdManifest, Finish, Goto
<1>19. CASE WriteMetrics
  BY <1>19 DEF WriteMetrics, Put, Goto
<1>20. CASE CleanRaw
  BY <1>20 DEF CleanRaw, Goto
<1>21. CASE WriteFourthManifest
  BY <1>21, FourthManifestIs DEF WriteFourthManifest, Finish, Goto
<1>22. CASE Throw
  BY <1>22 DEF Throw
<1>23. ASSUME NEW how \in {"killed", "disk"}, pc # "idle", BreakWrite(how)
       PROVE ArtifactOfPackage'
  <2>1. PICK f \in Writing :
          file' = [file EXCEPT ![f] =
                     IF f = "merging" /\ how = "disk" THEN None ELSE Partial]
    BY <1>23 DEF BreakWrite
  <2> QED BY <1>23, <2>1, WritingIs DEF BreakWrite, Broken
<1>24. ASSUME NEW how \in {"killed", "disk"}, pc # "idle", BreakManifest(how)
       PROVE ArtifactOfPackage'
  BY <1>24 DEF BreakManifest, Broken, Manifesting
<1>25. ASSUME NEW how \in {"killed", "disk"}, pc # "idle", BreakRemove(how)
       PROVE ArtifactOfPackage'
  BY <1>25 DEF BreakRemove, Broken, Removing
<1>26. CASE UNCHANGED vars
  BY <1>26 DEF vars
<1> QED
  BY <1>1, <1>2, <1>3, <1>4, <1>5, <1>6, <1>7, <1>8, <1>9, <1>10, <1>11,
     <1>12, <1>13, <1>14, <1>15, <1>16, <1>17, <1>18, <1>19, <1>20, <1>21,
     <1>22, <1>23, <1>24, <1>25, <1>26
     DEF Next, Run, Break, AllDone

(* The merged snapshot and its temporary.                                  *)
LEMMA MergeStep ==
  ASSUME TypeOK, TypeOK', MergeInv, MergedIsWhole, Next
  PROVE  MergeInv' /\ MergedIsWhole'
<1> USE PackageAssumption, ManifestFields DEF MergeInv, MergedIsWhole, TypeOK,
        Files, Others, Gen
<1>1. CASE Start
  BY <1>1 DEF Start
<1>2. CASE MergeCheck
  BY <1>2 DEF MergeCheck, Goto
<1>3. CASE MergeWrite
  BY <1>3 DEF MergeWrite, Goto
<1>4. CASE MergeRename
  BY <1>4 DEF MergeRename, Goto
<1>5. CASE DropMetrics
  BY <1>5 DEF DropMetrics, Goto
<1>6. CASE CheckManifest
  BY <1>6 DEF CheckManifest, Goto
<1>7. CASE WriteAdapter
  BY <1>7 DEF WriteAdapter, Goto
<1>8. CASE CheckOutputs
  BY <1>8 DEF CheckOutputs, Goto
<1>9. CASE Wipe
  BY <1>9 DEF Wipe, Goto
<1>10. CASE WriteRows
  BY <1>10 DEF WriteRows, Put, Goto
<1>11. CASE WriteFirstManifest
  BY <1>11, FirstManifestIs DEF WriteFirstManifest, Finish, Goto
<1>12. ASSUME NEW s \in Streams, WriteStream(s) PROVE MergeInv' /\ MergedIsWhole'
  BY <1>12 DEF WriteStream, Put, Goto
<1>13. CASE WriteLastManifest
  BY <1>13, LastManifestIs DEF WriteLastManifest, Finish, Goto
<1>14. CASE ReadManifest
  BY <1>14 DEF ReadManifest, Goto
<1>15. CASE Decode
  BY <1>15 DEF Decode, Goto
<1>16. CASE WriteDecoded
  BY <1>16 DEF WriteDecoded, Put, Goto
<1>17. CASE WriteHdf5
  BY <1>17 DEF WriteHdf5, Goto
<1>18. CASE WriteThirdManifest
  BY <1>18, ThirdManifestIs DEF WriteThirdManifest, Finish, Goto
<1>19. CASE WriteMetrics
  BY <1>19 DEF WriteMetrics, Put, Goto
<1>20. CASE CleanRaw
  BY <1>20 DEF CleanRaw, Goto
<1>21. CASE WriteFourthManifest
  BY <1>21, FourthManifestIs DEF WriteFourthManifest, Finish, Goto
<1>22. CASE Throw
  BY <1>22 DEF Throw
<1>23. ASSUME NEW how \in {"killed", "disk"}, pc # "idle", BreakWrite(how)
       PROVE MergeInv' /\ MergedIsWhole'
  <2>1. PICK f \in Writing :
          file' = [file EXCEPT ![f] =
                     IF f = "merging" /\ how = "disk" THEN None ELSE Partial]
    BY <1>23 DEF BreakWrite
  <2> QED BY <1>23, <2>1, WritingIs DEF BreakWrite, Broken
<1>24. ASSUME NEW how \in {"killed", "disk"}, pc # "idle", BreakManifest(how)
       PROVE MergeInv' /\ MergedIsWhole'
  BY <1>24 DEF BreakManifest, Broken, Manifesting
<1>25. ASSUME NEW how \in {"killed", "disk"}, pc # "idle", BreakRemove(how)
       PROVE MergeInv' /\ MergedIsWhole'
  BY <1>25 DEF BreakRemove, Broken, Removing
<1>26. CASE UNCHANGED vars
  BY <1>26 DEF vars
<1> QED
  BY <1>1, <1>2, <1>3, <1>4, <1>5, <1>6, <1>7, <1>8, <1>9, <1>10, <1>11,
     <1>12, <1>13, <1>14, <1>15, <1>16, <1>17, <1>18, <1>19, <1>20, <1>21,
     <1>22, <1>23, <1>24, <1>25, <1>26
     DEF Next, Run, Break, AllDone

(* The report of a roundtrip.                                              *)
LEMMA ReportStep ==
  ASSUME TypeOK, TypeOK', CommandInv, GenerationInv, MemoryInv, ReportInv,
         ReportOfPackage, Next
  PROVE  ReportInv' /\ ReportOfPackage'
<1> USE PackageAssumption, ManifestFields DEF ReportInv, ReportOfPackage,
        Readable, Early, Checking, Cleared, Packing, Reading, Decoded, Rebuilt, TypeOK,
        Files, Others, Gen
<1>1. CASE Start
  BY <1>1 DEF Start, GenerationInv
<1>2. CASE MergeCheck
  BY <1>2 DEF MergeCheck, Goto
<1>3. CASE MergeWrite
  BY <1>3 DEF MergeWrite, Goto
<1>4. CASE MergeRename
  BY <1>4 DEF MergeRename, Goto
<1>5. CASE DropMetrics
  BY <1>5 DEF DropMetrics, Goto
<1>6. CASE CheckManifest
  BY <1>6 DEF CheckManifest, Goto
<1>7. CASE WriteAdapter
  BY <1>7 DEF WriteAdapter, Goto
<1>8. CASE CheckOutputs
  BY <1>8 DEF CheckOutputs, Goto
<1>9. CASE Wipe
  BY <1>9 DEF Wipe, Goto
<1>10. CASE WriteRows
  BY <1>10 DEF WriteRows, Put, Goto
<1>11. CASE WriteFirstManifest
  BY <1>11, FirstManifestIs DEF WriteFirstManifest, Finish, Goto
<1>12. ASSUME NEW s \in Streams, WriteStream(s) PROVE ReportInv' /\ ReportOfPackage'
  BY <1>12 DEF WriteStream, Put, Goto
<1>13. CASE WriteLastManifest
  BY <1>13, LastManifestIs DEF WriteLastManifest, Finish, Goto
<1>14. CASE ReadManifest
  BY <1>14 DEF ReadManifest, Goto, CommandInv
<1>15. CASE Decode
  BY <1>15 DEF Decode, Goto
<1>16. CASE WriteDecoded
  BY <1>16 DEF WriteDecoded, Put, Goto
<1>17. CASE WriteHdf5
  BY <1>17 DEF WriteHdf5, Goto
<1>18. CASE WriteThirdManifest
  BY <1>18, ThirdManifestIs DEF WriteThirdManifest, Finish, Goto
<1>19. CASE WriteMetrics
  <2>1. cmd.name = "roundtrip" => file["reconstructed"] = count
    BY <1>19 DEF WriteMetrics, MemoryInv
  <2> QED BY <1>19, <2>1 DEF WriteMetrics, Put, Goto
<1>20. CASE CleanRaw
  BY <1>20 DEF CleanRaw, Goto
<1>21. CASE WriteFourthManifest
  BY <1>21, FourthManifestIs DEF WriteFourthManifest, Finish, Goto
<1>22. CASE Throw
  BY <1>22 DEF Throw
<1>23. ASSUME NEW how \in {"killed", "disk"}, pc # "idle", BreakWrite(how)
       PROVE ReportInv' /\ ReportOfPackage'
  <2>1. PICK f \in Writing :
          file' = [file EXCEPT ![f] =
                     IF f = "merging" /\ how = "disk" THEN None ELSE Partial]
    BY <1>23 DEF BreakWrite
  <2> QED BY <1>23, <2>1, WritingIs DEF BreakWrite, Broken
<1>24. ASSUME NEW how \in {"killed", "disk"}, pc # "idle", BreakManifest(how)
       PROVE ReportInv' /\ ReportOfPackage'
  BY <1>24 DEF BreakManifest, Broken, Manifesting
<1>25. ASSUME NEW how \in {"killed", "disk"}, pc # "idle", BreakRemove(how)
       PROVE ReportInv' /\ ReportOfPackage'
  BY <1>25 DEF BreakRemove, Broken, Removing
<1>26. CASE UNCHANGED vars
  BY <1>26 DEF vars
<1> QED
  BY <1>1, <1>2, <1>3, <1>4, <1>5, <1>6, <1>7, <1>8, <1>9, <1>10, <1>11,
     <1>12, <1>13, <1>14, <1>15, <1>16, <1>17, <1>18, <1>19, <1>20, <1>21,
     <1>22, <1>23, <1>24, <1>25, <1>26
     DEF Next, Run, Break, AllDone

(* The package under decompress.                                           *)
LEMMA CarriedStep ==
  ASSUME TypeOK, TypeOK', CommandInv, CarriedInv, DecompressKeepsPackage, Next
  PROVE  CarriedInv' /\ DecompressKeepsPackage'
<1> USE PackageAssumption, ManifestFields DEF CarriedInv,
        DecompressKeepsPackage, CommandInv, Readable, Early, Checking, Cleared, Packing,
        Reading, Decoded, Rebuilt, TypeOK, Files, Others, Gen
<1>1. CASE Start
  BY <1>1 DEF Start
<1>2. CASE MergeCheck
  BY <1>2 DEF MergeCheck, Goto
<1>3. CASE MergeWrite
  BY <1>3 DEF MergeWrite, Goto
<1>4. CASE MergeRename
  BY <1>4 DEF MergeRename, Goto
<1>5. CASE DropMetrics
  BY <1>5 DEF DropMetrics, Goto
<1>6. CASE CheckManifest
  BY <1>6 DEF CheckManifest, Goto
<1>7. CASE WriteAdapter
  BY <1>7 DEF WriteAdapter, Goto
<1>8. CASE CheckOutputs
  BY <1>8 DEF CheckOutputs, Goto
<1>9. CASE Wipe
  BY <1>9 DEF Wipe, Goto
<1>10. CASE WriteRows
  BY <1>10 DEF WriteRows, Put, Goto
<1>11. CASE WriteFirstManifest
  BY <1>11, FirstManifestIs DEF WriteFirstManifest, Finish, Goto
<1>12. ASSUME NEW s \in Streams, WriteStream(s) PROVE CarriedInv' /\ DecompressKeepsPackage'
  BY <1>12 DEF WriteStream, Put, Goto
<1>13. CASE WriteLastManifest
  BY <1>13, LastManifestIs DEF WriteLastManifest, Finish, Goto
<1>14. CASE ReadManifest
  BY <1>14 DEF ReadManifest, Goto
<1>15. CASE Decode
  BY <1>15 DEF Decode, Goto
<1>16. CASE WriteDecoded
  BY <1>16 DEF WriteDecoded, Put, Goto
<1>17. CASE WriteHdf5
  BY <1>17 DEF WriteHdf5, Goto
<1>18. CASE WriteThirdManifest
  BY <1>18, ThirdManifestIs, ZenonT(60) DEF WriteThirdManifest, Finish, Goto
<1>19. CASE WriteMetrics
  BY <1>19 DEF WriteMetrics, Put, Goto
<1>20. CASE CleanRaw
  BY <1>20 DEF CleanRaw, Goto
<1>21. CASE WriteFourthManifest
  BY <1>21, FourthManifestIs DEF WriteFourthManifest, Finish, Goto
<1>22. CASE Throw
  BY <1>22 DEF Throw
<1>23. ASSUME NEW how \in {"killed", "disk"}, pc # "idle", BreakWrite(how)
       PROVE CarriedInv' /\ DecompressKeepsPackage'
  <2>1. PICK f \in Writing :
          file' = [file EXCEPT ![f] =
                     IF f = "merging" /\ how = "disk" THEN None ELSE Partial]
    BY <1>23 DEF BreakWrite
  <2> QED BY <1>23, <2>1, WritingIs DEF BreakWrite, Broken
<1>24. ASSUME NEW how \in {"killed", "disk"}, pc # "idle", BreakManifest(how)
       PROVE CarriedInv' /\ DecompressKeepsPackage'
  BY <1>24 DEF BreakManifest, Broken, Manifesting
<1>25. ASSUME NEW how \in {"killed", "disk"}, pc # "idle", BreakRemove(how)
       PROVE CarriedInv' /\ DecompressKeepsPackage'
  BY <1>25 DEF BreakRemove, Broken, Removing
<1>26. CASE UNCHANGED vars
  BY <1>26 DEF vars
<1> QED
  BY <1>1, <1>2, <1>3, <1>4, <1>5, <1>6, <1>7, <1>8, <1>9, <1>10, <1>11,
     <1>12, <1>13, <1>14, <1>15, <1>16, <1>17, <1>18, <1>19, <1>20, <1>21,
     <1>22, <1>23, <1>24, <1>25, <1>26
     DEF Next, Run, Break, AllDone

(* What a successful command has written.                                  *)
LEMMA WrittenStep ==
  ASSUME TypeOK, TypeOK', CommandInv, MemoryInv, WrittenInv, SuccessIsWhole,
         Next
  PROVE  WrittenInv' /\ SuccessIsWhole'
<1> USE PackageAssumption, ManifestFields DEF WrittenInv, SuccessIsWhole,
        Decodes, Readable, Cleared, Packing, Reading, Decoded, Rebuilt, TypeOK,
        Files, Others, Gen
<1>1. CASE Start
  BY <1>1 DEF Start
<1>2. CASE MergeCheck
  BY <1>2 DEF MergeCheck, Goto
<1>3. CASE MergeWrite
  BY <1>3 DEF MergeWrite, Goto
<1>4. CASE MergeRename
  BY <1>4 DEF MergeRename, Goto
<1>5. CASE DropMetrics
  BY <1>5 DEF DropMetrics, Goto
<1>6. CASE CheckManifest
  BY <1>6 DEF CheckManifest, Goto
<1>7. CASE WriteAdapter
  BY <1>7 DEF WriteAdapter, Goto
<1>8. CASE CheckOutputs
  BY <1>8 DEF CheckOutputs, Goto
<1>9. CASE Wipe
  BY <1>9 DEF Wipe, Goto
<1>10. CASE WriteRows
  BY <1>10 DEF WriteRows, Put, Goto
<1>11. CASE WriteFirstManifest
  <2>1. /\ m'.gen = count /\ ~ m'.complete /\ m' \in Manifests
        /\ manifest' \in {m', Partial} /\ (~ unseen' => manifest' = m')
    BY ONLY <1>11, TypeOK, FirstManifestIs
  <2>2. \/ pc' = "idle" /\ cmd.name = "preprocess"
        \/ pc' = "streams" /\ todo' = Streams
    BY <1>11 DEF WriteFirstManifest, Finish, Goto
  <2>3. cmd' = cmd /\ count' = count /\ file' = file
    BY <1>11 DEF WriteFirstManifest, Finish, Goto
  <2>4. cmd.metrics => cmd.name # "preprocess"
    BY DEF Options
  <2>5. cmd.input = "native" => file["adapter"] = count
    BY <1>11 DEF WriteFirstManifest
  <2>6. WrittenInv'
    BY ONLY <2>2, <2>3, <2>5 DEF WrittenInv, Cleared, Packing, Reading, Decoded, Rebuilt
  <2>7. SuccessIsWhole'
    BY ONLY <2>1, <2>2, <2>3, <2>4, <2>5, ManifestFields DEF SuccessIsWhole, Readable, Decodes
  <2> QED BY <2>6, <2>7
<1>12. ASSUME NEW s \in Streams, WriteStream(s) PROVE WrittenInv' /\ SuccessIsWhole'
  <2>1. /\ pc = "streams" /\ s \in todo /\ todo' = todo \ {s} /\ Put(s, count)
        /\ pc' = IF todo' = {} THEN "last_manifest" ELSE "streams"
        /\ cmd' = cmd /\ count' = count
    BY ONLY <1>12 DEF WriteStream, Goto
  <2>2. s \in Files /\ s # "adapter" /\ count \in Gen
    OBVIOUS
  <2>3. /\ file'["adapter"] = file["adapter"]
        /\ \A other \in Streams \ {s} : file'[other] = file[other]
        /\ ~ unseen' => ~ unseen /\ file'[s] = count
    <3>1. "adapter" \in Files /\ Streams \subseteq Files
      OBVIOUS
    <3> QED BY ONLY <2>1, <2>2, <3>1, TypeOK, PutIs
  <2>4. /\ cmd.input = "native" => file["adapter"] = count
        /\ ~ unseen => \A other \in Streams \ todo : file[other] = count
    BY ONLY <2>1, WrittenInv DEF WrittenInv, Packing
  <2>5. WrittenInv'
    BY ONLY <2>1, <2>3, <2>4 DEF WrittenInv, Cleared, Packing, Reading, Decoded, Rebuilt
  <2>6. SuccessIsWhole'
    BY ONLY <2>1 DEF SuccessIsWhole
  <2> QED BY <2>5, <2>6
<1>13. CASE WriteLastManifest
  <2>1. /\ m'.gen = m.gen /\ m'.complete /\ m' \in Manifests
        /\ ~ unseen' => ~ unseen /\ manifest' = m'
    BY ONLY <1>13, TypeOK, LastManifestIs
  <2>2. m.gen = count /\ (~ unseen => \A s \in Streams : file[s] = count)
    BY <1>13 DEF WriteLastManifest, MemoryInv
  <2>3. pc' = "decode" \/ (pc' = "idle" /\ ~ Decodes)
    BY ONLY <1>13 DEF WriteLastManifest, Finish, Goto
  <2>4. cmd' = cmd /\ count' = count /\ file' = file
    BY <1>13 DEF WriteLastManifest, Finish, Goto
  <2>5. cmd.metrics => Decodes
    BY DEF Options
  <2>6. cmd.input = "native" => file["adapter"] = count
    BY <1>13 DEF WriteLastManifest
  <2>7. WrittenInv'
    BY ONLY <2>3, <2>4, <2>6 DEF WrittenInv, Cleared, Packing, Reading, Decoded, Rebuilt
  <2>8. SuccessIsWhole'
    BY ONLY <2>1, <2>2, <2>3, <2>4, <2>5, <2>6, ManifestFields
       DEF SuccessIsWhole, Readable, Decodes
  <2> QED BY <2>7, <2>8
<1>14. CASE ReadManifest
  <2>1. /\ pc = "read_manifest" /\ pc' = "decode"
        /\ UNCHANGED <<cmd, count, file, manifest, unseen>>
    BY <1>14 DEF ReadManifest, Goto
  <2>2. cmd.input # "native"
    BY <2>1 DEF CommandInv, Options
  <2> QED BY <2>1, <2>2
<1>15. CASE Decode
  BY <1>15 DEF Decode, Goto
<1>16. CASE WriteDecoded
  BY <1>16 DEF WriteDecoded, Put, Goto
<1>17. CASE WriteHdf5
  BY <1>17 DEF WriteHdf5, Goto
<1>18. CASE WriteThirdManifest
  BY <1>18, ThirdManifestIs DEF WriteThirdManifest, Finish, Goto
<1>19. CASE WriteMetrics
  <2>1. cmd.metrics => file["reconstructed"] = count
    BY <1>19 DEF WriteMetrics, MemoryInv, Reading, Decoded, Rebuilt, Options
  <2> QED BY <1>19, <2>1, ZenonT(60) DEF WriteMetrics, Put, Goto
<1>20. CASE CleanRaw
  BY <1>20 DEF CleanRaw, Goto
<1>21. CASE WriteFourthManifest
  <2>1. ~ unseen' => ~ unseen /\ manifest' = m
    BY ONLY <1>21, TypeOK, FourthManifestIs
  <2>2. /\ m.complete /\ m.rebuilt /\ (\A s \in Streams : file[s] = m.gen)
        /\ file["reconstructed"] = m.gen /\ (cmd.name # "decompress" => m.gen = count)
    BY <1>21 DEF WriteFourthManifest, MemoryInv, Reading, Decoded, Rebuilt
  <2> QED BY <1>21, <2>1, <2>2 DEF WriteFourthManifest, Finish
<1>22. CASE Throw
  BY <1>22 DEF Throw
<1>23. ASSUME NEW how \in {"killed", "disk"}, pc # "idle", BreakWrite(how)
       PROVE WrittenInv' /\ SuccessIsWhole'
  <2>1. PICK f \in Writing :
          file' = [file EXCEPT ![f] =
                     IF f = "merging" /\ how = "disk" THEN None ELSE Partial]
    BY <1>23 DEF BreakWrite
  <2> QED BY <1>23, <2>1, WritingIs DEF BreakWrite, Broken
<1>24. ASSUME NEW how \in {"killed", "disk"}, pc # "idle", BreakManifest(how)
       PROVE WrittenInv' /\ SuccessIsWhole'
  BY <1>24 DEF BreakManifest, Broken, Manifesting
<1>25. ASSUME NEW how \in {"killed", "disk"}, pc # "idle", BreakRemove(how)
       PROVE WrittenInv' /\ SuccessIsWhole'
  BY <1>25 DEF BreakRemove, Broken, Removing
<1>26. CASE UNCHANGED vars
  BY <1>26 DEF vars
<1> QED
  BY <1>1, <1>2, <1>3, <1>4, <1>5, <1>6, <1>7, <1>8, <1>9, <1>10, <1>11,
     <1>12, <1>13, <1>14, <1>15, <1>16, <1>17, <1>18, <1>19, <1>20, <1>21,
     <1>22, <1>23, <1>24, <1>25, <1>26
     DEF Next, Run, Break, AllDone

(* What was there when the command began.                                  *)
LEMMA UntouchedStep ==
  ASSUME TypeOK, TypeOK', CommandInv, UntouchedInv, NothingOverwritten, Next
  PROVE  UntouchedInv' /\ NothingOverwritten'
<1> USE PackageAssumption, ManifestFields DEF UntouchedInv,
        NothingOverwritten, Allowed, Exists, CommandInv, Early, Checking, Cleared,
        Packing, Reading, Decoded, Rebuilt, TypeOK, Files, Others, Gen,
        Options
<1>1. CASE Start
  BY <1>1 DEF Start
<1>2. CASE MergeCheck
  BY <1>2 DEF MergeCheck, Goto
<1>3. CASE MergeWrite
  BY <1>3 DEF MergeWrite, Goto
<1>4. CASE MergeRename
  BY <1>4 DEF MergeRename, Goto
<1>5. CASE DropMetrics
  BY <1>5 DEF DropMetrics, Goto
<1>6. CASE CheckManifest
  BY <1>6 DEF CheckManifest, Goto
<1>7. CASE WriteAdapter
  BY <1>7 DEF WriteAdapter, Goto
<1>8. CASE CheckOutputs
  BY <1>8 DEF CheckOutputs, Goto
<1>9. CASE Wipe
  BY <1>9 DEF Wipe, Goto
<1>10. CASE WriteRows
  BY <1>10 DEF WriteRows, Put, Goto
<1>11. CASE WriteFirstManifest
  BY <1>11, FirstManifestIs DEF WriteFirstManifest, Finish, Goto
<1>12. ASSUME NEW s \in Streams, WriteStream(s) PROVE UntouchedInv' /\ NothingOverwritten'
  BY <1>12 DEF WriteStream, Put, Goto
<1>13. CASE WriteLastManifest
  BY <1>13, LastManifestIs DEF WriteLastManifest, Finish, Goto
<1>14. CASE ReadManifest
  BY <1>14 DEF ReadManifest, Goto
<1>15. CASE Decode
  BY <1>15 DEF Decode, Goto
<1>16. CASE WriteDecoded
  BY <1>16 DEF WriteDecoded, Put, Goto
<1>17. CASE WriteHdf5
  BY <1>17 DEF WriteHdf5, Goto
<1>18. CASE WriteThirdManifest
  BY <1>18, ThirdManifestIs DEF WriteThirdManifest, Finish, Goto
<1>19. CASE WriteMetrics
  BY <1>19 DEF WriteMetrics, Put, Goto
<1>20. CASE CleanRaw
  BY <1>20 DEF CleanRaw, Goto
<1>21. CASE WriteFourthManifest
  BY <1>21, FourthManifestIs DEF WriteFourthManifest, Finish, Goto
<1>22. CASE Throw
  BY <1>22 DEF Throw
<1>23. ASSUME NEW how \in {"killed", "disk"}, pc # "idle", BreakWrite(how)
       PROVE UntouchedInv' /\ NothingOverwritten'
  <2>1. PICK f \in Writing :
          file' = [file EXCEPT ![f] =
                     IF f = "merging" /\ how = "disk" THEN None ELSE Partial]
    BY <1>23 DEF BreakWrite
  <2> QED BY <1>23, <2>1, WritingIs DEF BreakWrite, Broken
<1>24. ASSUME NEW how \in {"killed", "disk"}, pc # "idle", BreakManifest(how)
       PROVE UntouchedInv' /\ NothingOverwritten'
  BY <1>24 DEF BreakManifest, Broken, Manifesting
<1>25. ASSUME NEW how \in {"killed", "disk"}, pc # "idle", BreakRemove(how)
       PROVE UntouchedInv' /\ NothingOverwritten'
  BY <1>25 DEF BreakRemove, Broken, Removing
<1>26. CASE UNCHANGED vars
  BY <1>26 DEF vars
<1> QED
  BY <1>1, <1>2, <1>3, <1>4, <1>5, <1>6, <1>7, <1>8, <1>9, <1>10, <1>11,
     <1>12, <1>13, <1>14, <1>15, <1>16, <1>17, <1>18, <1>19, <1>20, <1>21,
     <1>22, <1>23, <1>24, <1>25, <1>26
     DEF Next, Run, Break, AllDone

-------------------------------------------------------------------------------
(* The first state: no files, and no command.                              *)
LEMMA InitInv == Init => PackageInv
<1> SUFFICES ASSUME Init PROVE PackageInv
  OBVIOUS
<1>1. /\ pc = "idle" /\ count = 0 /\ status = "ok" /\ manifest = None
      /\ cmd.name = "decompress" /\ ~ cmd.force /\ ~ cmd.metrics
      /\ file \in [Files -> {None}] /\ before.file = file /\ before.manifest = None
  BY DEF Init
<1>2. None # Partial /\ None # Mixed /\ ~ Readable
  BY <1>1, PackageAssumption DEF Mixed, Readable
<1>3. TypeOK
  <2>1. 0 \in Gen
    BY PackageAssumption DEF Gen
  <2>2. m \in Manifests
    BY <2>1, ManifestIs DEF Init
  <2>3. cmd \in Options
    BY DEF Init, Options, Names
  <2> QED BY <2>1, <2>2, <2>3 DEF Init, TypeOK, Labels, Contents
<1>4. CommandInv /\ GenerationInv /\ MemoryInv
  BY <1>1, <1>2 DEF CommandInv, GenerationInv, MemoryInv, Files, Others, Early,
                    Checking, Cleared, Packing, Reading, Decoded, Rebuilt
<1>5. OneGeneration /\ ArtifactOfPackage
  BY <1>2 DEF OneGeneration, ArtifactOfPackage
<1>6. NeverMixed /\ MergeInv /\ MergedIsWhole
  BY <1>1, <1>2 DEF NeverMixed, MergeInv, MergedIsWhole, Files, Others
<1>7. UntouchedInv /\ NothingOverwritten
  BY <1>1 DEF UntouchedInv, NothingOverwritten, Checking, Cleared, Packing, Reading,
              Decoded, Rebuilt
<1>8. ReportInv /\ ReportOfPackage /\ CarriedInv /\ DecompressKeepsPackage
  BY <1>1, <1>2 DEF ReportInv, ReportOfPackage, CarriedInv, DecompressKeepsPackage,
                    Packing, Reading, Decoded, Rebuilt, Checking, Cleared
<1>9. WrittenInv /\ SuccessIsWhole
  BY <1>1 DEF WrittenInv, SuccessIsWhole, Cleared, Packing, Reading, Decoded, Rebuilt
<1> QED
  BY <1>3, <1>4, <1>5, <1>6, <1>7, <1>8, <1>9 DEF PackageInv

LEMMA NextInv == PackageInv /\ [Next]_vars => PackageInv'
<1>1. CASE UNCHANGED vars
  BY <1>1 DEF vars, PackageInv, TypeOK, CommandInv, GenerationInv, MemoryInv,
              OneGeneration, NeverMixed, ArtifactOfPackage, MergeInv,
              MergedIsWhole, UntouchedInv, NothingOverwritten, ReportInv,
              ReportOfPackage, CarriedInv, DecompressKeepsPackage, WrittenInv,
              SuccessIsWhole, Readable, Decodes
<1>2. ASSUME PackageInv, Next PROVE PackageInv'
  <2> USE <1>2 DEF PackageInv
  <2>1. TypeOK'
    BY TypeStep
  <2>2. CommandInv' /\ GenerationInv' /\ MemoryInv' /\ OneGeneration'
    BY <2>1, CommandStep, GenerationStep, MemoryStep, OneGenerationStep
  <2>3. NeverMixed' /\ ArtifactOfPackage' /\ MergeInv' /\ MergedIsWhole'
    BY <2>1, NeverMixedStep, ArtifactStep, MergeStep
  <2>4. UntouchedInv' /\ NothingOverwritten' /\ ReportInv' /\ ReportOfPackage'
    BY <2>1, UntouchedStep, ReportStep
  <2>5. CarriedInv' /\ DecompressKeepsPackage' /\ WrittenInv' /\ SuccessIsWhole'
    BY <2>1, CarriedStep, WrittenStep
  <2> QED BY <2>1, <2>2, <2>3, <2>4, <2>5
<1> QED BY <1>1, <1>2

-------------------------------------------------------------------------------
(* PackageInv holds in every state of a work directory.                    *)
THEOREM Invariance == Spec => []PackageInv
BY InitInv, NextInv, PTL DEF Spec

(* The files, the manifest and the command keep their types.               *)
THEOREM PackageTypes == Spec => []TypeOK
BY Invariance, PTL DEF PackageInv

(* A manifest with compressed fields never stands beside streams of        *)
(* another package, wherever the commands before it were cut off.          *)
THEOREM StreamsOfOneGeneration == Spec => []OneGeneration
BY Invariance, PTL DEF PackageInv

(* No reconstruction or report is made of streams of two packages.         *)
THEOREM NothingIsMixed == Spec => []NeverMixed
BY Invariance, PTL DEF PackageInv

(* A manifest names only a reconstruction of its own package.              *)
THEOREM ArtifactsBelong == Spec => []ArtifactOfPackage
BY Invariance, PTL DEF PackageInv

(* Without --force a command leaves what it found, however it ends.        *)
THEOREM NothingIsOverwritten == Spec => []NothingOverwritten
BY Invariance, PTL DEF PackageInv

(* The report beside the manifest of a roundtrip is its own.               *)
THEOREM ReportsBelong == Spec => []ReportOfPackage
BY Invariance, PTL DEF PackageInv

(* A decompress changes no stream, and its manifest is lost only inside a  *)
(* write of it.                                                            *)
THEOREM DecompressKeepsIt == Spec => []DecompressKeepsPackage
BY Invariance, PTL DEF PackageInv

(* A command that reports success has left all it promises.                *)
THEOREM SuccessesAreWhole == Spec => []SuccessIsWhole
BY Invariance, PTL DEF PackageInv

(* The merged snapshot is never half written.                              *)
THEOREM MergedStaysWhole == Spec => []MergedIsWhole
BY Invariance, PTL DEF PackageInv
===============================================================================
