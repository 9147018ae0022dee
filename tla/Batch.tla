-------------------------------- MODULE Batch --------------------------------
(***************************************************************************)
(* run_directory of src/batch.cpp: one forked process per input file, at   *)
(* most `workers` at a time.  A child runs the pipeline in the file's work *)
(* directory, reads its report back, writes .batch-result.json and exits;  *)
(* the parent waits for any child, reads that file and removes it, and at  *)
(* the end writes batch_metrics.json.                                      *)
(*                                                                         *)
(* Processes can be killed, fork and writes can fail, and a batch can be   *)
(* started again with --force in the same directory: the files an earlier  *)
(* batch left are still there, and so may be its children, which nobody    *)
(* stops when the parent throws or is killed.                              *)
(***************************************************************************)
EXTENDS Integers, FiniteSets

CONSTANTS
  FileCount,   (* paths.size(): discover() throws when there is no file    *)
  FileWorkers, (* --file-workers, or the number of processors              *)
  Runs,        (* bound: how often the batch is started                    *)
  None,        (* no file, and a default-constructed Json                  *)
  Partial      (* a file that is only partly written                       *)

Index == 0..(FileCount - 1)
Run == 1..Runs
workers == IF FileCount < FileWorkers THEN FileCount ELSE FileWorkers

VARIABLES
  run,        (* the batch that runs, or ran last                          *)
  batch,      (* where its parent process is, or how it ended              *)
  next,       (* the local `next` of the parent                            *)
  active,     (* the map `active`: the files whose child is awaited        *)
  reaped,     (* the file whose child waitpid returned, or None            *)
  results,    (* results[index]                                            *)
  child,      (* child[r][f]: the process for file f of batch r            *)
  manifest,   (* the batch whose manifest is in the work directory of f    *)
  resultFile, (* .batch-result.json of f: None, Partial or its content     *)
  summary,    (* batch_metrics.json: None, Partial or its content          *)
  quiet       (* history: no older child was alive when this batch began   *)

parentVars == <<run, batch, next, active, reaped, results, summary, quiet>>
vars == <<parentVars, child, manifest, resultFile>>

(* Where a child is: it was never forked; inside run(); about to read its  *)
(* report, to open, to write its result file, to exit; or it has ended.    *)
Alive == {"running", "reporting", "opening", "writing", "exiting"}

(* `code`: 0, 2, or Signaled when the process was killed.  `report`: whose *)
(* manifest it read.  `handle`: the result file it has open is the one in  *)
(* the directory.                                                          *)
Signaled == 9
NotForked == [at |-> "none", code |-> 0, report |-> 0, handle |-> FALSE]
Forked == [NotForked EXCEPT !.at = "running"]

Result(r, succeeded, report) ==
  [by |-> r, succeeded |-> succeeded, report |-> report]

Results == [by : 0..Runs, succeeded : BOOLEAN, report : 0..Runs]

ASSUME BatchAssumption ==
  /\ FileCount \in Nat \ {0}
  /\ FileWorkers \in Nat \ {0}
  /\ Runs \in Nat \ {0}
  /\ None \notin Int /\ None \notin Results
  /\ Partial # None /\ Partial \notin Results

(* How the parent ends: main returns 0; 2 after the summary; 2 because the *)
(* loop threw, or because the summary could not be written; a signal.      *)
Ended == {"ok", "failed", "threw", "unwritable", "killed"}

Init ==
  /\ run = 1
  /\ batch = "loop"
  /\ next = 0
  /\ active = {}
  /\ reaped = None
  /\ results = [f \in Index |-> None]
  /\ child = [r \in Run |-> [f \in Index |-> NotForked]]
  /\ manifest = [f \in Index |-> 0]
  /\ resultFile = [f \in Index |-> None]
  /\ summary = None
  /\ quiet = TRUE

-------------------------------------------------------------------------------
(* The child, from fork() to _exit(code).                                  *)

(* The step of child (r, f) from `from` to `to`, which sets code, report   *)
(* and handle.                                                             *)
ChildStep(r, f, from, to, code, report, handle) ==
  /\ child[r][f].at = from
  /\ child' = [child EXCEPT ![r][f] =
                 [at |-> to, code |-> code, report |-> report, handle |-> handle]]
  /\ UNCHANGED parentVars

(* run(child) returns: the package of this batch is in the directory.      *)
RunReturns(r, f) ==
  /\ ChildStep(r, f, "running", "reporting", 0, 0, FALSE)
  /\ manifest' = [manifest EXCEPT ![f] = r]
  /\ UNCHANGED resultFile

(* run(child) throws, before or after preprocess has written a manifest.   *)
RunThrows(r, f) ==
  /\ ChildStep(r, f, "running", "opening", 2, 0, FALSE)
  /\ manifest' \in {manifest, [manifest EXCEPT ![f] = r]}
  /\ UNCHANGED resultFile

(* r["report"] = read_json(...): whatever manifest is there now.           *)
ReadReport(r, f) ==
  /\ ChildStep(r, f, "reporting", "opening", 0, manifest[f], FALSE)
  /\ UNCHANGED <<manifest, resultFile>>

(* Another process is just writing that manifest.                          *)
ReportUnreadable(r, f) ==
  /\ \E s \in Run \ {r} : child[s][f].at = "running"
  /\ ChildStep(r, f, "reporting", "opening", 2, 0, FALSE)
  /\ UNCHANGED <<manifest, resultFile>>

(* write_json: the ofstream truncates the file, ...                        *)
OpenResult(r, f) ==
  /\ ChildStep(r, f, "opening", "writing", child[r][f].code,
               child[r][f].report, TRUE)
  /\ resultFile' = [resultFile EXCEPT ![f] = Partial]
  /\ UNCHANGED manifest

(* Mistake (see below): the child exits with 0 although its result could   *)
(* not be written.                                                         *)
OpenFailsUnnoticed(r, f) ==
  /\ ChildStep(r, f, "opening", "exiting", child[r][f].code,
               child[r][f].report, FALSE)
  /\ UNCHANGED <<manifest, resultFile>>

(* ... or cannot be opened: `catch (...) { code = 2; }`.                   *)
OpenFails(r, f) ==
  /\ ChildStep(r, f, "opening", "exiting", 2, child[r][f].report, FALSE)
  /\ UNCHANGED <<manifest, resultFile>>

(* Two processes that have the same file open may leave a mixture.         *)
Contended(r, f) ==
  resultFile[f] # Partial \/ \E s \in Run \ {r} : child[s][f].handle

(* The content reaches the file, unless the file was removed since.        *)
WriteResult(r, f) ==
  LET c == child[r][f]
      written == Result(r, c.code = 0, c.report)
      content == IF Contended(r, f) THEN {written, Partial} ELSE {written}
  IN /\ ChildStep(r, f, "writing", "exiting", c.code, c.report, FALSE)
     /\ IF c.handle
          THEN \E v \in content : resultFile' = [resultFile EXCEPT ![f] = v]
          ELSE UNCHANGED resultFile
     /\ UNCHANGED manifest

(* The write fails: `if (!f) throw` notices it, or the buffer is flushed   *)
(* only by the destructor, whose failure nobody sees (json_io.cpp:147).    *)
WriteFails(r, f) ==
  /\ \E code \in {2, child[r][f].code} :
       ChildStep(r, f, "writing", "exiting", code, child[r][f].report, FALSE)
  /\ UNCHANGED <<manifest, resultFile>>

Exit(r, f) ==
  /\ ChildStep(r, f, "exiting", "ended", child[r][f].code, child[r][f].report,
               FALSE)
  /\ UNCHANGED <<manifest, resultFile>>

(* The child crashes, or the system kills it.                              *)
Kill(r, f) ==
  /\ child[r][f].at \in Alive
  /\ ChildStep(r, f, child[r][f].at, "ended", Signaled, child[r][f].report,
               FALSE)
  /\ UNCHANGED <<manifest, resultFile>>

-------------------------------------------------------------------------------
(* Mistakes: each operator is the one of its name with one plausible bug,  *)
(* to see that the properties below notice it.                             *)

(* active.size() <= workers.                                               *)
LaunchOneMore ==
  /\ batch = "loop"
  /\ next < FileCount /\ Cardinality(active) <= workers
  /\ child' = [child EXCEPT ![run][next] = Forked]
  /\ active' = active \cup {next}
  /\ next' = next + 1
  /\ UNCHANGED <<run, batch, reaped, results, summary, quiet, manifest, resultFile>>

(* The exit status is ignored when there is a result file.                 *)
CollectedUnchecked(f) ==
  IF resultFile[f] = None THEN Result(0, FALSE, 0) ELSE resultFile[f]

(* The loop ends with the last launch.                                     *)
OpenSummaryEarly ==
  /\ batch = "loop"
  /\ next = FileCount
  /\ summary' = Partial
  /\ batch' = "summary"
  /\ UNCHANGED <<run, next, active, reaped, results, quiet, child, manifest,
                 resultFile>>

(* `failed files` are reported in batch_metrics.json alone.                *)
WriteSummarySilent ==
  /\ batch = "summary"
  /\ summary' = [by |-> run, success |-> {f \in Index : results[f].succeeded}]
  /\ batch' = "ok"
  /\ UNCHANGED <<run, next, active, reaped, results, quiet, child, manifest,
                 resultFile>>

(* next <= paths.size().                                                   *)
LaunchPastTheEnd ==
  /\ batch = "loop"
  /\ next <= FileCount /\ Cardinality(active) < workers
  /\ child' = [child EXCEPT ![run][next] = Forked]
  /\ active' = active \cup {next}
  /\ next' = next + 1
  /\ UNCHANGED <<run, batch, reaped, results, summary, quiet, manifest, resultFile>>

(* A child is waited for only after the last launch.                       *)
WaitAfterTheLast(f) ==
  /\ batch = "loop"
  /\ next = FileCount
  /\ f \in active
  /\ child[run][f].at = "ended"
  /\ active' = active \ {f}
  /\ reaped' = f
  /\ batch' = "collect"
  /\ UNCHANGED <<run, next, results, summary, quiet, child, manifest, resultFile>>

-------------------------------------------------------------------------------
(* The parent.                                                             *)

(* launch(next++)                                                          *)
Launch ==
  /\ batch = "loop"
  /\ next < FileCount /\ Cardinality(active) < workers
  /\ child' = [child EXCEPT ![run][next] = Forked]
  /\ active' = active \cup {next}
  /\ next' = next + 1
  /\ UNCHANGED <<run, batch, reaped, results, summary, quiet, manifest, resultFile>>

(* fork() fails: run_directory throws, whatever its children do.           *)
ForkFails ==
  /\ batch = "loop"
  /\ next < FileCount /\ Cardinality(active) < workers
  /\ next' = next + 1
  /\ batch' = "threw"
  /\ UNCHANGED <<run, active, reaped, results, summary, quiet, child, manifest,
                 resultFile>>

(* waitpid(-1, &status, 0)                                                 *)
Wait(f) ==
  /\ batch = "loop"
  /\ next = FileCount \/ Cardinality(active) >= workers
  /\ f \in active
  /\ child[run][f].at = "ended"
  /\ active' = active \ {f}
  /\ reaped' = f
  /\ batch' = "collect"
  /\ UNCHANGED <<run, next, results, summary, quiet, child, manifest, resultFile>>

(* The result file's content, or a result made up for a child that left    *)
(* none; a failure when the exit status says so.                           *)
Collected(f) ==
  IF resultFile[f] = None THEN Result(0, FALSE, 0)
  ELSE IF child[run][f].code # 0 THEN [resultFile[f] EXCEPT !.succeeded = FALSE]
  ELSE resultFile[f]

(* fs::exists, read_json and fs::remove.                                   *)
Collect ==
  /\ batch = "collect"
  /\ resultFile[reaped] # Partial
  /\ results' = [results EXCEPT ![reaped] = Collected(reaped)]
  /\ resultFile' = [resultFile EXCEPT ![reaped] = None]
  /\ child' = [r \in Run |-> [child[r] EXCEPT ![reaped].handle = FALSE]]
  /\ reaped' = None
  /\ batch' = "loop"
  /\ UNCHANGED <<run, next, active, summary, quiet, manifest>>

(* read_json throws on a truncated file, and nobody catches it.            *)
CollectThrows ==
  /\ batch = "collect"
  /\ resultFile[reaped] = Partial
  /\ batch' = "threw"
  /\ UNCHANGED <<run, next, active, reaped, results, summary, quiet, child,
                 manifest, resultFile>>

(* The loop is over, and write_json opens batch_metrics.json.              *)
OpenSummary ==
  /\ batch = "loop"
  /\ next = FileCount /\ active = {}
  /\ summary' = Partial
  /\ batch' = "summary"
  /\ UNCHANGED <<run, next, active, reaped, results, quiet, child, manifest,
                 resultFile>>

(* `if (success != paths.size()) throw`: main returns 2, else 0.           *)
WriteSummary ==
  /\ batch = "summary"
  /\ LET success == {f \in Index : results[f].succeeded}
     IN /\ summary' = [by |-> run, success |-> success]
        /\ batch' = IF Cardinality(success) # FileCount THEN "failed" ELSE "ok"
  /\ UNCHANGED <<run, next, active, reaped, results, quiet, child, manifest,
                 resultFile>>

SummaryFails ==
  /\ batch = "summary"
  /\ batch' = "unwritable"
  /\ UNCHANGED <<run, next, active, reaped, results, summary, quiet, child,
                 manifest, resultFile>>

(* The parent is killed; its children are not.                             *)
KillParent ==
  /\ batch \notin Ended
  /\ batch' = "killed"
  /\ UNCHANGED <<run, next, active, reaped, results, summary, quiet, child,
                 manifest, resultFile>>

(* The same batch is started again with --force.                           *)
Restart ==
  /\ batch \in Ended
  /\ run < Runs
  /\ run' = run + 1
  /\ batch' = "loop"
  /\ next' = 0
  /\ active' = {}
  /\ reaped' = None
  /\ results' = [f \in Index |-> None]
  /\ quiet' = \A r \in Run, f \in Index : child[r][f].at \notin Alive
  /\ UNCHANGED <<child, manifest, resultFile, summary>>

-------------------------------------------------------------------------------
ChildProgress(r, f) ==
  \/ RunReturns(r, f) \/ RunThrows(r, f)
  \/ ReadReport(r, f) \/ ReportUnreadable(r, f)
  \/ OpenResult(r, f) \/ OpenFails(r, f)
  \/ WriteResult(r, f) \/ WriteFails(r, f)
  \/ Exit(r, f)

ParentProgress ==
  \/ Launch \/ ForkFails
  \/ \E f \in Index : Wait(f)
  \/ Collect \/ CollectThrows
  \/ OpenSummary \/ WriteSummary \/ SummaryFails

AllEnded == \A r \in Run, f \in Index : child[r][f].at \notin Alive

Stopped == batch \in Ended /\ AllEnded /\ UNCHANGED vars

Next ==
  \/ \E r \in Run, f \in Index : ChildProgress(r, f) \/ Kill(r, f)
  \/ ParentProgress
  \/ KillParent
  \/ Restart
  \/ Stopped

(* The system schedules every process, and run() ends.                     *)
Fairness ==
  /\ WF_vars(ParentProgress)
  /\ \A r \in Run, f \in Index : WF_vars(ChildProgress(r, f))

Spec == Init /\ [][Next]_vars
FairSpec == Spec /\ Fairness

-------------------------------------------------------------------------------
(* Properties.                                                             *)

Summaries == [by : Run, success : SUBSET Index]

TypeOK ==
  /\ run \in Run
  /\ batch \in {"loop", "collect", "summary"} \cup Ended
  /\ next \in 0..FileCount
  /\ active \in SUBSET Index
  /\ reaped \in Index \cup {None}
  /\ results \in [Index -> Results \cup {None}]
  /\ child \in [Run -> [Index ->
        [at : Alive \cup {"none", "ended"}, code : {0, 2, Signaled},
         report : 0..Runs, handle : BOOLEAN]]]
  /\ manifest \in [Index -> 0..Runs]
  /\ resultFile \in [Index -> Results \cup {None, Partial}]
  /\ summary \in Summaries \cup {None, Partial}
  /\ quiet \in BOOLEAN

Concluded == batch \in {"ok", "failed"}

(* A batch never runs more pipelines of its own at a time than it has file *)
(* workers (batch.cpp:232), whatever ends in which order.                  *)
PoolBounded ==
  Cardinality({f \in Index : child[run][f].at \in Alive}) <= workers

(* A batch that reaches its summary has a result of every file, and none   *)
(* of its children is left running.                                        *)
SettledBeforeSummary ==
  batch = "summary" \/ Concluded =>
    \A f \in Index : results[f] # None /\ child[run][f].at = "ended"

(* A file counts as a success only if the child of this very batch exited  *)
(* with 0 (batch.cpp:253): not because of a result file that a killed      *)
(* child, an earlier batch or an orphan left there.                        *)
SuccessIsEarned ==
  \A f \in Index :
    results[f] # None /\ results[f].succeeded => child[run][f].code = 0

(* The process status tells what the children did: 0 means that each of    *)
(* them exited with 0.                                                     *)
StatusHonest ==
  /\ batch = "ok" => \A f \in Index : child[run][f].code = 0
  /\ Concluded /\ (\E f \in Index : child[run][f].code # 0) => batch = "failed"

(* With no child of an older batch alive at the start, a success carries   *)
(* the report that its own child read from its own manifest, although old  *)
(* result files may lie in the work directories.                           *)
ReportsFresh ==
  quiet =>
    \A f \in Index : results[f] # None /\ results[f].succeeded =>
      results[f].by = run /\ results[f].report = run

(* The inductive strengthening of the invariants above.                    *)

(* What later batches will fork is not forked; a child of this batch that  *)
(* lives is in `active`, which holds launched files only.                  *)
PoolInv ==
  /\ \A r \in Run : r > run => \A f \in Index : child[r][f] = NotForked
  /\ \A f \in Index : child[run][f].at \in Alive => f \in active
  /\ \A f \in active : f < next
  /\ Cardinality(active) <= workers

(* While the loop has not thrown, a launched file that is awaited no more  *)
(* has ended, and has a result or is just being collected.                 *)
SettledInv ==
  /\ batch = "loop" => reaped = None
  /\ batch = "collect" => reaped \in Index /\ reaped \notin active /\ reaped < next
  /\ batch \in {"summary", "ok", "failed"} => next = FileCount /\ active = {} /\ reaped = None
  /\ batch \in {"loop", "collect", "summary", "ok", "failed"} =>
       \A f \in Index : f < next /\ f \notin active =>
         child[run][f].at = "ended" /\ (results[f] # None \/ f = reaped)

EarnedInv ==
  \A f \in Index : results[f] # None /\ results[f].succeeded =>
    child[run][f].at = "ended" /\ child[run][f].code = 0

HonestInv == batch = "ok" => \A f \in Index : child[run][f].code = 0

(* Only a process that writes has the result file open; a result is there  *)
(* only of a file that was launched, has ended and was collected.          *)
LedgerInv ==
  /\ \A r \in Run, f \in Index : child[r][f].handle => child[r][f].at = "writing"
  /\ batch = "collect" => results[reaped] = None /\ child[run][reaped].at = "ended"
  /\ \A f \in Index : results[f] # None =>
       f < next /\ f \notin active /\ child[run][f].at = "ended"

(* With no older child alive only this batch's child moves its file.       *)
FreshChild(f) ==
  LET c == child[run][f]
  IN  /\ c.at = "reporting" => manifest[f] = run
      /\ c.at \in {"opening", "writing", "exiting", "ended"} /\ c.code = 0 => c.report = run
      /\ c.at = "writing" => resultFile[f] = Partial
      /\ c.at \in {"exiting", "ended"} /\ c.code = 0 /\ results[f] = None =>
           resultFile[f] \in {Partial, Result(run, TRUE, run)}
      /\ results[f] # None /\ results[f].succeeded => results[f] = Result(run, TRUE, run)

FreshInv ==
  quiet =>
    /\ \A r \in Run, f \in Index : r < run => child[r][f].at \notin Alive
    /\ \A f \in Index : FreshChild(f)

BatchInv ==
  TypeOK /\ PoolInv /\ SettledInv /\ EarnedInv /\ HonestInv /\ LedgerInv /\ FreshInv

(* "A failed child is reflected in the batch summary and process status."  *)
(* (tests/runtime_interop.py:51), for every batch that was not killed and  *)
(* whose directory could be written.                                       *)
FailureReflected ==
  batch \in {"ok", "failed", "threw"} /\ (\E f \in Index : child[run][f].code # 0) =>
    /\ batch # "ok"
    /\ summary \in Summaries /\ summary.by = run
    /\ \A f \in summary.success : child[run][f].code = 0

(* A batch ends: it never waits for a child that it has already reaped or  *)
(* that was killed.                                                        *)
BatchEnds == []<>(batch \in Ended)
===============================================================================
