----------------------------- MODULE BatchProofs -----------------------------
(***************************************************************************)
(* Theorems about Batch, for every number of files, workers and restarts.  *)
(*                                                                         *)
(* The inductive invariant is BatchInv.  PoolInv says where a live child   *)
(* is counted, which bounds the pool; SettledInv that a file that is       *)
(* awaited no more has ended and has a result, which the summary needs;    *)
(* EarnedInv and LedgerInv tie a result to the end of the child, and       *)
(* FreshInv follows one result file from the child that opens it to the    *)
(* parent that removes it, as long as no older child lives.                *)
(***************************************************************************)
EXTENDS Batch, FiniteSetTheorems, TLAPS

ChildStates ==
  [at : Alive \cup {"none", "ended"}, code : {0, 2, Signaled},
   report : 0..Runs, handle : BOOLEAN]

(* The sets of files are finite, and the pool has room for one child.      *)
LEMMA PoolIsFinite ==
  /\ workers \in Nat \ {0}
  /\ \A S \in SUBSET Index : IsFiniteSet(S) /\ Cardinality(S) \in Nat
  /\ Cardinality(Index) = FileCount
  /\ \A S \in SUBSET Index : Cardinality(S) = FileCount => S = Index
<1>1. workers \in Nat \ {0}
  BY BatchAssumption DEF workers
<1>2. IsFiniteSet(Index) /\ Cardinality(Index) = FileCount
  BY BatchAssumption, FS_Interval DEF Index
<1> QED BY <1>1, <1>2, FS_Subset, FS_CardinalityType

(* The first state of a batch.                                             *)
LEMMA InitInv == Init => BatchInv
<1> SUFFICES ASSUME Init PROVE BatchInv
  OBVIOUS
<1> USE BatchAssumption DEF Init, Run, NotForked
<1>1. TypeOK
  BY DEF TypeOK, Alive
<1>2. \A r \in Run, f \in Index : child[r][f] = NotForked
  OBVIOUS
<1>3. \A f \in Index : f >= 0 /\ results[f] = None
  BY DEF Index
<1>4. Cardinality(active) <= workers
  BY PoolIsFinite, FS_EmptySet
<1>5. PoolInv
  BY <1>2, <1>4 DEF PoolInv, Alive
<1>6. SettledInv
  BY <1>3 DEF SettledInv, Index
<1>7. EarnedInv /\ HonestInv
  BY <1>3 DEF EarnedInv, HonestInv
<1>8. LedgerInv
  BY <1>2, <1>3 DEF LedgerInv
<1>9. FreshInv
  <2>1. \A r \in Run, f \in Index : child[r][f].at \notin Alive
    BY <1>2 DEF Alive
  <2>2. \A f \in Index : child[run][f] = NotForked /\ results[f] = None
    BY <1>2, <1>3
  <2>3. \A f \in Index : FreshChild(f)
    <3> SUFFICES ASSUME NEW f \in Index PROVE FreshChild(f)
      OBVIOUS
    <3>1. child[run][f].at = "none" /\ results[f] = None
      BY <2>2
    <3> QED BY ONLY <3>1 DEF FreshChild
  <2> QED BY <2>1, <2>3 DEF FreshInv
<1> QED BY <1>1, <1>5, <1>6, <1>7, <1>8, <1>9 DEF BatchInv

-------------------------------------------------------------------------------
(* The steps of a child.                                                   *)

(* What a step changes in `child`: one process, which was alive.           *)
LEMMA ChildStepIs ==
  ASSUME TypeOK,
         NEW r \in Run, NEW f \in Index, NEW from \in Alive,
         NEW to \in Alive \cup {"ended"}, NEW code \in {0, 2, Signaled},
         NEW report \in 0..Runs, NEW handle \in BOOLEAN,
         ChildStep(r, f, from, to, code, report, handle)
  PROVE  /\ child' \in [Run -> [Index -> ChildStates]]
         /\ child[r][f].at \in Alive
         /\ child'[r][f] = [at |-> to, code |-> code, report |-> report, handle |-> handle]
         /\ \A s \in Run, g \in Index : s # r \/ g # f => child'[s][g] = child[s][g]
<1> DEFINE moved == [at |-> to, code |-> code, report |-> report, handle |-> handle]
<1>1. child \in [Run -> [Index -> ChildStates]]
  BY DEF TypeOK, ChildStates
<1>2. moved \in ChildStates
  BY DEF ChildStates
<1>3. child[r][f].at = from /\ child' = [child EXCEPT ![r][f] = moved]
  BY DEF ChildStep
<1> HIDE DEF moved
<1>4. /\ child' \in [Run -> [Index -> ChildStates]]
      /\ child'[r][f] = moved
      /\ \A s \in Run, g \in Index : s # r \/ g # f => child'[s][g] = child[s][g]
  BY <1>1, <1>2, <1>3
<1> QED BY <1>3, <1>4 DEF moved

(* The parent's view of its pool survives any step of any child.           *)
LEMMA ChildStepKeeps ==
  ASSUME TypeOK, PoolInv, SettledInv, EarnedInv, HonestInv, LedgerInv,
         NEW r \in Run, NEW f \in Index, NEW from \in Alive,
         NEW to \in Alive \cup {"ended"}, NEW code \in {0, 2, Signaled},
         NEW report \in 0..Runs, NEW handle \in BOOLEAN,
         ChildStep(r, f, from, to, code, report, handle),
         handle => to = "writing"
  PROVE  PoolInv' /\ SettledInv' /\ EarnedInv' /\ HonestInv' /\ LedgerInv'
<1> DEFINE moved == [at |-> to, code |-> code, report |-> report, handle |-> handle]
<1>1. /\ child[r][f].at \in Alive
      /\ child'[r][f] = moved
      /\ \A s \in Run, g \in Index : s # r \/ g # f => child'[s][g] = child[s][g]
  BY ChildStepIs
<1>2. moved.at = to /\ moved.handle = handle
  OBVIOUS
<1> HIDE DEF moved
<1>3. run' = run /\ batch' = batch /\ next' = next /\ active' = active /\ reaped' = reaped
      /\ results' = results
  BY DEF ChildStep, parentVars
<1>4. run \in Run /\ run \in Int
  BY BatchAssumption DEF TypeOK, Run
<1>5. r <= run
  <2>1. SUFFICES ASSUME r > run PROVE FALSE
    BY <1>4 DEF Run
  <2> QED BY <1>1, <2>1 DEF PoolInv, NotForked, Alive
<1>6. \A g \in Index : child[run][g].at = "ended" => child'[run][g] = child[run][g]
  BY <1>1, <1>4 DEF Alive
<1>7. PoolInv'
  <2>1. \A s \in Run : s > run => s # r
    BY <1>4, <1>5 DEF Run
  <2>2. \A g \in Index : child'[run][g].at \in Alive => g \in active
    BY <1>1, <1>4 DEF PoolInv
  <2>3. \A s \in Run : s > run => \A g \in Index : child'[s][g] = NotForked
    BY <1>1, <2>1 DEF PoolInv
  <2>4. (\A g \in active : g < next) /\ Cardinality(active) <= workers
    BY DEF PoolInv
  <2> QED BY <1>3, <2>2, <2>3, <2>4 DEF PoolInv
<1>8. SettledInv'
  BY <1>3, <1>6 DEF SettledInv
<1>9. EarnedInv'
  BY <1>3, <1>6 DEF EarnedInv
<1>10. HonestInv'
  <2>1. batch = "ok" => \A g \in Index : child[run][g].at = "ended"
    BY BatchAssumption DEF SettledInv, Index
  <2> QED BY <1>3, <1>6, <2>1 DEF HonestInv
<1>11. LedgerInv'
  <2>1. \A s \in Run, g \in Index : child'[s][g].handle => child'[s][g].at = "writing"
    BY <1>1, <1>2 DEF LedgerInv
  <2>2. batch = "collect" => reaped \in Index
    BY DEF SettledInv
  <2> QED BY <1>3, <1>6, <2>1, <2>2 DEF LedgerInv
<1> QED BY <1>7, <1>8, <1>9, <1>10, <1>11

(* With no older child alive a step is one of this batch's child, and it   *)
(* can only disturb what FreshInv says of its own file.                    *)
LEMMA ChildStepFresh ==
  ASSUME TypeOK, PoolInv, FreshInv,
         NEW r \in Run, NEW f \in Index, NEW from \in Alive,
         NEW to \in Alive \cup {"ended"}, NEW code \in {0, 2, Signaled},
         NEW report \in 0..Runs, NEW handle \in BOOLEAN,
         ChildStep(r, f, from, to, code, report, handle),
         \A g \in Index : g # f => manifest'[g] = manifest[g] /\ resultFile'[g] = resultFile[g],
         quiet /\ r = run => FreshChild(f)'
  PROVE  FreshInv'
<1>1. /\ child' \in [Run -> [Index -> ChildStates]]
      /\ child[r][f].at \in Alive
      /\ child'[r][f] = [at |-> to, code |-> code, report |-> report, handle |-> handle]
      /\ \A s \in Run, g \in Index : s # r \/ g # f => child'[s][g] = child[s][g]
  BY ChildStepIs
<1>2. run' = run /\ results' = results /\ quiet' = quiet
  BY DEF ChildStep, parentVars
<1>3. run \in Run /\ run \in Int
  BY BatchAssumption DEF TypeOK, Run
<1> SUFFICES ASSUME quiet
             PROVE  /\ \A s \in Run, g \in Index : s < run => child'[s][g].at \notin Alive
                    /\ \A g \in Index : FreshChild(g)'
  BY <1>2 DEF FreshInv
<1>4. r = run
  <2>1. ~ r < run
    BY <1>1 DEF FreshInv
  <2>2. ~ r > run
    BY <1>1 DEF PoolInv, NotForked, Alive
  <2> QED BY <1>3, <2>1, <2>2 DEF Run
<1>5. \A s \in Run, g \in Index : s < run => child'[s][g].at \notin Alive
  <2>1. \A s \in Run, g \in Index : s < run => child'[s][g] = child[s][g]
    BY <1>1, <1>3, <1>4 DEF Run
  <2> QED BY <2>1 DEF FreshInv
<1>6. ASSUME NEW g \in Index, g # f PROVE FreshChild(g)'
  <2>1. FreshChild(g)
    BY DEF FreshInv
  <2>2. child'[run][g] = child[run][g]
    BY <1>1, <1>3, <1>6
  <2>3. manifest'[g] = manifest[g] /\ resultFile'[g] = resultFile[g]
    BY <1>6
  <2> QED BY ONLY <1>2, <2>1, <2>2, <2>3 DEF FreshChild
<1> QED BY <1>4, <1>5, <1>6

(* Every step of every child preserves the inductive invariant.            *)
LEMMA ChildKeeps ==
  ASSUME BatchInv, NEW r \in Run, NEW f \in Index, ChildProgress(r, f) \/ Kill(r, f)
  PROVE  BatchInv'
<1> USE DEF BatchInv
<1> DEFINE c == child[r][f]
<1>1. /\ c \in ChildStates /\ c.code \in {0, 2, Signaled} /\ c.report \in 0..Runs
      /\ manifest \in [Index -> 0..Runs] /\ manifest[f] \in 0..Runs
      /\ resultFile \in [Index -> Results \cup {None, Partial}]
      /\ r \in 0..Runs /\ 0 \in 0..Runs
      /\ run \in Run /\ run \in Int
  BY BatchAssumption DEF TypeOK, ChildStates, Run
(* What is left to show of a step, once it is known as a ChildStep.        *)
<1>2. ASSUME NEW from \in Alive, NEW to \in Alive \cup {"ended"},
             NEW code \in {0, 2, Signaled}, NEW report \in 0..Runs, NEW handle \in BOOLEAN,
             ChildStep(r, f, from, to, code, report, handle),
             handle => to = "writing",
             manifest' \in [Index -> 0..Runs],
             resultFile' \in [Index -> Results \cup {None, Partial}],
             \A g \in Index : g # f => manifest'[g] = manifest[g] /\ resultFile'[g] = resultFile[g],
             quiet /\ r = run => FreshChild(f)'
      PROVE  BatchInv'
  <2>1. TypeOK'
    <3>1. /\ child' \in [Run -> [Index -> ChildStates]]
          /\ child'[r][f] = [at |-> to, code |-> code, report |-> report, handle |-> handle]
      BY <1>2, ChildStepIs
    <3> QED BY <1>2, <3>1 DEF TypeOK, ChildStates, ChildStep, parentVars
  <2>2. PoolInv' /\ SettledInv' /\ EarnedInv' /\ HonestInv' /\ LedgerInv'
    BY <1>2, ChildStepKeeps, SMTT(30)
  <2>3. FreshInv'
    BY <1>2, ChildStepFresh, SMTT(30)
  <2> QED BY <2>1, <2>2, <2>3
<1>3. ASSUME NEW from \in Alive, NEW to \in Alive \cup {"ended"},
             NEW code \in {0, 2, Signaled}, NEW report \in 0..Runs, NEW handle \in BOOLEAN,
             ChildStep(r, f, from, to, code, report, handle)
      PROVE  /\ c.at = from /\ run' = run /\ results' = results
             /\ child'[r][f].at = to /\ child'[r][f].code = code /\ child'[r][f].report = report
  <2>1. /\ child' \in [Run -> [Index -> ChildStates]]
        /\ child'[r][f] = [at |-> to, code |-> code, report |-> report, handle |-> handle]
    BY <1>3, ChildStepIs
  <2> QED BY <1>3, <2>1 DEF ChildStep, parentVars
<1>4. quiet /\ r = run => FreshChild(f)
  BY DEF FreshInv
<1>6. CASE RunReturns(r, f)
  <2>1. /\ ChildStep(r, f, "running", "reporting", 0, 0, FALSE)
        /\ manifest' = [manifest EXCEPT ![f] = r] /\ resultFile' = resultFile
    BY <1>6 DEF RunReturns
  <2>2. /\ c.at = "running" /\ run' = run /\ results' = results
        /\ child'[r][f].at = "reporting" /\ child'[r][f].code = 0 /\ child'[r][f].report = 0
    BY <1>1, <1>3, <2>1 DEF Alive
  <2>3. ASSUME quiet, r = run PROVE FreshChild(f)'
    BY ONLY <1>1, <1>4, <2>1, <2>2, <2>3 DEF FreshChild
  <2> QED BY <1>1, <1>2, <2>1, <2>2, <2>3 DEF Alive
<1>7. CASE RunThrows(r, f)
  <2>1. /\ ChildStep(r, f, "running", "opening", 2, 0, FALSE)
        /\ manifest' \in {manifest, [manifest EXCEPT ![f] = r]} /\ resultFile' = resultFile
    BY <1>7 DEF RunThrows
  <2>2. /\ c.at = "running" /\ run' = run /\ results' = results
        /\ child'[r][f].at = "opening" /\ child'[r][f].code = 2 /\ child'[r][f].report = 0
    BY <1>1, <1>3, <2>1 DEF Alive
  <2>0. child'[r][f].code # 0
    BY ONLY <2>2 DEF Signaled
  <2>3. ASSUME quiet, r = run PROVE FreshChild(f)'
    BY ONLY <1>1, <1>4, <2>1, <2>2, <2>0, <2>3 DEF FreshChild
  <2>4. /\ manifest' \in [Index -> 0..Runs]
        /\ \A g \in Index : g # f => manifest'[g] = manifest[g]
    BY <1>1, <2>1
  <2> QED BY <1>1, <1>2, <2>1, <2>2, <2>3, <2>4 DEF Alive
<1>8. CASE ReadReport(r, f)
  <2>1. /\ ChildStep(r, f, "reporting", "opening", 0, manifest[f], FALSE)
        /\ manifest' = manifest /\ resultFile' = resultFile
    BY <1>8 DEF ReadReport
  <2>2. /\ c.at = "reporting" /\ run' = run /\ results' = results
        /\ child'[r][f].at = "opening" /\ child'[r][f].code = 0 /\ child'[r][f].report = manifest[f]
    BY <1>1, <1>3, <2>1 DEF Alive
  <2>3. ASSUME quiet, r = run PROVE FreshChild(f)'
    BY ONLY <1>1, <1>4, <2>1, <2>2, <2>3 DEF FreshChild
  <2> QED BY <1>1, <1>2, <2>1, <2>2, <2>3 DEF Alive
<1>9. CASE ReportUnreadable(r, f)
  <2>1. /\ ChildStep(r, f, "reporting", "opening", 2, 0, FALSE)
        /\ manifest' = manifest /\ resultFile' = resultFile
    BY <1>9 DEF ReportUnreadable
  <2>2. /\ c.at = "reporting" /\ run' = run /\ results' = results
        /\ child'[r][f].at = "opening" /\ child'[r][f].code = 2 /\ child'[r][f].report = 0
    BY <1>1, <1>3, <2>1 DEF Alive
  <2>0. child'[r][f].code # 0
    BY ONLY <2>2 DEF Signaled
  <2>3. ASSUME quiet, r = run PROVE FreshChild(f)'
    BY ONLY <1>1, <1>4, <2>1, <2>2, <2>0, <2>3 DEF FreshChild
  <2> QED BY <1>1, <1>2, <2>1, <2>2, <2>3 DEF Alive
<1>10. CASE OpenResult(r, f)
  <2>1. /\ ChildStep(r, f, "opening", "writing", c.code, c.report, TRUE)
        /\ manifest' = manifest /\ resultFile' = [resultFile EXCEPT ![f] = Partial]
    BY <1>10 DEF OpenResult
  <2>2. /\ c.at = "opening" /\ run' = run /\ results' = results
        /\ child'[r][f].at = "writing" /\ child'[r][f].code = c.code /\ child'[r][f].report = c.report
    BY <1>1, <1>3, <2>1 DEF Alive
  <2>3. ASSUME quiet, r = run PROVE FreshChild(f)'
    BY ONLY <1>1, <1>4, <2>1, <2>2, <2>3 DEF FreshChild
  <2> QED BY <1>1, <1>2, <2>1, <2>2, <2>3 DEF Alive
<1>11. CASE OpenFails(r, f)
  <2>1. /\ ChildStep(r, f, "opening", "exiting", 2, c.report, FALSE)
        /\ manifest' = manifest /\ resultFile' = resultFile
    BY <1>11 DEF OpenFails
  <2>2. /\ c.at = "opening" /\ run' = run /\ results' = results
        /\ child'[r][f].at = "exiting" /\ child'[r][f].code = 2 /\ child'[r][f].report = c.report
    BY <1>1, <1>3, <2>1 DEF Alive
  <2>0. child'[r][f].code # 0
    BY ONLY <2>2 DEF Signaled
  <2>3. ASSUME quiet, r = run PROVE FreshChild(f)'
    BY ONLY <1>1, <1>4, <2>1, <2>2, <2>0, <2>3 DEF FreshChild
  <2> QED BY <1>1, <1>2, <2>1, <2>2, <2>3 DEF Alive
<1>12. CASE Exit(r, f)
  <2>1. /\ ChildStep(r, f, "exiting", "ended", c.code, c.report, FALSE)
        /\ manifest' = manifest /\ resultFile' = resultFile
    BY <1>12 DEF Exit
  <2>2. /\ c.at = "exiting" /\ run' = run /\ results' = results
        /\ child'[r][f].at = "ended" /\ child'[r][f].code = c.code /\ child'[r][f].report = c.report
    BY <1>1, <1>3, <2>1 DEF Alive
  <2>3. ASSUME quiet, r = run PROVE FreshChild(f)'
    BY ONLY <1>1, <1>4, <2>1, <2>2, <2>3 DEF FreshChild
  <2> QED BY <1>1, <1>2, <2>1, <2>2, <2>3 DEF Alive
<1>13. CASE Kill(r, f)
  <2>1. /\ ChildStep(r, f, c.at, "ended", Signaled, c.report, FALSE)
        /\ manifest' = manifest /\ resultFile' = resultFile
    BY <1>13 DEF Kill
  <2>2. /\ c.at \in Alive /\ run' = run /\ results' = results
        /\ child'[r][f].at = "ended" /\ child'[r][f].code = Signaled /\ child'[r][f].report = c.report
    BY <1>1, <1>3, <1>13, <2>1, ZenonT(60) DEF Kill, Signaled
  <2>0. child'[r][f].code # 0
    BY ONLY <2>2 DEF Signaled
  <2>3. ASSUME quiet, r = run PROVE FreshChild(f)'
    BY ONLY <1>1, <1>4, <2>1, <2>2, <2>0, <2>3 DEF FreshChild
  <2> QED BY <1>1, <1>2, <2>1, <2>2, <2>3
<1>14. CASE WriteFails(r, f)
  <2>1. PICK code \in {2, c.code} :
          ChildStep(r, f, "writing", "exiting", code, c.report, FALSE)
    BY <1>14 DEF WriteFails
  <2>2. manifest' = manifest /\ resultFile' = resultFile
    BY <1>14 DEF WriteFails
  <2>3. code \in {0, 2, Signaled} /\ (code = 0 => c.code = 0)
    BY <1>1
  <2>4. /\ c.at = "writing" /\ run' = run /\ results' = results
        /\ child'[r][f].at = "exiting" /\ child'[r][f].code = code
        /\ child'[r][f].report = c.report
    BY <1>1, <1>3, <2>1, <2>3, ZenonT(60) DEF Alive
  <2>5. ASSUME quiet, r = run PROVE FreshChild(f)'
    BY ONLY <1>1, <1>4, <2>2, <2>3, <2>4, <2>5 DEF FreshChild
  <2> QED BY <1>1, <1>2, <2>1, <2>2, <2>3, <2>4, <2>5 DEF Alive
<1>15. CASE WriteResult(r, f)
  <2> DEFINE written == Result(r, c.code = 0, c.report)
  <2>1. ChildStep(r, f, "writing", "exiting", c.code, c.report, FALSE)
    BY <1>15 DEF WriteResult
  <2>2. /\ c.at = "writing" /\ run' = run /\ results' = results
        /\ child'[r][f].at = "exiting" /\ child'[r][f].code = c.code
        /\ child'[r][f].report = c.report
    BY <1>1, <1>3, <2>1 DEF Alive
  <2>3. written \in Results
    BY <1>1 DEF Result, Results
  <2>4. \/ \E v \in {written, Partial} : resultFile' = [resultFile EXCEPT ![f] = v]
        \/ resultFile' = resultFile
    BY <1>15 DEF WriteResult
  <2>5. /\ resultFile' \in [Index -> Results \cup {None, Partial}]
        /\ manifest' = manifest
        /\ \A g \in Index : g # f => resultFile'[g] = resultFile[g]
    <3> HIDE DEF written
    <3>1. manifest' = manifest
      BY <1>15 DEF WriteResult
    <3> QED BY <1>1, <2>3, <2>4, <3>1
  <2>6. ASSUME quiet, r = run PROVE FreshChild(f)'
    <3>1. resultFile[f] = Partial
      BY <1>4, <2>2, <2>6 DEF FreshChild
    <3>2. resultFile'[f] \in {written, Partial}
      <4> HIDE DEF written
      <4> QED BY <1>1, <2>4, <3>1
    <3>3. c.code = 0 => written = Result(run, TRUE, run)
      BY <1>4, <2>2, <2>6 DEF FreshChild
    <3>4. c.code = 0 => resultFile'[f] \in {Partial, Result(run, TRUE, run)}
      <4> HIDE DEF written
      <4> QED BY <3>2, <3>3
    <3> QED BY ONLY <1>1, <1>4, <2>2, <2>5, <2>6, <3>4 DEF FreshChild
  <2> QED BY <1>1, <1>2, <2>1, <2>2, <2>5, <2>6 DEF Alive
<1> QED
  BY <1>6, <1>7, <1>8, <1>9, <1>10, <1>11, <1>12, <1>13, <1>14, <1>15 DEF ChildProgress

-------------------------------------------------------------------------------
(* The steps of the parent.                                                *)

(* The steps that only move the parent: none of its children is concerned. *)
LEMMA ParentMoves ==
  ASSUME BatchInv,
         ForkFails \/ CollectThrows \/ OpenSummary \/ SummaryFails \/ KillParent
  PROVE  BatchInv'
<1> USE DEF BatchInv
<1>1. /\ run' = run /\ active' = active /\ reaped' = reaped /\ results' = results
      /\ quiet' = quiet /\ child' = child /\ manifest' = manifest /\ resultFile' = resultFile
      /\ next' \in {next, next + 1} /\ next' \in 0..FileCount
      /\ batch' \in {"threw", "summary", "unwritable", "killed"}
      /\ summary' \in {summary, Partial}
      /\ batch' = "summary" => batch = "loop" /\ next' = FileCount /\ next' = next /\ active = {}
  <2>0. next \in 0..FileCount /\ FileCount \in Nat
    BY BatchAssumption DEF TypeOK
  <2>1. CASE ForkFails
    BY <2>0, <2>1 DEF ForkFails
  <2>2. CASE CollectThrows
    BY <2>0, <2>2 DEF CollectThrows
  <2>3. CASE OpenSummary
    BY <2>0, <2>3 DEF OpenSummary
  <2>4. CASE SummaryFails
    BY <2>0, <2>4 DEF SummaryFails
  <2>5. CASE KillParent
    BY <2>0, <2>5 DEF KillParent
  <2> QED BY <2>1, <2>2, <2>3, <2>4, <2>5
<1>2. next \in Int /\ next' \in Int /\ next <= next' /\ active \subseteq Index /\ Index \subseteq Int
  BY <1>1, BatchAssumption DEF TypeOK, Index
<1>3. TypeOK'
  BY <1>1 DEF TypeOK, Ended
<1>4. PoolInv'
  <2>1. \A f \in active : f < next'
    BY <1>2 DEF PoolInv
  <2> QED BY <1>1, <2>1 DEF PoolInv
<1>5. SettledInv'
  BY <1>1 DEF SettledInv
<1>6. EarnedInv' /\ HonestInv'
  BY <1>1 DEF EarnedInv, HonestInv
<1>7. LedgerInv'
  <2>1. \A f \in Index : results[f] # None => f < next'
    BY <1>2 DEF LedgerInv
  <2> QED BY <1>1, <2>1 DEF LedgerInv
<1>8. FreshInv'
  BY ONLY <1>1, BatchInv DEF BatchInv, FreshInv, FreshChild
<1> QED BY <1>3, <1>4, <1>5, <1>6, <1>7, <1>8

(* A launched child is new, counted at once, and the only one of its file  *)
(* in this batch.                                                          *)
LEMMA LaunchKeeps == BatchInv /\ Launch => BatchInv'
<1> SUFFICES ASSUME BatchInv, Launch PROVE BatchInv'
  OBVIOUS
<1> USE DEF BatchInv
<1>1. /\ batch = "loop" /\ next < FileCount /\ Cardinality(active) < workers
      /\ child' = [child EXCEPT ![run][next] = Forked]
      /\ active' = active \cup {next} /\ next' = next + 1
      /\ run' = run /\ batch' = batch /\ reaped' = reaped /\ results' = results
      /\ summary' = summary /\ quiet' = quiet /\ manifest' = manifest /\ resultFile' = resultFile
  BY DEF Launch
<1>2. /\ next \in Index /\ next \in Int /\ next + 1 \in 0..FileCount /\ Index \subseteq Int
      /\ run \in Run /\ run \in Int /\ Run \subseteq Int /\ active \in SUBSET Index
  BY <1>1, BatchAssumption DEF TypeOK, Index, Run
<1>3. next \notin active
  BY <1>2 DEF PoolInv
<1>4. /\ child \in [Run -> [Index -> ChildStates]]
      /\ Forked \in ChildStates /\ Forked.at = "running" /\ ~ Forked.handle
  <2>1. NotForked \in ChildStates /\ ~ NotForked.handle
    BY BatchAssumption DEF ChildStates, NotForked
  <2>2. Forked \in ChildStates /\ Forked.at = "running" /\ ~ Forked.handle
    BY <2>1 DEF Forked, ChildStates, Alive
  <2> QED BY <2>2 DEF TypeOK, ChildStates
<1>5. /\ child' \in [Run -> [Index -> ChildStates]]
      /\ child'[run][next] = Forked
      /\ \A r \in Run, f \in Index : r # run \/ f # next => child'[r][f] = child[r][f]
  <2> HIDE DEF Forked
  <2> QED BY <1>1, <1>2, <1>4
<1>6. TypeOK'
  BY <1>1, <1>2, <1>5 DEF TypeOK, ChildStates
<1>7. PoolInv'
  <2>1. \A r \in Run : r > run => \A f \in Index : child'[r][f] = NotForked
    BY <1>2, <1>5 DEF PoolInv
  <2>2. \A f \in Index : child'[run][f].at \in Alive => f \in active'
    BY <1>1, <1>2, <1>5 DEF PoolInv
  <2>3. \A f \in active' : f < next'
    BY <1>1, <1>2 DEF PoolInv
  <2>4. Cardinality(active') <= workers
    <3>1. Cardinality(active') = Cardinality(active) + 1
      BY <1>1, <1>2, <1>3, PoolIsFinite, FS_AddElement
    <3> QED BY <1>1, <1>2, <3>1, PoolIsFinite
  <2> QED BY <1>1, <2>1, <2>2, <2>3, <2>4 DEF PoolInv
<1>8. SettledInv'
  <2>1. \A f \in Index : f < next' /\ f \notin active' => f < next /\ f \notin active /\ f # next
    BY <1>1, <1>2
  <2>2. \A f \in Index : f < next' /\ f \notin active' =>
          child'[run][f].at = "ended" /\ (results[f] # None \/ f = reaped)
    BY <1>1, <1>2, <1>5, <2>1 DEF SettledInv
  <2> QED BY <1>1, <2>2 DEF SettledInv
<1>9. results[next] = None
  BY <1>2 DEF LedgerInv
<1>10. EarnedInv' /\ HonestInv'
  BY <1>1, <1>2, <1>5, <1>9 DEF EarnedInv, HonestInv
<1>11. LedgerInv'
  <2>1. \A r \in Run, f \in Index : child'[r][f].handle => child'[r][f].at = "writing"
    BY <1>4, <1>5 DEF LedgerInv
  <2>2. \A f \in Index : results[f] # None =>
          f < next' /\ f \notin active' /\ child'[run][f].at = "ended"
    BY <1>1, <1>2, <1>5, <1>9 DEF LedgerInv
  <2> QED BY <1>1, <2>1, <2>2 DEF LedgerInv
<1>12. FreshInv'
  <2>1. ASSUME quiet, NEW f \in Index PROVE FreshChild(f)'
    <3>1. CASE f = next
      BY ONLY <1>1, <1>4, <1>5, <1>9, <3>1 DEF FreshChild
    <3>2. CASE f # next
      <4>1. FreshChild(f) /\ child'[run][f] = child[run][f]
        BY <1>2, <1>5, <2>1, <3>2 DEF FreshInv
      <4> QED BY ONLY <1>1, <4>1 DEF FreshChild
    <3> QED BY <3>1, <3>2
  <2>2. ASSUME quiet, NEW r \in Run, NEW f \in Index, r < run PROVE child'[r][f].at \notin Alive
    BY <1>2, <1>5, <2>2 DEF FreshInv
  <2> QED BY <1>1, <2>1, <2>2 DEF FreshInv
<1> QED BY <1>6, <1>7, <1>8, <1>10, <1>11, <1>12

(* waitpid returns a child that has ended; it leaves the pool.             *)
LEMMA WaitKeeps == ASSUME BatchInv, NEW f \in Index, Wait(f) PROVE BatchInv'
<1> USE DEF BatchInv
<1>1. /\ batch = "loop" /\ f \in active /\ child[run][f].at = "ended"
      /\ active' = active \ {f} /\ reaped' = f /\ batch' = "collect"
      /\ run' = run /\ next' = next /\ results' = results /\ summary' = summary
      /\ quiet' = quiet /\ child' = child /\ manifest' = manifest /\ resultFile' = resultFile
  BY DEF Wait
<1>2. active \in SUBSET Index /\ reaped = None
  BY <1>1 DEF TypeOK, SettledInv
<1>3. TypeOK'
  BY <1>1, <1>2 DEF TypeOK
<1>4. PoolInv'
  <2>1. \A g \in Index : child[run][g].at \in Alive => g \in active'
    BY <1>1 DEF PoolInv, Alive
  <2>2. Cardinality(active') <= workers
    <3>1. /\ Cardinality(active') = Cardinality(active) - 1
          /\ Cardinality(active) \in Nat /\ Cardinality(active) <= workers
      BY <1>1, <1>2, PoolIsFinite, FS_RemoveElement DEF PoolInv
    <3> QED BY <3>1, PoolIsFinite
  <2> QED BY <1>1, <2>1, <2>2 DEF PoolInv
<1>5. SettledInv'
  <2>1. f < next
    BY <1>1 DEF PoolInv
  <2>2. \A g \in Index : results[g] # None \/ g # None
    BY BatchAssumption DEF Index
  <2> QED BY <1>1, <1>2, <2>1, <2>2 DEF SettledInv
<1>6. EarnedInv' /\ HonestInv'
  BY <1>1 DEF EarnedInv, HonestInv
<1>7. LedgerInv'
  BY <1>1 DEF LedgerInv
<1>8. FreshInv'
  BY ONLY <1>1, BatchInv DEF BatchInv, FreshInv, FreshChild
<1> QED BY <1>3, <1>4, <1>5, <1>6, <1>7, <1>8

(* What the parent makes of a child that has ended: a success only of a    *)
(* child that exited with 0.                                               *)
LEMMA CollectedIs ==
  ASSUME BatchInv, batch = "collect", resultFile[reaped] # Partial
  PROVE  /\ reaped \in Index /\ Collected(reaped) \in Results
         /\ Collected(reaped) # None
         /\ Collected(reaped).succeeded =>
              child[run][reaped].code = 0 /\ Collected(reaped) = resultFile[reaped]
<1>1. reaped \in Index
  BY DEF BatchInv, SettledInv
<1>2. resultFile[reaped] \in Results \cup {None}
  BY <1>1 DEF BatchInv, TypeOK
<1>3. CASE resultFile[reaped] = None
  <2>1. Collected(reaped) = Result(0, FALSE, 0)
    BY <1>3 DEF Collected
  <2>2. Result(0, FALSE, 0) \in Results /\ ~ Result(0, FALSE, 0).succeeded
    BY BatchAssumption DEF Result, Results
  <2> QED BY <1>1, <2>1, <2>2, BatchAssumption
<1>4. CASE resultFile[reaped] # None /\ child[run][reaped].code # 0
  <2>1. Collected(reaped) = [resultFile[reaped] EXCEPT !.succeeded = FALSE]
    BY <1>4 DEF Collected
  <2>2. Collected(reaped) \in Results /\ ~ Collected(reaped).succeeded
    BY <1>2, <1>4, <2>1 DEF Results
  <2> QED BY <1>1, <2>2, BatchAssumption
<1>5. CASE resultFile[reaped] # None /\ child[run][reaped].code = 0
  <2>1. Collected(reaped) = resultFile[reaped]
    BY <1>5 DEF Collected
  <2> QED BY <1>1, <1>2, <1>5, <2>1, BatchAssumption
<1> QED BY <1>3, <1>4, <1>5

(* The result is stored and its file removed.                              *)
LEMMA CollectKeeps == BatchInv /\ Collect => BatchInv'
<1> SUFFICES ASSUME BatchInv, Collect PROVE BatchInv'
  OBVIOUS
<1> USE DEF BatchInv
<1> DEFINE collected == Collected(reaped)
<1>1. /\ batch = "collect" /\ resultFile[reaped] # Partial
      /\ results' = [results EXCEPT ![reaped] = collected]
      /\ resultFile' = [resultFile EXCEPT ![reaped] = None]
      /\ child' = [r \in Run |-> [child[r] EXCEPT ![reaped].handle = FALSE]]
      /\ reaped' = None /\ batch' = "loop"
      /\ run' = run /\ next' = next /\ active' = active /\ summary' = summary
      /\ quiet' = quiet /\ manifest' = manifest
  BY DEF Collect
<1>2. /\ reaped \in Index /\ collected \in Results /\ collected # None
      /\ collected.succeeded => child[run][reaped].code = 0 /\ collected = resultFile[reaped]
  BY <1>1, CollectedIs
<1> HIDE DEF collected
<1>3. /\ run \in Run /\ reaped \notin active /\ reaped < next
      /\ results[reaped] = None /\ child[run][reaped].at = "ended"
  BY <1>1 DEF TypeOK, SettledInv, LedgerInv
<1>4. /\ child \in [Run -> [Index -> ChildStates]]
      /\ results \in [Index -> Results \cup {None}]
      /\ resultFile \in [Index -> Results \cup {None, Partial}]
  BY DEF TypeOK, ChildStates
<1>5. /\ child' \in [Run -> [Index -> ChildStates]]
      /\ \A r \in Run, f \in Index :
           /\ child'[r][f].at = child[r][f].at /\ child'[r][f].code = child[r][f].code
           /\ child'[r][f].report = child[r][f].report
           /\ child'[r][f].handle => child[r][f].handle
           /\ ~ child[r][f].handle => child'[r][f] = child[r][f]
  <2> SUFFICES ASSUME NEW r \in Run
               PROVE  /\ child'[r] \in [Index -> ChildStates]
                      /\ \A f \in Index :
                           /\ child'[r][f].at = child[r][f].at
                           /\ child'[r][f].code = child[r][f].code
                           /\ child'[r][f].report = child[r][f].report
                           /\ child'[r][f].handle => child[r][f].handle
                           /\ ~ child[r][f].handle => child'[r][f] = child[r][f]
    BY <1>1
  <2>1. /\ child[r] \in [Index -> ChildStates]
        /\ child'[r] = [child[r] EXCEPT ![reaped].handle = FALSE]
    BY <1>1, <1>4
  <2>2. \A f \in Index : f # reaped => child'[r][f] = child[r][f]
    BY <1>2, <2>1
  <2>3. /\ child[r][reaped] \in ChildStates
        /\ child'[r][reaped] = [child[r][reaped] EXCEPT !.handle = FALSE]
    BY <1>2, <2>1
  <2>4. /\ child'[r][reaped] \in ChildStates
        /\ child'[r][reaped].at = child[r][reaped].at
        /\ child'[r][reaped].code = child[r][reaped].code
        /\ child'[r][reaped].report = child[r][reaped].report
        /\ ~ child'[r][reaped].handle
        /\ ~ child[r][reaped].handle => child'[r][reaped] = child[r][reaped]
    BY <2>3 DEF ChildStates
  <2>5. child'[r] \in [Index -> ChildStates]
    BY <1>2, <2>1, <2>4
  <2> QED BY <2>2, <2>4, <2>5
<1>6. /\ results'[reaped] = collected /\ \A f \in Index : f # reaped => results'[f] = results[f]
      /\ \A f \in Index : f # reaped => resultFile'[f] = resultFile[f]
      /\ results' \in [Index -> Results \cup {None}]
      /\ resultFile' \in [Index -> Results \cup {None, Partial}]
  BY <1>1, <1>2, <1>4
<1>7. TypeOK'
  BY <1>1, <1>5, <1>6 DEF TypeOK, ChildStates
<1>8. PoolInv'
  <2>1. \A r \in Run, f \in Index : child[r][f] = NotForked => child'[r][f] = NotForked
    BY <1>5 DEF NotForked
  <2> QED BY <1>1, <1>3, <1>5, <2>1 DEF PoolInv
<1>9. SettledInv'
  <2>1. \A f \in Index : f < next /\ f \notin active =>
          child'[run][f].at = "ended" /\ results'[f] # None
    BY <1>1, <1>2, <1>3, <1>5, <1>6 DEF SettledInv
  <2> QED BY <1>1, <2>1 DEF SettledInv
<1>10. EarnedInv' /\ HonestInv'
  BY <1>1, <1>2, <1>3, <1>5, <1>6 DEF EarnedInv, HonestInv
<1>11. LedgerInv'
  <2>1. \A r \in Run, f \in Index : child'[r][f].handle => child'[r][f].at = "writing"
    BY <1>5 DEF LedgerInv
  <2>2. \A f \in Index : results'[f] # None =>
          f < next /\ f \notin active /\ child'[run][f].at = "ended"
    BY <1>3, <1>5, <1>6 DEF LedgerInv
  <2> QED BY ONLY <1>1, <2>1, <2>2 DEF LedgerInv
<1>12. FreshInv'
  <2>1. ASSUME quiet, NEW f \in Index PROVE FreshChild(f)'
    <3>1. FreshChild(f)
      BY <2>1 DEF FreshInv
    <3>2. /\ child'[run][f].at = child[run][f].at /\ child'[run][f].code = child[run][f].code
          /\ child'[run][f].report = child[run][f].report
      BY <1>3, <1>5
    <3>3. CASE f = reaped
      <4>1. child'[run][f].at = "ended" /\ results'[f] = collected /\ results[f] = None
        BY <1>3, <1>6, <3>2, <3>3
      <4>2. collected.succeeded => collected = Result(run, TRUE, run)
        <5>1. collected.succeeded =>
                child[run][f].code = 0 /\ collected = resultFile[f] /\ resultFile[f] # Partial
          BY <1>1, <1>2, <3>3
        <5> QED BY ONLY <3>1, <3>2, <4>1, <5>1 DEF FreshChild
      <4> QED BY ONLY <1>1, <1>2, <3>1, <3>2, <4>1, <4>2 DEF FreshChild
    <3>4. CASE f # reaped
      <4>1. results'[f] = results[f] /\ resultFile'[f] = resultFile[f]
        BY <1>6, <3>4
      <4> QED BY ONLY <1>1, <3>1, <3>2, <4>1 DEF FreshChild
    <3> QED BY <3>3, <3>4
  <2>2. ASSUME quiet, NEW r \in Run, NEW f \in Index, r < run PROVE child'[r][f].at \notin Alive
    BY <1>5, <2>2 DEF FreshInv
  <2> QED BY <1>1, <2>1, <2>2 DEF FreshInv
<1> QED BY <1>7, <1>8, <1>9, <1>10, <1>11, <1>12

(* main returns 0 only when every file is in `success`.                    *)
LEMMA SummaryKeeps == BatchInv /\ WriteSummary => BatchInv'
<1> SUFFICES ASSUME BatchInv, WriteSummary PROVE BatchInv'
  OBVIOUS
<1> USE DEF BatchInv
<1> DEFINE success == {f \in Index : results[f].succeeded}
<1>1. /\ batch = "summary"
      /\ summary' = [by |-> run, success |-> success]
      /\ batch' = IF Cardinality(success) # FileCount THEN "failed" ELSE "ok"
      /\ run' = run /\ next' = next /\ active' = active /\ reaped' = reaped
      /\ results' = results /\ quiet' = quiet /\ child' = child
      /\ manifest' = manifest /\ resultFile' = resultFile
  BY DEF WriteSummary
<1>2. success \in SUBSET Index
  OBVIOUS
<1>3. batch' = "ok" => \A f \in Index : results[f].succeeded
  <2>1. batch' = "ok" => success = Index
    <3> HIDE DEF success
    <3> QED BY <1>1, <1>2, PoolIsFinite
  <2> QED BY <2>1
<1>4. \A f \in Index : results[f] # None
  <2>1. \A f \in Index : f < next /\ f \notin active /\ f # reaped
    BY <1>1, BatchAssumption DEF SettledInv, Index
  <2> QED BY <1>1, <2>1 DEF SettledInv
<1>5. TypeOK'
  <2> HIDE DEF success
  <2>1. summary' \in Summaries /\ batch' \in {"failed", "ok"}
    BY <1>1, <1>2 DEF TypeOK, Summaries
  <2> QED BY <1>1, <2>1 DEF TypeOK, Ended
<1>6. PoolInv'
  BY <1>1 DEF PoolInv
<1> HIDE DEF success
<1>7. SettledInv'
  BY <1>1 DEF SettledInv
<1>8. EarnedInv' /\ HonestInv'
  BY <1>1, <1>3, <1>4 DEF EarnedInv, HonestInv
<1>9. LedgerInv'
  BY <1>1 DEF LedgerInv
<1>10. FreshInv'
  BY ONLY <1>1, BatchInv DEF BatchInv, FreshInv, FreshChild
<1> QED BY <1>5, <1>6, <1>7, <1>8, <1>9, <1>10

(* A batch starts with children that were never forked; `quiet` remembers  *)
(* whether an older one lives.                                             *)
LEMMA RestartKeeps == BatchInv /\ Restart => BatchInv'
<1> SUFFICES ASSUME BatchInv, Restart PROVE BatchInv'
  OBVIOUS
<1> USE DEF BatchInv
<1>1. /\ run < Runs /\ run' = run + 1 /\ batch' = "loop" /\ next' = 0 /\ active' = {}
      /\ reaped' = None /\ results' = [f \in Index |-> None]
      /\ quiet' = (\A r \in Run, f \in Index : child[r][f].at \notin Alive)
      /\ child' = child /\ manifest' = manifest /\ resultFile' = resultFile
      /\ summary' = summary
  BY DEF Restart
<1>2. run' \in Run /\ run \in Int /\ Run \subseteq Int /\ run' > run
  BY <1>1, BatchAssumption DEF TypeOK, Run
<1>3. \A f \in Index : child[run'][f] = NotForked /\ results'[f] = None /\ f >= 0
  BY <1>1, <1>2 DEF PoolInv, Index
<1>4. \A f \in Index : ~ f < next'
  BY <1>1, <1>3, BatchAssumption DEF Index
<1>5. TypeOK'
  BY <1>1, <1>2, BatchAssumption DEF TypeOK
<1>6. PoolInv'
  <2>1. \A r \in Run : r > run' => \A f \in Index : child[r][f] = NotForked
    BY <1>2 DEF PoolInv
  <2>2. \A f \in Index : child[run'][f].at \notin Alive
    BY <1>3 DEF NotForked, Alive
  <2>3. Cardinality({}) <= workers
    BY PoolIsFinite, FS_EmptySet
  <2> QED BY <1>1, <2>1, <2>2, <2>3 DEF PoolInv
<1>7. SettledInv'
  BY <1>1, <1>4 DEF SettledInv
<1>8. EarnedInv' /\ HonestInv'
  BY <1>1, <1>3 DEF EarnedInv, HonestInv
<1>9. LedgerInv'
  <2>1. \A r \in Run, f \in Index : child'[r][f].handle => child'[r][f].at = "writing"
    BY <1>1 DEF LedgerInv
  <2> QED BY ONLY <1>1, <1>3, <2>1 DEF LedgerInv
<1>10. FreshInv'
  <2>1. \A f \in Index : child'[run'][f].at = "none"
    BY <1>1, <1>3 DEF NotForked
  <2>2. ASSUME NEW f \in Index PROVE FreshChild(f)'
    BY ONLY <1>3, <2>1, f \in Index DEF FreshChild
  <2>3. quiet' => \A r \in Run, f \in Index : child'[r][f].at \notin Alive
    BY <1>1
  <2> QED BY ONLY <2>2, <2>3 DEF FreshInv
<1> QED BY <1>5, <1>6, <1>7, <1>8, <1>9, <1>10

-------------------------------------------------------------------------------
(* BatchInv holds in every reachable state.                                *)
THEOREM Invariance == Spec => []BatchInv
<1>1. BatchInv /\ [Next]_vars => BatchInv'
  <2> SUFFICES ASSUME BatchInv, [Next]_vars PROVE BatchInv'
    OBVIOUS
  <2>1. ASSUME NEW r \in Run, NEW f \in Index, ChildProgress(r, f) \/ Kill(r, f)
        PROVE BatchInv'
    BY <2>1, ChildKeeps
  <2>2. CASE ParentProgress
    <3>1. ASSUME NEW f \in Index, Wait(f) PROVE BatchInv'
      BY <3>1, WaitKeeps
    <3> QED BY <2>2, <3>1, LaunchKeeps, CollectKeeps, SummaryKeeps, ParentMoves DEF ParentProgress
  <2>3. CASE KillParent
    BY <2>3, ParentMoves
  <2>4. CASE Restart
    BY <2>4, RestartKeeps
  <2>5. CASE UNCHANGED vars
    <3>1. TypeOK' /\ PoolInv' /\ SettledInv'
      BY <2>5 DEF BatchInv, TypeOK, PoolInv, SettledInv, vars, parentVars
    <3>2. EarnedInv' /\ HonestInv' /\ LedgerInv'
      BY <2>5 DEF BatchInv, EarnedInv, HonestInv, LedgerInv, vars, parentVars
    <3>3. FreshInv'
      BY <2>5 DEF BatchInv, FreshInv, FreshChild, vars, parentVars
    <3> QED BY <3>1, <3>2, <3>3 DEF BatchInv
  <2> QED BY <2>1, <2>2, <2>3, <2>4, <2>5 DEF Next, Stopped
<1> QED BY InitInv, <1>1, PTL DEF Spec

(* Every variable keeps its type, for every number of files, workers and   *)
(* restarts.                                                               *)
THEOREM BatchTypes == Spec => []TypeOK
<1>1. BatchInv => TypeOK
  BY DEF BatchInv
<1> QED BY Invariance, <1>1, PTL

(* A batch never runs more pipelines than it has file workers.             *)
THEOREM PoolIsBounded == Spec => []PoolBounded
<1>1. BatchInv => PoolBounded
  <2> SUFFICES ASSUME BatchInv PROVE PoolBounded
    OBVIOUS
  <2> DEFINE alive == {f \in Index : child[run][f].at \in Alive}
  <2>1. active \in SUBSET Index /\ alive \subseteq active /\ Cardinality(active) <= workers
    BY DEF BatchInv, TypeOK, PoolInv
  <2>2. alive \in SUBSET Index
    OBVIOUS
  <2>3. Cardinality(alive) <= workers
    <3> HIDE DEF alive
    <3>1. /\ Cardinality(alive) <= Cardinality(active)
          /\ Cardinality(alive) \in Nat /\ Cardinality(active) \in Nat
      BY <2>1, <2>2, PoolIsFinite, FS_Subset
    <3> QED BY <2>1, <3>1, PoolIsFinite
  <2> QED BY <2>3 DEF PoolBounded
<1> QED BY Invariance, <1>1, PTL

(* When a batch summarises, every file has a result and no child of it is  *)
(* left running.                                                           *)
THEOREM SummaryIsSettled == Spec => []SettledBeforeSummary
<1>1. BatchInv => SettledBeforeSummary
  <2> SUFFICES ASSUME BatchInv, batch = "summary" \/ Concluded, NEW f \in Index
               PROVE  results[f] # None /\ child[run][f].at = "ended"
    BY DEF SettledBeforeSummary
  <2>1. f < next /\ f \notin active /\ f # reaped
    BY BatchAssumption DEF BatchInv, SettledInv, Concluded, Index
  <2> QED BY <2>1 DEF BatchInv, SettledInv, Concluded
<1> QED BY Invariance, <1>1, PTL

(* A file is a success only if the child of this batch exited with 0.      *)
THEOREM SuccessesAreEarned == Spec => []SuccessIsEarned
<1>1. BatchInv => SuccessIsEarned
  BY DEF BatchInv, EarnedInv, SuccessIsEarned
<1> QED BY Invariance, <1>1, PTL

(* The exit status of the batch tells what its children did.               *)
THEOREM StatusIsHonest == Spec => []StatusHonest
<1>1. BatchInv => StatusHonest
  BY DEF BatchInv, HonestInv, StatusHonest, Concluded
<1> QED BY Invariance, <1>1, PTL

(* With no older child alive at the start, a success carries the report of *)
(* its own child, whatever result files earlier batches left.              *)
THEOREM ReportsAreFresh == Spec => []ReportsFresh
<1>1. BatchInv => ReportsFresh
  <2> SUFFICES ASSUME BatchInv, quiet, NEW f \in Index, results[f] # None, results[f].succeeded
               PROVE  results[f].by = run /\ results[f].report = run
    BY DEF ReportsFresh
  <2>1. FreshChild(f)
    BY DEF BatchInv, FreshInv
  <2>2. results[f] = Result(run, TRUE, run)
    BY <2>1 DEF FreshChild
  <2> QED BY <2>2 DEF Result
<1> QED BY Invariance, <1>1, PTL
===============================================================================
