--------------------------- MODULE ParallelMapProofs ---------------------------
(***************************************************************************)
(* Theorems about ParallelMap, for every number of jobs and workers.       *)
(*                                                                         *)
(* The inductive invariant is MapInv.  SlotsExclusive and OutcomeFaithful  *)
(* alone are not inductive: that the vector is complete when the counter   *)
(* has passed Jobs needs ClaimInv (no claimed index is forgotten), that no *)
(* exception is lost needs ErrorInv and MutexInv (a throw is either        *)
(* recorded or still being caught by a thread that has not ended), and     *)
(* both need CreationInv and ReturnInv to know that every thread has ended *)
(* when the caller returns.                                                *)
(***************************************************************************)
EXTENDS ParallelMap, TLAPS

(* The initial states satisfy the inductive invariant.                     *)
LEMMA InitInv == Init => MapInv
<1> SUFFICES ASSUME Init PROVE MapInv
  OBVIOUS
<1> USE ParallelMapAssumption
        DEF Init, Caller, Helpers, Threads, Busy, Catching, Pool, Index
<1>1. \A t \in Helpers : t \in Int /\ t >= 1 /\ t # Caller
  OBVIOUS
<1>2. TypeOK
  BY DEF TypeOK
<1>3. CreationInv
  <2>1. \A t \in Helpers : pc[t] = "idle" /\ t >= started
    BY <1>1
  <2>2. started = 1 /\ pc[Caller] = "enter"
    OBVIOUS
  <2> QED BY ONLY <2>1, <2>2 DEF CreationInv
<1>4. ClaimInv
  <2>1. \A t \in Threads : pc[t] \notin Busy
    OBVIOUS
  <2>2. \A i \in Index : ~ (i < next)
    OBVIOUS
  <2>3. \A i \in Index : result[i] = None
    OBVIOUS
  <2> QED BY <2>1, <2>2, <2>3 DEF ClaimInv
<1>5. SlotsExclusive
  BY DEF SlotsExclusive
<1>6. MutexInv
  BY DEF MutexInv
<1>7. ErrorInv
  BY DEF ErrorInv
<1>8. ReturnInv /\ OutcomeFaithful
  BY DEF ReturnInv, OutcomeFaithful
<1> QED BY <1>2, <1>3, <1>4, <1>5, <1>6, <1>7, <1>8 DEF MapInv

(* Every step of Next preserves it.                                        *)
LEMMA StepInv == MapInv /\ [Next]_vars => MapInv'
<1> SUFFICES ASSUME MapInv, [Next]_vars PROVE MapInv'
  OBVIOUS
<1> USE ParallelMapAssumption
        DEF MapInv, Caller, Helpers, Threads, Busy, Catching, AllJoined, Transition
<1>1. CASE Enter
  <2>1. TypeOK'
    BY <1>1 DEF Enter, TypeOK, ClaimInv
  <2>2. CreationInv'
    BY <1>1 DEF Enter, TypeOK, CreationInv
  <2>3. ClaimInv'
    BY <1>1 DEF Enter, TypeOK, ClaimInv, SlotsExclusive
  <2>4. SlotsExclusive'
    BY <1>1 DEF Enter, TypeOK, ClaimInv, SlotsExclusive
  <2>5. MutexInv'
    BY <1>1 DEF Enter, TypeOK, MutexInv
  <2>6. ErrorInv'
    BY <1>1 DEF Enter, TypeOK, ClaimInv, MutexInv, ErrorInv
  <2>7. ReturnInv'
    BY <1>1 DEF Enter, TypeOK, CreationInv, ReturnInv
  <2>8. OutcomeFaithful'
    BY <1>1 DEF Enter, TypeOK, ClaimInv, OutcomeFaithful, ReturnInv, Index
  <2> QED BY <2>1, <2>2, <2>3, <2>4, <2>5, <2>6, <2>7, <2>8
<1>2. CASE Spawn
  <2>1. TypeOK'
    BY <1>2 DEF Spawn, TypeOK, ClaimInv
  <2>2. CreationInv'
    BY <1>2 DEF Spawn, TypeOK, CreationInv
  <2>3. ClaimInv'
    BY <1>2 DEF Spawn, TypeOK, CreationInv, ClaimInv
  <2>4. SlotsExclusive'
    BY <1>2 DEF Spawn, TypeOK, CreationInv, ClaimInv, SlotsExclusive
  <2>5. MutexInv'
    BY <1>2 DEF Spawn, TypeOK, CreationInv, MutexInv
  <2>6. ErrorInv'
    BY <1>2 DEF Spawn, TypeOK, CreationInv, ErrorInv
  <2>7. ReturnInv'
    BY <1>2 DEF Spawn, TypeOK, CreationInv, ReturnInv
  <2>8. OutcomeFaithful'
    BY <1>2 DEF Spawn, TypeOK, ReturnInv, OutcomeFaithful
  <2> QED BY <2>1, <2>2, <2>3, <2>4, <2>5, <2>6, <2>7, <2>8
<1>3. CASE SpawnFail
  <2>1. TypeOK'
    BY <1>3 DEF SpawnFail, TypeOK, ClaimInv
  <2>2. CreationInv'
    BY <1>3 DEF SpawnFail, TypeOK, CreationInv
  <2>3. ClaimInv'
    BY <1>3 DEF SpawnFail, TypeOK, ClaimInv, SlotsExclusive
  <2>4. SlotsExclusive'
    BY <1>3 DEF SpawnFail, TypeOK, ClaimInv, SlotsExclusive
  <2>5. MutexInv'
    BY <1>3 DEF SpawnFail, TypeOK, MutexInv
  <2>6. ErrorInv'
    BY <1>3 DEF SpawnFail, TypeOK, ClaimInv, MutexInv, ErrorInv
  <2>7. ReturnInv'
    BY <1>3 DEF SpawnFail, TypeOK, CreationInv, ReturnInv
  <2>8. OutcomeFaithful'
    BY <1>3 DEF SpawnFail, TypeOK, ReturnInv, OutcomeFaithful
  <2> QED BY <2>1, <2>2, <2>3, <2>4, <2>5, <2>6, <2>7, <2>8
<1>4. CASE SpawnDone
  <2>1. TypeOK'
    BY <1>4 DEF SpawnDone, TypeOK, ClaimInv
  <2>2. CreationInv'
    BY <1>4 DEF SpawnDone, TypeOK, CreationInv
  <2>3. ClaimInv'
    BY <1>4 DEF SpawnDone, TypeOK, ClaimInv, SlotsExclusive
  <2>4. SlotsExclusive'
    BY <1>4 DEF SpawnDone, TypeOK, ClaimInv, SlotsExclusive
  <2>5. MutexInv'
    BY <1>4 DEF SpawnDone, TypeOK, MutexInv
  <2>6. ErrorInv'
    BY <1>4 DEF SpawnDone, TypeOK, ClaimInv, MutexInv, ErrorInv
  <2>7. ReturnInv'
    BY <1>4 DEF SpawnDone, TypeOK, CreationInv, ReturnInv
  <2>8. OutcomeFaithful'
    BY <1>4 DEF SpawnDone, TypeOK, ReturnInv, OutcomeFaithful
  <2> QED BY <2>1, <2>2, <2>3, <2>4, <2>5, <2>6, <2>7, <2>8
<1>5. CASE Unwound
  <2>1. TypeOK'
    BY <1>5 DEF Unwound, TypeOK, ClaimInv
  <2>2. CreationInv'
    BY <1>5 DEF Unwound, TypeOK, CreationInv
  <2>3. ClaimInv'
    BY <1>5 DEF Unwound, TypeOK, ClaimInv, SlotsExclusive
  <2>4. SlotsExclusive'
    BY <1>5 DEF Unwound, TypeOK, ClaimInv, SlotsExclusive
  <2>5. MutexInv'
    BY <1>5 DEF Unwound, TypeOK, MutexInv
  <2>6. ErrorInv'
    BY <1>5 DEF Unwound, TypeOK, ClaimInv, MutexInv, ErrorInv
  <2>7. ReturnInv'
    BY <1>5 DEF Unwound, TypeOK, CreationInv, ReturnInv
  <2>8. OutcomeFaithful'
    BY <1>5 DEF Unwound, TypeOK, ReturnInv, OutcomeFaithful
  <2> QED BY <2>1, <2>2, <2>3, <2>4, <2>5, <2>6, <2>7, <2>8
<1>6. CASE JoinAndReturn
  <2>1. TypeOK'
    BY <1>6 DEF JoinAndReturn, TypeOK, ClaimInv
  <2>2. CreationInv'
    BY <1>6 DEF JoinAndReturn, TypeOK, CreationInv
  <2>3. ClaimInv'
    BY <1>6 DEF JoinAndReturn, TypeOK, ClaimInv, SlotsExclusive
  <2>4. SlotsExclusive'
    BY <1>6 DEF JoinAndReturn, TypeOK, ClaimInv, SlotsExclusive
  <2>5. MutexInv'
    BY <1>6 DEF JoinAndReturn, TypeOK, MutexInv
  <2>6. ErrorInv'
    BY <1>6 DEF JoinAndReturn, TypeOK, ClaimInv, MutexInv, ErrorInv
  <2>7. ReturnInv'
    BY <1>6 DEF JoinAndReturn, TypeOK, CreationInv, ReturnInv
  <2>8. OutcomeFaithful'
    BY <1>6 DEF JoinAndReturn, TypeOK, CreationInv, ClaimInv, ErrorInv, ReturnInv, OutcomeFaithful, Index
  <2> QED BY <2>1, <2>2, <2>3, <2>4, <2>5, <2>6, <2>7, <2>8
<1>7. ASSUME NEW t \in Threads, Test(t) PROVE MapInv'
  <2>1. TypeOK'
    BY <1>7 DEF Test, TypeOK, ClaimInv
  <2>2. CreationInv'
    BY <1>7 DEF Test, TypeOK, CreationInv
  <2>3. ClaimInv'
    BY <1>7 DEF Test, TypeOK, ClaimInv, SlotsExclusive
  <2>4. SlotsExclusive'
    BY <1>7 DEF Test, TypeOK, ClaimInv, SlotsExclusive
  <2>5. MutexInv'
    BY <1>7 DEF Test, TypeOK, MutexInv
  <2>6. ErrorInv'
    BY <1>7 DEF Test, TypeOK, ClaimInv, MutexInv, ErrorInv
  <2>7. ReturnInv'
    BY <1>7 DEF Test, TypeOK, CreationInv, ReturnInv
  <2>8. OutcomeFaithful'
    BY <1>7 DEF Test, TypeOK, ReturnInv, OutcomeFaithful
  <2> QED BY <2>1, <2>2, <2>3, <2>4, <2>5, <2>6, <2>7, <2>8
<1>8. ASSUME NEW t \in Threads, Claim(t) PROVE MapInv'
  <2>1. TypeOK'
    BY <1>8 DEF Claim, TypeOK, Index
  <2>2. CreationInv'
    BY <1>8 DEF Claim, TypeOK, CreationInv
  <2>3. ClaimInv'
    <3>1. CASE next >= Jobs
      <4>1. /\ pc' = [pc EXCEPT ![t] = "done"]
            /\ next' = next + 1
            /\ UNCHANGED <<index, result, threw>>
        BY <1>8, <3>1 DEF Claim, TypeOK
      <4>2. \A i \in Index : i < next
        BY <3>1 DEF TypeOK, Index
      <4>3. \A i \in Index : i < next => i < next'
        BY <4>1 DEF TypeOK, Index
      <4>4. \A u \in Threads : pc'[u] \in Busy => u # t /\ pc'[u] = pc[u]
        BY <4>1 DEF TypeOK
      <4>5. \A u \in Threads : pc[u] = "call" => pc'[u] = "call"
        BY <1>8, <4>1 DEF Claim, TypeOK
      <4> QED BY <4>1, <4>2, <4>3, <4>4, <4>5 DEF ClaimInv, TypeOK
    <3>2. CASE next < Jobs
      <4>1. next \in Index
        BY <3>2 DEF TypeOK, Index
      <4>2. \A i \in Index : i < next' => i < next \/ i = next
        BY <1>8 DEF Claim, TypeOK, Index
      <4>3. /\ pc' = [pc EXCEPT ![t] = "call"]
            /\ index' = [index EXCEPT ![t] = next]
            /\ next' = next + 1
            /\ UNCHANGED <<result, threw>>
        BY <1>8, <3>2 DEF Claim, TypeOK
      <4>4. \A u \in Threads : pc'[u] \in Busy =>
              index'[u] \in Index /\ index'[u] < next'
        BY <4>1, <4>3 DEF TypeOK, ClaimInv, Index
      <4>5. \A i \in Index : i < next' =>
              \/ result[i] # None
              \/ i \in threw
              \/ \E u \in Threads : pc'[u] = "call" /\ index'[u] = i
        <5>1. pc'[t] = "call" /\ index'[t] = next
          BY <4>3 DEF TypeOK
        <5>2. \A u \in Threads : pc[u] = "call" =>
                pc'[u] = "call" /\ index'[u] = index[u]
          BY <1>8, <4>3 DEF Claim, TypeOK
        <5> QED BY <4>2, <5>1, <5>2 DEF ClaimInv
      <4>6. /\ \A u \in Threads : pc'[u] \in Catching => index'[u] \in threw
            /\ \A i \in Index : result[i] # None =>
                 result[i] = i /\ i < next' /\ i \notin threw
            /\ \A i \in threw : i < next'
        BY <4>3 DEF TypeOK, ClaimInv, Index
      <4> QED BY <4>3, <4>4, <4>5, <4>6 DEF ClaimInv
    <3> QED BY <3>1, <3>2 DEF TypeOK
  <2>4. SlotsExclusive'
    <3>1. CASE next >= Jobs
      BY <1>8, <3>1, ZenonT(60) DEF Claim, TypeOK, SlotsExclusive, Index
    <3>2. CASE next < Jobs
      <4>1. next \in Index
        BY <3>2 DEF TypeOK, Index
      <4>2. result[next] = None /\ next \notin threw
        BY <4>1 DEF TypeOK, ClaimInv
      <4>3. \A u \in Threads : pc[u] \in Busy => index[u] # next
        BY DEF TypeOK, ClaimInv, Index
      <4> QED BY <1>8, <3>2, <4>1, <4>2, <4>3 DEF Claim, TypeOK, SlotsExclusive
    <3> QED BY <3>1, <3>2 DEF TypeOK
  <2>5. MutexInv'
    BY <1>8 DEF Claim, TypeOK, MutexInv
  <2>6. ErrorInv'
    BY <1>8 DEF Claim, TypeOK, ClaimInv, MutexInv, ErrorInv
  <2>7. ReturnInv'
    BY <1>8 DEF Claim, TypeOK, CreationInv, ReturnInv
  <2>8. OutcomeFaithful'
    BY <1>8 DEF Claim, TypeOK, ReturnInv, OutcomeFaithful
  <2> QED BY <2>1, <2>2, <2>3, <2>4, <2>5, <2>6, <2>7, <2>8
<1>9. ASSUME NEW t \in Threads, Finish(t) PROVE MapInv'
  <2>1. TypeOK'
    BY <1>9 DEF Finish, TypeOK, ClaimInv
  <2>2. CreationInv'
    BY <1>9 DEF Finish, TypeOK, CreationInv
  <2>3. ClaimInv'
    <3>1. index[t] \in Index /\ index[t] < next /\ index[t] \notin threw
      BY <1>9 DEF Finish, ClaimInv, SlotsExclusive
    <3>2. /\ pc' = [pc EXCEPT ![t] = "test"]
          /\ result' = [result EXCEPT ![index[t]] = index[t]]
          /\ UNCHANGED <<next, index, threw>>
      BY <1>9 DEF Finish
    <3>3. \A u \in Threads : pc'[u] \in Busy => pc[u] = pc'[u]
      BY <3>2 DEF TypeOK
    <3>4. /\ \A u \in Threads : pc'[u] \in Busy => index[u] \in Index /\ index[u] < next
          /\ \A u \in Threads : pc'[u] \in Catching => index[u] \in threw
      BY <3>3 DEF ClaimInv
    <3>5. \A i \in Index : result'[i] # None =>
            result'[i] = i /\ i < next /\ i \notin threw
      BY <3>1, <3>2 DEF TypeOK, ClaimInv
    <3>6. \A i \in Index : i < next =>
            \/ result'[i] # None
            \/ i \in threw
            \/ \E u \in Threads : pc'[u] = "call" /\ index[u] = i
      <4>1. result'[index[t]] # None
        BY <3>1, <3>2 DEF TypeOK, Index
      <4>2. \A i \in Index : result[i] # None => result'[i] # None
        BY <3>2, <4>1 DEF TypeOK
      <4>3. \A u \in Threads : pc[u] = "call" => u = t \/ pc'[u] = "call"
        BY <3>2 DEF TypeOK
      <4> QED BY <4>1, <4>2, <4>3 DEF ClaimInv
    <3> QED BY <3>2, <3>4, <3>5, <3>6 DEF ClaimInv
  <2>4. SlotsExclusive'
    BY <1>9 DEF Finish, TypeOK, ClaimInv, SlotsExclusive
  <2>5. MutexInv'
    BY <1>9 DEF Finish, TypeOK, MutexInv
  <2>6. ErrorInv'
    BY <1>9 DEF Finish, TypeOK, ClaimInv, MutexInv, ErrorInv
  <2>7. ReturnInv'
    BY <1>9 DEF Finish, TypeOK, CreationInv, ReturnInv
  <2>8. OutcomeFaithful'
    BY <1>9 DEF Finish, TypeOK, ReturnInv, OutcomeFaithful
  <2> QED BY <2>1, <2>2, <2>3, <2>4, <2>5, <2>6, <2>7, <2>8
<1>10. ASSUME NEW t \in Threads, Throw(t) PROVE MapInv'
  <2>1. TypeOK'
    <3>1. index[t] \in Index
      BY <1>10 DEF Throw, ClaimInv
    <3> QED BY <1>10, <3>1 DEF Throw, TypeOK
  <2>2. CreationInv'
    BY <1>10 DEF Throw, TypeOK, CreationInv
  <2>3. ClaimInv'
    BY <1>10 DEF Throw, TypeOK, ClaimInv, SlotsExclusive
  <2>4. SlotsExclusive'
    BY <1>10 DEF Throw, TypeOK, ClaimInv, SlotsExclusive
  <2>5. MutexInv'
    BY <1>10 DEF Throw, TypeOK, MutexInv
  <2>6. ErrorInv'
    BY <1>10 DEF Throw, TypeOK, ClaimInv, MutexInv, ErrorInv
  <2>7. ReturnInv'
    BY <1>10 DEF Throw, TypeOK, CreationInv, ReturnInv
  <2>8. OutcomeFaithful'
    BY <1>10 DEF Throw, TypeOK, CreationInv, ReturnInv, OutcomeFaithful
  <2> QED BY <2>1, <2>2, <2>3, <2>4, <2>5, <2>6, <2>7, <2>8
<1>11. ASSUME NEW t \in Threads, Lock(t) PROVE MapInv'
  <2>1. TypeOK'
    BY <1>11 DEF Lock, TypeOK, ClaimInv
  <2>2. CreationInv'
    BY <1>11 DEF Lock, TypeOK, CreationInv
  <2>3. ClaimInv'
    BY <1>11 DEF Lock, TypeOK, ClaimInv, SlotsExclusive
  <2>4. SlotsExclusive'
    BY <1>11 DEF Lock, TypeOK, ClaimInv, SlotsExclusive
  <2>5. MutexInv'
    BY <1>11 DEF Lock, TypeOK, MutexInv
  <2>6. ErrorInv'
    BY <1>11 DEF Lock, TypeOK, ClaimInv, MutexInv, ErrorInv
  <2>7. ReturnInv'
    BY <1>11 DEF Lock, TypeOK, CreationInv, ReturnInv
  <2>8. OutcomeFaithful'
    BY <1>11 DEF Lock, TypeOK, ReturnInv, OutcomeFaithful
  <2> QED BY <2>1, <2>2, <2>3, <2>4, <2>5, <2>6, <2>7, <2>8
<1>12. ASSUME NEW t \in Threads, Look(t) PROVE MapInv'
  <2>1. TypeOK'
    BY <1>12 DEF Look, TypeOK, ClaimInv
  <2>2. CreationInv'
    BY <1>12 DEF Look, TypeOK, CreationInv
  <2>3. ClaimInv'
    BY <1>12 DEF Look, TypeOK, ClaimInv, SlotsExclusive
  <2>4. SlotsExclusive'
    BY <1>12 DEF Look, TypeOK, ClaimInv, SlotsExclusive
  <2>5. MutexInv'
    BY <1>12 DEF Look, TypeOK, MutexInv
  <2>6. ErrorInv'
    BY <1>12 DEF Look, TypeOK, ClaimInv, MutexInv, ErrorInv
  <2>7. ReturnInv'
    BY <1>12 DEF Look, TypeOK, CreationInv, ReturnInv
  <2>8. OutcomeFaithful'
    BY <1>12 DEF Look, TypeOK, ReturnInv, OutcomeFaithful
  <2> QED BY <2>1, <2>2, <2>3, <2>4, <2>5, <2>6, <2>7, <2>8
<1>13. ASSUME NEW t \in Threads, Record(t) PROVE MapInv'
  <2>1. TypeOK'
    BY <1>13 DEF Record, TypeOK, ClaimInv
  <2>2. CreationInv'
    BY <1>13 DEF Record, TypeOK, CreationInv
  <2>3. ClaimInv'
    BY <1>13 DEF Record, TypeOK, ClaimInv, SlotsExclusive
  <2>4. SlotsExclusive'
    BY <1>13 DEF Record, TypeOK, ClaimInv, SlotsExclusive
  <2>5. MutexInv'
    BY <1>13 DEF Record, TypeOK, MutexInv
  <2>6. ErrorInv'
    <3>1. /\ pc' = [pc EXCEPT ![t] = "flag"]
          /\ error' = index[t]
          /\ UNCHANGED <<failed, next, threw>>
      BY <1>13 DEF Record
    <3>2. index[t] \in threw /\ index[t] # None
      BY <1>13 DEF Record, TypeOK, ClaimInv, Index
    <3>3. error' # None /\ error' \in threw
      BY <3>1, <3>2
    <3>4. \A u \in Threads : pc'[u] = "done" => pc[u] = "done"
      BY <3>1 DEF TypeOK
    <3>5. \A u \in Threads : pc'[u] # "record"
      <4>1. \A u \in Threads : pc[u] = "record" => u = t
        BY <1>13 DEF Record, MutexInv
      <4> QED BY <3>1, <4>1 DEF TypeOK
    <3> QED BY <3>1, <3>3, <3>4, <3>5 DEF ErrorInv
  <2>7. ReturnInv'
    BY <1>13 DEF Record, TypeOK, CreationInv, ReturnInv
  <2>8. OutcomeFaithful'
    BY <1>13 DEF Record, TypeOK, CreationInv, ReturnInv, OutcomeFaithful
  <2> QED BY <2>1, <2>2, <2>3, <2>4, <2>5, <2>6, <2>7, <2>8
<1>14. ASSUME NEW t \in Threads, Publish(t) PROVE MapInv'
  <2>1. TypeOK'
    BY <1>14 DEF Publish, TypeOK, ClaimInv
  <2>2. CreationInv'
    BY <1>14 DEF Publish, TypeOK, CreationInv
  <2>3. ClaimInv'
    BY <1>14 DEF Publish, TypeOK, ClaimInv, SlotsExclusive
  <2>4. SlotsExclusive'
    BY <1>14 DEF Publish, TypeOK, ClaimInv, SlotsExclusive
  <2>5. MutexInv'
    BY <1>14 DEF Publish, TypeOK, MutexInv
  <2>6. ErrorInv'
    BY <1>14 DEF Publish, TypeOK, ClaimInv, MutexInv, ErrorInv
  <2>7. ReturnInv'
    BY <1>14 DEF Publish, TypeOK, CreationInv, ReturnInv
  <2>8. OutcomeFaithful'
    BY <1>14 DEF Publish, TypeOK, ReturnInv, OutcomeFaithful
  <2> QED BY <2>1, <2>2, <2>3, <2>4, <2>5, <2>6, <2>7, <2>8
<1>15. CASE UNCHANGED vars
  BY <1>15 DEF vars, TypeOK, CreationInv, ClaimInv, SlotsExclusive, MutexInv, ErrorInv, ReturnInv, OutcomeFaithful, Index
<1> QED BY <1>1, <1>2, <1>3, <1>4, <1>5, <1>6, <1>7, <1>8, <1>9, <1>10, <1>11, <1>12, <1>13, <1>14, <1>15
   DEF Next, CallerStep, WorkerStep, Finished

THEOREM Invariance == Spec => []MapInv
BY InitInv, StepInv, PTL DEF Spec

(* Type correctness: in particular every index a worker keeps is a valid   *)
(* subscript of `result` (runtime.hpp:33), for any jobs and workers.       *)
THEOREM TypeCorrect == Spec => []TypeOK
<1>1. MapInv => TypeOK
  BY DEF MapInv
<1> QED BY <1>1, Invariance, PTL

(* The unlocked writes of `result` never meet and no call is repeated.     *)
THEOREM SlotsAreExclusive == Spec => []SlotsExclusive
<1>1. MapInv => SlotsExclusive
  BY DEF MapInv
<1> QED BY <1>1, Invariance, PTL

(* What the caller gets is complete, or an exception that was thrown.      *)
THEOREM OutcomeIsFaithful == Spec => []OutcomeFaithful
<1>1. MapInv => OutcomeFaithful
  BY DEF MapInv
<1> QED BY <1>1, Invariance, PTL

(* No thread outlives the call whose locals it refers to.                  *)
THEOREM NobodyOutlivesTheCall == Spec => []JoinedBeforeReturn
<1>1. MapInv => JoinedBeforeReturn
  BY DEF MapInv, TypeOK, CreationInv, ReturnInv, AllJoined, JoinedBeforeReturn,
         Helpers, Threads
<1> QED BY <1>1, Invariance, PTL

(* The first recorded exception is kept: only the holder of the mutex is   *)
(* between the test and the assignment of runtime.hpp:36, and what it saw  *)
(* is still so (ErrorInv).                                                 *)
THEOREM FirstErrorIsKept == Spec => FirstErrorKept
<1>1. MapInv /\ [Next]_vars => [error # None => error' = error]_vars
  <2> SUFFICES ASSUME MapInv, Next PROVE error # None => error' = error
    BY DEF vars
  <2>1. CASE CallerStep
    BY <2>1 DEF CallerStep, Enter, Spawn, SpawnFail, SpawnDone, Unwound,
                JoinAndReturn
  <2>2. ASSUME NEW t \in Threads, WorkerStep(t)
        PROVE  error # None => error' = error
    <3>1. CASE Record(t)
      <4>1. error = None
        BY <3>1 DEF Record, Transition, MapInv, ErrorInv
      <4> QED BY <4>1
    <3> QED BY <2>2, <3>1 DEF WorkerStep, Test, Claim, Finish, Throw, Lock, Look, Publish
  <2>3. CASE Finished
    BY <2>3 DEF Finished, vars
  <2> QED BY <2>1, <2>2, <2>3 DEF Next
<1> QED BY <1>1, Invariance, PTL DEF Spec, FirstErrorKept

-------------------------------------------------------------------------------
(* The threads, the counter, the flag and the mutex implement MapOutcome:  *)
(* Finish is Complete, Throw is Fail, JoinAndReturn is ReturnAll or        *)
(* Rethrow, Unwound is GiveUp, and every other step stutters.              *)

LEMMA AbstractInit == Init => Abstract!Init
BY ParallelMapAssumption DEF Init, Abstract!Init, Index, Abstract!Index

LEMMA AbstractStep ==
  MapInv /\ MapInv' /\ [Next]_vars => [Abstract!Next]_(Abstract!vars)
<1> SUFFICES ASSUME MapInv, MapInv', Next PROVE [Abstract!Next]_(Abstract!vars)
  BY DEF vars, Abstract!vars
<1> USE ParallelMapAssumption
        DEF MapInv, Caller, Threads, Transition, Index, Abstract!Index, Abstract!vars
<1>1. CASE Enter
  <2>1. CASE Jobs = 0
    <3>1. Abstract!ReturnAll
      BY <1>1, <2>1 DEF Enter, TypeOK, ReturnInv, Abstract!ReturnAll
    <3> QED BY <3>1 DEF Abstract!Next
  <2>2. CASE Jobs # 0
    BY <1>1, <2>2 DEF Enter, TypeOK, ReturnInv
  <2> QED BY <2>1, <2>2
<1>2. CASE Spawn \/ SpawnFail \/ SpawnDone
  BY <1>2 DEF Spawn, SpawnFail, SpawnDone
<1>3. CASE Unwound
  <2>1. Abstract!GiveUp
    BY <1>3 DEF Unwound, TypeOK, ReturnInv, Abstract!GiveUp
  <2> QED BY <2>1 DEF Abstract!Next
<1>4. CASE JoinAndReturn
  <2>1. outcome = "running"
    BY <1>4 DEF JoinAndReturn, TypeOK, ReturnInv
  <2>2. CASE error # None
    <3>1. Abstract!Rethrow
      BY <1>4, <2>1, <2>2 DEF JoinAndReturn, ErrorInv, Abstract!Rethrow
    <3> QED BY <3>1 DEF Abstract!Next
  <2>3. CASE error = None
    <3>1. Abstract!ReturnAll
      BY <1>4, <2>1, <2>3 DEF JoinAndReturn, OutcomeFaithful, Abstract!ReturnAll
    <3> QED BY <3>1 DEF Abstract!Next
  <2> QED BY <2>2, <2>3
<1>5. ASSUME NEW t \in Threads, Finish(t)
      PROVE  [Abstract!Next]_(Abstract!vars)
  <2>1. outcome = "running" /\ index[t] \in Index
    BY <1>5 DEF Finish, TypeOK, CreationInv, ClaimInv, ReturnInv, AllJoined,
                Helpers, Busy
  <2>2. Abstract!Complete(index[t])
    BY <1>5, <2>1 DEF Finish, SlotsExclusive, Abstract!Complete, Abstract!Pending
  <2> QED BY <2>1, <2>2 DEF Abstract!Next
<1>6. ASSUME NEW t \in Threads, Throw(t)
      PROVE  [Abstract!Next]_(Abstract!vars)
  <2>1. outcome = "running" /\ index[t] \in Index
    BY <1>6 DEF Throw, TypeOK, CreationInv, ClaimInv, ReturnInv, AllJoined,
                Helpers, Busy
  <2>2. Abstract!Fail(index[t])
    BY <1>6, <2>1 DEF Throw, SlotsExclusive, Abstract!Fail, Abstract!Pending
  <2> QED BY <2>1, <2>2 DEF Abstract!Next
<1>7. ASSUME NEW t \in Threads,
             Test(t) \/ Claim(t) \/ Lock(t) \/ Look(t) \/ Record(t) \/ Publish(t)
      PROVE  UNCHANGED Abstract!vars
  <2>1. CASE Record(t)
    <3>1. outcome # "error"
      BY <2>1 DEF Record, TypeOK, CreationInv, ReturnInv, AllJoined, Helpers, Busy,
                  Catching
    <3> QED BY <2>1, <3>1 DEF Record
  <2> QED BY <1>7, <2>1 DEF Test, Claim, Lock, Look, Publish
<1>8. CASE Finished
  BY <1>8 DEF Finished, vars
<1> QED BY <1>1, <1>2, <1>3, <1>4, <1>5, <1>6, <1>7, <1>8
   DEF Next, CallerStep, WorkerStep

THEOREM Implements == Spec => ImplementsMapOutcome
BY Invariance, AbstractInit, AbstractStep, PTL
   DEF Spec, ImplementsMapOutcome, Abstract!Spec
===============================================================================
