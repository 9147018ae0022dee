------------------------------ MODULE ParallelMap ------------------------------
(***************************************************************************)
(* parallel_map of include/particle/runtime.hpp: the caller and            *)
(* min(jobs, workers) - 1 std::jthreads run the lambda `worker`, which     *)
(* claims indices from one atomic counter and stops on an atomic flag.     *)
(* Each atomic access, and each statement of the critical section, is a    *)
(* step of its own.                                                        *)
(* `function` is nondeterministic: a call returns (its value is the index  *)
(* it was called with) or throws.                                          *)
(***************************************************************************)
EXTENDS Integers

CONSTANTS
  Jobs,      (* argument `jobs`                                            *)
  Workers,   (* argument `workers`                                         *)
  None       (* a default-constructed Result, and a null exception_ptr     *)

ASSUME ParallelMapAssumption ==
  /\ Jobs \in Nat
  /\ Workers \in Nat
  /\ None \notin Int

Index == 0..(Jobs - 1)

(* std::min(jobs, workers)                                                 *)
Pool == IF Workers < Jobs THEN Workers ELSE Jobs

(* The calling thread and the jthreads i = 1, ..., Pool - 1 of the loop.   *)
Caller == 0
Helpers == 1..(Pool - 1)
Threads == {Caller} \cup Helpers

VARIABLES
  next,      (* std::atomic<size_t> next                                   *)
  failed,    (* std::atomic<bool> failed                                   *)
  error,     (* std::exception_ptr error: the index whose call threw it    *)
  holder,    (* the thread that holds `mutex`, or None                     *)
  result,    (* std::vector<Result> result                                 *)
  started,   (* the loop variable i: helpers below it have been created    *)
  pc,        (* where each thread is                                       *)
  index,     (* the local `index` of each thread                           *)
  outcome,   (* "running", or how parallel_map ended                       *)
  threw      (* history: the calls of `function` that threw                *)

vars ==
  <<next, failed, error, holder, result, started, pc, index, outcome, threw>>

(* Inside the body of the loop, with an index of its own.                  *)
Catching == {"lock", "look", "record", "flag"}
Busy == {"call"} \cup Catching

TypeOK ==
  /\ next \in Nat
  /\ failed \in BOOLEAN
  /\ error \in Index \cup {None}
  /\ holder \in Threads \cup {None}
  /\ result \in [Index -> Index \cup {None}]
  /\ started \in Nat
  /\ pc \in [Threads -> {"idle", "enter", "spawn", "unwind", "test", "claim",
                         "done", "returned"} \cup Busy]
  /\ index \in [Threads -> Index \cup {None}]
  /\ outcome \in {"running", "value", "error", "spawn_failed"}
  /\ threw \in SUBSET Index

Init ==
  /\ next = 0
  /\ failed = FALSE
  /\ error = None
  /\ holder = None
  /\ result = [i \in Index |-> None]
  /\ started = 1
  /\ pc = [t \in Threads |-> IF t = Caller THEN "enter" ELSE "idle"]
  /\ index = [t \in Threads |-> None]
  /\ outcome = "running"
  /\ threw = {}

Transition(t, from, to) ==
  /\ pc[t] = from
  /\ pc' = [pc EXCEPT ![t] = to]

-------------------------------------------------------------------------------
(* Mistakes: each operator is the action of its name with one plausible    *)
(* bug, to see that the properties below notice it.                        *)

(* The counter is no longer advanced once a call has failed.               *)
ClaimUnadvanced(t) ==
  /\ pc[t] = "claim"
  /\ next' = IF failed THEN next ELSE next + 1
  /\ pc' = [pc EXCEPT ![t] = IF next >= Jobs THEN "done" ELSE "call"]
  /\ index' = [index EXCEPT ![t] = IF next >= Jobs THEN @ ELSE next]
  /\ UNCHANGED <<failed, error, holder, result, started, outcome, threw>>

(* The lock_guard is missing.                                             *)
LockUnguarded(t) ==
  /\ Transition(t, "lock", "look")
  /\ holder' = t
  /\ UNCHANGED
       <<next, failed, error, result, started, index, outcome, threw>>

(* The mutex is locked without a guard.                                    *)
PublishLocked(t) ==
  /\ Transition(t, "flag", "test")
  /\ failed' = TRUE
  /\ UNCHANGED <<next, error, holder, result, started, index, outcome, threw>>

(* The error is looked at before the threads are joined.                   *)
ReturnUnjoined ==
  /\ Transition(Caller, "done", "returned")
  /\ outcome' = IF error # None THEN "error" ELSE "value"
  /\ UNCHANGED <<next, failed, error, holder, result, started, index, threw>>

-------------------------------------------------------------------------------
(* The body of parallel_map, run by the caller.                            *)

(* `if (!jobs) return result;`, or on to the loop that creates threads.    *)
Enter ==
  /\ Transition(Caller, "enter", IF Jobs = 0 THEN "returned" ELSE "spawn")
  /\ outcome' = IF Jobs = 0 THEN "value" ELSE "running"
  /\ UNCHANGED <<next, failed, error, holder, result, started, index, threw>>

(* threads.emplace_back(worker) for i = started.                           *)
Spawn ==
  /\ pc[Caller] = "spawn"
  /\ started \in Helpers
  /\ pc' = [pc EXCEPT ![started] = "test"]
  /\ started' = started + 1
  /\ UNCHANGED <<next, failed, error, holder, result, index, outcome, threw>>

(* The system refuses the thread: emplace_back throws, and the jthreads    *)
(* made so far are joined while the stack unwinds.                         *)
SpawnFail ==
  /\ started \in Helpers
  /\ Transition(Caller, "spawn", "unwind")
  /\ UNCHANGED
       <<next, failed, error, holder, result, started, index, outcome, threw>>

(* The loop is over and the caller runs worker() itself.                   *)
SpawnDone ==
  /\ started \notin Helpers
  /\ Transition(Caller, "spawn", "test")
  /\ UNCHANGED
       <<next, failed, error, holder, result, started, index, outcome, threw>>

AllJoined == \A t \in Helpers : t < started => pc[t] = "done"

Unwound ==
  /\ AllJoined
  /\ Transition(Caller, "unwind", "returned")
  /\ outcome' = "spawn_failed"
  /\ UNCHANGED <<next, failed, error, holder, result, started, index, threw>>

(* The scope of `threads` ends: all jthreads are joined; then the error,   *)
(* if there is one, is rethrown.                                           *)
JoinAndReturn ==
  /\ AllJoined
  /\ Transition(Caller, "done", "returned")
  /\ outcome' = IF error # None THEN "error" ELSE "value"
  /\ UNCHANGED <<next, failed, error, holder, result, started, index, threw>>

-------------------------------------------------------------------------------
(* The lambda `worker`.                                                    *)

Test(t) ==
  /\ Transition(t, "test", IF failed THEN "done" ELSE "claim")
  /\ UNCHANGED
       <<next, failed, error, holder, result, started, index, outcome, threw>>

(* `index = next.fetch_add(1); if (index >= jobs) return;`                 *)
Claim(t) ==
  /\ pc[t] = "claim"
  /\ next' = next + 1
  /\ IF next >= Jobs
       THEN /\ pc' = [pc EXCEPT ![t] = "done"]
            /\ UNCHANGED index
       ELSE /\ pc' = [pc EXCEPT ![t] = "call"]
            /\ index' = [index EXCEPT ![t] = next]
  /\ UNCHANGED <<failed, error, holder, result, started, outcome, threw>>

(* `result[index] = function(index)`                                       *)
Finish(t) ==
  /\ Transition(t, "call", "test")
  /\ result' = [result EXCEPT ![index[t]] = index[t]]
  /\ UNCHANGED
       <<next, failed, error, holder, started, index, outcome, threw>>

Throw(t) ==
  /\ Transition(t, "call", "lock")
  /\ threw' = threw \cup {index[t]}
  /\ UNCHANGED
       <<next, failed, error, holder, result, started, index, outcome>>

Lock(t) ==
  /\ holder = None
  /\ Transition(t, "lock", "look")
  /\ holder' = t
  /\ UNCHANGED
       <<next, failed, error, result, started, index, outcome, threw>>

(* `if (!error)`                                                           *)
Look(t) ==
  /\ Transition(t, "look", IF error = None THEN "record" ELSE "flag")
  /\ UNCHANGED
       <<next, failed, error, holder, result, started, index, outcome, threw>>

(* `error = std::current_exception();`                                     *)
Record(t) ==
  /\ Transition(t, "record", "flag")
  /\ error' = index[t]
  /\ UNCHANGED
       <<next, failed, holder, result, started, index, outcome, threw>>

(* `failed = true;` and the lock_guard is released.                        *)
Publish(t) ==
  /\ Transition(t, "flag", "test")
  /\ failed' = TRUE
  /\ holder' = None
  /\ UNCHANGED <<next, error, result, started, index, outcome, threw>>

-------------------------------------------------------------------------------
CallerStep ==
  Enter \/ Spawn \/ SpawnFail \/ SpawnDone \/ Unwound \/ JoinAndReturn

WorkerStep(t) ==
  Test(t) \/ Claim(t) \/ Finish(t) \/ Throw(t) \/ Lock(t) \/ Look(t)
    \/ Record(t) \/ Publish(t)

(* The caller has its answer: nothing is left to do.                       *)
Finished == outcome # "running" /\ UNCHANGED vars

Next == CallerStep \/ (\E t \in Threads : WorkerStep(t)) \/ Finished

(* The operating system runs every thread that can run, and a call of      *)
(* `function` ends.                                                        *)
Fairness == WF_vars(CallerStep) /\ \A t \in Threads : WF_vars(WorkerStep(t))

Spec == Init /\ [][Next]_vars
FairSpec == Spec /\ Fairness

-------------------------------------------------------------------------------
(* Properties.                                                             *)

(* result[] is written without a lock (runtime.hpp:33): a thread inside    *)
(* the loop body owns its slot alone, and no call is ever made twice.      *)
SlotsExclusive ==
  /\ \A t, u \in Threads :
       pc[t] \in Busy /\ pc[u] \in Busy /\ t # u => index[t] # index[u]
  /\ \A t \in Threads : pc[t] = "call" =>
       /\ index[t] \in Index
       /\ result[index[t]] = None
       /\ index[t] \notin threw

(* A caller that gets a vector gets every result at its own place, and no  *)
(* call threw; a caller that gets an exception gets one that a call threw, *)
(* whatever the number of workers and the interleaving.                    *)
OutcomeFaithful ==
  /\ outcome = "value" => threw = {} /\ \A i \in Index : result[i] = i
  /\ outcome = "error" => error \in threw

(* The lambdas capture locals of parallel_map by reference: no thread may  *)
(* still run when the call has ended, not even when creating a thread      *)
(* failed halfway.                                                         *)
JoinedBeforeReturn ==
  outcome # "running" => \A t \in Helpers : pc[t] \in {"idle", "done"}

(* The inductive invariant, in parts.                                      *)

(* Helpers not created yet are idle, and nobody works before the loop.     *)
CreationInv ==
  /\ started >= 1
  /\ \A t \in Helpers : (pc[t] = "idle") <=> (t >= started)
  /\ \A t \in Helpers : pc[t] \in {"idle", "test", "claim", "done"} \cup Busy
  /\ pc[Caller] # "idle"
  /\ pc[Caller] = "enter" => started = 1

(* Claimed indices are below the counter, and none is lost: it has its     *)
(* result, or its call threw, or a thread is inside the call.              *)
ClaimInv ==
  /\ \A t \in Threads : pc[t] \in Busy => index[t] \in Index /\ index[t] < next
  /\ \A t \in Threads : pc[t] \in Catching => index[t] \in threw
  /\ \A i \in Index : result[i] # None => result[i] = i /\ i < next /\ i \notin threw
  /\ \A i \in threw : i < next
  /\ \A i \in Index : i < next =>
       \/ result[i] # None
       \/ i \in threw
       \/ \E t \in Threads : pc[t] = "call" /\ index[t] = i

MutexInv ==
  \A t \in Threads : (holder = t) <=> (pc[t] \in {"look", "record", "flag"})

(* A throw that is not recorded yet is still being caught, and what a      *)
(* thread saw of `error` is still so when it writes it.                    *)
ErrorInv ==
  /\ error # None => error \in threw
  /\ failed => error # None
  /\ \A t \in Threads : pc[t] = "record" => error = None
  /\ \A t \in Threads : pc[t] = "flag" => error # None
  /\ threw # {} =>
       error # None \/ \E t \in Threads : pc[t] \in {"lock", "look", "record"}
  /\ \A t \in Threads : pc[t] = "done" => failed \/ next >= Jobs

ReturnInv ==
  /\ (outcome # "running") <=> (pc[Caller] = "returned")
  /\ outcome # "running" => AllJoined

MapInv ==
  /\ TypeOK
  /\ CreationInv
  /\ ClaimInv
  /\ SlotsExclusive
  /\ MutexInv
  /\ ErrorInv
  /\ ReturnInv
  /\ OutcomeFaithful

(* The exception that was recorded first is kept to the end, although the  *)
(* threads test `error` and assign it in two steps (runtime.hpp:36): of    *)
(* several that throw at once, no later one replaces it.                   *)
FirstErrorKept == [][error # None => error' = error]_vars

(* parallel_map does not hang, whether calls throw or threads fail.        *)
Terminates == <>(outcome # "running")

(* Detailed and abstract specification: see MapOutcome.                    *)
Abstract == INSTANCE MapOutcome WITH
  value <- result,
  reported <- IF outcome = "error" THEN error ELSE None

ImplementsMapOutcome == Abstract!Spec
===============================================================================
