------------------------------ MODULE MapOutcome ------------------------------
(***************************************************************************)
(* What parallel_map (include/particle/runtime.hpp) promises its callers,  *)
(* without threads, counter, flag or mutex: the calls of `function` finish *)
(* or throw one at a time in any order, and then the caller gets           *)
(*   - the vector of all results, if every call was made and none threw,   *)
(*   - the exception of a call that did throw, or                          *)
(*   - the exception of a thread that could not be created,                *)
(* and from then on nothing happens any more.                              *)
(***************************************************************************)
EXTENDS Integers

CONSTANTS
  Jobs,   (* the number of calls of `function` the caller asks for *)
  None    (* an empty slot, and the absence of an exception        *)

Index == 0..(Jobs - 1)

VARIABLES
  value,     (* value[i] is None until the i-th call has returned           *)
  threw,     (* the calls that threw                                        *)
  outcome,   (* "running", or how the caller's call ended                   *)
  reported   (* the call whose exception the caller received, or None       *)

vars == <<value, threw, outcome, reported>>

Init ==
  /\ value = [i \in Index |-> None]
  /\ threw = {}
  /\ outcome = "running"
  /\ reported = None

Pending(i) == value[i] = None /\ i \notin threw

Complete(i) ==
  /\ outcome = "running"
  /\ Pending(i)
  /\ value' = [value EXCEPT ![i] = i]
  /\ UNCHANGED <<threw, outcome, reported>>

Fail(i) ==
  /\ outcome = "running"
  /\ Pending(i)
  /\ threw' = threw \cup {i}
  /\ UNCHANGED <<value, outcome, reported>>

ReturnAll ==
  /\ outcome = "running"
  /\ threw = {}
  /\ \A i \in Index : value[i] = i
  /\ outcome' = "value"
  /\ UNCHANGED <<value, threw, reported>>

Rethrow ==
  /\ outcome = "running"
  /\ outcome' = "error"
  /\ reported' \in threw
  /\ UNCHANGED <<value, threw>>

GiveUp ==
  /\ outcome = "running"
  /\ outcome' = "spawn_failed"
  /\ UNCHANGED <<value, threw, reported>>

Next ==
  \/ \E i \in Index : Complete(i) \/ Fail(i)
  \/ ReturnAll
  \/ Rethrow
  \/ GiveUp

Spec == Init /\ [][Next]_vars

(* The caller is always answered.                                          *)
Answered == <>(outcome # "running")
===============================================================================
