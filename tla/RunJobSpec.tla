----------------------------- MODULE RunJobSpec -----------------------------
(***************************************************************************)
(* What the scheduler may rely on when it calls RunJob of the agent        *)
(* (agent/agent.go).  Master takes the two steps of a call, RunJobStart    *)
(* and RunJobReturn, for granted; Agent implements them.                   *)
(*                                                                         *)
(* A call starts an executor at most once and not after a cancel.  Virtual *)
(* users begin only during a call.  It returns nil only when none of them  *)
(* is left, and an error only after a cancel or a fault.                   *)
(***************************************************************************)
EXTENDS Naturals

CONSTANTS Job, NoJob, Faults

VARIABLES
    up,                 \* the master process is alive
    called,             \* jobs RunJob was called for
    cur,                \* the job of m.job, NoJob before one
    phase,              \* idle, called (no executor yet), executing
    cancelled,          \* jobs whose context is cancelled
    started,            \* jobs that have got an executor
    busy,               \* jobs with virtual users that have not returned
    result              \* result[j]: what RunJob returned

vars == <<up, called, cur, phase, cancelled, started, busy, result>>

Init ==
    /\ up = TRUE /\ called = {} /\ cur = NoJob /\ phase = "idle"
    /\ cancelled = {} /\ started = {} /\ busy = {}
    /\ result = [j \in Job |-> "none"]

Call(j) ==
    /\ up /\ phase = "idle" /\ j \notin called
    /\ called' = called \cup {j} /\ cur' = j /\ phase' = "called"
    /\ UNCHANGED <<up, cancelled, started, busy, result>>

(* Master!RunJobStart, the executor is started ... *)
Start ==
    /\ phase = "called" /\ cur \notin cancelled /\ cur \notin started
    /\ phase' = "executing" /\ started' = started \cup {cur}
    /\ UNCHANGED <<up, called, cur, cancelled, busy, result>>

(* ... or is not; and Master!RunJobReturn with an error. *)
Fail ==
    /\ phase # "idle" /\ (cur \in cancelled \/ Faults)
    /\ phase' = "idle" /\ result' = [result EXCEPT ![cur] = "err"]
    /\ UNCHANGED <<up, called, cur, cancelled, started, busy>>

(* Master!RunJobReturn without one. *)
Succeed ==
    /\ phase = "executing" /\ cur \notin busy
    /\ phase' = "idle" /\ result' = [result EXCEPT ![cur] = "ok"]
    /\ UNCHANGED <<up, called, cur, cancelled, started, busy>>

UsersBegin ==
    /\ phase = "executing"
    /\ busy' = busy \cup {cur}
    /\ UNCHANGED <<up, called, cur, phase, cancelled, started, result>>

UsersEnd(j) ==
    /\ busy' = busy \ {j}
    /\ UNCHANGED <<up, called, cur, phase, cancelled, started, result>>

Cancel ==
    /\ up /\ cur # NoJob
    /\ cancelled' = cancelled \cup {cur}
    /\ UNCHANGED <<up, called, cur, phase, started, busy, result>>

(* The executor, and its users, may go on without the master. *)
MasterDies ==
    /\ Faults
    /\ up' = FALSE /\ cur' = NoJob /\ phase' = "idle"
    /\ UNCHANGED <<called, cancelled, started, busy, result>>

MasterRestarts ==
    /\ up' = TRUE
    /\ UNCHANGED <<called, cur, phase, cancelled, started, busy, result>>

Next ==
    \/ Start \/ Fail \/ Succeed \/ UsersBegin \/ Cancel \/ MasterDies \/ MasterRestarts
    \/ \E j \in Job : Call(j) \/ UsersEnd(j)

Spec == Init /\ [][Next]_vars
=============================================================================
