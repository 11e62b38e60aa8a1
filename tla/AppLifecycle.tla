---------------------------- MODULE AppLifecycle ----------------------------
(***************************************************************************)
(* What can happen to the rows of the application table, whoever is asking *)
(* and however the scheduler, the HTTP handlers and the crashes of the     *)
(* process interleave.  A row is submitted once, one application is worked *)
(* on at a time, it was pending when it was taken, and its scenario is     *)
(* executed at most once.  Pending is never written again, so an           *)
(* application whose job is over is never taken a second time.             *)
(*                                                                         *)
(* This is what the code does, which is more than its comments promise.    *)
(* The handlers check the status and write it in two transactions, and the *)
(* scheduler writes without checking, so three moves are possible that the *)
(* comments exclude.  They are actions of their own:                       *)
(*   - LateCancel (master.go:206: "if the app is finished/error, return    *)
(*     ErrAppIsFinished error"): an outcome is overwritten by cancel;      *)
(*   - LateRemove (master.go:183: "DeleteApplication a                     *)
(*     pending/finished/canceled/error application"): an active row goes;  *)
(*   - Interrupt (master.go:124: "from running -> error"): it writes       *)
(*     cancel, also over a row that was taken since the restart.           *)
(* Besides, Provision and Activate may find a row that was cancelled since *)
(* it was taken, and go on.                                                *)
(***************************************************************************)
EXTENDS Naturals

CONSTANTS
    App,                \* the application ids that may ever be allocated
    NoApp               \* no application

VARIABLES
    status,             \* status[a]: the status column, "absent" if no row
    allocated,          \* ids that were handed out (never reused)
    executed,           \* applications whose scenario has been started
    working             \* the application that is worked on, or NoApp

vars == <<status, allocated, executed, working>>

Init ==
    /\ status = [a \in App |-> "absent"]
    /\ allocated = {}
    /\ executed = {}
    /\ working = NoApp

Write(a, from, to) ==
    /\ status[a] \in from
    /\ status' = [status EXCEPT ![a] = to]
    /\ UNCHANGED <<allocated, executed>>

Submit(a) ==
    /\ a \notin allocated
    /\ status' = [status EXCEPT ![a] = "pending"]
    /\ allocated' = allocated \cup {a}
    /\ UNCHANGED <<executed, working>>

-----------------------------------------------------------------------------
(* The application that is worked on *)

Take(a) ==
    /\ working = NoApp
    /\ status[a] = "pending"
    /\ working' = a
    /\ UNCHANGED <<status, allocated, executed>>

Provision(a) ==
    /\ working = a /\ a \notin executed
    /\ Write(a, {"pending", "cancel"}, "provisioning")
    /\ UNCHANGED working

Activate(a) ==
    /\ working = a /\ a \notin executed
    /\ Write(a, {"provisioning", "cancel"}, "running")
    /\ UNCHANGED working

(* The scenario is started: once, and never for a row that still waits. *)
Execute(a) ==
    /\ working = a /\ a \notin executed
    /\ status[a] \in {"running", "cancel", "absent"}
    /\ executed' = executed \cup {a}
    /\ UNCHANGED <<status, allocated, working>>

(* The outcome of the job; finished is only ever claimed by an executed one. *)
Settle(a, outcome) ==
    /\ working = a
    /\ outcome = "finished" => a \in executed
    /\ Write(a, {"provisioning", "running", "cancel"}, outcome)
    /\ working' = NoApp

(* The job is over without a word: the process ended, the log files could not
   be opened, or the outcome could not be written. *)
Abandon ==
    /\ working # NoApp
    /\ working' = NoApp
    /\ UNCHANGED <<status, allocated, executed>>

-----------------------------------------------------------------------------
(* The requests, and the restart *)

Cancel(a) ==
    /\ Write(a, {"pending", "provisioning", "running"}, "cancel")
    /\ UNCHANGED working

LateCancel(a) ==
    /\ Write(a, {"finished", "error"}, "cancel")
    /\ UNCHANGED working

Remove(a) ==
    /\ Write(a, {"pending", "finished", "cancel", "error"}, "absent")
    /\ UNCHANGED working

LateRemove(a) ==
    /\ Write(a, {"provisioning", "running"}, "absent")
    /\ UNCHANGED working

(* The restart of the master closes every row that says running. *)
Interrupt ==
    /\ status' = [a \in App |-> IF status[a] = "running" THEN "cancel"
                                                         ELSE status[a]]
    /\ UNCHANGED <<allocated, executed, working>>

Next ==
    \/ Abandon \/ Interrupt
    \/ \E a \in App :
          \/ Submit(a)
          \/ Take(a) \/ Provision(a) \/ Activate(a) \/ Execute(a)
          \/ \E o \in {"finished", "error", "cancel"} : Settle(a, o)
          \/ Cancel(a) \/ LateCancel(a)
          \/ Remove(a) \/ LateRemove(a)

Spec == Init /\ [][Next]_vars
=============================================================================
