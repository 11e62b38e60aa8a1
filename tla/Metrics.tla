------------------------------- MODULE Metrics -------------------------------
(***************************************************************************)
(* The metrics of a running scenario: Setup and Notify of the executor     *)
(* (executor/client.go), called by every virtual user and by the system    *)
(* load collector, the periodic logScaled (executor/executor.go), and the  *)
(* find-or-create and store RPCs of the master (master/metriclog.go).      *)
(*                                                                         *)
(* Setup walks a tree of groups, graphs and metrics and asks the master to *)
(* find or create one row for each node.  The master does that in two      *)
(* transactions and the tables have no unique index, so a second request   *)
(* for the same node between the two would duplicate the row.              *)
(***************************************************************************)
EXTENDS Integers, Sequences

CONSTANTS
    Caller,         \* goroutines that call Setup and Notify
    Node,           \* groups, graphs and metrics, identified by their path
    Title,          \* the metrics among them
    Gauge,          \* the gauges among the metrics; the others are counters
    Plan,           \* Plan[c]: the nodes in the order c's Setup visits them
    Value,          \* what the clients pass to Notify: 1, and -1 for a close
    MaxNotes,       \* bound: how many notifications there are
    Faults,         \* TRUE: an RPC to the agent may fail
    NoCaller

ASSUME MetricsAssumption ==
    /\ Title \subseteq Node /\ Gauge \subseteq Title
    /\ Plan \in [Caller -> Seq(Node)]
    /\ \A c \in Caller : Len(Plan[c]) > 0
    /\ Value \subseteq Int /\ MaxNotes \in Nat
    /\ Faults \in BOOLEAN
    /\ NoCaller \notin Caller

VARIABLES
    mu,             \* holder of executorInst.mu
    pc,             \* control state of each caller
    idx,            \* position of its Setup in Plan
    local,          \* titles in the local map `units` of its Setup
    registry,       \* titles in the go-metrics default registry
    units,          \* titles in executorInst.units
    notes,          \* number of notifications so far
    count,          \* count[t]: value of counter or gauge t
    rows,           \* rows[n]: number of rows for node n in the database
    saved,          \* saved[t]: latest value stored for t
    todo,           \* titles the current round of logScaledOnCue has to send
    failed,         \* history: some Setup returned an error
    exit            \* how the executor process ended: none, ok or fatal

callerVars == <<mu, pc, idx, local>>
counts == <<notes, count>>
vars == <<callerVars, registry, units, counts, rows, saved, todo, failed, exit>>

node(c) == Plan[c][idx[c]]
Titles(c) == {Plan[c][i] : i \in DOMAIN Plan[c]} \cap Title

Init ==
    /\ mu = NoCaller
    /\ pc = [c \in Caller |-> "new"]
    /\ idx = [c \in Caller |-> 1]
    /\ local = [c \in Caller |-> {}]
    /\ registry = {} /\ units = {}
    /\ notes = 0 /\ count = [t \in Title |-> 0]
    /\ rows = [n \in Node |-> 0]
    /\ saved = [t \in Title |-> 0]
    /\ todo = {}
    /\ failed = FALSE /\ exit = "none"

-----------------------------------------------------------------------------
(* Setup                                                                   *)

Alive == exit = "none"
At(c, s) == Alive /\ pc[c] = s
Goto(c, s) == pc' = [pc EXCEPT ![c] = s]

(* Mutant: the lock is only taken for the aggregation at the end. *)
LockLate(c) ==
    /\ At(c, "new")
    /\ Goto(c, "find")
    /\ idx' = [idx EXCEPT ![c] = 1]
    /\ local' = [local EXCEPT ![c] = {}]
    /\ UNCHANGED <<mu, registry, units, counts, rows, saved, todo, failed, exit>>

Lock(c) ==
    /\ At(c, "new") \/ At(c, "failed")
    /\ mu = NoCaller
    /\ mu' = c
    /\ Goto(c, "find")
    /\ idx' = [idx EXCEPT ![c] = 1]
    /\ local' = [local EXCEPT ![c] = {}]
    /\ UNCHANGED <<registry, units, counts, rows, saved, todo, failed, exit>>

(* Mutant: the answer of the find is not looked at for a metric. *)
FindAssumesRow(c) ==
    /\ At(c, "find")
    /\ Goto(c, IF rows[node(c)] > 0 \/ node(c) \in Title THEN "register" ELSE "create")
    /\ UNCHANGED <<mu, idx, local, registry, units, counts, rows, saved, todo, failed, exit>>

(* The query of FindCreateGroup, FindCreateGraph or FindCreateMetric. *)
Find(c) ==
    /\ At(c, "find")
    /\ Goto(c, IF rows[node(c)] > 0 THEN "register" ELSE "create")
    /\ UNCHANGED <<mu, idx, local, registry, units, counts, rows, saved, todo, failed, exit>>

(* Its insert, when the query found nothing. *)
Create(c) ==
    /\ At(c, "create")
    /\ rows' = [rows EXCEPT ![node(c)] = @ + 1]
    /\ Goto(c, "register")
    /\ UNCHANGED <<mu, idx, local, registry, units, counts, saved, todo, failed, exit>>

(* On to the next node, or to the aggregation after the last one. *)
Advance(c) ==
    /\ idx' = [idx EXCEPT ![c] = @ + 1]
    /\ Goto(c, IF idx[c] < Len(Plan[c]) THEN "find" ELSE "merge")

(* Mutant: groups and graphs are registered like metrics. *)
RegisterEveryNode(c) ==
    /\ At(c, "register")
    /\ registry' = registry \cup {node(c)}
    /\ local' = [local EXCEPT ![c] = @ \cup {node(c)}]
    /\ Advance(c)
    /\ UNCHANGED <<mu, units, counts, rows, saved, todo, failed, exit>>

(* A new title is put into the registry and the local map; a registered one
   (DuplicateMetric) is skipped. *)
Register(c) ==
    /\ At(c, "register")
    /\ IF node(c) \in Title \ registry
         THEN /\ registry' = registry \cup {node(c)}
              /\ local' = [local EXCEPT ![c] = @ \cup {node(c)}]
         ELSE UNCHANGED <<registry, local>>
    /\ Advance(c)
    /\ UNCHANGED <<mu, units, counts, rows, saved, todo, failed, exit>>

(* Mutant: the local map replaces the shared one. *)
MergeReplaces(c) ==
    /\ At(c, "merge")
    /\ units' = local[c]
    /\ mu' = NoCaller
    /\ Goto(c, "ready")
    /\ UNCHANGED <<idx, local, registry, counts, rows, saved, todo, failed, exit>>

(* Aggregate units, and the deferred unlock. *)
Merge(c) ==
    /\ At(c, "merge")
    /\ units' = units \cup local[c]
    /\ mu' = NoCaller
    /\ Goto(c, "ready")
    /\ UNCHANGED <<idx, local, registry, counts, rows, saved, todo, failed, exit>>

(* The same, while a tick walks the map: the Go runtime may detect "concurrent
   map iteration and map write" and end the process. *)
ConcurrentMapWrite(c) ==
    /\ At(c, "merge")
    /\ todo # {} /\ local[c] # {}
    /\ exit' = "fatal"
    /\ UNCHANGED <<callerVars, registry, units, counts, rows, saved, todo, failed>>

(* Mutant: the unlock is not deferred, and an early return forgets it. *)
SetupFailsLocked(c) ==
    /\ Faults
    /\ At(c, "find") \/ At(c, "create") \/ At(c, "register")
    /\ Goto(c, "failed")
    /\ failed' = TRUE
    /\ UNCHANGED <<mu, idx, local, registry, units, counts, rows, saved, todo, exit>>

(* An RPC fails before or after its effect: Setup returns the error.  The local
   map is lost, the registry is not.  The virtual user gives up or creates
   another client, that is, calls Setup again. *)
SetupFails(c) ==
    /\ Faults
    /\ At(c, "find") \/ At(c, "create") \/ At(c, "register")
    /\ mu' = NoCaller
    /\ Goto(c, "failed")
    /\ failed' = TRUE
    /\ UNCHANGED <<idx, local, registry, units, counts, rows, saved, todo, exit>>

Setup(c) == Lock(c) \/ Find(c) \/ Create(c) \/ Register(c) \/ Merge(c)

-----------------------------------------------------------------------------
(* Notify, logScaled, and the end of the process                           *)

(* A known title is updated, a counter by adding to it; an unknown one is
   ErrIDNotFound. *)
Notify(c, t) ==
    /\ At(c, "ready") /\ mu = NoCaller
    /\ t \in Titles(c) \cap units
    /\ notes < MaxNotes /\ notes' = notes + 1
    /\ \E v \in Value :
          count' = [count EXCEPT ![t] = IF t \in Gauge THEN v ELSE @ + v]
    /\ UNCHANGED <<callerVars, registry, units, rows, saved, todo, failed, exit>>

(* A tick: the map is read under the lock and walked without it. *)
Tick ==
    /\ Alive /\ mu = NoCaller /\ todo = {}
    /\ todo' = units
    /\ UNCHANGED <<callerVars, registry, units, counts, rows, saved, failed, exit>>

(* Mutant: a value of zero is not worth a row. *)
SendUnlessZero(t) ==
    /\ Alive /\ t \in todo
    /\ todo' = todo \ {t}
    /\ \/ saved' = [saved EXCEPT ![t] = IF count[t] = 0 THEN @ ELSE count[t]]
       \/ Faults /\ UNCHANGED saved
    /\ UNCHANGED <<callerVars, registry, units, counts, rows, failed, exit>>

(* The current value of one unit is stored; an error is only logged. *)
Send(t) ==
    /\ Alive /\ t \in todo
    /\ todo' = todo \ {t}
    /\ \/ saved' = [saved EXCEPT ![t] = count[t]]
       \/ Faults /\ UNCHANGED saved
    /\ UNCHANGED <<callerVars, registry, units, counts, rows, failed, exit>>

(* All virtual users have returned and the agent calls Terminate: os.Exit. *)
Terminate ==
    /\ Alive
    /\ \A c \in Caller : pc[c] \in {"ready", "failed"}
    /\ exit' = "ok"
    /\ UNCHANGED <<callerVars, registry, units, counts, rows, saved, todo, failed>>

Next ==
    \/ \E c \in Caller :
          Setup(c) \/ ConcurrentMapWrite(c) \/ SetupFails(c) \/ \E t \in Title : Notify(c, t)
    \/ Tick
    \/ \E t \in Title : Send(t)
    \/ Terminate

Spec == Init /\ [][Next]_vars

(* sync.Mutex is starvation free and the other steps of a Setup are its own; the
   ticker ticks, and the RPCs that store the values of a metric do not all fail. *)
Fairness ==
    /\ \A c \in Caller : SF_vars(Setup(c))
    /\ SF_vars(Tick)
    /\ \A t \in Title : SF_vars(Send(t) /\ saved' = [saved EXCEPT ![t] = count[t]])

FairSpec == Spec /\ Fairness

-----------------------------------------------------------------------------
(* Properties *)

InSetup == {"find", "create", "register", "merge"}

(* Type invariant. *)
TypeOK ==
    /\ mu \in Caller \cup {NoCaller}
    /\ pc \in [Caller -> {"new", "ready", "failed"} \cup InSetup]
    /\ idx \in [Caller -> Nat]
    /\ \A c \in Caller : idx[c] \in 1 .. (Len(Plan[c]) + 1)
    /\ local \in [Caller -> SUBSET Title]
    /\ registry \subseteq Title
    /\ units \subseteq Title
    /\ notes \in 0 .. MaxNotes /\ count \in [Title -> Int]
    /\ rows \in [Node -> Nat]
    /\ saved \in [Title -> Int]
    /\ todo \subseteq Title
    /\ failed \in BOOLEAN
    /\ exit \in {"none", "ok", "fatal"}

(* However many virtual users set up the same client, and whichever of them
   fail and try again, a group, graph or metric has one row: the find and the
   create of one caller are never separated by those of another. *)
NoDuplicateRows == \A n \in Node : rows[n] <= 1

(* Every metric the executor reports has its row, which the rows with values
   refer to. *)
UnitsHaveRows == \A t \in units : rows[t] > 0

(* The inductive invariant behind the two: the lock is held from the first RPC
   to the aggregation, so that what a find saw is still true at the create. *)
SetupInv ==
    \A c \in Caller :
        /\ pc[c] \in InSetup => mu = c
        /\ pc[c] \in InSetup \ {"merge"} => idx[c] \in 1 .. Len(Plan[c])
        /\ pc[c] = "create" => rows[node(c)] = 0
        /\ pc[c] = "register" => rows[node(c)] > 0
        /\ pc[c] \in InSetup => \A t \in local[c] : rows[t] > 0

(* client.go, Notify: the title is not found only if it "has never ever
   register before" or the session is cancelled.  After a Setup that returned
   nil all of its titles are known, also those that another caller registered,
   as long as no Setup failed: a failed one leaves its titles in the registry,
   and every later Setup skips them. *)
SetupMakesTitlesKnown ==
    ~failed => \A c \in Caller : pc[c] = "ready" => Titles(c) \subseteq units

(* client.go, Notify: "saves the id with value into metrics which later save to
   database".  While the executor lives, the stored value of a metric comes to
   agree with what was notified, whatever RPCs fail and however long the Setups
   of other virtual users hold the lock.  (What is notified after the last tick
   is lost with the process: there is no final flush.) *)
NotifiedIsStored ==
    \A t \in Title : count[t] # saved[t] ~> count[t] = saved[t] \/ ~Alive

(* Every call of Setup returns: nobody waits forever for the lock that another
   Setup holds across its RPCs.  (An RPC that hangs is outside the model.) *)
SetupEnds == \A c \in Caller : pc[c] \notin {"ready", "failed"} ~> pc[c] \in {"ready", "failed"} \/ ~Alive
=============================================================================
