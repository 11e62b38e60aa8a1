-------------------------------- MODULE Agent --------------------------------
(***************************************************************************)
(* The agent's RunJob (agent/agent.go) and the executor processes it       *)
(* starts, up to the gRPC handlers Start and Terminate and the select of   *)
(* Executor.run (executor/rpc_server.go, executor/executor.go): the part   *)
(* that module Master abstracts to RunJobStart and RunJobReturn.           *)
(*                                                                         *)
(* Three parties interleave: the scheduler's goroutine inside RunJob, the  *)
(* goroutine of exec.CommandContext that kills the process once the job's  *)
(* context is done, and the executor, a process of its own that outlives   *)
(* the master if nobody ends it.                                           *)
(***************************************************************************)
EXTENDS Naturals

CONSTANTS
    MaxJobs,            \* bound: how many jobs the scheduler runs in all
    NVus,               \* virtual users of a scenario, of all its classes
    ExecFaults          \* TRUE: executors may die or fail their setup, and
                        \* the master may be killed

ASSUME AgentAssumption ==
    /\ MaxJobs \in Nat \ {0}
    /\ NVus \in Nat
    /\ ExecFaults \in BOOLEAN

Job == 1 .. MaxJobs
NoJob == 0

VARIABLES
    up,                 \* the master process is alive
    count,              \* number of jobs so far; job ids count upwards
    base,               \* how many of them belong to earlier master processes
    cur,                \* the job of m.job in this process, NoJob before one
    pc,                 \* control state of RunJob
    ctxDone,            \* ctxDone[j]: the context of job j is cancelled
    killer,             \* killer[j]: CommandContext's goroutine watches job j
    proc,               \* proc[j]: state of the executor process of job j
    scen,               \* scen[j]: runScen: none, active (in wg.Wait) or over
    left,               \* left[j]: virtual users not launched yet
    active,             \* active[j]: virtual users launched and not returned
    wg,                 \* wg[j]: the wait group of runScen
    result              \* result[j]: what RunJob returned

users == <<scen, left, active, wg>>
vars == <<up, count, base, cur, pc, ctxDone, killer, proc, users, result>>

(* boot: before the executor listens; serving: idle RPC server; running: inside
   Executor.run; done/cancelled: run has returned nil/ErrAppCancel;
   exited/killed: the process ended with status 0/otherwise. *)
Alive == {"boot", "serving", "running", "done", "cancelled"}
ProcState == {"none", "exited", "killed"} \cup Alive

Init ==
    /\ up = TRUE /\ count = 0 /\ base = 0 /\ cur = NoJob /\ pc = "idle"
    /\ ctxDone = [j \in Job |-> FALSE]
    /\ killer = [j \in Job |-> FALSE]
    /\ proc = [j \in Job |-> "none"]
    /\ scen = [j \in Job |-> "none"]
    /\ left = [j \in Job |-> 0]
    /\ active = [j \in Job |-> 0]
    /\ wg = [j \in Job |-> 0]
    /\ result = [j \in Job |-> "none"]

Return(r) ==
    /\ pc' = "idle"
    /\ result' = [result EXCEPT ![cur] = r]

-----------------------------------------------------------------------------
(* RunJob, on the scheduler's goroutine.                                   *)

(* The scheduler calls RunJob with the context of its next job. *)
RunJobCall ==
    /\ up /\ pc = "idle" /\ count < MaxJobs
    /\ count' = count + 1 /\ cur' = count + 1
    /\ pc' = "start"
    /\ UNCHANGED <<up, base, ctxDone, killer, proc, users, result>>

(* Mutant: exec.Command instead of exec.CommandContext. *)
CmdStartWithoutContext ==
    /\ pc = "start"
    /\ pc' = "poll"
    /\ proc' = [proc EXCEPT ![cur] = "boot"]
    /\ UNCHANGED <<up, count, base, cur, ctxDone, killer, users, result>>

(* The pipes and cmd.Start(), which fails at once if the context is done. *)
CmdStart ==
    /\ pc = "start"
    /\ \/ /\ ~ctxDone[cur]
          /\ pc' = "poll"
          /\ proc' = [proc EXCEPT ![cur] = "boot"]
          /\ killer' = [killer EXCEPT ![cur] = TRUE]
          /\ UNCHANGED result
       \/ /\ ctxDone[cur] \/ ExecFaults
          /\ Return("err")
          /\ UNCHANGED <<proc, killer>>
    /\ UNCHANGED <<up, count, base, cur, ctxDone, users>>

(* waitForReady, the select: the context, and the 5 s timer (which has fired
   only if the goroutine was held up that long), are looked at here and nowhere
   else; after an error the process is left as it is. *)
Poll ==
    /\ pc = "poll"
    /\ \/ (ctxDone[cur] \/ ExecFaults) /\ Return("err")
       \/ ~ctxDone[cur] /\ pc' = "dial" /\ UNCHANGED result
    /\ UNCHANGED <<up, count, base, cur, ctxDone, killer, proc, users>>

(* waitForReady, grpc.Dial with WithBlock and no context: it returns when the
   executor listens and in no other case. *)
Dial ==
    /\ pc = "dial"
    /\ proc[cur] \in Alive \ {"boot"}
    /\ pc' = "startRpc"
    /\ UNCHANGED <<up, count, base, cur, ctxDone, killer, proc, users, result>>

(* Mutant: the error return gives up the process, and nobody watches it. *)
StartRpcFailsReleases ==
    /\ pc = "startRpc"
    /\ ctxDone[cur] \/ proc[cur] \in {"killed", "cancelled"}
    /\ Return("err")
    /\ killer' = [killer EXCEPT ![cur] = FALSE]
    /\ UNCHANGED <<up, count, base, cur, ctxDone, proc, users>>

(* client.Start returns an error: the context is done, the process is gone, or
   the handler returned one.  RunJob returns without terminating the executor. *)
StartRpcFails ==
    /\ pc = "startRpc"
    /\ ctxDone[cur] \/ proc[cur] \in {"killed", "cancelled"}
    /\ Return("err")
    /\ UNCHANGED <<up, count, base, cur, ctxDone, killer, proc, users>>

StartRpcReturns ==
    /\ pc = "startRpc"
    /\ proc[cur] = "done"
    /\ pc' = "terminate"
    /\ UNCHANGED <<up, count, base, cur, ctxDone, killer, proc, users, result>>

(* Mutant: cmd.Wait without a Terminate: the executor goes on serving. *)
TerminateSkipped ==
    /\ pc = "terminate"
    /\ pc' = "wait"
    /\ UNCHANGED <<up, count, base, cur, ctxDone, killer, proc, users, result>>

(* client.Terminate: os.Exit(0) in the executor, unless the context is done or
   the process is gone; its error is ignored. *)
Terminate ==
    /\ pc = "terminate"
    /\ pc' = "wait"
    /\ \/ proc[cur] \in Alive /\ proc' = [proc EXCEPT ![cur] = "exited"]
       \/ (ctxDone[cur] \/ proc[cur] = "killed") /\ UNCHANGED proc
    /\ UNCHANGED <<up, count, base, cur, ctxDone, killer, users, result>>

(* Mutant: the state of the process is returned as it is. *)
WaitRaw ==
    /\ pc = "wait"
    /\ proc[cur] \in {"exited", "killed"}
    /\ Return(proc[cur])
    /\ killer' = [killer EXCEPT ![cur] = FALSE]
    /\ UNCHANGED <<up, count, base, cur, ctxDone, proc, users>>

(* cmd.Wait: it also stops CommandContext's goroutine. *)
Wait ==
    /\ pc = "wait"
    /\ proc[cur] \in {"exited", "killed"}
    /\ Return(IF proc[cur] = "exited" THEN "ok" ELSE "err")
    /\ killer' = [killer EXCEPT ![cur] = FALSE]
    /\ UNCHANGED <<up, count, base, cur, ctxDone, proc, users>>

RunJob == CmdStart \/ Poll \/ Dial \/ StartRpcFails \/ StartRpcReturns \/ Terminate \/ Wait

-----------------------------------------------------------------------------
(* The context and the end of the master.                                  *)

(* m.job.cancel(); m.job stays in place after the job, so it may be late. *)
Cancel ==
    /\ up /\ cur # NoJob /\ ~ctxDone[cur]
    /\ ctxDone' = [ctxDone EXCEPT ![cur] = TRUE]
    /\ UNCHANGED <<up, count, base, cur, pc, killer, proc, users, result>>

Kill(j) ==
    /\ killer[j] /\ ctxDone[j]
    /\ proc' = [proc EXCEPT ![j] = IF @ \in Alive THEN "killed" ELSE @]
    /\ killer' = [killer EXCEPT ![j] = FALSE]
    /\ UNCHANGED <<up, count, base, cur, pc, ctxDone, users, result>>

MasterDies ==
    /\ ExecFaults /\ up
    /\ up' = FALSE
    /\ base' = count /\ cur' = NoJob /\ pc' = "idle"
    /\ killer' = [j \in Job |-> FALSE]
    /\ UNCHANGED <<count, ctxDone, proc, users, result>>

MasterRestarts ==
    /\ ~up
    /\ up' = TRUE
    /\ UNCHANGED <<count, base, cur, pc, ctxDone, killer, proc, users, result>>

-----------------------------------------------------------------------------
(* The executor process of job j.                                          *)

(* Serve: connect to the agent (blocking), then listen.  The agent's socket is
   named after the pid of the master, so only the one that started the executor
   can answer. *)
Serve(j) ==
    /\ proc[j] = "boot" /\ j > base
    /\ proc' = [proc EXCEPT ![j] = "serving"]
    /\ UNCHANGED <<up, count, base, cur, pc, ctxDone, killer, users, result>>

(* Mutant: totalVu is assigned in the loop over vus, not added up, and the last
   class has one user less than all of them. *)
StartHandlerOneLess ==
    /\ pc = "startRpc" /\ proc[cur] = "serving"
    /\ proc' = [proc EXCEPT ![cur] = "running"]
    /\ scen' = [scen EXCEPT ![cur] = "active"]
    /\ left' = [left EXCEPT ![cur] = NVus]
    /\ wg' = [wg EXCEPT ![cur] = IF NVus > 0 THEN NVus - 1 ELSE 0]
    /\ UNCHANGED <<up, count, base, cur, pc, ctxDone, killer, active, result>>

(* The Start handler: systemloadSetup, then run() starts runScen, which adds all
   virtual users to the wait group before it launches one.  A failed setup makes
   the handler, and RunJob, return an error; the process goes on serving. *)
StartHandler ==
    /\ pc = "startRpc" /\ proc[cur] = "serving"
    /\ \/ /\ proc' = [proc EXCEPT ![cur] = "running"]
          /\ scen' = [scen EXCEPT ![cur] = "active"]
          /\ left' = [left EXCEPT ![cur] = NVus]
          /\ wg' = [wg EXCEPT ![cur] = NVus]
          /\ UNCHANGED <<pc, active, result>>
       \/ /\ ExecFaults
          /\ Return("err")
          /\ UNCHANGED <<proc, users>>
    /\ UNCHANGED <<up, count, base, cur, ctxDone, killer>>

(* The next virtual user of some class is launched, after the pause its rate
   asks for.  Neither loop looks at the context. *)
Launch(j) ==
    /\ proc[j] \in Alive /\ left[j] > 0
    /\ left' = [left EXCEPT ![j] = @ - 1]
    /\ active' = [active EXCEPT ![j] = @ + 1]
    /\ UNCHANGED <<up, count, base, cur, pc, ctxDone, killer, proc, scen, wg, result>>

(* vus[i].Fu(ctx, j) returns: wg.Done(). *)
VuReturns(j) ==
    /\ proc[j] \in Alive /\ active[j] > 0 /\ wg[j] > 0
    /\ active' = [active EXCEPT ![j] = @ - 1]
    /\ wg' = [wg EXCEPT ![j] = @ - 1]
    /\ UNCHANGED <<up, count, base, cur, pc, ctxDone, killer, proc, scen, left, result>>

(* wg.Wait() returns. *)
ScenarioEnds(j) ==
    /\ proc[j] \in Alive /\ scen[j] = "active" /\ wg[j] = 0
    /\ scen' = [scen EXCEPT ![j] = "over"]
    /\ UNCHANGED <<up, count, base, cur, pc, ctxDone, killer, proc, left, active, wg, result>>

(* The select of Executor.run: `finished` ... *)
RunFinished(j) ==
    /\ proc[j] = "running" /\ scen[j] = "over"
    /\ proc' = [proc EXCEPT ![j] = "done"]
    /\ UNCHANGED <<up, count, base, cur, pc, ctxDone, killer, users, result>>

(* ... or ctx.Done(): the caller cancelled, or its connection went away.  The
   virtual users are not waited for. *)
RunCancelled(j) ==
    /\ proc[j] = "running"
    /\ ctxDone[j] \/ cur # j
    /\ proc' = [proc EXCEPT ![j] = "cancelled"]
    /\ UNCHANGED <<up, count, base, cur, pc, ctxDone, killer, users, result>>

(* A panic of the scenario, a failed Serve, the OOM killer. *)
ExecutorDies(j) ==
    /\ ExecFaults /\ proc[j] \in Alive
    /\ proc' = [proc EXCEPT ![j] = "killed"]
    /\ UNCHANGED <<up, count, base, cur, pc, ctxDone, killer, users, result>>

-----------------------------------------------------------------------------
Next ==
    \/ RunJobCall \/ RunJob
    \/ Cancel \/ MasterDies \/ MasterRestarts
    \/ StartHandler
    \/ \E j \in Job :
          \/ Launch(j) \/ VuReturns(j) \/ ScenarioEnds(j)
          \/ Kill(j) \/ Serve(j) \/ RunFinished(j) \/ RunCancelled(j) \/ ExecutorDies(j)

Spec == Init /\ [][Next]_vars

(* Goroutines and processes that can go on do; a virtual user need not return. *)
Fairness ==
    /\ WF_vars(RunJob)
    /\ WF_vars(StartHandler)
    /\ \A j \in Job :
          /\ WF_vars(Launch(j)) /\ WF_vars(ScenarioEnds(j))
          /\ WF_vars(Kill(j)) /\ WF_vars(Serve(j)) /\ WF_vars(RunFinished(j)) /\ WF_vars(RunCancelled(j))

FairSpec == Spec /\ Fairness

-----------------------------------------------------------------------------
(* Properties *)

(* Type invariant. *)
TypeOK ==
    /\ up \in BOOLEAN
    /\ count \in 0 .. MaxJobs
    /\ base \in 0 .. count
    /\ cur \in Job \cup {NoJob}
    /\ pc \in {"idle", "start", "poll", "dial", "startRpc", "terminate", "wait"}
    /\ ctxDone \in [Job -> BOOLEAN]
    /\ killer \in [Job -> BOOLEAN]
    /\ proc \in [Job -> ProcState]
    /\ scen \in [Job -> {"none", "active", "over"}]
    /\ left \in [Job -> 0 .. NVus]
    /\ active \in [Job -> 0 .. NVus]
    /\ wg \in [Job -> 0 .. NVus]
    /\ result \in [Job -> {"none", "ok", "err"}]

(* RunJob returns nil, and the application is reported finished, only if every
   virtual user was launched and has returned and the executor process has
   exited (agent.go, RunJob; executor.go, runScen). *)
OkMeansOver ==
    \A j \in Job :
        result[j] = "ok" => /\ scen[j] = "over" /\ proc[j] = "exited"
                            /\ left[j] = 0 /\ active[j] = 0

(* The error paths of RunJob neither terminate nor wait for the executor.  What is
   left to end it is the goroutine of exec.CommandContext: whatever has become of
   the call, it watches every living executor that this master process started.
   An executor nobody watches has outlived its master (executor.go, Serve). *)
LivingIsWatched == \A j \in Job : proc[j] \in Alive /\ j > base => killer[j]

(* An application whose virtual users have all returned is reported finished:
   nothing but a cancel, the death of the executor or of the master prevents
   that (agent.go, RunJob after client.Start). *)
EndedScenarioIsOk ==
    \A j \in Job :
        (cur = j /\ scen[j] = "over")
        ~> (result[j] = "ok" \/ ctxDone[j] \/ proc[j] = "killed" \/ cur # j)

(* Once the executor is connected, a cancel makes RunJob return, whatever the
   scenario does with its context. *)
CancelEndsConnectedJob ==
    (pc \in {"startRpc", "terminate", "wait"} /\ ctxDone[cur]) ~> (pc = "idle")

(* The executor of a cancelled job is gone in the end, also on the error paths
   of RunJob that neither terminate nor wait for it; only the death of the
   master, and with it of the goroutine that kills, can prevent that. *)
CancelledExecutorEnds ==
    \A j \in Job :
        (cur = j /\ ctxDone[j] /\ proc[j] \in Alive) ~> (proc[j] \notin Alive \/ cur # j)

Phase == IF pc = "idle" THEN "idle" ELSE IF pc = "start" THEN "called" ELSE "executing"

Promise == INSTANCE RunJobSpec WITH
    Faults <- ExecFaults,
    called <- 1 .. count,
    phase <- Phase,
    cancelled <- {j \in Job : ctxDone[j]},
    started <- {j \in Job : proc[j] # "none"},
    busy <- {j \in Job : left[j] > 0 \/ active[j] > 0}

(* RunJob keeps to what module Master assumes of it: no executor is started after
   a cancel or twice, users begin only during a call, nil is returned only when
   none is left, and an error only after a cancel or a fault. *)
ImplementsRunJob == Promise!Spec

-----------------------------------------------------------------------------
(* What the comments and tests of the code say and the code does not do.   *)

(* master.go, CancelApplication: "terminates an application / if the app is
   running, send cancel signal": RunJob returns after a cancel, at whatever
   point it is. *)
CancelEndsJob == (pc # "idle" /\ ctxDone[cur]) ~> (pc = "idle")

=============================================================================
