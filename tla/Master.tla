------------------------------- MODULE Master -------------------------------
(***************************************************************************)
(* The gobench master process (master/master.go, main.go): the scheduler   *)
(* goroutine that runs one pending application at a time, the HTTP         *)
(* handlers that create, cancel and delete applications concurrently with  *)
(* it, the application table they share, and the death and restart of the  *)
(* process.                                                                *)
(*                                                                         *)
(* One step is one transaction on the database, or one access to the       *)
(* unsynchronised field m.job, because that is where the goroutines can    *)
(* interleave.  The agent's RunJob is abstract here: it starts the         *)
(* scenario, and returns at some later time with or without an error       *)
(* (module Agent refines that part).                                       *)
(***************************************************************************)
EXTENDS Naturals, FiniteSets

CONSTANTS
    MaxApps,        \* bound: how many applications are ever created
    Client,         \* HTTP requests that may be in progress at the same time
    IOFaults        \* TRUE: a database or file system call may fail

ASSUME MasterAssumption ==
    /\ MaxApps \in Nat \ {0}
    /\ IOFaults \in BOOLEAN

(* Primary keys are AUTOINCREMENT, so ids follow creation and are not reused;
   created_at orders the rows the same way. *)
App == 1 .. MaxApps
NoApp == 0

Status == {"pending", "provisioning", "running", "finished", "cancel", "error"}
Row == Status \cup {"absent"}

VARIABLES
    phase,          \* where main() is: booting before CleanupRunningApps,
                    \* then serving; down and panicked when there is no process
    db,             \* db[a]: status column of application a
    nextId,         \* next primary key
    spc,            \* control state of the goroutine in schedule()/run()
    cur,            \* the application the scheduler works on
    err,            \* the named result err of run()
    job,            \* id of the application of m.job, NoApp while m.job is nil
    appNil,         \* m.job.app is nil (a Save of setStatus returned an error)
    ctxBy,          \* the application on whose behalf the context of m.job was
                    \* cancelled, NoApp while ctx.Err() is nil
    cpc,            \* control state of each HTTP request
    capp,           \* the application id in the request's path
    runs,           \* history: how often the scenario of a was started
    acked,          \* history: applications with a successful cancel response
    unsaved         \* history: applications whose final status was not written

schedVars == <<spc, cur, err, job, appNil>>
clientVars == <<cpc, capp>>
history == <<runs, acked, unsaved>>
vars == <<phase, db, nextId, schedVars, ctxBy, clientVars, history>>

SchedulerState ==
    {"idle", "setLogs", "provision", "compile", "setRunning", "startedAt",
     "runJob", "executing", "finish"}

RequestState ==
    {"idle", "cancelCheck", "cancelSignal", "cancelRead", "cancelQuery",
     "cancelWrite", "deleteQuery", "deleteExec"}

Up == phase \in {"booting", "serving"}
Pending == {a \in App : db[a] = "pending"}
CtxDone == ctxBy # NoApp

Init ==
    /\ phase = "down"
    /\ db = [a \in App |-> "absent"]
    /\ nextId = 1
    /\ spc = "idle" /\ cur = NoApp /\ err = FALSE
    /\ job = NoApp /\ appNil = FALSE /\ ctxBy = NoApp
    /\ cpc = [c \in Client |-> "idle"]
    /\ capp = [c \in Client |-> NoApp]
    /\ runs = [a \in App |-> 0]
    /\ acked = {}
    /\ unsaved = {}

-----------------------------------------------------------------------------
(* The process: boot, and the ways it ends.                                *)

(* m.Start(): setupDb, then `go m.schedule()`: from here on the scheduler
   runs, although main() has not called CleanupRunningApps yet. *)
Start ==
    /\ ~Up
    /\ phase' = "booting"
    /\ UNCHANGED <<db, nextId, schedVars, ctxBy, clientVars, history>>

(* Mutants of the cleanup: a constant of the wrong block, or a requeue. *)
CleanupTo(s) ==
    /\ phase = "booting"
    /\ phase' = "serving"
    /\ db' = [a \in App |-> IF db[a] = "running" THEN s ELSE db[a]]
    /\ UNCHANGED <<nextId, schedVars, ctxBy, clientVars, history>>

CleanupToIdle == CleanupTo("idle")
CleanupToPending == CleanupTo("pending")

CleanupRunningApps ==
    /\ phase = "booting"
    /\ phase' = "serving"
    /\ db' = [a \in App |-> IF db[a] = "running" THEN "cancel" ELSE db[a]]
    /\ UNCHANGED <<nextId, schedVars, ctxBy, clientVars, history>>

(* Everything but the database and the history is lost. *)
Die(how) ==
    /\ phase' = how
    /\ spc' = "idle" /\ cur' = NoApp /\ err' = FALSE
    /\ job' = NoApp /\ appNil' = FALSE /\ ctxBy' = NoApp
    /\ cpc' = [c \in Client |-> "idle"]
    /\ capp' = [c \in Client |-> NoApp]

(* SIGINT (finish, then os.Exit: a running scenario is not shut down), a kill,
   or printAndDie after a failed CleanupRunningApps. *)
Exit ==
    /\ Up
    /\ Die("down")
    /\ UNCHANGED <<db, nextId, history>>

-----------------------------------------------------------------------------
(* The scheduler goroutine: schedule() and run().                          *)

At(pc) == Up /\ spc = pc

(* Mutant: "no active job" is decided by looking for an active row. *)
NextApplicationIfNoActiveRow ==
    /\ At("idle")
    /\ \A b \in App : db[b] \notin {"provisioning", "running"}
    /\ \E a \in Pending :
          /\ \A b \in Pending : a <= b
          /\ cur' = a
    /\ spc' = "setLogs"
    /\ UNCHANGED <<phase, db, nextId, err, job, appNil, ctxBy, clientVars, history>>

(* The oldest pending application, by created_at. *)
NextApplication ==
    /\ At("idle")
    /\ \E a \in Pending :
          /\ \A b \in Pending : a <= b
          /\ cur' = a
    /\ spc' = "setLogs"
    /\ UNCHANGED <<phase, db, nextId, err, job, appNil, ctxBy, clientVars, history>>

(* Mutant: m.job is only assigned while it is nil. *)
SetLogsOnce ==
    /\ At("setLogs")
    /\ spc' = "provision"
    /\ job' = (IF job = NoApp THEN cur ELSE job) /\ appNil' = FALSE /\ ctxBy' = NoApp
    /\ UNCHANGED <<phase, db, nextId, cur, err, clientVars, history>>

(* The log files are opened and m.job is replaced; the context is a new one. *)
SetLogs ==
    /\ At("setLogs")
    /\ spc' = "provision"
    /\ job' = cur /\ appNil' = FALSE /\ ctxBy' = NoApp
    /\ UNCHANGED <<phase, db, nextId, cur, err, clientVars, history>>

SetLogsFails ==
    /\ At("setLogs")
    /\ IOFaults
    /\ spc' = "idle" /\ cur' = NoApp
    /\ UNCHANGED <<phase, db, nextId, err, job, appNil, ctxBy, clientVars, history>>

(* An update through ent with the job's context succeeds only while the
   context is live and the row exists. *)
CanSave == ~CtxDone /\ db[cur] # "absent"

(* j.setStatus(ctx, s) as a step of run().  It assigns the result of Save to
   j.app: after an error that is nil, and the deferred function of run()
   dereferences m.job.app in a goroutine nobody recovers. *)
SetStatus(s, pc) ==
    \/ /\ CanSave
       /\ db' = [db EXCEPT ![cur] = s]
       /\ spc' = pc
       /\ UNCHANGED <<phase, nextId, cur, err, job, appNil, ctxBy, clientVars, history>>
    \/ /\ ~CanSave \/ IOFaults
       /\ Die("panicked")
       /\ UNCHANGED <<db, nextId, history>>

(* Mutant: the compilation starts before provisioning is committed. *)
SetProvisioningSkipped ==
    /\ At("provision")
    /\ spc' = "compile"
    /\ UNCHANGED <<phase, db, nextId, cur, err, job, appNil, ctxBy, clientVars, history>>

SetProvisioning == At("provision") /\ SetStatus("provisioning", "compile")

(* Mutant: the error of the compilation is shadowed. *)
JobCompileShadowed ==
    /\ At("compile")
    /\ spc' \in {"setRunning", "finish"} /\ err' = FALSE
    /\ UNCHANGED <<phase, db, nextId, cur, job, appNil, ctxBy, clientVars, history>>

(* `go build` of the scenario; it does not look at the context. *)
JobCompile ==
    /\ At("compile")
    /\ \/ spc' = "setRunning" /\ err' = FALSE
       \/ spc' = "finish" /\ err' = TRUE
    /\ UNCHANGED <<phase, db, nextId, cur, job, appNil, ctxBy, clientVars, history>>

SetRunning == At("setRunning") /\ SetStatus("running", "startedAt")

(* The result of this Save is dropped, so an error leaves j.app alone. *)
SetStartedAt ==
    /\ At("startedAt")
    /\ \/ CanSave /\ spc' = "runJob" /\ err' = FALSE
       \/ (~CanSave \/ IOFaults) /\ spc' = "finish" /\ err' = TRUE
    /\ UNCHANGED <<phase, db, nextId, cur, job, appNil, ctxBy, clientVars, history>>

(* la.RunJob up to cmd.Start(), which refuses a context that is done. *)
RunJobStart ==
    /\ At("runJob")
    /\ \/ /\ ~CtxDone
          /\ spc' = "executing" /\ err' = FALSE
          /\ runs' = [runs EXCEPT ![cur] = @ + 1]
       \/ /\ CtxDone \/ IOFaults
          /\ spc' = "finish" /\ err' = TRUE
          /\ UNCHANGED runs
    /\ UNCHANGED <<phase, db, nextId, cur, job, appNil, ctxBy, clientVars, acked, unsaved>>

(* The rest of la.RunJob: it fails when the executor fails or is killed. *)
RunJobReturn ==
    /\ At("executing")
    /\ spc' = "finish"
    /\ err' \in BOOLEAN
    /\ UNCHANGED <<phase, db, nextId, cur, job, appNil, ctxBy, clientVars, history>>

Outcome == IF ~err THEN "finished" ELSE IF CtxDone THEN "cancel" ELSE "error"

(* Mutant: the final status is written with the context of the job. *)
FinishWithJobContext ==
    /\ At("finish")
    /\ spc' = "idle" /\ cur' = NoApp /\ err' = FALSE
    /\ \/ CanSave /\ db' = [db EXCEPT ![cur] = Outcome] /\ UNCHANGED appNil
       \/ ~CanSave /\ appNil' = TRUE /\ UNCHANGED db
    /\ UNCHANGED <<phase, nextId, job, ctxBy, clientVars, history>>

(* The deferred function of run(): the final status is written with a fresh
   context and an error of that write is ignored.  m.job is left in place. *)
Finish ==
    /\ At("finish")
    /\ spc' = "idle" /\ cur' = NoApp /\ err' = FALSE
    /\ \/ /\ db[cur] # "absent"
          /\ db' = [db EXCEPT ![cur] = Outcome]
          /\ UNCHANGED <<appNil, unsaved>>
       \/ /\ db[cur] = "absent" \/ IOFaults
          /\ appNil' = TRUE
          /\ unsaved' = unsaved \cup {cur}
          /\ UNCHANGED db
    /\ UNCHANGED <<phase, nextId, job, ctxBy, clientVars, runs, acked>>

Scheduler ==
    \/ NextApplication \/ SetLogs \/ SetLogsFails
    \/ SetProvisioning \/ JobCompile \/ SetRunning \/ SetStartedAt
    \/ RunJobStart \/ RunJobReturn \/ Finish

-----------------------------------------------------------------------------
(* The HTTP handlers (web/application.go) and the methods they call.       *)

InHandler(c, pc) == phase = "serving" /\ cpc[c] = pc

(* The handler goes on to its next step ... *)
Go(c, pc) ==
    /\ cpc' = [cpc EXCEPT ![c] = pc]
    /\ UNCHANGED capp

(* ... or sends its response and is done. *)
Reply(c) ==
    /\ cpc' = [cpc EXCEPT ![c] = "idle"]
    /\ capp' = [capp EXCEPT ![c] = NoApp]

NewApplication ==
    /\ phase = "serving"
    /\ nextId <= MaxApps
    /\ db' = [db EXCEPT ![nextId] = "pending"]
    /\ nextId' = nextId + 1
    /\ UNCHANGED <<phase, schedVars, ctxBy, clientVars, history>>

(* applicationCtx: 404 unless the row exists, then the handler is called. *)
Request(c, a, pc) ==
    /\ InHandler(c, "idle")
    /\ db[a] # "absent"
    /\ cpc' = [cpc EXCEPT ![c] = pc]
    /\ capp' = [capp EXCEPT ![c] = a]
    /\ UNCHANGED <<phase, db, nextId, schedVars, ctxBy, history>>

CancelRequest(c, a) == Request(c, a, "cancelCheck")
DeleteRequest(c, a) == Request(c, a, "deleteQuery")

(* m.cancel() reads m.job without a lock: first to compare the ids ... A nil
   m.job.app panics here too, but chi's Recoverer turns that into a 500. *)
CancelCheck(c) ==
    /\ InHandler(c, "cancelCheck")
    /\ \/ job # NoApp /\ ~appNil /\ job = capp[c] /\ Go(c, "cancelSignal")
       \/ (job = NoApp \/ (~appNil /\ job # capp[c])) /\ Go(c, "cancelQuery")
       \/ job # NoApp /\ appNil /\ Reply(c)
    /\ UNCHANGED <<phase, db, nextId, schedVars, ctxBy, history>>

(* ... and again to call cancel() on whatever job it finds then. *)
CancelSignal(c) ==
    /\ InHandler(c, "cancelSignal")
    /\ ctxBy' = IF CtxDone THEN ctxBy ELSE capp[c]
    /\ Go(c, "cancelRead")
    /\ UNCHANGED <<phase, db, nextId, schedVars, history>>

Acknowledge(c) == acked' = acked \cup {capp[c]} /\ Reply(c)

(* The job was signalled: the response is the row as it is now. *)
CancelRead(c) ==
    /\ InHandler(c, "cancelRead")
    /\ \/ db[capp[c]] # "absent" /\ Acknowledge(c)
       \/ db[capp[c]] = "absent" /\ Reply(c) /\ UNCHANGED acked
    /\ UNCHANGED <<phase, db, nextId, schedVars, ctxBy, runs, unsaved>>

(* The application is not the current job: look at its row ... *)
CancelQuery(c) ==
    /\ InHandler(c, "cancelQuery")
    /\ \/ /\ db[capp[c]] \in {"absent", "finished", "error"}
          /\ Reply(c)
          /\ UNCHANGED acked
       \/ /\ db[capp[c]] = "cancel"
          /\ Acknowledge(c)
       \/ /\ db[capp[c]] \in {"pending", "provisioning", "running"}
          /\ Go(c, "cancelWrite")
          /\ UNCHANGED acked
    /\ UNCHANGED <<phase, db, nextId, schedVars, ctxBy, runs, unsaved>>

(* ... and update it in a second transaction. *)
CancelWrite(c) ==
    /\ InHandler(c, "cancelWrite")
    /\ \/ /\ db[capp[c]] # "absent"
          /\ db' = [db EXCEPT ![capp[c]] = "cancel"]
          /\ Acknowledge(c)
       \/ /\ db[capp[c]] = "absent"
          /\ Reply(c)
          /\ UNCHANGED <<db, acked>>
    /\ UNCHANGED <<phase, nextId, schedVars, ctxBy, runs, unsaved>>

Deletable == {"pending", "cancel", "finished", "error"}

(* DeleteApplication checks the status in one transaction ... *)
DeleteQuery(c) ==
    /\ InHandler(c, "deleteQuery")
    /\ IF db[capp[c]] \in Deletable THEN Go(c, "deleteExec") ELSE Reply(c)
    /\ UNCHANGED <<phase, db, nextId, schedVars, ctxBy, history>>

(* ... and deletes the row in another. *)
DeleteExec(c) ==
    /\ InHandler(c, "deleteExec")
    /\ db' = [db EXCEPT ![capp[c]] = "absent"]
    /\ Reply(c)
    /\ UNCHANGED <<phase, nextId, schedVars, ctxBy, history>>

(* The transaction a handler is about to make fails: the client went away, the
   60 s request timeout passed, or the database returned an error. *)
RequestAborts(c) ==
    /\ \E pc \in RequestState \ {"idle", "cancelCheck", "cancelSignal"} : InHandler(c, pc)
    /\ Reply(c)
    /\ UNCHANGED <<phase, db, nextId, schedVars, ctxBy, history>>

Handler(c) ==
    \/ CancelCheck(c) \/ CancelSignal(c) \/ CancelRead(c)
    \/ CancelQuery(c) \/ CancelWrite(c)
    \/ DeleteQuery(c) \/ DeleteExec(c)

-----------------------------------------------------------------------------
Next ==
    \/ Start \/ CleanupRunningApps \/ Exit
    \/ Scheduler
    \/ NewApplication
    \/ \E c \in Client :
          \/ \E a \in App : CancelRequest(c, a) \/ DeleteRequest(c, a)
          \/ Handler(c)
          \/ RequestAborts(c)

Spec == Init /\ [][Next]_vars
-----------------------------------------------------------------------------
(* Fairness: a goroutine that can take a step eventually does, main() goes on
   to CleanupRunningApps and `go build` ends.  RunJob returning is an assumption
   on the users (scenarios are finite) and on the agent, which module Agent
   examines.  No client has to send a request and nobody has to restart the
   master. *)
Fairness ==
    /\ WF_vars(CleanupRunningApps)
    /\ WF_vars(NextApplication) /\ WF_vars(SetLogs) /\ WF_vars(SetProvisioning)
    /\ WF_vars(JobCompile) /\ WF_vars(SetRunning) /\ WF_vars(SetStartedAt)
    /\ WF_vars(RunJobStart) /\ WF_vars(RunJobReturn) /\ WF_vars(Finish)
    /\ \A c \in Client : WF_vars(Handler(c))

FairSpec == Spec /\ Fairness

-----------------------------------------------------------------------------
(* Properties *)

(* Type invariant: the values each column, field and control state takes. *)
TypeOK ==
    /\ phase \in {"down", "panicked", "booting", "serving"}
    /\ db \in [App -> Row]
    /\ nextId \in 1 .. (MaxApps + 1)
    /\ spc \in SchedulerState
    /\ cur \in App \cup {NoApp}
    /\ err \in BOOLEAN
    /\ job \in App \cup {NoApp}
    /\ appNil \in BOOLEAN
    /\ ctxBy \in App \cup {NoApp}
    /\ cpc \in [Client -> RequestState]
    /\ capp \in [Client -> App \cup {NoApp}]
    /\ runs \in [App -> Nat]
    /\ acked \subseteq App
    /\ unsaved \subseteq App

(* The scenario of an application is started at most once, whatever the crashes
   and restarts of the master, the late writes of the handlers and the failures
   of the database: run() commits provisioning before it compiles, and
   nextApplication only picks rows that are still pending. *)
AtMostOnce == \A a \in App : runs[a] <= 1

(* The states of run() between the commit of running and the final write. *)
Active == {"startedAt", "runJob", "executing", "finish"}

(* Once the master serves, a row says running only while run() is working on
   that application: the rows of an earlier process were closed by
   CleanupRunningApps, and the deferred function of run() writes the outcome on
   every path, also after a cancel (with a context of its own).  The one
   exception is an outcome whose write failed and was ignored. *)
RunningIsLive ==
    phase = "serving" =>
        \A a \in App : db[a] = "running" => a \in unsaved \/ (spc \in Active /\ cur = a)

(* The states of run() in which m.job is the job of the scheduler. *)
Working == {"provision", "compile", "setRunning"} \cup Active

(* A cancel of the application of m.job only signals the job and writes no row,
   and m.job is never reset.  So it must not name an application that still waits,
   whose cancel would be acknowledged and have no effect: m.job is the job run()
   works on, with its row at hand (a nil m.job.app would end the master), or an
   application that is over, or one whose outcome could not be written. *)
JobIsCurrent ==
    /\ spc \in Working => job = cur /\ ~appNil
    /\ spc \notin Working /\ job # NoApp =>
          job \in unsaved \/ db[job] \in {"finished", "cancel", "error", "absent"}

(* An application is reported finished only if its scenario was started. *)
FinishedWasRun == \A a \in App : db[a] = "finished" => runs[a] > 0

(* The statuses the row of the scheduler's application can have at each point
   of run(), once the late writes of the handlers are taken into account. *)
RowOfCur ==
    /\ spc \in {"setLogs", "provision"} => db[cur] \in {"pending", "cancel", "absent"}
    /\ spc \in {"compile", "setRunning"} => db[cur] \in {"provisioning", "cancel", "absent"}
    /\ spc \in {"startedAt", "runJob", "executing"} => db[cur] \in {"running", "cancel", "absent"}
    /\ spc = "finish" => db[cur] \in {"provisioning", "running", "cancel", "absent"}

(* The inductive invariant behind the safety properties: a row that is still
   pending was never executed, the scheduler executes its application only
   after taking it out of pending, and no id is reused. *)
ScheduleInv ==
    /\ ~Up => spc = "idle"
    /\ \A a \in App : a >= nextId => db[a] = "absent" /\ runs[a] = 0
    /\ \A a \in App : db[a] = "pending" => runs[a] = 0
    /\ \A c \in Client : cpc[c] # "idle" => capp[c] \in App
    /\ spc = "idle" => cur = NoApp
    /\ spc # "idle" => cur \in App /\ cur < nextId
    /\ RowOfCur
    /\ spc \in {"setLogs", "provision", "compile", "setRunning", "startedAt", "runJob"} =>
          runs[cur] = 0
    /\ spc = "executing" => runs[cur] = 1
    /\ spc = "finish" /\ ~err => runs[cur] = 1

(* The table evolves by the moves of AppLifecycle only, of which three are more
   than the comments of the code promise (see there). *)
Lifecycle == INSTANCE AppLifecycle
                WITH status <- db,
                     allocated <- 1 .. (nextId - 1),
                     executed <- {x \in App : runs[x] > 0},
                     working <- cur

ImplementsLifecycle == Lifecycle!Spec

(* Every submitted application leaves the queue (it is provisioned, cancelled
   or deleted), if the master stays up from some time on. *)
PendingIsServed ==
    <>[](phase = "serving") => \A a \in App : db[a] = "pending" ~> db[a] # "pending"

-----------------------------------------------------------------------------
(* What the comments of the code say and the code does not do.             *)

(* master.go, CancelApplication: "terminates an application".  After a
   successful response the scenario is not started any more. *)
CancelledIsNotStarted ==
    [][\A a \in acked : runs'[a] = runs[a]]_vars

(* master.go, DeleteApplication: "DeleteApplication a pending/finished/canceled/
   error application".  The row of an active application is not deleted. *)
DeletesOnlyInactive ==
    [][\A a \in App : db[a] \in {"provisioning", "running"} => db'[a] # "absent"]_vars

(* master.go, cancel: "terminates a running job with the same app ID". *)
CancelsTheSameApp ==
    spc \in {"provision", "compile", "setRunning"} \cup Active => ctxBy \in {NoApp, cur}

(* master.go, CancelApplication: "if the app is running, send cancel signal";
   the signal ends the job, it does not end the master. *)
NoPanic == phase # "panicked"
=============================================================================
