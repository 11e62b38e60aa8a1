---------------------------- MODULE MasterProofs ----------------------------
(***************************************************************************)
(* Proofs about Master, for every number of applications and of concurrent *)
(* requests, with and without I/O faults.                                  *)
(***************************************************************************)
EXTENDS Master, TLAPS

(* Every step keeps the variables within their types. *)
LEMMA TypeStep == TypeOK /\ ScheduleInv /\ [Next]_vars => TypeOK'
<1> SUFFICES ASSUME TypeOK, ScheduleInv, [Next]_vars
             PROVE  TypeOK'
    OBVIOUS
<1> USE MasterAssumption DEF TypeOK, App, NoApp, Status, Row, SchedulerState, RequestState,
                             schedVars, clientVars, history
<1>1. CASE Start
    BY <1>1 DEF Start
<1>2. CASE CleanupRunningApps
    BY <1>2 DEF CleanupRunningApps
<1>3. CASE Exit
    BY <1>3 DEF Exit, Die
<1>4. CASE Scheduler
    <2>1. CASE NextApplication
        BY <2>1 DEF NextApplication, Pending
    <2>2. CASE SetLogs
        BY <2>2 DEF SetLogs
    <2>3. CASE SetLogsFails
        BY <2>3 DEF SetLogsFails
    <2>4. CASE SetProvisioning
        BY <2>4 DEF SetProvisioning, SetStatus, Die
    <2>5. CASE JobCompile
        BY <2>5 DEF JobCompile
    <2>6. CASE SetRunning
        BY <2>6 DEF SetRunning, SetStatus, Die
    <2>7. CASE SetStartedAt
        BY <2>7 DEF SetStartedAt
    <2>8. CASE RunJobStart
        <3>1. cur \in App
            BY <2>8 DEF RunJobStart, At, ScheduleInv
        <3>2. runs' \in [App -> Nat]
            BY <2>8, <3>1 DEF RunJobStart
        <3> QED
            BY <2>8, <3>2 DEF RunJobStart
    <2>9. CASE RunJobReturn
        BY <2>9 DEF RunJobReturn
    <2>10. CASE Finish
        BY <2>10 DEF Finish, Outcome, At, ScheduleInv
    <2> QED
        BY <1>4, <2>1, <2>2, <2>3, <2>4, <2>5, <2>6, <2>7, <2>8, <2>9, <2>10 DEF Scheduler
<1>5. CASE NewApplication
    <2>1. nextId' \in 1 .. (MaxApps + 1)
        BY <1>5 DEF NewApplication
    <2>2. db' \in [App -> Row]
        BY <1>5 DEF NewApplication
    <2> QED
        BY <1>5, <2>1, <2>2 DEF NewApplication
<1>6. ASSUME NEW c \in Client, NEW a \in App, CancelRequest(c, a) \/ DeleteRequest(c, a)
      PROVE  TypeOK'
    <2>1. cpc' \in [Client -> RequestState] /\ capp' \in [Client -> App \cup {NoApp}]
        BY <1>6 DEF CancelRequest, DeleteRequest, Request
    <2>2. UNCHANGED <<phase, db, nextId, schedVars, ctxBy, history>>
        BY <1>6 DEF CancelRequest, DeleteRequest, Request
    <2> QED
        BY <2>1, <2>2
<1>7. ASSUME NEW c \in Client, Handler(c)
      PROVE  TypeOK'
    <2>r. ASSUME Reply(c) \/ \E pc \in RequestState : Go(c, pc)
          PROVE  cpc' \in [Client -> RequestState] /\ capp' \in [Client -> App \cup {NoApp}]
        BY <2>r DEF Go, Reply
    <2>1. CASE CancelCheck(c)
        <3>1. Reply(c) \/ \E pc \in RequestState : Go(c, pc)
            BY <2>1 DEF CancelCheck
        <3> QED
            BY <2>1, <2>r, <3>1 DEF CancelCheck
    <2>2. CASE CancelSignal(c)
        BY <2>2 DEF CancelSignal, Go
    <2>3. CASE CancelRead(c)
        <3>1. capp[c] \in App
            BY <2>3 DEF CancelRead, InHandler, ScheduleInv
        <3>2. Reply(c) \/ \E pc \in RequestState : Go(c, pc)
            BY <2>3 DEF CancelRead, Acknowledge
        <3>3. acked' \subseteq App
            <4>1. acked' = acked \/ acked' = acked \cup {capp[c]}
                BY <2>3 DEF CancelRead, Acknowledge
            <4>2. acked \subseteq App
                OBVIOUS
            <4> HIDE DEF TypeOK, App
            <4> QED
                BY <3>1, <4>1, <4>2
        <3> QED
            BY <2>3, <2>r, <3>2, <3>3 DEF CancelRead
    <2>4. CASE CancelQuery(c)
        <3>1. capp[c] \in App
            BY <2>4 DEF CancelQuery, InHandler, ScheduleInv
        <3>2. Reply(c) \/ \E pc \in RequestState : Go(c, pc)
            BY <2>4 DEF CancelQuery, Acknowledge
        <3>3. acked' \subseteq App
            <4>1. acked' = acked \/ acked' = acked \cup {capp[c]}
                BY <2>4 DEF CancelQuery, Acknowledge
            <4>2. acked \subseteq App
                OBVIOUS
            <4> HIDE DEF TypeOK, App
            <4> QED
                BY <3>1, <4>1, <4>2
        <3> QED
            BY <2>4, <2>r, <3>2, <3>3 DEF CancelQuery
    <2>5. CASE CancelWrite(c)
        <3>1. capp[c] \in App
            BY <2>5 DEF CancelWrite, InHandler, ScheduleInv
        <3>2. Reply(c) \/ \E pc \in RequestState : Go(c, pc)
            BY <2>5 DEF CancelWrite, Acknowledge
        <3>3. acked' \subseteq App
            <4>1. acked' = acked \/ acked' = acked \cup {capp[c]}
                BY <2>5 DEF CancelWrite, Acknowledge
            <4>2. acked \subseteq App
                OBVIOUS
            <4> HIDE DEF TypeOK, App
            <4> QED
                BY <3>1, <4>1, <4>2
        <3>4. db' \in [App -> Row]
            BY <2>5, <3>1 DEF CancelWrite
        <3> QED
            <4>1. UNCHANGED <<phase, nextId, schedVars, ctxBy, runs, unsaved>>
                BY <2>5 DEF CancelWrite
            <4> QED
                BY <2>r, <3>2, <3>3, <3>4, <4>1
    <2>6. CASE DeleteQuery(c)
        <3>1. Reply(c) \/ \E pc \in RequestState : Go(c, pc)
            BY <2>6 DEF DeleteQuery
        <3> QED
            BY <2>6, <2>r, <3>1 DEF DeleteQuery
    <2>7. CASE DeleteExec(c)
        <3>1. db' \in [App -> Row]
            BY <2>7 DEF DeleteExec
        <3>2. Reply(c) /\ UNCHANGED <<phase, nextId, schedVars, ctxBy, history>>
            BY <2>7 DEF DeleteExec
        <3> QED
            BY <2>r, <3>1, <3>2
    <2> QED
        BY <1>7, <2>1, <2>2, <2>3, <2>4, <2>5, <2>6, <2>7 DEF Handler
<1>8. ASSUME NEW c \in Client, RequestAborts(c)
      PROVE  TypeOK'
    BY <1>8 DEF RequestAborts, Reply
<1>9. CASE UNCHANGED vars
    BY <1>9 DEF vars
<1> QED
    BY <1>1, <1>2, <1>3, <1>4, <1>5, <1>6, <1>7, <1>8, <1>9 DEF Next
(* Every step preserves the inductive invariant. *)
LEMMA ScheduleStep == TypeOK /\ ScheduleInv /\ [Next]_vars => ScheduleInv'
<1> SUFFICES ASSUME TypeOK, ScheduleInv, [Next]_vars
             PROVE  ScheduleInv'
    OBVIOUS
<1> USE MasterAssumption DEF TypeOK, ScheduleInv, RowOfCur, Up, App, NoApp, Status, Row,
                             SchedulerState, schedVars, clientVars, history
<1>1. CASE Start
    BY <1>1 DEF Start
<1>2. CASE CleanupRunningApps
    BY <1>2 DEF CleanupRunningApps
<1>3. CASE Exit
    BY <1>3 DEF Exit, Die
<1>4. CASE Scheduler
    <2> USE DEF At
    <2>1. CASE NextApplication
        BY <2>1 DEF NextApplication, Pending
    <2>2. CASE SetLogs
        BY <2>2 DEF SetLogs
    <2>3. CASE SetLogsFails
        BY <2>3 DEF SetLogsFails
    <2>4. CASE SetProvisioning
        <3>1. CASE Die("panicked") /\ UNCHANGED <<db, nextId, history>>
            BY <3>1 DEF Die
        <3>2. CASE /\ db[cur] # "absent"
                   /\ db' = [db EXCEPT ![cur] = "provisioning"]
                   /\ spc' = "compile"
                   /\ UNCHANGED <<phase, nextId, cur, err, job, appNil, ctxBy, clientVars, history>>
            BY <2>4, <3>2 DEF SetProvisioning
        <3> QED
            BY <2>4, <3>1, <3>2 DEF SetProvisioning, SetStatus, CanSave
    <2>5. CASE JobCompile
        BY <2>5 DEF JobCompile
    <2>6. CASE SetRunning
        <3>1. CASE Die("panicked") /\ UNCHANGED <<db, nextId, history>>
            BY <3>1 DEF Die
        <3>2. CASE /\ db[cur] # "absent"
                   /\ db' = [db EXCEPT ![cur] = "running"]
                   /\ spc' = "startedAt"
                   /\ UNCHANGED <<phase, nextId, cur, err, job, appNil, ctxBy, clientVars, history>>
            BY <2>6, <3>2 DEF SetRunning
        <3> QED
            BY <2>6, <3>1, <3>2 DEF SetRunning, SetStatus, CanSave
    <2>7. CASE SetStartedAt
        BY <2>7 DEF SetStartedAt
    <2>8. CASE RunJobStart
        BY <2>8 DEF RunJobStart
    <2>9. CASE RunJobReturn
        BY <2>9 DEF RunJobReturn
    <2>10. CASE Finish
        BY <2>10 DEF Finish, Outcome
    <2> QED
        BY <1>4, <2>1, <2>2, <2>3, <2>4, <2>5, <2>6, <2>7, <2>8, <2>9, <2>10 DEF Scheduler
<1>5. CASE NewApplication
    BY <1>5 DEF NewApplication
<1>6. ASSUME NEW c \in Client, NEW a \in App, CancelRequest(c, a) \/ DeleteRequest(c, a)
      PROVE  ScheduleInv'
    <2>1. UNCHANGED <<phase, db, nextId, schedVars, history>>
        BY <1>6 DEF CancelRequest, DeleteRequest, Request
    <2>2. \A d \in Client : cpc'[d] # "idle" => capp'[d] \in App
        <3>1. \E pc \in RequestState :
                 cpc' = [cpc EXCEPT ![c] = pc] /\ capp' = [capp EXCEPT ![c] = a]
            BY <1>6 DEF CancelRequest, DeleteRequest, Request, RequestState
        <3> QED
            BY <3>1
    <2> QED
        BY <2>1, <2>2
<1>7. ASSUME NEW c \in Client, Handler(c)
      PROVE  ScheduleInv'
    <2> USE DEF InHandler, Go, Reply
    <2>1. CASE CancelCheck(c)
        BY <2>1 DEF CancelCheck
    <2>2. CASE CancelSignal(c)
        BY <2>2 DEF CancelSignal
    <2>3. CASE CancelRead(c)
        BY <2>3 DEF CancelRead, Acknowledge
    <2>4. CASE CancelQuery(c)
        BY <2>4 DEF CancelQuery, Acknowledge
    <2>5. CASE CancelWrite(c)
        BY <2>5 DEF CancelWrite, Acknowledge
    <2>6. CASE DeleteQuery(c)
        BY <2>6 DEF DeleteQuery
    <2>7. CASE DeleteExec(c)
        BY <2>7 DEF DeleteExec
    <2> QED
        BY <1>7, <2>1, <2>2, <2>3, <2>4, <2>5, <2>6, <2>7 DEF Handler
<1>8. ASSUME NEW c \in Client, RequestAborts(c)
      PROVE  ScheduleInv'
    BY <1>8 DEF RequestAborts, Reply
<1>9. CASE UNCHANGED vars
    BY <1>9 DEF vars
<1> QED
    BY <1>1, <1>2, <1>3, <1>4, <1>5, <1>6, <1>7, <1>8, <1>9 DEF Next
(* Only RunJobStart counts, and it finds a count of zero. *)
LEMMA AtMostOnceStep == TypeOK /\ ScheduleInv /\ AtMostOnce /\ [Next]_vars => AtMostOnce'
<1> SUFFICES ASSUME TypeOK, ScheduleInv, AtMostOnce, [Next]_vars
             PROVE  AtMostOnce'
    OBVIOUS
<1> USE MasterAssumption DEF TypeOK, ScheduleInv, AtMostOnce, Up, App, NoApp,
                             schedVars, clientVars, history
<1>1. CASE Start
    BY <1>1 DEF Start
<1>2. CASE CleanupRunningApps
    BY <1>2 DEF CleanupRunningApps
<1>3. CASE Exit
    BY <1>3 DEF Exit, Die
<1>4. CASE Scheduler
    <2> USE DEF At
    <2>1. CASE NextApplication \/ SetLogs \/ SetLogsFails
        BY <2>1 DEF NextApplication, SetLogs, SetLogsFails
    <2>2. CASE SetProvisioning \/ SetRunning
        BY <2>2 DEF SetProvisioning, SetRunning, SetStatus, Die, CanSave
    <2>3. CASE JobCompile \/ SetStartedAt \/ RunJobReturn
        BY <2>3 DEF JobCompile, SetStartedAt, RunJobReturn
    <2>4. CASE RunJobStart
        BY <2>4 DEF RunJobStart
    <2>5. CASE Finish
        BY <2>5 DEF Finish, Outcome
    <2> QED
        BY <1>4, <2>1, <2>2, <2>3, <2>4, <2>5 DEF Scheduler
<1>5. CASE NewApplication
    BY <1>5 DEF NewApplication
<1>6. ASSUME NEW c \in Client, NEW a \in App, CancelRequest(c, a) \/ DeleteRequest(c, a)
      PROVE  AtMostOnce'
    BY <1>6 DEF CancelRequest, DeleteRequest, Request
<1>7. ASSUME NEW c \in Client, Handler(c)
      PROVE  AtMostOnce'
    <2> USE DEF InHandler
    <2>1. CASE CancelCheck(c) \/ CancelSignal(c) \/ CancelRead(c) \/ CancelQuery(c) \/ DeleteQuery(c)
        BY <2>1 DEF CancelCheck, CancelSignal, CancelRead, CancelQuery, DeleteQuery
    <2>2. CASE CancelWrite(c)
        BY <2>2 DEF CancelWrite
    <2>3. CASE DeleteExec(c)
        BY <2>3 DEF DeleteExec
    <2> QED
        BY <1>7, <2>1, <2>2, <2>3 DEF Handler
<1>8. ASSUME NEW c \in Client, RequestAborts(c)
      PROVE  AtMostOnce'
    BY <1>8 DEF RequestAborts
<1>9. CASE UNCHANGED vars
    BY <1>9 DEF vars
<1> QED
    BY <1>1, <1>2, <1>3, <1>4, <1>5, <1>6, <1>7, <1>8, <1>9 DEF Next

(* The outcome finished is only written by Finish without an error. *)
LEMMA FinishedWasRunStep == TypeOK /\ ScheduleInv /\ FinishedWasRun /\ [Next]_vars => FinishedWasRun'
<1> SUFFICES ASSUME TypeOK, ScheduleInv, FinishedWasRun, [Next]_vars
             PROVE  FinishedWasRun'
    OBVIOUS
<1> USE MasterAssumption DEF TypeOK, ScheduleInv, FinishedWasRun, Up, App, NoApp,
                             schedVars, clientVars, history
<1>1. CASE Start
    BY <1>1 DEF Start
<1>2. CASE CleanupRunningApps
    BY <1>2 DEF CleanupRunningApps
<1>3. CASE Exit
    BY <1>3 DEF Exit, Die
<1>4. CASE Scheduler
    <2> USE DEF At
    <2>1. CASE NextApplication \/ SetLogs \/ SetLogsFails
        BY <2>1 DEF NextApplication, SetLogs, SetLogsFails
    <2>2. CASE SetProvisioning \/ SetRunning
        BY <2>2 DEF SetProvisioning, SetRunning, SetStatus, Die, CanSave
    <2>3. CASE JobCompile \/ SetStartedAt \/ RunJobReturn
        BY <2>3 DEF JobCompile, SetStartedAt, RunJobReturn
    <2>4. CASE RunJobStart
        BY <2>4 DEF RunJobStart
    <2>5. CASE Finish
        BY <2>5 DEF Finish, Outcome
    <2> QED
        BY <1>4, <2>1, <2>2, <2>3, <2>4, <2>5 DEF Scheduler
<1>5. CASE NewApplication
    BY <1>5 DEF NewApplication
<1>6. ASSUME NEW c \in Client, NEW a \in App, CancelRequest(c, a) \/ DeleteRequest(c, a)
      PROVE  FinishedWasRun'
    BY <1>6 DEF CancelRequest, DeleteRequest, Request
<1>7. ASSUME NEW c \in Client, Handler(c)
      PROVE  FinishedWasRun'
    <2> USE DEF InHandler
    <2>1. CASE CancelCheck(c) \/ CancelSignal(c) \/ CancelRead(c) \/ CancelQuery(c) \/ DeleteQuery(c)
        BY <2>1 DEF CancelCheck, CancelSignal, CancelRead, CancelQuery, DeleteQuery
    <2>2. CASE CancelWrite(c)
        BY <2>2 DEF CancelWrite
    <2>3. CASE DeleteExec(c)
        BY <2>3 DEF DeleteExec
    <2> QED
        BY <1>7, <2>1, <2>2, <2>3 DEF Handler
<1>8. ASSUME NEW c \in Client, RequestAborts(c)
      PROVE  FinishedWasRun'
    BY <1>8 DEF RequestAborts
<1>9. CASE UNCHANGED vars
    BY <1>9 DEF vars
<1> QED
    BY <1>1, <1>2, <1>3, <1>4, <1>5, <1>6, <1>7, <1>8, <1>9 DEF Next

(* A row becomes running in SetRunning and stops being running in Finish. *)
LEMMA RunningIsLiveStep == TypeOK /\ ScheduleInv /\ RunningIsLive /\ [Next]_vars => RunningIsLive'
<1> SUFFICES ASSUME TypeOK, ScheduleInv, RunningIsLive, [Next]_vars
             PROVE  RunningIsLive'
    OBVIOUS
<1> USE MasterAssumption DEF TypeOK, ScheduleInv, RunningIsLive, Active, RowOfCur, Up, App, NoApp,
                             schedVars, clientVars, history
<1>1. CASE Start
    BY <1>1 DEF Start
<1>2. CASE CleanupRunningApps
    BY <1>2 DEF CleanupRunningApps
<1>3. CASE Exit
    BY <1>3 DEF Exit, Die
<1>4. CASE Scheduler
    <2> USE DEF At
    <2>1. CASE NextApplication \/ SetLogs \/ SetLogsFails
        BY <2>1 DEF NextApplication, SetLogs, SetLogsFails
    <2>2. CASE SetProvisioning \/ SetRunning
        BY <2>2 DEF SetProvisioning, SetRunning, SetStatus, Die, CanSave
    <2>3. CASE JobCompile \/ SetStartedAt \/ RunJobReturn
        BY <2>3 DEF JobCompile, SetStartedAt, RunJobReturn
    <2>4. CASE RunJobStart
        BY <2>4 DEF RunJobStart
    <2>5. CASE Finish
        BY <2>5 DEF Finish, Outcome
    <2> QED
        BY <1>4, <2>1, <2>2, <2>3, <2>4, <2>5 DEF Scheduler
<1>5. CASE NewApplication
    BY <1>5 DEF NewApplication
<1>6. ASSUME NEW c \in Client, NEW a \in App, CancelRequest(c, a) \/ DeleteRequest(c, a)
      PROVE  RunningIsLive'
    BY <1>6 DEF CancelRequest, DeleteRequest, Request
<1>7. ASSUME NEW c \in Client, Handler(c)
      PROVE  RunningIsLive'
    <2> USE DEF InHandler
    <2>1. CASE CancelCheck(c) \/ CancelSignal(c) \/ CancelRead(c) \/ CancelQuery(c) \/ DeleteQuery(c)
        BY <2>1 DEF CancelCheck, CancelSignal, CancelRead, CancelQuery, DeleteQuery
    <2>2. CASE CancelWrite(c)
        BY <2>2 DEF CancelWrite
    <2>3. CASE DeleteExec(c)
        BY <2>3 DEF DeleteExec
    <2> QED
        BY <1>7, <2>1, <2>2, <2>3 DEF Handler
<1>8. ASSUME NEW c \in Client, RequestAborts(c)
      PROVE  RunningIsLive'
    BY <1>8 DEF RequestAborts
<1>9. CASE UNCHANGED vars
    BY <1>9 DEF vars
<1> QED
    BY <1>1, <1>2, <1>3, <1>4, <1>5, <1>6, <1>7, <1>8, <1>9 DEF Next

(* The inductive strengthening of JobIsCurrent: the application of m.job has been
   created, so that no new application can be taken for it. *)
JobInv == JobIsCurrent /\ (job # NoApp => job < nextId)

(* m.job is assigned by SetLogs only, and Finish, which leaves it in place, writes
   the outcome of its application or records that it could not. *)
LEMMA JobStep == TypeOK /\ ScheduleInv /\ JobInv /\ [Next]_vars => JobInv'
<1> SUFFICES ASSUME TypeOK, ScheduleInv, JobInv, [Next]_vars
             PROVE  JobInv'
    OBVIOUS
<1> USE MasterAssumption DEF TypeOK, JobInv, JobIsCurrent, Working, Active, App, NoApp,
                             schedVars, clientVars, history
<1> DEFINE Over == {"finished", "cancel", "error", "absent"}
<1>k. ASSUME UNCHANGED <<nextId, schedVars, unsaved>>,
             \A a \in App : db'[a] = db[a] \/ db'[a] \in Over
      PROVE  JobInv'
    BY <1>k
<1>d. ASSUME NEW how, Die(how)
      PROVE  JobInv'
    BY <1>d DEF Die
<1>w. ASSUME spc \in Working, spc' \in Working,
             UNCHANGED <<nextId, cur, job, appNil, unsaved>>
      PROVE  JobInv'
    BY <1>w
<1>1. CASE Start
    BY <1>1, <1>k DEF Start
<1>2. CASE CleanupRunningApps
    <2>1. \A a \in App : db'[a] = db[a] \/ db'[a] \in Over
        BY <1>2 DEF CleanupRunningApps
    <2> QED
        BY <1>2, <1>k, <2>1 DEF CleanupRunningApps
<1>3. CASE Exit
    BY <1>3, <1>d DEF Exit
<1>4. CASE Scheduler
    <2> USE DEF At
    <2>1. CASE NextApplication
        BY <2>1 DEF NextApplication
    <2>2. CASE SetLogs
        BY <2>2 DEF SetLogs, ScheduleInv
    <2>3. CASE SetLogsFails
        BY <2>3 DEF SetLogsFails
    <2>4. CASE SetProvisioning
        BY <2>4, <1>d, <1>w DEF SetProvisioning, SetStatus
    <2>5. CASE JobCompile
        BY <2>5, <1>w DEF JobCompile
    <2>6. CASE SetRunning
        BY <2>6, <1>d, <1>w DEF SetRunning, SetStatus
    <2>7. CASE SetStartedAt
        BY <2>7, <1>w DEF SetStartedAt
    <2>8. CASE RunJobStart
        BY <2>8, <1>w DEF RunJobStart
    <2>9. CASE RunJobReturn
        BY <2>9, <1>w DEF RunJobReturn
    <2>10. CASE Finish
        <3>1. /\ cur \in App /\ job = cur
              /\ spc' = "idle" /\ UNCHANGED <<nextId, job>>
            BY <2>10 DEF Finish, ScheduleInv
        <3>2. job \in unsaved' \/ db'[job] \in Over
            <4>1. CASE db' = [db EXCEPT ![cur] = Outcome]
                BY <3>1, <4>1 DEF Outcome
            <4>2. CASE unsaved' = unsaved \cup {cur}
                BY <3>1, <4>2
            <4> QED
                BY <2>10, <4>1, <4>2 DEF Finish
        <3> QED
            BY <3>1, <3>2
    <2> QED
        BY <1>4, <2>1, <2>2, <2>3, <2>4, <2>5, <2>6, <2>7, <2>8, <2>9, <2>10 DEF Scheduler
<1>5. CASE NewApplication
    <2>1. /\ db' = [db EXCEPT ![nextId] = "pending"] /\ nextId' = nextId + 1
          /\ UNCHANGED <<schedVars, unsaved>>
        BY <1>5 DEF NewApplication
    <2>2. job # NoApp => db'[job] = db[job] /\ job < nextId'
        BY <2>1
    <2> QED
        BY <2>1, <2>2
<1>6. ASSUME NEW c \in Client, NEW a \in App, CancelRequest(c, a) \/ DeleteRequest(c, a)
      PROVE  JobInv'
    BY <1>6, <1>k DEF CancelRequest, DeleteRequest, Request
<1>7. ASSUME NEW c \in Client, Handler(c)
      PROVE  JobInv'
    <2>1. CASE CancelCheck(c) \/ CancelSignal(c) \/ CancelRead(c) \/ CancelQuery(c) \/ DeleteQuery(c)
        BY <2>1, <1>k DEF CancelCheck, CancelSignal, CancelRead, CancelQuery, DeleteQuery
    <2>2. CASE CancelWrite(c)
        BY <2>2, <1>k DEF CancelWrite
    <2>3. CASE DeleteExec(c)
        BY <2>3, <1>k DEF DeleteExec
    <2> QED
        BY <1>7, <2>1, <2>2, <2>3 DEF Handler
<1>8. ASSUME NEW c \in Client, RequestAborts(c)
      PROVE  JobInv'
    BY <1>8, <1>k DEF RequestAborts
<1>9. CASE UNCHANGED vars
    BY <1>9, <1>k DEF vars
<1> QED
    BY <1>1, <1>2, <1>3, <1>4, <1>5, <1>6, <1>7, <1>8, <1>9 DEF Next

(* The initial state satisfies all of them. *)
LEMMA MasterInit ==
    Init => TypeOK /\ ScheduleInv /\ AtMostOnce /\ FinishedWasRun /\ RunningIsLive
<1> SUFFICES ASSUME Init
             PROVE  TypeOK /\ ScheduleInv /\ AtMostOnce /\ FinishedWasRun /\ RunningIsLive
    OBVIOUS
<1> USE MasterAssumption DEF Init, App, NoApp
<1>1. TypeOK
    <2>1. runs \in [App -> Nat] /\ db \in [App -> Row] /\ nextId \in 1 .. (MaxApps + 1)
        BY DEF Row
    <2>2. cpc \in [Client -> RequestState] /\ capp \in [Client -> App \cup {NoApp}]
        BY DEF RequestState
    <2> QED
        BY <2>1, <2>2 DEF TypeOK, SchedulerState
<1>2. ScheduleInv
    BY DEF ScheduleInv, RowOfCur, Up
<1>3. AtMostOnce /\ FinishedWasRun /\ RunningIsLive
    BY DEF AtMostOnce, FinishedWasRun, RunningIsLive
<1> QED
    BY <1>1, <1>2, <1>3

(* The type invariant, and the invariant of the scheduler that TLC checks on the
   small instance, hold in every reachable state. *)
THEOREM MasterInvariant == Spec => [](TypeOK /\ ScheduleInv)
<1>1. Init => TypeOK /\ ScheduleInv
    BY MasterInit
<1>2. TypeOK /\ ScheduleInv /\ [Next]_vars => (TypeOK /\ ScheduleInv)'
    BY TypeStep, ScheduleStep
<1> QED
    BY <1>1, <1>2, PTL DEF Spec

(* The variables stay within their types. *)
THEOREM MasterTypes == Spec => []TypeOK
<1>1. TypeOK /\ ScheduleInv => TypeOK
    OBVIOUS
<1> QED
    BY <1>1, MasterInvariant, PTL

(* No application's scenario is started twice, across any number of crashes and
   restarts of the master. *)
THEOREM ExecutedAtMostOnce == Spec => []AtMostOnce
<1>1. Init => AtMostOnce
    BY MasterInit
<1>2. TypeOK /\ ScheduleInv /\ AtMostOnce /\ [Next]_vars => AtMostOnce'
    BY AtMostOnceStep
<1> QED
    BY <1>1, <1>2, MasterInvariant, PTL DEF Spec

(* An application shown as finished was executed. *)
THEOREM FinishedWasExecuted == Spec => []FinishedWasRun
<1>1. Init => FinishedWasRun
    BY MasterInit
<1>2. TypeOK /\ ScheduleInv /\ FinishedWasRun /\ [Next]_vars => FinishedWasRun'
    BY FinishedWasRunStep
<1> QED
    BY <1>1, <1>2, MasterInvariant, PTL DEF Spec

(* A serving master shows an application as running only while its scheduler
   works on it, or if the write of the outcome failed. *)
THEOREM RunningRowsAreLive == Spec => []RunningIsLive
<1>1. Init => RunningIsLive
    BY MasterInit
<1>2. TypeOK /\ ScheduleInv /\ RunningIsLive /\ [Next]_vars => RunningIsLive'
    BY RunningIsLiveStep
<1> QED
    BY <1>1, <1>2, MasterInvariant, PTL DEF Spec

(* The job a cancel request finds in m.job is the one run() works on, or its
   application is over: never one that still waits in the queue. *)
THEOREM JobIsCurrentOrOver == Spec => []JobIsCurrent
<1>1. Init => JobInv
    BY DEF Init, JobInv, JobIsCurrent, Working, Active
<1>2. TypeOK /\ ScheduleInv /\ JobInv /\ [Next]_vars => JobInv'
    BY JobStep
<1>3. JobInv => JobIsCurrent
    BY DEF JobInv
<1> QED
    BY <1>1, <1>2, <1>3, MasterInvariant, PTL DEF Spec

(* The ids handed out and the applications executed so far: what the
   refinement maps allocated and executed to. *)
Allocated == 1 .. (nextId - 1)
Executed == {x \in App : runs[x] > 0}

(* Every step of the master is a step of the abstract lifecycle, or changes
   nothing it can see. *)
LEMMA LifecycleStep ==
    TypeOK /\ ScheduleInv /\ [Next]_vars => [Lifecycle!Next]_(Lifecycle!vars)
<1> SUFFICES ASSUME TypeOK, ScheduleInv, [Next]_vars
             PROVE  Lifecycle!Next \/ UNCHANGED <<db, Allocated, Executed, cur>>
    BY DEF Lifecycle!vars, Allocated, Executed
<1> USE MasterAssumption DEF TypeOK, ScheduleInv, App, NoApp, Status, Row,
                             schedVars, clientVars, history, Allocated, Executed
<1>d. ASSUME cur' = NoApp, UNCHANGED <<db, nextId, runs>>
      PROVE  Lifecycle!Next \/ UNCHANGED <<db, Allocated, Executed, cur>>
    <2>1. cur # NoApp => Lifecycle!Abandon
        BY <1>d DEF Lifecycle!Abandon
    <2> QED
        BY <1>d, <2>1 DEF Lifecycle!Next
<1>1. CASE Start
    BY <1>1 DEF Start
<1>2. CASE CleanupRunningApps
    <2>1. Lifecycle!Interrupt
        BY <1>2 DEF CleanupRunningApps, Lifecycle!Interrupt
    <2> QED
        BY <2>1 DEF Lifecycle!Next
<1>3. CASE Exit
    BY <1>3, <1>d DEF Exit, Die
<1>4. CASE Scheduler
    <2> USE DEF At
    <2>1. CASE SetLogs \/ JobCompile \/ SetStartedAt \/ RunJobReturn
        BY <2>1 DEF SetLogs, JobCompile, SetStartedAt, RunJobReturn
    <2>n. CASE NextApplication
        <3>1. PICK a \in App : db[a] = "pending" /\ cur' = a
            BY <2>n DEF NextApplication, Pending
        <3>2. Lifecycle!Take(a)
            BY <2>n, <3>1 DEF NextApplication, Lifecycle!Take
        <3> QED
            BY <3>2 DEF Lifecycle!Next
    <2>f. CASE SetLogsFails
        BY <2>f, <1>d DEF SetLogsFails
    <2>2. CASE SetProvisioning
        <3>1. CASE Die("panicked") /\ UNCHANGED <<db, nextId, history>>
            BY <3>1, <1>d DEF Die
        <3>2. CASE CanSave /\ db' = [db EXCEPT ![cur] = "provisioning"]
                   /\ UNCHANGED <<nextId, cur, history>>
            <4>1. cur \in App /\ Lifecycle!Provision(cur)
                BY <2>2, <3>2 DEF SetProvisioning, CanSave, RowOfCur,
                                  Lifecycle!Provision, Lifecycle!Write
            <4> QED
                BY <4>1 DEF Lifecycle!Next
        <3> QED
            BY <2>2, <3>1, <3>2 DEF SetProvisioning, SetStatus
    <2>3. CASE SetRunning
        <3>1. CASE Die("panicked") /\ UNCHANGED <<db, nextId, history>>
            BY <3>1, <1>d DEF Die
        <3>2. CASE CanSave /\ db' = [db EXCEPT ![cur] = "running"]
                   /\ UNCHANGED <<nextId, cur, history>>
            <4>1. cur \in App /\ Lifecycle!Activate(cur)
                BY <2>3, <3>2 DEF SetRunning, CanSave, RowOfCur,
                                  Lifecycle!Activate, Lifecycle!Write
            <4> QED
                BY <4>1 DEF Lifecycle!Next
        <3> QED
            BY <2>3, <3>1, <3>2 DEF SetRunning, SetStatus
    <2>4. CASE RunJobStart
        <3>1. CASE runs' = runs
            BY <2>4, <3>1 DEF RunJobStart
        <3>2. CASE runs' # runs
            <4>1. PICK e \in App : e = cur
                BY <2>4 DEF RunJobStart
            <4>2. runs[e] = 0 /\ db[e] \in {"running", "cancel", "absent"}
                BY <2>4, <4>1 DEF RunJobStart, RowOfCur
            <4>3. runs' = [runs EXCEPT ![e] = @ + 1] /\ UNCHANGED <<db, nextId, cur>>
                BY <2>4, <3>2, <4>1 DEF RunJobStart
            <4>4. Executed' = Executed \cup {e} /\ e \notin Executed
                BY <4>2, <4>3
            <4>5. Lifecycle!Execute(e)
                BY <4>1, <4>2, <4>3, <4>4 DEF Lifecycle!Execute
            <4> QED
                BY <4>5 DEF Lifecycle!Next
        <3> QED
            BY <3>1, <3>2
    <2>5. CASE Finish
        <3>1. CASE UNCHANGED db
            BY <2>5, <3>1, <1>d DEF Finish
        <3>2. CASE db[cur] # "absent" /\ db' = [db EXCEPT ![cur] = Outcome]
            <4>1. cur \in App /\ db[cur] \in {"provisioning", "running", "cancel"}
                BY <2>5, <3>2 DEF Finish, RowOfCur
            <4>2. Outcome = "finished" => runs[cur] = 1
                BY <2>5 DEF Finish, Outcome
            <4>3. cur' = NoApp /\ UNCHANGED <<nextId, runs>>
                BY <2>5 DEF Finish
            <4>4. Lifecycle!Settle(cur, Outcome)
                BY <3>2, <4>1, <4>2, <4>3 DEF Lifecycle!Settle, Lifecycle!Write
            <4>5. Outcome \in {"finished", "error", "cancel"}
                BY DEF Outcome
            <4> QED
                BY <4>1, <4>4, <4>5 DEF Lifecycle!Next
        <3> QED
            BY <2>5, <3>1, <3>2 DEF Finish
    <2> QED
        BY <1>4, <2>1, <2>n, <2>f, <2>2, <2>3, <2>4, <2>5 DEF Scheduler
<1>5. CASE NewApplication
    <2>1. nextId \in App /\ Lifecycle!Submit(nextId)
        BY <1>5 DEF NewApplication, Lifecycle!Submit
    <2> QED
        BY <2>1 DEF Lifecycle!Next
<1>6. ASSUME NEW c \in Client, NEW a \in App, CancelRequest(c, a) \/ DeleteRequest(c, a)
      PROVE  UNCHANGED <<db, Allocated, Executed, cur>>
    BY <1>6 DEF CancelRequest, DeleteRequest, Request
<1>7. ASSUME NEW c \in Client, Handler(c)
      PROVE  Lifecycle!Next \/ UNCHANGED <<db, Allocated, Executed, cur>>
    <2> USE DEF InHandler
    <2>1. CASE CancelCheck(c) \/ CancelSignal(c) \/ CancelRead(c) \/ CancelQuery(c) \/ DeleteQuery(c)
        BY <2>1 DEF CancelCheck, CancelSignal, CancelRead, CancelQuery, DeleteQuery
    <2>2. CASE CancelWrite(c)
        <3>1. CASE db' = db
            BY <2>2, <3>1 DEF CancelWrite
        <3>2. CASE db' # db
            <4>1. /\ capp[c] \in App
                  /\ Lifecycle!Cancel(capp[c]) \/ Lifecycle!LateCancel(capp[c])
                BY <2>2, <3>2 DEF CancelWrite, Lifecycle!Cancel, Lifecycle!LateCancel, Lifecycle!Write
            <4> QED
                BY <4>1 DEF Lifecycle!Next
        <3> QED
            BY <3>1, <3>2
    <2>3. CASE DeleteExec(c)
        <3>1. CASE db' = db
            BY <2>3, <3>1 DEF DeleteExec
        <3>2. CASE db' # db
            <4>1. /\ capp[c] \in App
                  /\ Lifecycle!Remove(capp[c]) \/ Lifecycle!LateRemove(capp[c])
                BY <2>3, <3>2 DEF DeleteExec, Lifecycle!Remove, Lifecycle!LateRemove, Lifecycle!Write
            <4> QED
                BY <4>1 DEF Lifecycle!Next
        <3> QED
            BY <3>1, <3>2
    <2> QED
        BY <1>7, <2>1, <2>2, <2>3 DEF Handler
<1>8. ASSUME NEW c \in Client, RequestAborts(c)
      PROVE  UNCHANGED <<db, Allocated, Executed, cur>>
    BY <1>8 DEF RequestAborts
<1>9. CASE UNCHANGED vars
    BY <1>9 DEF vars
<1> QED
    BY <1>1, <1>2, <1>3, <1>4, <1>5, <1>6, <1>7, <1>8, <1>9 DEF Next

(* The master, with its races, faults and restarts, implements the abstract
   lifecycle of the application table. *)
THEOREM MasterImplementsLifecycle == Spec => ImplementsLifecycle
<1>1. Init => Lifecycle!Init
    BY MasterAssumption DEF Init, App, Lifecycle!Init
<1>2. TypeOK /\ ScheduleInv /\ [Next]_vars => [Lifecycle!Next]_(Lifecycle!vars)
    BY LifecycleStep
<1> QED
    BY <1>1, <1>2, MasterInvariant, PTL DEF Spec, ImplementsLifecycle, Lifecycle!Spec
=============================================================================
