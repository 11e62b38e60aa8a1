----------------------------- MODULE AgentProofs -----------------------------
(***************************************************************************)
(* Proofs about module Agent, for any number of jobs and of virtual users, *)
(* with every death of an executor or of the master.                       *)
(***************************************************************************)
EXTENDS Agent, TLAPS

USE DEF Job, NoJob

(* What RunJob knows of its job at each point. *)
PcInv ==
    /\ pc # "idle" => cur \in Job /\ cur <= count /\ result[cur] = "none"
    /\ pc = "start" => proc[cur] = "none"
    /\ pc \in {"terminate", "wait"} => scen[cur] = "over"

(* A job that has not been handed out has left no trace. *)
FreshInv == \A j \in Job : j > count => proc[j] = "none" /\ result[j] = "none"

(* What the wait group counts, and how far the process is with it. *)
UsersOf(j) ==
    /\ scen[j] = "active" => wg[j] = left[j] + active[j]
    /\ scen[j] # "active" => left[j] = 0 /\ active[j] = 0
    /\ proc[j] \in {"none", "boot", "serving"} => scen[j] = "none"
    /\ proc[j] = "done" => scen[j] = "over"

UsersInv == \A j \in Job : UsersOf(j)

(* The inductive invariant. *)
AgentInv == TypeOK /\ PcInv /\ FreshInv /\ UsersInv /\ OkMeansOver

LEMMA InitAgentInv == Init => AgentInv
<1> SUFFICES ASSUME Init PROVE AgentInv
  OBVIOUS
<1>1. TypeOK
  BY AgentAssumption DEF Init, TypeOK, ProcState
<1>2. PcInv /\ FreshInv /\ UsersInv /\ OkMeansOver
  BY AgentAssumption DEF Init, PcInv, FreshInv, UsersInv, UsersOf, OkMeansOver
<1> QED
  BY <1>1, <1>2 DEF AgentInv

LEMMA NextAgentInv == AgentInv /\ [Next]_vars => AgentInv'
<1> SUFFICES ASSUME AgentInv, [Next]_vars PROVE AgentInv'
  OBVIOUS
<1> USE AgentAssumption DEF AgentInv, TypeOK, ProcState, Alive, Return, users
<1>1. CASE RunJobCall
  <2>1. TypeOK' /\ count + 1 \in Job
    BY <1>1 DEF RunJobCall
  <2>2. PcInv' /\ FreshInv'
    BY <1>1, <2>1 DEF RunJobCall, PcInv, FreshInv
  <2>3. UsersInv' /\ OkMeansOver'
    BY <1>1 DEF RunJobCall, UsersInv, UsersOf, OkMeansOver
  <2> QED
    BY <2>1, <2>2, <2>3
<1>2. CASE CmdStart
  <2>1. TypeOK'
    <3>1. UNCHANGED <<up, count, base, cur, ctxDone, users>>
      BY <1>2 DEF CmdStart
    <3>2. pc' \in {"idle", "poll"}
      BY <1>2 DEF CmdStart
    <3>3. proc' \in [Job -> ProcState] /\ killer' \in [Job -> BOOLEAN]
      BY <1>2 DEF CmdStart
    <3>4. result' \in [Job -> {"none", "ok", "err"}]
      BY <1>2 DEF CmdStart
    <3> QED
      BY <3>1, <3>2, <3>3, <3>4
  <2>2. PcInv' /\ FreshInv'
    <3>1. /\ cur \in Job /\ cur <= count /\ result[cur] = "none"
          /\ UNCHANGED <<cur, count, scen>> /\ pc' \in {"idle", "poll"}
      BY <1>2 DEF CmdStart, PcInv
    <3>2. pc' = "poll" => result' = result
      BY <1>2 DEF CmdStart
    <3>3. \A j \in Job : j # cur => proc'[j] = proc[j] /\ result'[j] = result[j]
      BY <1>2 DEF CmdStart
    <3>4. PcInv'
      BY <3>1, <3>2 DEF PcInv
    <3>5. FreshInv'
      <4> SUFFICES ASSUME NEW j \in Job, j > count
                   PROVE  proc'[j] = "none" /\ result'[j] = "none"
        BY <3>1 DEF FreshInv
      <4>1. j # cur
        BY <3>1
      <4> QED
        BY <3>3, <4>1 DEF FreshInv
    <3> QED
      BY <3>4, <3>5
  <2>3. UsersInv'
    <3>1. proc' = proc \/ proc' = [proc EXCEPT ![cur] = "boot"]
      BY <1>2 DEF CmdStart
    <3>2. proc[cur] = "none" /\ cur \in Job /\ UNCHANGED users
      BY <1>2 DEF CmdStart, PcInv
    <3> QED
      BY <3>1, <3>2 DEF UsersInv, UsersOf
  <2>4. OkMeansOver'
    BY <1>2 DEF CmdStart, PcInv, OkMeansOver
  <2> QED
    BY <2>1, <2>2, <2>3, <2>4
<1>3. CASE Poll
  <2>1. TypeOK'
    BY <1>3 DEF Poll, PcInv
  <2>2. PcInv' /\ FreshInv'
    <3>1. /\ cur \in Job /\ cur <= count /\ result[cur] = "none"
          /\ UNCHANGED <<cur, count, scen, proc>> /\ pc' \in {"idle", "dial"}
      BY <1>3 DEF Poll, PcInv
    <3>2. pc' = "dial" => result' = result
      BY <1>3 DEF Poll
    <3>3. \A j \in Job : j # cur => result'[j] = result[j]
      BY <1>3 DEF Poll
    <3>4. PcInv'
      BY <3>1, <3>2 DEF PcInv
    <3>5. FreshInv'
      <4> SUFFICES ASSUME NEW j \in Job, j > count
                   PROVE  proc'[j] = "none" /\ result'[j] = "none"
        BY <3>1 DEF FreshInv
      <4>1. j # cur
        BY <3>1
      <4> QED
        BY <3>1, <3>3, <4>1 DEF FreshInv
    <3> QED
      BY <3>4, <3>5
  <2>3. UsersInv' /\ OkMeansOver'
    BY <1>3 DEF Poll, PcInv, UsersInv, UsersOf, OkMeansOver
  <2> QED
    BY <2>1, <2>2, <2>3
<1>4. CASE Dial
  BY <1>4 DEF Dial, PcInv, FreshInv, UsersInv, UsersOf, OkMeansOver
<1>5. CASE StartRpcFails
  <2>1. TypeOK'
    BY <1>5 DEF StartRpcFails, PcInv
  <2>2. PcInv' /\ FreshInv'
    BY <1>5 DEF StartRpcFails, PcInv, FreshInv
  <2>3. UsersInv' /\ OkMeansOver'
    BY <1>5 DEF StartRpcFails, PcInv, UsersInv, UsersOf, OkMeansOver
  <2> QED
    BY <2>1, <2>2, <2>3
<1>6. CASE StartRpcReturns
  BY <1>6 DEF StartRpcReturns, PcInv, FreshInv, UsersInv, UsersOf, OkMeansOver
<1>7. CASE Terminate
  <2>1. TypeOK'
    BY <1>7 DEF Terminate, PcInv
  <2>2. PcInv' /\ FreshInv'
    BY <1>7 DEF Terminate, PcInv, FreshInv
  <2>3. UsersInv' /\ OkMeansOver'
    <3>1. /\ cur \in Job /\ scen[cur] = "over" /\ result[cur] = "none"
          /\ UNCHANGED <<users, result>>
      BY <1>7 DEF Terminate, PcInv
    <3>2. proc' = proc \/ proc' = [proc EXCEPT ![cur] = "exited"]
      BY <1>7 DEF Terminate
    <3>3. UsersInv'
      BY <3>1, <3>2 DEF UsersInv, UsersOf
    <3>4. OkMeansOver'
      BY <3>1, <3>2 DEF OkMeansOver
    <3> QED
      BY <3>3, <3>4
  <2> QED
    BY <2>1, <2>2, <2>3
<1>8. CASE Wait
  <2>1. TypeOK'
    <3>1. UNCHANGED <<up, count, base, cur, ctxDone, proc, users>> /\ pc' = "idle"
      BY <1>8 DEF Wait
    <3>2. killer' \in [Job -> BOOLEAN]
      BY <1>8 DEF Wait
    <3>3. result' \in [Job -> {"none", "ok", "err"}]
      BY <1>8 DEF Wait
    <3> QED
      BY <3>1, <3>2, <3>3
  <2>2. PcInv' /\ FreshInv'
    BY <1>8 DEF Wait, PcInv, FreshInv
  <2>3. UsersInv'
    BY <1>8 DEF Wait, UsersInv, UsersOf
  <2>4. OkMeansOver'
    BY <1>8 DEF Wait, PcInv, UsersInv, UsersOf, OkMeansOver
  <2> QED
    BY <2>1, <2>2, <2>3, <2>4
<1>9. CASE Cancel
  BY <1>9 DEF Cancel, PcInv, FreshInv, UsersInv, UsersOf, OkMeansOver
<1>10. CASE MasterDies
  <2>1. killer' \in [Job -> BOOLEAN] /\ base' \in 0 .. count'
    BY <1>10 DEF MasterDies
  <2>2. TypeOK'
    BY <1>10, <2>1 DEF MasterDies
  <2>3. PcInv' /\ FreshInv'
    BY <1>10 DEF MasterDies, PcInv, FreshInv
  <2>4. UsersInv' /\ OkMeansOver'
    BY <1>10 DEF MasterDies, UsersInv, UsersOf, OkMeansOver
  <2> QED
    BY <2>2, <2>3, <2>4
<1>11. CASE MasterRestarts
  BY <1>11 DEF MasterRestarts, PcInv, FreshInv, UsersInv, UsersOf, OkMeansOver
<1>12. CASE StartHandler
  <2> DEFINE Launches ==
        /\ proc' = [proc EXCEPT ![cur] = "running"]
        /\ scen' = [scen EXCEPT ![cur] = "active"]
        /\ left' = [left EXCEPT ![cur] = NVus]
        /\ wg' = [wg EXCEPT ![cur] = NVus]
        /\ UNCHANGED <<pc, active, result>>
  <2> DEFINE SetupFails == Return("err") /\ UNCHANGED <<proc, users>>
  <2>1. pc = "startRpc" /\ proc[cur] = "serving" /\ cur \in Job
    BY <1>12 DEF StartHandler, PcInv
  <2>2. UNCHANGED <<up, count, base, cur, ctxDone, killer>> /\ (Launches \/ SetupFails)
    BY <1>12 DEF StartHandler
  <2>3. NVus \in 0 .. NVus
    OBVIOUS
  <2>4. CASE Launches
    <3>1. TypeOK'
      BY <2>1, <2>2, <2>3, <2>4
    <3>2. PcInv' /\ FreshInv'
      BY <2>1, <2>2, <2>4 DEF PcInv, FreshInv
    <3>3. UsersInv'
      <4> SUFFICES ASSUME NEW j \in Job PROVE UsersOf(j)'
        BY DEF UsersInv
      <4>1. UsersOf(j) /\ active[j] \in 0 .. NVus
        BY DEF UsersInv
      <4>2. CASE j = cur
        BY <2>1, <2>4, <4>1, <4>2 DEF UsersOf
      <4>3. CASE j # cur
        BY <2>1, <2>4, <4>1, <4>3 DEF UsersOf
      <4> QED
        BY <4>2, <4>3
    <3>4. OkMeansOver'
      BY <2>1, <2>2, <2>4 DEF PcInv, OkMeansOver
    <3> QED
      BY <3>1, <3>2, <3>3, <3>4
  <2>5. CASE SetupFails
    <3>1. TypeOK'
      BY <2>1, <2>2, <2>5
    <3>2. PcInv' /\ FreshInv'
      BY <2>1, <2>2, <2>5 DEF PcInv, FreshInv
    <3>3. UsersInv' /\ OkMeansOver'
      BY <2>1, <2>2, <2>5 DEF UsersInv, UsersOf, OkMeansOver
    <3> QED
      BY <3>1, <3>2, <3>3
  <2> QED
    BY <2>2, <2>4, <2>5
<1>13. ASSUME NEW j \in Job, Launch(j) PROVE AgentInv'
  <2>1. scen[j] = "active" /\ wg[j] = left[j] + active[j]
    BY <1>13 DEF Launch, UsersInv, UsersOf
  <2>2. /\ left[j] - 1 \in 0 .. NVus /\ active[j] + 1 \in 0 .. NVus
        /\ left' = [left EXCEPT ![j] = left[j] - 1]
        /\ active' = [active EXCEPT ![j] = active[j] + 1]
        /\ UNCHANGED <<up, count, base, cur, pc, ctxDone, killer, proc, scen, wg, result>>
    <3>1. /\ left[j] \in 0 .. NVus /\ active[j] \in 0 .. NVus /\ wg[j] \in 0 .. NVus
          /\ NVus \in Nat
      BY <1>13
    <3>2. left[j] > 0
      BY <1>13 DEF Launch
    <3>3. left[j] - 1 \in 0 .. NVus /\ active[j] + 1 \in 0 .. NVus
      <4> HIDE DEF AgentInv
      <4> QED
        BY <2>1, <3>1, <3>2
    <3> QED
      BY <1>13, <3>3 DEF Launch
  <2>5. TypeOK'
    <3>1. left' \in [Job -> 0 .. NVus]
      BY <2>2
    <3>2. active' \in [Job -> 0 .. NVus]
      BY <2>2
    <3> QED
      BY <2>2, <3>1, <3>2
  <2>3. PcInv' /\ FreshInv'
    BY <1>13 DEF Launch, PcInv, FreshInv
  <2>4. UsersInv' /\ OkMeansOver'
    <3> SUFFICES ASSUME NEW k \in Job
                 PROVE  UsersOf(k)' /\ (result'[k] = "ok" => scen'[k] = "over"
                          /\ proc'[k] = "exited" /\ left'[k] = 0 /\ active'[k] = 0)
      BY DEF UsersInv, OkMeansOver
    <3>1. /\ UsersOf(k) /\ left[k] \in 0 .. NVus /\ active[k] \in 0 .. NVus
          /\ result[k] = "ok" => scen[k] = "over" /\ proc[k] = "exited"
                                   /\ left[k] = 0 /\ active[k] = 0
      BY DEF UsersInv, OkMeansOver
    <3>2. CASE k = j
      BY <1>13, <2>1, <2>2, <3>1, <3>2 DEF UsersOf
    <3>3. CASE k # j
      BY <1>13, <2>2, <3>1, <3>3 DEF UsersOf
    <3> QED
      BY <3>2, <3>3
  <2> QED
    BY <2>5, <2>3, <2>4
<1>14. ASSUME NEW j \in Job, VuReturns(j) PROVE AgentInv'
  <2>1. scen[j] = "active" /\ wg[j] = left[j] + active[j]
    BY <1>14 DEF VuReturns, UsersInv, UsersOf
  <2>2. /\ active[j] - 1 \in 0 .. NVus /\ wg[j] - 1 \in 0 .. NVus
        /\ active' = [active EXCEPT ![j] = active[j] - 1]
        /\ wg' = [wg EXCEPT ![j] = wg[j] - 1]
        /\ UNCHANGED <<up, count, base, cur, pc, ctxDone, killer, proc, scen, left, result>>
    BY <1>14 DEF VuReturns
  <2>5. TypeOK'
    <3>1. active' \in [Job -> 0 .. NVus]
      BY <2>2
    <3>2. wg' \in [Job -> 0 .. NVus]
      BY <2>2
    <3> QED
      BY <2>2, <3>1, <3>2
  <2>3. PcInv' /\ FreshInv'
    BY <1>14 DEF VuReturns, PcInv, FreshInv
  <2>4. UsersInv' /\ OkMeansOver'
    <3> SUFFICES ASSUME NEW k \in Job
                 PROVE  UsersOf(k)' /\ (result'[k] = "ok" => scen'[k] = "over"
                          /\ proc'[k] = "exited" /\ left'[k] = 0 /\ active'[k] = 0)
      BY DEF UsersInv, OkMeansOver
    <3>1. /\ UsersOf(k) /\ left[k] \in 0 .. NVus /\ active[k] \in 0 .. NVus /\ wg[k] \in 0 .. NVus
          /\ result[k] = "ok" => scen[k] = "over" /\ proc[k] = "exited"
                                   /\ left[k] = 0 /\ active[k] = 0
      BY DEF UsersInv, OkMeansOver
    <3>2. CASE k = j
      BY <2>1, <2>2, <3>1, <3>2 DEF UsersOf
    <3>3. CASE k # j
      BY <2>2, <3>1, <3>3 DEF UsersOf
    <3> QED
      BY <3>2, <3>3
  <2> QED
    BY <2>5, <2>3, <2>4
<1>15. ASSUME NEW j \in Job, ScenarioEnds(j) PROVE AgentInv'
  <2>1. left[j] = 0 /\ active[j] = 0
    BY <1>15 DEF ScenarioEnds, UsersInv, UsersOf
  <2>2. TypeOK' /\ PcInv' /\ FreshInv'
    BY <1>15 DEF ScenarioEnds, PcInv, FreshInv
  <2>3. UsersInv' /\ OkMeansOver'
    BY <1>15, <2>1 DEF ScenarioEnds, UsersInv, UsersOf, OkMeansOver
  <2> QED
    BY <2>2, <2>3
<1>16. ASSUME NEW j \in Job, Kill(j) PROVE AgentInv'
  <2>1. TypeOK'
    BY <1>16 DEF Kill
  <2>2. PcInv' /\ FreshInv'
    BY <1>16 DEF Kill, PcInv, FreshInv
  <2>3. UsersInv' /\ OkMeansOver'
    BY <1>16 DEF Kill, UsersInv, UsersOf, OkMeansOver
  <2> QED
    BY <2>1, <2>2, <2>3
<1>17. ASSUME NEW j \in Job, NEW p \in ProcState, proc[j] \in Alive,
              proc' = [proc EXCEPT ![j] = p],
              UNCHANGED <<up, count, base, cur, pc, ctxDone, killer, users, result>>,
              p \notin {"none", "boot", "exited"},
              p = "serving" => proc[j] = "boot",
              p = "done" => scen[j] = "over"
       PROVE  AgentInv'
  <2>1. TypeOK'
    BY <1>17
  <2>2. PcInv' /\ FreshInv'
    BY <1>17 DEF PcInv, FreshInv
  <2>3. UsersInv'
    BY <1>17 DEF UsersInv, UsersOf
  <2>4. OkMeansOver'
    BY <1>17 DEF OkMeansOver
  <2> QED
    BY <2>1, <2>2, <2>3, <2>4
<1>19. ASSUME NEW j \in Job, Serve(j) PROVE AgentInv'
  BY <1>17, <1>19 DEF Serve
<1>20. ASSUME NEW j \in Job, RunFinished(j) PROVE AgentInv'
  BY <1>17, <1>20 DEF RunFinished
<1>21. ASSUME NEW j \in Job, RunCancelled(j) PROVE AgentInv'
  BY <1>17, <1>21 DEF RunCancelled
<1>22. ASSUME NEW j \in Job, ExecutorDies(j) PROVE AgentInv'
  BY <1>17, <1>22 DEF ExecutorDies
<1>18. CASE UNCHANGED vars
  BY <1>18 DEF vars, PcInv, FreshInv, UsersInv, UsersOf, OkMeansOver
<1> QED
  BY <1>1, <1>2, <1>3, <1>4, <1>5, <1>6, <1>7, <1>8, <1>9, <1>10, <1>11, <1>12, <1>13,
     <1>14, <1>15, <1>16, <1>18, <1>19, <1>20, <1>21, <1>22 DEF Next, RunJob

(* The types of Agent's variables, and with them what RunJob knows of its job and
   the wait group of its users, hold in every state. *)
THEOREM AgentTypes == Spec => []TypeOK
<1>1. AgentInv => TypeOK
  BY DEF AgentInv
<1> QED
  BY <1>1, InitAgentInv, NextAgentInv, PTL DEF Spec

(* RunJob (agent.go) returns nil only if every virtual user that runScen
   (executor.go) was to launch has returned and the process has exited. *)
THEOREM OkMeansAllReturned == Spec => []OkMeansOver
<1>1. AgentInv => OkMeansOver
  BY DEF AgentInv
<1> QED
  BY <1>1, InitAgentInv, NextAgentInv, PTL DEF Spec

(* Wait and Kill stop the goroutine of CommandContext only for a process that has
   ended, and the jobs of a master that dies become those of an earlier one. *)
LEMMA NextLivingIsWatched == AgentInv /\ LivingIsWatched /\ [Next]_vars => LivingIsWatched'
<1> SUFFICES ASSUME AgentInv, LivingIsWatched, [Next]_vars PROVE LivingIsWatched'
  OBVIOUS
<1> USE AgentAssumption DEF AgentInv, TypeOK, ProcState, Alive, Return, users, LivingIsWatched
<1>k. ASSUME UNCHANGED <<base, killer>>,
             \A k \in Job : proc'[k] \in Alive => proc[k] \in Alive
      PROVE  LivingIsWatched'
  BY <1>k
<1>1. CASE RunJobCall
  BY <1>1, <1>k DEF RunJobCall
<1>2. CASE CmdStart
  <2>1. base' = base /\ cur \in Job
    BY <1>2 DEF CmdStart, PcInv
  <2>2. \A k \in Job : k # cur => proc'[k] = proc[k] /\ killer'[k] = killer[k]
    BY <1>2 DEF CmdStart
  <2>3. proc'[cur] \in Alive => killer'[cur]
    BY <1>2, <2>1 DEF CmdStart, PcInv
  <2> QED
    BY <2>1, <2>2, <2>3
<1>3. CASE Poll \/ Dial \/ StartRpcFails \/ StartRpcReturns \/ Cancel \/ MasterRestarts
  BY <1>3, <1>k DEF Poll, Dial, StartRpcFails, StartRpcReturns, Cancel, MasterRestarts
<1>4. CASE Terminate
  BY <1>4, <1>k DEF Terminate
<1>5. CASE Wait
  <2>1. /\ proc[cur] \notin Alive /\ UNCHANGED <<base, proc>>
        /\ killer' = [killer EXCEPT ![cur] = FALSE]
    BY <1>5 DEF Wait
  <2> QED
    BY <2>1
<1>6. CASE MasterDies
  <2>1. base' = count /\ proc' = proc
    BY <1>6 DEF MasterDies
  <2>2. \A k \in Job : k > count => proc[k] = "none"
    BY DEF FreshInv
  <2> QED
    BY <2>1, <2>2
<1>7. CASE StartHandler
  <2>1. UNCHANGED <<base, killer>> /\ proc[cur] = "serving"
    BY <1>7 DEF StartHandler
  <2>2. proc' = proc \/ proc' = [proc EXCEPT ![cur] = "running"]
    BY <1>7 DEF StartHandler
  <2> QED
    BY <1>k, <2>1, <2>2
<1>8. ASSUME NEW j \in Job, Launch(j) \/ VuReturns(j) \/ ScenarioEnds(j)
      PROVE  LivingIsWatched'
  BY <1>8, <1>k DEF Launch, VuReturns, ScenarioEnds
<1>9. ASSUME NEW j \in Job, Kill(j) PROVE LivingIsWatched'
  <2>1. base' = base /\ proc'[j] \notin Alive
    BY <1>9 DEF Kill
  <2>2. \A k \in Job : k # j => proc'[k] = proc[k] /\ killer'[k] = killer[k]
    BY <1>9 DEF Kill
  <2> QED
    BY <2>1, <2>2
<1>10. ASSUME NEW j \in Job, Serve(j) \/ RunFinished(j) \/ RunCancelled(j) \/ ExecutorDies(j)
       PROVE  LivingIsWatched'
  <2>1. UNCHANGED <<base, killer>> /\ proc[j] \in Alive
    BY <1>10 DEF Serve, RunFinished, RunCancelled, ExecutorDies
  <2>2. \A k \in Job : k # j => proc'[k] = proc[k]
    BY <1>10 DEF Serve, RunFinished, RunCancelled, ExecutorDies
  <2> QED
    BY <1>k, <2>1, <2>2
<1>11. CASE UNCHANGED vars
  BY <1>11, <1>k DEF vars
<1> QED
  BY <1>1, <1>2, <1>3, <1>4, <1>5, <1>6, <1>7, <1>8, <1>9, <1>10, <1>11 DEF Next, RunJob

(* Every living executor that this master process started is watched by the
   goroutine that kills it on a cancel, also after RunJob (agent.go) returned an
   error without terminating it. *)
THEOREM LivingExecutorsAreWatched == Spec => []LivingIsWatched
<1>1. Init => LivingIsWatched
  BY DEF Init, LivingIsWatched, Alive
<1>2. Spec => []AgentInv
  BY InitAgentInv, NextAgentInv, PTL DEF Spec
<1> QED
  BY <1>1, <1>2, NextLivingIsWatched, PTL DEF Spec

-----------------------------------------------------------------------------
(* Agent implements RunJobSpec *)

(* The executor of the current job ends or gives up only because of a cancel or
   a fault. *)
FailInv ==
    cur \in Job /\ proc[cur] \in {"killed", "cancelled"} => ctxDone[cur] \/ ExecFaults

LEMMA NextFailInv == AgentInv /\ FailInv /\ [Next]_vars => FailInv'
<1> SUFFICES ASSUME AgentInv, FailInv, [Next]_vars PROVE FailInv'
  OBVIOUS
<1> USE AgentAssumption DEF AgentInv, TypeOK, ProcState, Alive, users, FailInv
<1>1. CASE RunJobCall
  <2>1. count + 1 \in Job /\ cur' = count + 1 /\ proc' = proc
    BY <1>1 DEF RunJobCall
  <2>2. proc[count + 1] = "none"
    BY <2>1 DEF FreshInv
  <2> QED
    BY <2>1, <2>2
<1>2. CASE CmdStart
  BY <1>2 DEF CmdStart, PcInv
<1>3. CASE Poll \/ Dial \/ StartRpcFails \/ StartRpcReturns \/ Wait \/ MasterRestarts
  BY <1>3 DEF Poll, Dial, StartRpcFails, StartRpcReturns, Wait, MasterRestarts
<1>4. CASE Terminate
  BY <1>4 DEF Terminate, PcInv
<1>5. CASE Cancel
  BY <1>5 DEF Cancel
<1>6. CASE MasterDies
  BY <1>6 DEF MasterDies
<1>7. CASE StartHandler
  BY <1>7 DEF StartHandler, PcInv
<1>8. ASSUME NEW j \in Job, Launch(j) \/ VuReturns(j) \/ ScenarioEnds(j) PROVE FailInv'
  BY <1>8 DEF Launch, VuReturns, ScenarioEnds
<1>9. ASSUME NEW j \in Job, Kill(j) PROVE FailInv'
  BY <1>9 DEF Kill
<1>10. ASSUME NEW j \in Job, Serve(j) \/ RunFinished(j) \/ RunCancelled(j) \/ ExecutorDies(j)
       PROVE  FailInv'
  <2>1. cur' = cur /\ ctxDone' = ctxDone
    BY <1>10 DEF Serve, RunFinished, RunCancelled, ExecutorDies
  <2>2. CASE Serve(j) \/ RunFinished(j)
    BY <2>1, <2>2 DEF Serve, RunFinished
  <2>3. CASE RunCancelled(j)
    BY <2>1, <2>3 DEF RunCancelled
  <2>4. CASE ExecutorDies(j)
    BY <2>1, <2>4 DEF ExecutorDies
  <2> QED
    BY <1>10, <2>2, <2>3, <2>4
<1>11. CASE UNCHANGED vars
  BY <1>11 DEF vars
<1> QED
  BY <1>1, <1>2, <1>3, <1>4, <1>5, <1>6, <1>7, <1>8, <1>9, <1>10, <1>11 DEF Next, RunJob

LEMMA InitPromise == Init => Promise!Init
  BY AgentAssumption DEF Init, Promise!Init, Phase

LEMMA StepPromise ==
  AgentInv /\ FailInv /\ [Next]_vars => [Promise!Next]_(Promise!vars)
<1> SUFFICES ASSUME AgentInv, FailInv, [Next]_vars
             PROVE  Promise!Next \/ UNCHANGED Promise!vars
  OBVIOUS
<1> USE AgentAssumption DEF AgentInv, TypeOK, ProcState, Alive, users, Return, Phase
<1>1. CASE RunJobCall
  <2>1. count + 1 \in Job /\ count + 1 \notin 1 .. count
        /\ 1 .. count' = (1 .. count) \cup {count + 1}
    BY <1>1 DEF RunJobCall
  <2>2. Promise!Call(count + 1)
    BY <1>1, <2>1 DEF RunJobCall, Promise!Call
  <2> QED
    BY <2>1, <2>2 DEF Promise!Next
<1>2. CASE CmdStart
  <2>1. CASE proc' = proc
    BY <1>2, <2>1 DEF CmdStart, PcInv, Promise!Next, Promise!Fail
  <2>2. CASE proc' # proc
    <3>1. pc = "start" /\ cur \in Job /\ ~ctxDone[cur] /\ proc[cur] = "none"
      BY <1>2, <2>2 DEF CmdStart, PcInv
    <3>2. {j \in Job : proc'[j] # "none"} = {j \in Job : proc[j] # "none"} \cup {cur}
      BY <1>2, <2>2, <3>1 DEF CmdStart
    <3>3. Promise!Start
      BY <1>2, <2>2, <3>1, <3>2 DEF CmdStart, Promise!Start
    <3> QED
      BY <3>3 DEF Promise!Next
  <2> QED
    BY <2>1, <2>2
<1>3. CASE Poll
  BY <1>3 DEF Poll, PcInv, Promise!Next, Promise!Fail, Promise!vars
<1>4. CASE Dial \/ StartRpcReturns
  BY <1>4 DEF Dial, StartRpcReturns, Promise!vars
<1>5. CASE StartRpcFails
  <2>1. cur \in Job /\ (ctxDone[cur] \/ ExecFaults)
    BY <1>5 DEF StartRpcFails, PcInv, FailInv
  <2> QED
    BY <1>5, <2>1 DEF StartRpcFails, Promise!Next, Promise!Fail
<1>6. CASE Terminate
  <2>1. cur \in Job /\ scen[cur] = "over" /\ proc[cur] # "none"
    BY <1>6 DEF Terminate, PcInv, UsersInv, UsersOf
  <2>2. {j \in Job : proc'[j] # "none"} = {j \in Job : proc[j] # "none"}
    BY <1>6, <2>1 DEF Terminate
  <2> QED
    BY <1>6, <2>2 DEF Terminate, Promise!vars
<1>7. CASE Wait
  <2>1. cur \in Job /\ scen[cur] = "over" /\ left[cur] = 0 /\ active[cur] = 0
    BY <1>7 DEF Wait, PcInv, UsersInv, UsersOf
  <2>2. CASE proc[cur] = "exited"
    BY <1>7, <2>1, <2>2 DEF Wait, Promise!Next, Promise!Succeed
  <2>3. CASE proc[cur] # "exited"
    <3>1. ctxDone[cur] \/ ExecFaults
      BY <1>7, <2>1, <2>3 DEF Wait, FailInv
    <3> QED
      BY <1>7, <2>1, <2>3, <3>1 DEF Wait, Promise!Next, Promise!Fail
  <2> QED
    BY <2>2, <2>3
<1>8. CASE Cancel
  <2>1. {j \in Job : ctxDone'[j]} = {j \in Job : ctxDone[j]} \cup {cur}
    BY <1>8 DEF Cancel
  <2> QED
    BY <1>8, <2>1 DEF Cancel, Promise!Next, Promise!Cancel
<1>9. CASE MasterDies
  BY <1>9 DEF MasterDies, Promise!Next, Promise!MasterDies
<1>10. CASE MasterRestarts
  BY <1>10 DEF MasterRestarts, Promise!Next, Promise!MasterRestarts
<1>11. CASE StartHandler
  <2>1. pc = "startRpc" /\ proc[cur] = "serving" /\ cur \in Job
    BY <1>11 DEF StartHandler, PcInv
  <2>2. left[cur] = 0 /\ active[cur] = 0
    BY <2>1 DEF UsersInv, UsersOf
  <2>3. CASE pc' = "idle"
    BY <1>11, <2>1, <2>3 DEF StartHandler, Promise!Next, Promise!Fail
  <2>4. CASE pc' # "idle"
    <3>1. {j \in Job : proc'[j] # "none"} = {j \in Job : proc[j] # "none"}
      BY <1>11, <2>1, <2>4 DEF StartHandler
    <3>2. /\ left' = [left EXCEPT ![cur] = NVus] /\ active' = active
          /\ UNCHANGED <<up, count, cur, pc, ctxDone, result>>
      BY <1>11, <2>1, <2>4 DEF StartHandler
    <3>3. CASE NVus = 0
      <4>1. left' = left
        BY <2>1, <2>2, <3>2, <3>3
      <4> QED
        BY <3>1, <3>2, <4>1 DEF Promise!vars
    <3>4. CASE NVus # 0
      <4>1. {j \in Job : left'[j] > 0 \/ active'[j] > 0}
              = {j \in Job : left[j] > 0 \/ active[j] > 0} \cup {cur}
        BY <2>1, <3>2, <3>4
      <4> QED
        BY <2>1, <3>1, <3>2, <4>1 DEF Promise!Next, Promise!UsersBegin
    <3> QED
      BY <3>3, <3>4
  <2> QED
    BY <2>3, <2>4
<1>12. ASSUME NEW j \in Job, Launch(j) PROVE UNCHANGED Promise!vars
  <2>1. {k \in Job : left'[k] > 0 \/ active'[k] > 0}
          = {k \in Job : left[k] > 0 \/ active[k] > 0}
    BY <1>12 DEF Launch
  <2> QED
    BY <1>12, <2>1 DEF Launch, Promise!vars
<1>13. ASSUME NEW j \in Job, VuReturns(j) PROVE Promise!Next \/ UNCHANGED Promise!vars
  <2>1. CASE left[j] > 0 \/ active[j] > 1
    <3>1. {k \in Job : left'[k] > 0 \/ active'[k] > 0}
            = {k \in Job : left[k] > 0 \/ active[k] > 0}
      BY <1>13, <2>1 DEF VuReturns
    <3> QED
      BY <1>13, <3>1 DEF VuReturns, Promise!vars
  <2>2. CASE ~(left[j] > 0 \/ active[j] > 1)
    <3>1. {k \in Job : left'[k] > 0 \/ active'[k] > 0}
            = {k \in Job : left[k] > 0 \/ active[k] > 0} \ {j}
      BY <1>13, <2>2 DEF VuReturns
    <3>2. Promise!UsersEnd(j)
      BY <1>13, <3>1 DEF VuReturns, Promise!UsersEnd
    <3> QED
      BY <3>2 DEF Promise!Next
  <2> QED
    BY <2>1, <2>2
<1>14. ASSUME NEW j \in Job, ScenarioEnds(j) PROVE UNCHANGED Promise!vars
  BY <1>14 DEF ScenarioEnds, Promise!vars
<1>15. ASSUME NEW j \in Job,
              Kill(j) \/ Serve(j) \/ RunFinished(j) \/ RunCancelled(j) \/ ExecutorDies(j)
       PROVE  UNCHANGED Promise!vars
  <2>1. {k \in Job : proc'[k] # "none"} = {k \in Job : proc[k] # "none"}
    BY <1>15 DEF Kill, Serve, RunFinished, RunCancelled, ExecutorDies
  <2> QED
    BY <1>15, <2>1 DEF Kill, Serve, RunFinished, RunCancelled, ExecutorDies, Promise!vars
<1>16. CASE UNCHANGED vars
  BY <1>16 DEF vars, Promise!vars
<1> QED
  BY <1>1, <1>2, <1>3, <1>4, <1>5, <1>6, <1>7, <1>8, <1>9, <1>10, <1>11, <1>12, <1>13,
     <1>14, <1>15, <1>16 DEF Next, RunJob

(* The agent and its executors (agent.go, executor.go) implement what the
   scheduler (master.go, run) takes for granted of RunJob. *)
THEOREM AgentImplementsRunJob == Spec => ImplementsRunJob
<1>1. Init => FailInv
  BY DEF Init, FailInv
<1>2. Spec => [](AgentInv /\ FailInv)
  BY <1>1, InitAgentInv, NextAgentInv, NextFailInv, PTL DEF Spec
<1> QED
  BY <1>2, InitPromise, StepPromise, PTL DEF Spec, ImplementsRunJob, Promise!Spec
=============================================================================
