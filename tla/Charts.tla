------------------------------- MODULE Charts -------------------------------
(***************************************************************************)
(* The page of one application in the dashboard: what its React components *)
(* (pages/application/detail, dashboard, chart/group, chart/graph,         *)
(* chart/metric) fetch and when, the sagas behind the dispatches           *)
(* (redux/application/sagas.js) and the store they fill, while the server  *)
(* moves the application on, its executor registers the rows of the charts *)
(* one by one and stores samples.                                          *)
(*                                                                         *)
(* The application has one group with one graph, of counters or gauges.    *)
(* The samples of a metric are stored in the order of their times, so a    *)
(* sample is named by its position and position 0 stands for "before all". *)
(* A request is served somewhere between its dispatch and its answer: a    *)
(* call remembers how far the server was at the dispatch ("lo"), and the   *)
(* answer picks a state from there on.  Answers come in any order.         *)
(***************************************************************************)
EXTENDS Integers, Sequences

CONSTANTS
    NMetrics,           \* metrics of the graph
    MaxSamples,         \* bound: samples per metric
    MaxCalls,           \* bound: sagas in flight
    Faults              \* whether requests may fail (error, timeout, 401)

ASSUME ChartsAssumption ==
    /\ NMetrics \in Nat \ {0}
    /\ MaxSamples \in Nat
    /\ MaxCalls \in Nat /\ MaxCalls >= 2
    /\ Faults \in BOOLEAN

Metric == 1..NMetrics

VARIABLES
    (* the server *)
    srv,            \* status of the application; Finished: also cancel, error
    was,            \* the statuses it has had
    rows,           \* rows registered: the group, the graph, each metric
    n,              \* n[m]: samples stored for metric m
    (* the components *)
    page,           \* which part of the application's page is mounted
    collapsed,      \* state of the group
    (* the store *)
    shown,          \* detail.status, NoEntry before the first answer
    groups,         \* the group is in the store
    graphs,         \* the graph is in the store
    gm,             \* number of metrics in graphMetrics, or NoEntry
    data,           \* metricDatas: an array of records, or an Error
    (* the sagas *)
    calls,          \* the ones that wait for an answer, oldest first
    dead            \* an exception ended the root saga

server == <<srv, was, rows, n>>
store == <<shown, groups, graphs, gm, data>>
vars == <<server, page, collapsed, store, calls, dead>>

NoEntry == -1
Pending == 0  Provisioning == 1  Running == 2  Finished == 3

Page == {"away", "dashboard", "other", "blank"}

(* The chart data of one metric.  A record made by a poll that found no older
   one has no id; undefined is what such a poll leaves if there is no sample. *)
Undefined == [def |-> FALSE, id |-> FALSE, last |-> 0, points |-> <<>>]
Empty == [ok |-> TRUE, recs |-> <<>>]
Error == [ok |-> FALSE, recs |-> <<>>]

Init ==
    /\ srv = Pending /\ was = {Pending} /\ rows = 0 /\ n = [m \in Metric |-> 0]
    /\ page = "away" /\ collapsed = FALSE
    /\ shown = NoEntry /\ groups = FALSE /\ graphs = FALSE /\ gm = NoEntry
    /\ data = Empty
    /\ calls = <<>> /\ dead = FALSE

-----------------------------------------------------------------------------
(* The server *)

AllRows == 2 + NMetrics

Advance ==
    /\ srv < Finished
    /\ \E s \in {srv + 1, Finished} : srv' = s /\ was' = was \cup {s}
    /\ UNCHANGED <<rows, n, page, collapsed, store, calls, dead>>

(* Setup in the executor creates the rows in this order, one RPC each ... *)
Register ==
    /\ srv = Running /\ rows < AllRows
    /\ rows' = rows + 1
    /\ UNCHANGED <<srv, was, n, page, collapsed, store, calls, dead>>

(* ... and the metric log stores one sample per metric and tick. *)
Sample(m) ==
    /\ srv = Running /\ rows = AllRows /\ n[m] < MaxSamples
    /\ \A x \in Metric : n[m] <= n[x]
    /\ n' = [n EXCEPT ![m] = @ + 1]
    /\ UNCHANGED <<srv, was, rows, page, collapsed, store, calls, dead>>

(* Mutant: the time window includes its lower end. *)
SamplesFrom(f, s) == [i \in 1..(s - f + 1) |-> f + i - 1]

(* GET /metrics/{id}/counters?from=f, evaluated when s samples are stored. *)
Samples(f, s) == [i \in 1..(s - f) |-> f + i]

-----------------------------------------------------------------------------
(* Components: what is mounted, and what mounting dispatches *)

GroupMounted == page = "dashboard" /\ groups
GraphMounted == GroupMounted /\ ~collapsed /\ graphs

(* Drawing a record that is undefined throws, and React unmounts the page. *)
Render(p) ==
    page' = IF /\ p = "dashboard" /\ groups' /\ ~collapsed' /\ graphs'
               /\ \E i \in 1..Len(data'.recs) : ~data'.recs[i].def
            THEN "blank" ELSE p

Call(saga, lo) == [saga |-> saga, lo |-> lo]

(* The effects of group (on a new group object, or when it is opened), graph and
   metric (when they are mounted, or graphMetrics arrives), after a render. *)
GraphsWanted(newGroup) ==
    /\ GroupMounted' /\ ~collapsed' /\ ~graphs'
    /\ newGroup \/ ~GroupMounted \/ collapsed

MetricsWanted == GraphMounted' /\ ~GraphMounted /\ gm' = NoEntry

DataWanted ==
    /\ GraphMounted' /\ (~GraphMounted \/ gm = NoEntry)
    /\ gm' > 0 /\ data' = Empty

Effects(newGroup) ==
    IF GraphsWanted(newGroup) THEN <<Call("GRAPHS", rows)>>
    ELSE IF MetricsWanted THEN <<Call("GRAPH_METRICS", rows)>>
    ELSE IF DataWanted
         THEN <<[saga |-> "GRAPH_METRIC_DATA", lo |-> n, k |-> gm',
                 realtime |-> shown = Running]>>
    ELSE <<>>

(* The user opens the page: detail and dashboard are mounted. *)
Open ==
    /\ page = "away" /\ ~dead
    /\ collapsed' = FALSE
    /\ UNCHANGED <<server, store, dead>>
    /\ Render("dashboard")
    /\ calls' = calls \o <<Call("DETAIL", srv), Call("GROUPS", rows)>> \o Effects(FALSE)
    /\ Len(calls') <= MaxCalls

(* Another tab of the page, which unmounts the dashboard, and back. *)
LeaveTab ==
    /\ page = "dashboard" /\ ~dead
    /\ page' = "other"
    /\ UNCHANGED <<server, collapsed, store, calls, dead>>

BackToTab ==
    /\ page = "other" /\ ~dead
    /\ collapsed' = FALSE
    /\ UNCHANGED <<server, store, dead>>
    /\ Render("dashboard")
    /\ calls' = calls \o <<Call("GROUPS", rows)>> \o Effects(FALSE)
    /\ Len(calls') <= MaxCalls

Close ==
    /\ page \in {"dashboard", "other"} /\ ~dead
    /\ page' = "away"
    /\ UNCHANGED <<server, collapsed, store, calls, dead>>

Toggle ==
    /\ GroupMounted /\ ~dead
    /\ collapsed' = ~collapsed
    /\ UNCHANGED <<server, store, dead>>
    /\ Render(page)
    /\ calls' = calls \o Effects(FALSE)
    /\ Len(calls') <= MaxCalls

(* A reload of the browser starts with an empty store. *)
Reload ==
    /\ page' = "away" /\ collapsed' = FALSE
    /\ shown' = NoEntry /\ groups' = FALSE /\ graphs' = FALSE /\ gm' = NoEntry
    /\ data' = Empty
    /\ calls' = <<>> /\ dead' = FALSE
    /\ UNCHANGED server

-----------------------------------------------------------------------------
(* Timers *)

Dispatch(c) ==
    /\ ~dead /\ Len(calls) < MaxCalls
    /\ calls' = Append(calls, c)
    /\ UNCHANGED <<server, page, collapsed, store, dead>>

(* Mutant: the page stops asking once it has seen the application start. *)
DetailTickWhilePending ==
    /\ page \in {"dashboard", "other"} /\ shown = Pending
    /\ Dispatch(Call("DETAIL", srv))

(* detail: every INTERVAL / 3 while the application has not started. *)
DetailTick ==
    /\ page \in {"dashboard", "other"} /\ shown \in {Pending, Provisioning}
    /\ Dispatch(Call("DETAIL", srv))

(* dashboard: every INTERVAL / 3 while a running application shows no group. *)
GroupsTick ==
    /\ page = "dashboard" /\ shown = Running /\ ~groups
    /\ Dispatch(Call("GROUPS", rows))

(* Mutant: the interval only polls for a chart that shows nothing yet. *)
PollTickWhenEmpty ==
    /\ GraphMounted /\ shown = Running /\ gm > 0 /\ data.ok
    /\ \A i \in 1..Len(data.recs) : data.recs[i].points = <<>>
    /\ Dispatch([saga |-> "METRIC_DATA_POLLING", lo |-> n, k |-> gm, data |-> data])

(* metric: every INTERVAL while the application is running.  The poll carries
   the chart data of this moment.  Without metrics it resolves at once to an
   empty array; with an Error for data it throws, which ends the root saga and
   every saga that waits. *)
PollTick ==
    /\ GraphMounted /\ shown = Running /\ ~dead /\ Len(calls) < MaxCalls
    /\ \/ /\ gm <= 0
          /\ data' = Empty
          /\ UNCHANGED <<calls, dead>>
       \/ /\ gm > 0 /\ data.ok
          /\ calls' = Append(calls, [saga |-> "METRIC_DATA_POLLING", lo |-> n,
                                     k |-> gm, data |-> data])
          /\ UNCHANGED <<data, dead>>
       \/ /\ gm > 0 /\ ~data.ok
          /\ calls' = <<>> /\ dead' = TRUE
          /\ UNCHANGED data
    /\ UNCHANGED <<server, page, collapsed, shown, groups, graphs, gm>>

-----------------------------------------------------------------------------
(* Answers *)

Without(s, i) == [j \in 1..(Len(s) - 1) |-> IF j < i THEN s[j] ELSE s[j + 1]]

(* After a render with the new state, the saga is over. *)
Answered(i, newGroup) ==
    /\ Render(page)
    /\ calls' = Without(calls, i) \o Effects(newGroup)
    /\ UNCHANGED <<server, dead>>

DETAIL(i) ==
    /\ calls[i].saga = "DETAIL"
    /\ \E s \in was : s >= calls[i].lo /\ shown' = s
    /\ UNCHANGED <<collapsed, groups, graphs, gm, data>>
    /\ Answered(i, FALSE)

GROUPS(i) ==
    /\ calls[i].saga = "GROUPS"
    /\ \E r \in calls[i].lo..rows : groups' = (r >= 1)
    /\ collapsed' = (collapsed /\ groups')
    /\ UNCHANGED <<shown, graphs, gm, data>>
    /\ Answered(i, TRUE)

GRAPHS(i) ==
    /\ calls[i].saga = "GRAPHS"
    /\ \E r \in calls[i].lo..rows : graphs' = (graphs \/ r >= 2)
    /\ UNCHANGED <<collapsed, shown, groups, gm, data>>
    /\ Answered(i, FALSE)

(* Mutant: the answer is taken for the metrics and their graph. *)
GraphMetricsUncut(i) ==
    /\ calls[i].saga = "GRAPH_METRICS"
    /\ \E r \in calls[i].lo..rows : gm' = r
    /\ UNCHANGED <<collapsed, shown, groups, graphs, data>>
    /\ Answered(i, FALSE)

GRAPH_METRICS(i) ==
    /\ calls[i].saga = "GRAPH_METRICS"
    /\ \E r \in calls[i].lo..rows : gm' = IF r > 2 THEN r - 2 ELSE 0
    /\ UNCHANGED <<collapsed, shown, groups, graphs, data>>
    /\ Answered(i, FALSE)

(* getOfflineMetricData: the whole metric or, for a running application, what
   the clock and the time range of the browser select (b, h). *)
OfflineRec(b, h) ==
    [def |-> TRUE, id |-> TRUE, last |-> IF h > b THEN h ELSE 0,
     points |-> Samples(b, h)]

GRAPH_METRIC_DATA(i) ==
    LET c == calls[i] IN
    /\ c.saga = "GRAPH_METRIC_DATA"
    /\ \E b, h \in [1..c.k -> 0..MaxSamples] :
          /\ \A m \in 1..c.k :
                /\ b[m] <= h[m] /\ h[m] <= n[m]
                /\ ~c.realtime => b[m] = 0 /\ h[m] >= c.lo[m]
          /\ data' = [ok |-> TRUE, recs |-> [m \in 1..c.k |-> OfflineRec(b[m], h[m])]]
    /\ UNCHANGED <<collapsed, shown, groups, graphs, gm>>
    /\ Answered(i, FALSE)

(* getMetricDataPolling: the samples after the last one of the record that was
   there when the poll started, appended to it. *)
HasOld(old, m) == m <= Len(old.recs) /\ old.recs[m].id

PolledFrom(old, m) == IF HasOld(old, m) THEN old.recs[m].last ELSE 0
PolledOnto(old, m) == IF HasOld(old, m) THEN old.recs[m].points ELSE <<>>

PolledRec(old, m, s) ==
    IF s > PolledFrom(old, m)
    THEN [def |-> TRUE, id |-> HasOld(old, m), last |-> s,
          points |-> PolledOnto(old, m) \o Samples(PolledFrom(old, m), s)]
    ELSE IF HasOld(old, m) THEN old.recs[m] ELSE Undefined

METRIC_DATA_POLLING(i) ==
    LET c == calls[i] IN
    /\ c.saga = "METRIC_DATA_POLLING"
    /\ \E s \in [1..c.k -> 0..MaxSamples] :
          /\ \A m \in 1..c.k : c.lo[m] <= s[m] /\ s[m] <= n[m]
          /\ data' = [ok |-> TRUE,
                      recs |-> [m \in 1..c.k |-> PolledRec(c.data, m, s[m])]]
    /\ UNCHANGED <<collapsed, shown, groups, graphs, gm>>
    /\ Answered(i, FALSE)

Answer(i) ==
    /\ i \in 1..Len(calls)
    /\ \/ DETAIL(i) \/ GROUPS(i) \/ GRAPHS(i) \/ GRAPH_METRICS(i)
       \/ GRAPH_METRIC_DATA(i) \/ METRIC_DATA_POLLING(i)

(* The interceptor turns an error into undefined.  The simple sagas keep the
   store as it is; the two that wait for several requests catch the exception
   the missing answer causes and return it as their result. *)
Fail(i) ==
    /\ Faults /\ i \in 1..Len(calls)
    /\ data' = IF calls[i].saga \in {"GRAPH_METRIC_DATA", "METRIC_DATA_POLLING"}
               THEN Error ELSE data
    /\ UNCHANGED <<collapsed, shown, groups, graphs, gm>>
    /\ Answered(i, FALSE)

-----------------------------------------------------------------------------
Server == Advance \/ Register \/ \E m \in Metric : Sample(m)
User == Open \/ LeaveTab \/ BackToTab \/ Close \/ Toggle \/ Reload
Timer == DetailTick \/ GroupsTick \/ PollTick

Next ==
    \/ Server \/ User \/ Timer
    \/ \E i \in 1..Len(calls) : Answer(i) \/ Fail(i)

Spec == Init /\ [][Next]_vars

(* Timers fire; the request that has waited longest comes to an end, by the
   timeout of 10 s if not by an answer; requests for the detail do not all fail. *)
Fairness ==
    /\ SF_vars(DetailTick) /\ WF_vars(GroupsTick) /\ SF_vars(PollTick)
    /\ WF_vars(Answer(1) \/ Fail(1))
    /\ SF_vars(\E i \in 1..Len(calls) : DETAIL(i))

FairSpec == Spec /\ Fairness

-----------------------------------------------------------------------------
(* Properties *)

Rec == [def : BOOLEAN, id : BOOLEAN, last : 0..MaxSamples, points : Seq(Nat)]
Data == {d \in [ok : BOOLEAN, recs : Seq(Rec)] : Len(d.recs) <= NMetrics}

CallType ==
    [saga : {"DETAIL"}, lo : Pending..Finished]
    \cup [saga : {"GROUPS", "GRAPHS", "GRAPH_METRICS"}, lo : 0..AllRows]
    \cup [saga : {"GRAPH_METRIC_DATA"}, lo : [Metric -> 0..MaxSamples],
          k : Metric, realtime : BOOLEAN]
    \cup [saga : {"METRIC_DATA_POLLING"}, lo : [Metric -> 0..MaxSamples],
          k : Metric, data : Data]

(* Type invariant. *)
TypeOK ==
    /\ srv \in was /\ was \subseteq Pending..Finished /\ rows \in 0..AllRows
    /\ n \in [Metric -> 0..MaxSamples]
    /\ page \in Page /\ collapsed \in BOOLEAN
    /\ shown \in NoEntry..Finished
    /\ groups \in BOOLEAN /\ graphs \in BOOLEAN /\ gm \in NoEntry..NMetrics
    /\ data \in Data
    /\ calls \in Seq(CallType) /\ Len(calls) <= MaxCalls
    /\ dead \in BOOLEAN

(* The points of a record are consecutive samples of its metric, each once, in
   order, and end at its lastTimestamp. *)
IsWindow(r, stored) ==
    /\ Len(r.points) <= r.last /\ r.last <= stored
    /\ \A i \in 1..Len(r.points) : r.points[i] = r.last - Len(r.points) + i

(* A chart never shows a sample twice, never out of order and never leaves one
   out between two others, although polls append to data they captured when they
   started, overlap with each other and with the first fetch, are answered in any
   order and may be served at different moments for each metric
   (services/application/index.js, getMetricDataPolling). *)
ChartIsWindow ==
    \A m \in 1..Len(data.recs) : IsWindow(data.recs[m], n[m])

(* While the page watches a running application whose metrics it knows, and the
   sagas are alive, every stored sample eventually reaches the chart
   (chart/metric.js, useInterval). *)
Watching(m) ==
    GraphMounted /\ shown = Running /\ gm >= m /\ data.ok /\ ~dead

ShownUpTo(m, s) == m <= Len(data.recs) /\ data.recs[m].last >= s

ChartKeepsUp ==
    \A m \in Metric, s \in 1..MaxSamples :
        (n[m] >= s /\ Watching(m)) ~> (ShownUpTo(m, s) \/ ~Watching(m))

(* A page that showed the application as not started learns that it was,
   whichever requests fail and in whichever order they are answered
   (detail.js, the interval of INTERVAL / 3). *)
StartIsNoticed ==
    (page \in {"dashboard", "other"} /\ shown \in {Pending, Provisioning}
        /\ srv >= Running /\ ~dead)
    ~> (shown >= Running \/ page \notin {"dashboard", "other"} \/ dead)
=============================================================================
