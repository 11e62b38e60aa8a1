--------------------------- MODULE DashboardProofs ---------------------------
(***************************************************************************)
(* Proofs about module Dashboard, for any set of applications, any table   *)
(* to start with and any number of sagas in flight, answered in any order, *)
(* refused, lost or too late.                                              *)
(***************************************************************************)
EXTENDS Dashboard, SequenceTheorems, TLAPS

Saga == {"LIST", "DETAIL", "CREATE", "CANCEL", "DELETE", "LOGIN", "CHART"}
CallType ==
    [saga : Saga, id : App \cup {"none"}, old : Table, redirect : BOOLEAN,
     reply : {"none", "ok", "error", "401"}, got : Table]

(* Everything a table names was handed out. *)
Handed(table) == \A a \in App : table[a] # NoRow => a \in used

(* What is true of a saga in flight: it asks about an application if it has to,
   and the tables it carries, the one it read first and the one it was answered
   with, name no application the server does not know. *)
GoodCall ==
    {c \in CallType :
        /\ c.saga \in {"DETAIL", "CANCEL", "DELETE"} => c.id \in App
        /\ Handed(c.old) /\ Handed(c.got)
        /\ c.reply = "ok" /\ c.saga \in {"DETAIL", "CREATE", "CANCEL"} =>
              c.id \in App /\ c.got[c.id] # NoRow}

(* The inductive invariant: a token is only there after a login, for which there
   was room among the sagas. *)
SessionInv ==
    /\ used \subseteq App
    /\ valid \in BOOLEAN /\ token \in BOOLEAN /\ authorized \in BOOLEAN
    /\ clicks \in Nat /\ changes \in Nat
    /\ token => MaxCalls > 0

DashboardInv == TypeOK /\ SessionInv /\ calls \in Seq(GoodCall)

-----------------------------------------------------------------------------
(* Sequences *)

(* What taking an element out of a sequence leaves. *)
LEMMA WithoutIsSeq ==
    ASSUME NEW C, NEW s \in Seq(C), NEW i \in 1..Len(s)
    PROVE  Without(s, i) \in Seq(C) /\ Len(Without(s, i)) = Len(s) - 1
<1>1. Len(s) - 1 \in Nat
  OBVIOUS
<1>2. \A j \in 1..(Len(s) - 1) : (IF j < i THEN s[j] ELSE s[j + 1]) \in C
  OBVIOUS
<1>3. Without(s, i) \in [1..(Len(s) - 1) -> C]
  BY <1>2 DEF Without
<1>4. Without(s, i) \in Seq(C)
  BY <1>1, <1>3, SeqDef
<1> QED
  BY <1>1, <1>3, <1>4, LenProperties

(* Every other element is still there. *)
LEMMA WithoutKeeps ==
    ASSUME NEW C, NEW s \in Seq(C), NEW i \in 1..Len(s), NEW k \in 1..Len(s), k # i
    PROVE  \E j \in 1..(Len(s) - 1) : Without(s, i)[j] = s[k]
<1>1. CASE k < i
  <2>1. k \in 1..(Len(s) - 1)
    BY <1>1
  <2> QED
    BY <1>1, <2>1 DEF Without
<1>2. CASE k > i
  <2>1. k - 1 \in 1..(Len(s) - 1) /\ ~(k - 1 < i) /\ (k - 1) + 1 = k
    BY <1>2
  <2> QED
    BY <2>1 DEF Without
<1> QED
  BY <1>1, <1>2

(* Sequences one after the other. *)
LEMMA ConcatIsSeq ==
    ASSUME NEW C, NEW s \in Seq(C), NEW t \in Seq(C)
    PROVE  /\ s \o t \in Seq(C) /\ Len(s \o t) = Len(s) + Len(t)
           /\ \A i \in 1..Len(s) : (s \o t)[i] = s[i]
           /\ \A i \in 1..Len(t) : (s \o t)[Len(s) + i] = t[i]
BY ConcatProperties

LEMMA SeqMonotone ==
    ASSUME NEW C, NEW D, C \subseteq D, NEW s \in Seq(C)
    PROVE  s \in Seq(D)
OBVIOUS

-----------------------------------------------------------------------------
(* Dispatching *)

(* The empty table. *)
LEMMA NoRowsIsTable == NoRows \in Table /\ Handed(NoRows)
BY DEF NoRows, Table, Handed

(* What a page or a button dispatches is a good call, unless it needs an
   application and has none. *)
LEMMA CallIsGood ==
    ASSUME NEW s \in Saga, NEW a \in App \cup {"none"}, NEW old \in Table, Handed(old),
           s \in {"DETAIL", "CANCEL", "DELETE"} => a \in App
    PROVE  Call(s, a, old) \in GoodCall /\ Call(s, a, old).saga = s
<1> DEFINE c == Call(s, a, old)
<1>1. c \in CallType
  BY NoRowsIsTable DEF Call, CallType, Saga
<1>2. c.saga = s /\ c.id = a /\ c.old = old /\ c.got = NoRows /\ c.reply = "none"
  BY DEF Call
<1> HIDE DEF c
<1> QED
  BY <1>1, <1>2, NoRowsIsTable DEF GoodCall, c

(* A page dispatches at most one call when it is mounted, and never a login. *)
LEMMA MountIsGood ==
    ASSUME NEW p \in Page
    PROVE  /\ Mount(p) \in Seq(GoodCall) /\ Len(Mount(p)) \in 0..1
           /\ Mount(p) # <<>> => Len(Mount(p)) = 1 /\ Mount(p)[1].saga # "LOGIN"
<1>1. CASE p = "list"
  <2>1. Call("LIST", "none", NoRows) \in GoodCall /\ Call("LIST", "none", NoRows).saga = "LIST"
    BY CallIsGood, NoRowsIsTable DEF Saga
  <2>2. Mount(p) = <<Call("LIST", "none", NoRows)>>
    BY <1>1 DEF Mount
  <2> QED
    BY <2>1, <2>2
<1>2. CASE p # "list" /\ p \in App
  <2>1. Call("DETAIL", p, NoRows) \in GoodCall /\ Call("DETAIL", p, NoRows).saga = "DETAIL"
    BY <1>2, CallIsGood, NoRowsIsTable DEF Saga
  <2>2. Mount(p) = <<Call("DETAIL", p, NoRows)>>
    BY <1>2 DEF Mount
  <2> QED
    BY <2>1, <2>2
<1>3. CASE p # "list" /\ p \notin App
  <2>1. Mount(p) = <<>>
    BY <1>3 DEF Mount
  <2> QED
    BY <2>1
<1> QED
  BY <1>1, <1>2, <1>3

-----------------------------------------------------------------------------
(* The parts of the invariant *)

(* Some saga that switched the spinner on, and will switch it off, is under way. *)
Busy == \E i \in 1..Len(calls) : calls[i].saga # "LOGIN"

(* ... or all of them ended with the root saga. *)
Inv == DashboardInv /\ (loading => Busy \/ dead)

(* What is shown and asked stays handed out when more ids are. *)
LEMMA GoodCallGrows ==
    ASSUME used \subseteq used'
    PROVE  GoodCall \subseteq GoodCall' /\ \A t \in Table : Handed(t) => Handed(t)'
BY DEF GoodCall, Handed, CallType

(* An answered read, create or cancel carries the row it was asked for. *)
LEMMA GoodCallsAnswer ==
    ASSUME NEW C, C = GoodCall, NEW s \in Seq(C), NEW i \in 1..Len(s),
           s[i].reply = "ok" /\ s[i].saga \in {"DETAIL", "CREATE", "CANCEL"}
    PROVE  s[i].id \in used /\ s[i].got[s[i].id] \in Status
<1>1. s[i] \in GoodCall
  OBVIOUS
<1>2. s[i].id \in App /\ s[i].got[s[i].id] # NoRow /\ Handed(s[i].got) /\ s[i].got \in Table
  BY <1>1 DEF GoodCall, CallType
<1> QED
  BY <1>2 DEF Handed, Table

(* What is left to show of a step in which the server does nothing. *)
LEMMA BrowserParts ==
    ASSUME Inv, UNCHANGED server,
           list' \in Table, Handed(list'), detail' \in {NoDetail} \cup [id : used, status : Status],
           path' \in Page, loading' \in BOOLEAN, token' \in BOOLEAN, authorized' \in BOOLEAN,
           path' # "login" => authorized', authorized' => token', token' => MaxCalls > 0,
           calls' \in Seq(GoodCall), Len(calls') <= MaxCalls,
           broken' \in BOOLEAN, dead' \in BOOLEAN,
           clicks' \in Nat, changes' \in Nat, loading' => Busy' \/ dead'
    PROVE  Inv'
<1>1. used' = used /\ rows' = rows /\ valid' = valid
  BY DEF server
<1>2. GoodCall' = GoodCall
  BY <1>1 DEF GoodCall, Handed
<1>3. SessionInv'
  BY <1>1 DEF Inv, DashboardInv, SessionInv
<1>4. \A i \in 1..Len(calls') : calls'[i] \in GoodCall
  OBVIOUS
<1>5. TypeOK'
  <2>1. rows \in Table /\ \A a \in App : rows[a] # NoRow => a \in used
    BY DEF Inv, DashboardInv, TypeOK
  <2>2. \A i \in 1..Len(calls') :
           calls'[i].reply = "ok" /\ calls'[i].saga \in {"DETAIL", "CREATE", "CANCEL"} =>
               calls'[i].got[calls'[i].id] # NoRow
    BY <1>4 DEF GoodCall
  <2>3. \A a \in App : list'[a] # NoRow => a \in used
    BY DEF Handed
  <2> QED
    BY <1>1, <2>1, <2>2, <2>3 DEF TypeOK, Table, NoRow, Page, NoDetail
<1> QED
  BY <1>2, <1>3, <1>5 DEF Inv, DashboardInv

(* What the invariant says of the browser. *)
LEMMA BrowserFacts ==
    ASSUME Inv
    PROVE  /\ list \in Table /\ Handed(list) /\ detail \in {NoDetail} \cup [id : used, status : Status]
           /\ path \in Page /\ loading \in BOOLEAN /\ token \in BOOLEAN /\ authorized \in BOOLEAN
           /\ broken \in BOOLEAN /\ dead \in BOOLEAN
           /\ path # "login" => authorized
           /\ authorized => token
           /\ token => MaxCalls > 0
           /\ calls \in Seq(GoodCall) /\ Len(calls) \in Nat /\ Len(calls) <= MaxCalls
           /\ clicks \in Nat /\ changes \in Nat /\ used \subseteq App /\ MaxCalls \in Nat
BY DashboardAssumption DEF Inv, DashboardInv, TypeOK, SessionInv, Handed

-----------------------------------------------------------------------------
(* The user *)

(* A saga more. *)
LEMMA DispatchKeeps ==
    ASSUME Inv, NEW c \in GoodCall, Dispatch(c), clicks' \in Nat
    PROVE  Inv'
<1> USE BrowserFacts
<1>1. /\ Len(calls) < MaxCalls /\ calls' = Append(calls, c)
      /\ loading' = (c.saga # "LOGIN" \/ loading)
      /\ UNCHANGED server
      /\ UNCHANGED <<path, token, authorized, list, detail, broken, dead, changes>>
  BY DEF Dispatch, session
<1>2. calls' \in Seq(GoodCall) /\ Len(calls') = Len(calls) + 1 /\ calls'[Len(calls) + 1] = c
      /\ \A i \in 1..Len(calls) : calls'[i] = calls[i]
  BY <1>1
<1>3. loading' => Busy' \/ dead'
  <2>1. CASE c.saga # "LOGIN"
    BY <1>2, <2>1 DEF Busy
  <2>2. CASE c.saga = "LOGIN" /\ loading
    <3> SUFFICES ASSUME ~dead PROVE Busy'
      BY <1>1
    <3>1. PICK i \in 1..Len(calls) : calls[i].saga # "LOGIN"
      BY <2>2 DEF Inv, Busy
    <3> QED
      BY <1>2, <3>1 DEF Busy
  <2> QED
    BY <1>1, <2>1, <2>2
<1>4. Len(calls') <= MaxCalls
  BY <1>1, <1>2
<1> QED
  BY <1>1, <1>2, <1>3, <1>4, BrowserParts

(* A page more. *)
LEMMA MountKeeps ==
    ASSUME NEW s \in Seq(GoodCall), NEW p \in Page, calls' = s \o Mount(p)
    PROVE  /\ calls' \in Seq(GoodCall) /\ Len(s) \in Nat /\ Len(calls') \in Len(s)..(Len(s) + 1)
           /\ Mount(p) # <<>> => Busy'
           /\ \A i \in 1..Len(s) : calls'[i] = s[i]
<1> DEFINE m == Mount(p)
<1>1. /\ m \in Seq(GoodCall) /\ Len(m) \in 0..1
      /\ m # <<>> => Len(m) = 1 /\ m[1].saga # "LOGIN"
  BY MountIsGood
<1> HIDE DEF m
<1>2. /\ s \o m \in Seq(GoodCall) /\ Len(s \o m) = Len(s) + Len(m) /\ Len(s) \in Nat
      /\ \A i \in 1..Len(s) : (s \o m)[i] = s[i]
      /\ \A i \in 1..Len(m) : (s \o m)[Len(s) + i] = m[i]
  BY <1>1, ConcatIsSeq, LenProperties
<1>3. calls' = s \o m
  BY DEF m
<1>4. m # <<>> => Busy'
  <2> SUFFICES ASSUME m # <<>> PROVE Busy'
    OBVIOUS
  <2>1. Len(m) = 1 /\ m[1].saga # "LOGIN"
    BY <1>1
  <2>2. Len(s) + 1 \in 1..Len(s \o m) /\ (s \o m)[Len(s) + 1].saga # "LOGIN"
    BY <1>2, <2>1
  <2> QED
    BY <1>3, <2>2 DEF Busy
<1> QED
  BY <1>1, <1>2, <1>3, <1>4 DEF m

LEMMA UserKeeps ==
    ASSUME Inv,
           \/ \E p \in Page : Goto(p)
           \/ Refresh \/ Create \/ Login \/ LOGOUT \/ Reload \/ DetailTick \/ Chart \/ PollThrows
           \/ \E a \in App : Cancel(a) \/ Delete(a)
    PROVE  Inv'
<1> USE BrowserFacts
<1>c. ASSUME NEW c \in GoodCall, Click(c)
      PROVE  Inv'
  BY <1>c, DispatchKeeps DEF Click
<1>1. ASSUME NEW p \in Page, Goto(p)
      PROVE  Inv'
  <2>1. /\ authorized /\ Len(calls) < MaxCalls /\ path' = p /\ calls' = calls \o Taken(p)
        /\ loading' = (loading \/ Taken(p) # <<>>) /\ UNCHANGED server
        /\ UNCHANGED <<token, authorized, list, detail, broken, dead, clicks, changes>>
    BY <1>1 DEF Goto
  <2>2. /\ calls' \in Seq(GoodCall) /\ Len(calls') \in Len(calls)..(Len(calls) + 1)
        /\ loading' \in BOOLEAN /\ (loading' => Busy' \/ dead')
    <3>1. CASE dead
      <4>1. Taken(p) = <<>>
        BY <3>1 DEF Taken
      <4>2. calls' = calls
        BY <2>1, <4>1
      <4> QED
        BY <2>1, <3>1, <4>1, <4>2
    <3>2. CASE ~dead
      <4>1. Taken(p) = Mount(p)
        BY <3>2 DEF Taken
      <4>2. /\ calls' \in Seq(GoodCall) /\ Len(calls') \in Len(calls)..(Len(calls) + 1)
            /\ Mount(p) # <<>> => Busy'
            /\ \A i \in 1..Len(calls) : calls'[i] = calls[i]
        BY <2>1, <4>1, MountKeeps
      <4>3. Busy => Busy'
        BY <4>2 DEF Busy
      <4> QED
        BY <2>1, <3>2, <4>1, <4>2, <4>3 DEF Inv
    <3> QED
      BY <3>1, <3>2
  <2>3. Len(calls') <= MaxCalls
    BY <2>1, <2>2
  <2> QED
    BY <2>1, <2>2, <2>3, BrowserParts
<1>2. CASE Refresh \/ Login
  <2>1. \A s \in {"LIST", "LOGIN"} : Call(s, "none", NoRows) \in GoodCall
    BY CallIsGood, NoRowsIsTable DEF Saga
  <2> QED
    BY <1>2, <2>1, DispatchKeeps DEF Refresh, Login
<1>3. CASE Create
  <2>1. Call("CREATE", "none", NoRows) \in GoodCall
    BY CallIsGood, NoRowsIsTable DEF Saga
  <2> QED
    BY <1>3, <1>c, <2>1 DEF Create
<1>4. CASE LOGOUT
  <2>1. authorized' = FALSE /\ path' = "login" /\ UNCHANGED server
        /\ UNCHANGED <<token, list, detail, loading, broken, dead, calls, clicks, changes>>
    BY <1>4 DEF LOGOUT, store
  <2>2. loading' => Busy' \/ dead'
    BY <2>1 DEF Inv, Busy
  <2> QED
    BY <2>1, <2>2, BrowserParts DEF Page
<1>5. CASE Reload
  <2>1. /\ authorized' = token /\ path' = IF token THEN path ELSE "login"
        /\ list' = NoRows /\ detail' = NoDetail /\ broken' = FALSE /\ dead' = FALSE
        /\ calls' = Mount(path') /\ loading' = (Mount(path') # <<>>)
        /\ UNCHANGED server /\ UNCHANGED <<token, clicks, changes>>
    BY <1>5 DEF Reload
  <2>2. path' \in Page /\ (path' # "login" => token)
    BY <2>1 DEF Page
  <2>3. /\ Mount(path') \in Seq(GoodCall) /\ Len(Mount(path')) \in 0..1
        /\ Mount(path') # <<>> => Len(Mount(path')) = 1 /\ Mount(path')[1].saga # "LOGIN"
    BY <2>2, MountIsGood
  <2>4. loading' => Busy'
    <3> SUFFICES ASSUME loading' PROVE Busy'
      OBVIOUS
    <3>1. Len(calls') = 1 /\ calls'[1].saga # "LOGIN"
      BY <2>1, <2>3
    <3> QED
      BY <3>1 DEF Busy
  <2>5. path' = "login" => Mount(path') = <<>>
    BY DashboardAssumption DEF Mount
  <2>6. Len(calls') <= MaxCalls
    <3>1. CASE Mount(path') = <<>>
      <4>1. Len(calls') = 0
        BY <2>1, <3>1
      <4> QED
        BY <4>1
    <3>2. CASE Mount(path') # <<>>
      <4>1. Len(calls') = 1 /\ token
        BY <2>1, <2>2, <2>3, <2>5, <3>2
      <4> QED
        BY <4>1
    <3> QED
      BY <3>1, <3>2
  <2> QED
    BY <2>1, <2>2, <2>3, <2>4, <2>6, NoRowsIsTable, BrowserParts
<1>6. CASE DetailTick
  <2>1. Call("DETAIL", path, NoRows) \in GoodCall
    BY <1>6, CallIsGood, NoRowsIsTable DEF DetailTick, Saga
  <2> QED
    BY <1>6, <2>1, DispatchKeeps DEF DetailTick
<1>7. ASSUME NEW a \in App, Cancel(a) \/ Delete(a)
      PROVE  Inv'
  <2>1. \A s \in {"CANCEL", "DELETE"} : Call(s, a, list) \in GoodCall
    BY CallIsGood DEF Saga
  <2> QED
    BY <1>7, <1>c, <2>1 DEF Cancel, Delete
<1>8. CASE Chart
  <2>1. Call("CHART", "none", NoRows) \in GoodCall
    BY CallIsGood, NoRowsIsTable DEF Saga
  <2> QED
    BY <1>8, <2>1, DispatchKeeps DEF Chart
<1>9. CASE PollThrows
  <2>1. /\ loading' = TRUE /\ dead' = TRUE /\ UNCHANGED server
        /\ UNCHANGED <<path, token, authorized, list, detail, broken, calls, clicks, changes>>
    BY <1>9 DEF PollThrows, session
  <2> QED
    BY <2>1, BrowserParts
<1> QED
  BY <1>1, <1>2, <1>3, <1>4, <1>5, <1>6, <1>7, <1>8, <1>9

-----------------------------------------------------------------------------
(* The server *)

(* What is left to show of a step in which the browser does nothing but get an
   answer: the saga that is answered stays the same one. *)
LEMMA ServerParts ==
    ASSUME Inv, UNCHANGED session, UNCHANGED store, clicks' \in Nat, changes' \in Nat,
           rows' \in Table, used \subseteq used', used' \subseteq App, valid' \in BOOLEAN,
           \A a \in App : rows'[a] # NoRow => a \in used',
           calls' \in Seq(GoodCall'), Len(calls') = Len(calls),
           \A i \in 1..Len(calls) : calls'[i].saga = calls[i].saga
    PROVE  Inv'
<1>1. UNCHANGED <<path, token, authorized, list, detail, loading, broken, dead>>
  BY DEF session, store
<1>2. SessionInv'
  BY <1>1 DEF Inv, DashboardInv, SessionInv
<1>3. TypeOK'
  <2>1. \A i \in 1..Len(calls') : calls'[i] \in GoodCall'
    OBVIOUS
  <2>2. \A i \in 1..Len(calls') :
           calls'[i].reply = "ok" /\ calls'[i].saga \in {"DETAIL", "CREATE", "CANCEL"} =>
               calls'[i].got[calls'[i].id] # NoRow
    BY <2>1 DEF GoodCall, NoRow
  <2>3. detail' \in {NoDetail} \cup [id : used', status : Status]
    BY <1>1, BrowserFacts
  <2>4. \A a \in App : list'[a] # NoRow => a \in used'
    BY <1>1, BrowserFacts DEF Handed
  <2>5. list' \in Table /\ path' \in Page /\ loading' \in BOOLEAN /\ Len(calls') <= MaxCalls
        /\ broken' \in BOOLEAN /\ dead' \in BOOLEAN
        /\ (path' # "login" => authorized') /\ (authorized' => token')
    BY <1>1, BrowserFacts
  <2> QED
    BY <2>2, <2>3, <2>4, <2>5 DEF TypeOK, Table, NoRow, Page, NoDetail, Status
<1>4. loading' => Busy' \/ dead'
  BY <1>1 DEF Inv, Busy
<1> QED
  BY <1>2, <1>3, <1>4 DEF Inv, DashboardInv

(* The server answers call i: the call is exchanged for c. *)
LEMMA AnswerKeeps ==
    ASSUME Inv, UNCHANGED session, UNCHANGED store, UNCHANGED <<clicks, changes>>,
           rows' \in Table, used \subseteq used', used' \subseteq App, valid' \in BOOLEAN,
           \A a \in App : rows'[a] # NoRow => a \in used',
           NEW i \in 1..Len(calls), NEW c \in GoodCall', c.saga = calls[i].saga,
           calls' = [calls EXCEPT ![i] = c]
    PROVE  Inv'
<1> DEFINE G == GoodCall'
<1>1. calls \in Seq(G)
  BY BrowserFacts, GoodCallGrows, SeqMonotone
<1>2. c \in G
  OBVIOUS
<1> HIDE DEF G
<1>3. calls' \in Seq(G) /\ Len(calls') = Len(calls)
      /\ \A j \in 1..Len(calls) : calls'[j] = IF j = i THEN c ELSE calls[j]
  BY <1>1, <1>2, ExceptSeq
<1>4. \A j \in 1..Len(calls) : calls'[j].saga = calls[j].saga
  BY <1>3
<1> QED
  BY <1>3, <1>4, BrowserFacts, ServerParts DEF G

(* The table, and what becomes of it. *)
LEMMA TableFacts ==
    ASSUME Inv
    PROVE  /\ rows \in Table /\ used \subseteq App /\ valid \in BOOLEAN
           /\ \A a \in App : rows[a] # NoRow => a \in used
           /\ Handed(rows)
BY DEF Inv, DashboardInv, TypeOK, SessionInv, Handed

(* Call i with reply r, application a and rows t. *)
Answer(i, r, a, t) == [calls[i] EXCEPT !.reply = r, !.id = a, !.got = t]

(* An answer is a good one if it names nothing new but what is handed out now. *)
LEMMA AnswerIsGood ==
    ASSUME Inv, used \subseteq used', NEW i \in 1..Len(calls),
           NEW r \in {"none", "ok", "error", "401"}, NEW a \in App \cup {"none"}, NEW t \in Table,
           \A b \in App : t[b] # NoRow => b \in used',
           calls[i].saga \in {"DETAIL", "CANCEL", "DELETE"} => a \in App,
           r = "ok" /\ calls[i].saga \in {"DETAIL", "CREATE", "CANCEL"} => a \in App /\ t[a] # NoRow
    PROVE  Answer(i, r, a, t) \in GoodCall' /\ Answer(i, r, a, t).saga = calls[i].saga
<1> DEFINE c == Answer(i, r, a, t)
<1>1. calls[i] \in GoodCall /\ calls[i] \in GoodCall'
  BY BrowserFacts, GoodCallGrows
<1>2. calls[i] \in CallType /\ \A b \in App : calls[i].old[b] # NoRow => b \in used'
  BY <1>1 DEF GoodCall, Handed
<1>3. c \in CallType /\ c.saga = calls[i].saga /\ c.id = a /\ c.got = t /\ c.reply = r
      /\ c.old = calls[i].old
  BY <1>2 DEF CallType, Answer
<1> HIDE DEF c
<1>4. c \in GoodCall'
  BY <1>2, <1>3 DEF GoodCall, Handed, NoRow, CallType
<1> QED
  BY <1>3, <1>4 DEF c

(* The scheduler, other users, and the end of the token. *)
LEMMA OthersKeep ==
    ASSUME Inv, Expire \/ \E a \in App : Change(a)
    PROVE  Inv'
<1> USE TableFacts
<1>c. ASSUME used \subseteq used', UNCHANGED calls
      PROVE  calls' \in Seq(GoodCall') /\ Len(calls') = Len(calls)
             /\ \A i \in 1..Len(calls) : calls'[i].saga = calls[i].saga
  BY <1>c, BrowserFacts, GoodCallGrows, SeqMonotone
<1>n. changes \in Nat /\ clicks \in Nat
  BY BrowserFacts
<1>1. CASE Expire
  <2>1. /\ valid' = FALSE /\ changes' = changes + 1
        /\ UNCHANGED <<rows, used, clicks, calls>> /\ UNCHANGED session /\ UNCHANGED store
    BY <1>1 DEF Expire
  <2>2. /\ used \subseteq used' /\ used' \subseteq App /\ rows' \in Table
        /\ \A a \in App : rows'[a] # NoRow => a \in used'
    BY <2>1
  <2>3. changes' \in Nat /\ clicks' \in Nat
    BY <1>n, <2>1
  <2>4. valid' \in BOOLEAN
    BY <2>1
  <2> QED
    BY <1>c, <2>1, <2>2, <2>3, <2>4, ServerParts
<1>2. ASSUME NEW a \in App, Change(a)
      PROVE  Inv'
  <2>1. /\ changes' = changes + 1
        /\ UNCHANGED <<valid, calls, clicks>> /\ UNCHANGED session /\ UNCHANGED store
    BY <1>2 DEF Change
  <2>2. \E s \in Status \cup {NoRow} :
           rows' = [rows EXCEPT ![a] = s] /\ used' \in {used, used \cup {a}} /\ a \in used'
    <3>1. CASE /\ rows[a] # NoRow /\ UNCHANGED used
               /\ \E s \in (Status \cup {NoRow}) \ {rows[a]} : rows' = [rows EXCEPT ![a] = s]
      BY <3>1
    <3>2. CASE rows' = [rows EXCEPT ![a] = "pending"] /\ used' = used \cup {a}
      BY <3>2 DEF Status
    <3> QED
      BY <1>2, <3>1, <3>2 DEF Change
  <2>3. rows' \in Table /\ used \subseteq used' /\ used' \subseteq App
        /\ \A b \in App : rows'[b] # NoRow => b \in used'
    BY <2>2 DEF Table
  <2> QED
    BY <1>c, <1>n, <2>1, <2>3, ServerParts
<1> QED
  BY <1>1, <1>2

(* The row of one application in a table. *)
LEMMA OnlyRowIsTable ==
    ASSUME NEW t \in Table, NEW a \in App
    PROVE  /\ OnlyRow(t, a) \in Table /\ OnlyRow(t, a)[a] = t[a]
           /\ \A b \in App : OnlyRow(t, a)[b] # NoRow => t[b] # NoRow
BY DEF OnlyRow, NoRows, Table

(* A reply without data leaves the rest of the call as it was. *)
LEMMA ReplyKeeps ==
    ASSUME Inv, UNCHANGED session, UNCHANGED store, UNCHANGED <<clicks, changes>>,
           rows' \in Table, UNCHANGED used, valid' \in BOOLEAN,
           \A a \in App : rows'[a] # NoRow => a \in used,
           NEW i \in 1..Len(calls), NEW r \in {"ok", "error", "401"}, Reply(i, r),
           r = "ok" => calls[i].saga \in {"DELETE", "LOGIN", "CHART"}
    PROVE  Inv'
<1> DEFINE c == [calls[i] EXCEPT !.reply = r]
<1>1. calls[i] \in GoodCall
  BY BrowserFacts
<1>2. calls' = [calls EXCEPT ![i] = c]
  BY DEF Reply
<1>3. c \in CallType /\ c.saga = calls[i].saga /\ c.id = calls[i].id /\ c.got = calls[i].got
      /\ c.reply = r /\ c.old = calls[i].old
  BY <1>1 DEF GoodCall, CallType
<1> HIDE DEF c
<1>4. c \in GoodCall'
  <2>1. c \in GoodCall
    BY <1>1, <1>3 DEF GoodCall
  <2> QED
    BY <2>1, GoodCallGrows
<1> QED
  BY <1>2, <1>3, <1>4, TableFacts, AnswerKeeps

(* The server serves a request, or the network loses it. *)
LEMMA ServeKeeps ==
    ASSUME Inv, NEW i \in 1..Len(calls), Serve(i)
    PROVE  Inv'
<1> USE TableFacts
<1>u. UNCHANGED session /\ UNCHANGED store /\ UNCHANGED <<clicks, changes>>
  BY DEF Serve
<1>i. calls[i] \in GoodCall /\ calls[i] \in CallType
      /\ (calls[i].saga \in {"DETAIL", "CANCEL", "DELETE"} => calls[i].id \in App)
  BY BrowserFacts DEF GoodCall
<1>a. ASSUME NEW a \in App \cup {"none"}, NEW t \in Table, rows' \in Table, valid' = valid,
             used \subseteq used', used' \subseteq App,
             \A b \in App : rows'[b] # NoRow => b \in used',
             \A b \in App : t[b] # NoRow => b \in used',
             calls[i].saga \in {"DETAIL", "CANCEL", "DELETE"} => a \in App,
             calls[i].saga \in {"DETAIL", "CREATE", "CANCEL"} => a \in App /\ t[a] # NoRow,
             calls' = [calls EXCEPT ![i] = Answer(i, "ok", a, t)]
      PROVE  Inv'
  <2>1. Answer(i, "ok", a, t) \in GoodCall' /\ Answer(i, "ok", a, t).saga = calls[i].saga
    BY <1>a, AnswerIsGood
  <2> QED
    BY <1>a, <1>u, <2>1, AnswerKeeps
<1>1. CASE ServeRead(i) /\ UNCHANGED valid
  <2>0. UNCHANGED <<rows, used>>
    BY <1>1 DEF ServeRead
  <2>1. CASE calls[i].saga = "LIST" /\ calls' = [calls EXCEPT ![i].reply = "ok", ![i].got = rows]
    <3>1. calls' = [calls EXCEPT ![i] = Answer(i, "ok", calls[i].id, rows)]
      BY <1>i, <2>1 DEF CallType, Answer
    <3> QED
      BY <1>1, <1>i, <1>a, <2>0, <2>1, <3>1 DEF CallType
  <2>2. CASE /\ calls[i].saga = "DETAIL" /\ rows[calls[i].id] # NoRow
             /\ calls' = [calls EXCEPT ![i].reply = "ok", ![i].got = OnlyRow(rows, calls[i].id)]
    <3>1. calls' = [calls EXCEPT ![i] = Answer(i, "ok", calls[i].id, OnlyRow(rows, calls[i].id))]
      BY <1>i, <2>2 DEF CallType, Answer
    <3>2. calls[i].id \in App
      BY <1>i, <2>2
    <3>3. /\ OnlyRow(rows, calls[i].id) \in Table
          /\ OnlyRow(rows, calls[i].id)[calls[i].id] = rows[calls[i].id]
          /\ \A b \in App : OnlyRow(rows, calls[i].id)[b] # NoRow => rows[b] # NoRow
      BY <3>2, OnlyRowIsTable
    <3>4. /\ rows' \in Table /\ valid' = valid /\ used \subseteq used' /\ used' \subseteq App
          /\ \A b \in App : rows'[b] # NoRow => b \in used'
          /\ \A b \in App : OnlyRow(rows, calls[i].id)[b] # NoRow => b \in used'
          /\ OnlyRow(rows, calls[i].id)[calls[i].id] # NoRow
      BY <1>1, <2>0, <2>2, <3>3
    <3> QED
      BY <1>a, <3>1, <3>2, <3>3, <3>4
  <2>3. CASE Reply(i, "error")
    BY <1>1, <1>u, <2>0, <2>3, ReplyKeeps
  <2>4. CASE calls[i].saga = "CHART" /\ Reply(i, "ok")
    BY <1>1, <1>u, <2>0, <2>4, ReplyKeeps
  <2> QED
    BY <1>1, <2>1, <2>2, <2>3, <2>4 DEF ServeRead
<1>2. CASE ServeCreate(i) /\ UNCHANGED valid
  <2>1. PICK a \in App \ used :
          /\ rows' = [rows EXCEPT ![a] = "pending"] /\ used' = used \cup {a}
          /\ calls' = [calls EXCEPT ![i].reply = "ok", ![i].id = a, ![i].got = OnlyRow(rows', a)]
    BY <1>2 DEF ServeCreate
  <2>2. rows' \in Table /\ rows'[a] # NoRow /\ \A b \in App : rows'[b] # NoRow => b \in used'
    BY <2>1 DEF Table, Status, NoRow
  <2>3. calls' = [calls EXCEPT ![i] = Answer(i, "ok", a, OnlyRow(rows', a))]
    BY <2>1 DEF Answer
  <2>4. /\ OnlyRow(rows', a) \in Table /\ OnlyRow(rows', a)[a] = rows'[a]
        /\ \A b \in App : OnlyRow(rows', a)[b] # NoRow => rows'[b] # NoRow
    BY <2>2, OnlyRowIsTable
  <2>5. /\ used \subseteq used' /\ used' \subseteq App /\ valid' = valid
        /\ \A b \in App : OnlyRow(rows', a)[b] # NoRow => b \in used'
    BY <1>2, <2>1, <2>2, <2>4
  <2> QED
    BY <1>a, <2>2, <2>3, <2>4, <2>5
<1>3. CASE ServeCancel(i) /\ UNCHANGED valid
  <2> DEFINE a == calls[i].id
  <2>0. calls[i].saga = "CANCEL" /\ UNCHANGED used /\ a \in App
    BY <1>3, <1>i DEF ServeCancel
  <2>1. CASE /\ rows[a] # NoRow
             /\ rows' = rows \/ rows' = [rows EXCEPT ![a] = "over"]
             /\ calls' = [calls EXCEPT ![i].reply = "ok", ![i].got = OnlyRow(rows', a)]
    <3>1. rows' \in Table /\ rows'[a] # NoRow /\ \A b \in App : rows'[b] # NoRow => b \in used'
      BY <2>0, <2>1 DEF Table, Status, NoRow
    <3>2. calls' = [calls EXCEPT ![i] = Answer(i, "ok", a, OnlyRow(rows', a))]
      <4> DEFINE t == OnlyRow(rows', a)
      <4>1. [calls[i] EXCEPT !.reply = "ok", !.got = t] = Answer(i, "ok", a, t)
        <5> HIDE DEF t
        <5> QED
          BY <1>i DEF CallType, Answer
      <4>2. calls' = [calls EXCEPT ![i] = [calls[i] EXCEPT !.reply = "ok", !.got = t]]
        BY <2>1
      <4> QED
        BY <4>1, <4>2
    <3>3. /\ OnlyRow(rows', a) \in Table /\ OnlyRow(rows', a)[a] = rows'[a]
          /\ \A b \in App : OnlyRow(rows', a)[b] # NoRow => rows'[b] # NoRow
      BY <2>0, <3>1, OnlyRowIsTable
    <3> QED
      BY <1>3, <1>a, <2>0, <3>1, <3>2, <3>3
  <2>2. CASE Reply(i, "error") /\ UNCHANGED rows
    BY <1>3, <1>u, <2>0, <2>2, ReplyKeeps
  <2> QED
    BY <1>3, <2>1, <2>2 DEF ServeCancel
<1>4. CASE ServeDelete(i) /\ UNCHANGED valid
  <2>0. calls[i].saga = "DELETE" /\ UNCHANGED used /\ calls[i].id \in App
    BY <1>4, <1>i DEF ServeDelete
  <2>1. /\ rows' = rows \/ rows' = [rows EXCEPT ![calls[i].id] = NoRow]
        /\ Reply(i, "ok") \/ Reply(i, "error")
    BY <1>4 DEF ServeDelete
  <2>2. rows' \in Table /\ \A b \in App : rows'[b] # NoRow => b \in used
    BY <2>0, <2>1 DEF Table
  <2> QED
    BY <1>4, <1>u, <2>0, <2>1, <2>2, ReplyKeeps
<1>5. CASE Reply(i, "401") /\ UNCHANGED server
  BY <1>5, <1>u, ReplyKeeps DEF server
<1>6. CASE ServeLogin(i)
  <2>1. calls[i].saga = "LOGIN" /\ UNCHANGED <<rows, used>> /\ valid' \in BOOLEAN
        /\ (Reply(i, "ok") \/ Reply(i, "401"))
    BY <1>6 DEF ServeLogin
  <2> QED
    BY <1>u, <2>1, ReplyKeeps
<1> QED
  BY <1>1, <1>2, <1>3, <1>4, <1>5, <1>6 DEF Serve

LEMMA LoseKeeps ==
    ASSUME Inv, NEW i \in 1..Len(calls), Lose(i)
    PROVE  Inv'
BY TableFacts, ReplyKeeps DEF Lose, server

-----------------------------------------------------------------------------
(* The end of a saga *)

(* A saga that ends takes its call out, and a page it leads to adds at most one:
   if that page switches the spinner on, its own saga will switch it off. *)
LEMMA LeavesCalls ==
    ASSUME Inv, NEW i \in 1..Len(calls), Stay(i) \/ \E p \in Page : Push(i, p)
    PROVE  /\ path' \in Page /\ (path' # "login" => authorized)
           /\ calls' \in Seq(GoodCall) /\ Len(calls') <= MaxCalls
           /\ loading' \in BOOLEAN /\ (loading' => Busy')
<1> USE BrowserFacts
<1>1. Without(calls, i) \in Seq(GoodCall) /\ Len(Without(calls, i)) = Len(calls) - 1
  BY WithoutIsSeq
<1>2. CASE Stay(i)
  <2>1. path' = path /\ calls' = Without(calls, i) /\ loading' = FALSE
    BY <1>2 DEF Stay
  <2>2. Len(calls') <= MaxCalls
    BY <1>1, <2>1
  <2>3. calls' \in Seq(GoodCall)
    BY <1>1, <2>1
  <2> QED
    BY <2>1, <2>2, <2>3
<1>3. ASSUME NEW p \in Page, Push(i, p)
      PROVE  /\ path' \in Page /\ (path' # "login" => authorized)
             /\ calls' \in Seq(GoodCall) /\ Len(calls') <= MaxCalls
             /\ loading' \in BOOLEAN /\ (loading' => Busy')
  <2> DEFINE to == IF authorized THEN p ELSE "login"
  <2>1. /\ path' = to /\ calls' = Without(calls, i) \o Mount(to)
        /\ loading' \in {FALSE, Mount(to) # <<>>}
    BY <1>3 DEF Push
  <2>2. to \in Page /\ (to # "login" => authorized)
    BY DEF Page
  <2> HIDE DEF to
  <2>3. /\ calls' \in Seq(GoodCall) /\ Len(calls') \in (Len(calls) - 1)..Len(calls)
        /\ Mount(to) # <<>> => Busy'
    <3> DEFINE w == Without(calls, i)
    <3>1. w \in Seq(GoodCall) /\ Len(w) = Len(calls) - 1 /\ calls' = w \o Mount(to)
      BY <1>1, <2>1
    <3> HIDE DEF w
    <3>2. /\ calls' \in Seq(GoodCall) /\ Len(calls') \in Len(w)..(Len(w) + 1)
          /\ Mount(to) # <<>> => Busy'
      BY <2>2, <3>1, MountKeeps
    <3>3. Len(w) + 1 = Len(calls)
      BY <3>1
    <3> QED
      BY <3>1, <3>2, <3>3
  <2>4. Len(calls') <= MaxCalls
    BY <2>3
  <2>5. loading' \in BOOLEAN /\ (loading' => Busy')
    BY <2>1, <2>3
  <2> QED
    BY <2>1, <2>2, <2>3, <2>4, <2>5
<1> QED
  BY <1>2, <1>3

(* Whatever order the sagas end in, what they leave in the store is handed out,
   nobody gets past the login page without a session, and the spinner is on only
   while some saga will switch it off. *)
LEMMA FinishKeeps ==
    ASSUME Inv, NEW i \in 1..Len(calls), Finish(i)
    PROVE  Inv'
<1> USE BrowserFacts
<1> DEFINE Leaves == Stay(i) \/ \E p \in Page : Push(i, p)
<1>u. UNCHANGED server /\ UNCHANGED <<dead, clicks, changes>>
  BY DEF Finish
<1>i. /\ calls[i] \in GoodCall /\ calls[i].old \in Table /\ Handed(calls[i].old)
      /\ calls[i].got \in Table /\ Handed(calls[i].got)
      /\ (calls[i].saga \in {"DETAIL", "CANCEL", "DELETE"} => calls[i].id \in App)
  BY DEF GoodCall, CallType
<1>r. ASSUME calls[i].reply = "ok" /\ calls[i].saga \in {"DETAIL", "CREATE", "CANCEL"}
      PROVE  /\ Row(calls[i]) \in [id : used, status : Status]
             /\ calls[i].id \in used /\ calls[i].got[calls[i].id] \in Status
  BY <1>r, GoodCallsAnswer DEF Row
<1>l. ASSUME Leaves, UNCHANGED <<token, authorized>>, list' \in Table, Handed(list'),
             broken' \in BOOLEAN,
             detail' \in {NoDetail} \cup [id : used, status : Status]
      PROVE  Inv'
  <2>1. /\ path' \in Page /\ (path' # "login" => authorized)
        /\ calls' \in Seq(GoodCall) /\ Len(calls') <= MaxCalls
        /\ loading' \in BOOLEAN /\ (loading' => Busy')
    BY <1>l, LeavesCalls
  <2>2. token' \in BOOLEAN /\ authorized' \in BOOLEAN /\ (path' # "login" => authorized')
        /\ (authorized' => token') /\ (token' => MaxCalls > 0) /\ clicks' \in Nat /\ changes' \in Nat
    BY <1>l, <1>u, <2>1
  <2> QED
    BY <1>l, <1>u, <2>1, <2>2, BrowserParts
<1>1. CASE LIST(i)
  <2>1. Leaves /\ list' = calls[i].got /\ UNCHANGED <<detail, broken, token, authorized>>
    BY <1>1 DEF LIST
  <2> QED
    BY <1>i, <1>l, <2>1
<1>2. CASE DETAIL(i)
  <2>1. Leaves /\ UNCHANGED <<broken, token, authorized>> /\ list' = list /\ detail' = Row(calls[i])
        /\ Row(calls[i]) \in [id : used, status : Status]
    BY <1>2, <1>r DEF DETAIL
  <2> QED
    BY <1>l, <2>1
<1>3. CASE CREATE(i)
  <2>1. calls[i].id \in Page
    BY <1>3, <1>r DEF CREATE, Page
  <2>2. Leaves /\ UNCHANGED <<broken, token, authorized>> /\ list' = list /\ detail' = Row(calls[i])
        /\ Row(calls[i]) \in [id : used, status : Status]
    BY <1>3, <1>r, <2>1 DEF CREATE
  <2> QED
    BY <1>l, <2>2
<1>4. CASE CANCEL(i)
  <2>1. /\ list' = IF calls[i].old[calls[i].id] = NoRow THEN calls[i].old
                   ELSE [calls[i].old EXCEPT ![calls[i].id] = calls[i].got[calls[i].id]]
        /\ detail' = Row(calls[i]) /\ Stay(i) /\ UNCHANGED <<broken, token, authorized>>
        /\ calls[i].saga = "CANCEL" /\ calls[i].reply = "ok"
    BY <1>4 DEF CANCEL
  <2>2. calls[i].id \in used /\ calls[i].got[calls[i].id] \in Status
        /\ Row(calls[i]) \in [id : used, status : Status]
    BY <1>r, <2>1
  <2>3. list' \in Table /\ Handed(list')
    BY <1>i, <2>1, <2>2 DEF Table, Handed
  <2> QED
    BY <1>l, <2>1, <2>2, <2>3
<1>5. CASE DELETE(i)
  <2>1. list' = [calls[i].old EXCEPT ![calls[i].id] = NoRow]
        /\ UNCHANGED <<detail, broken, token, authorized>>
    BY <1>5 DEF DELETE
  <2>2. Leaves
    BY <1>5 DEF DELETE, Page
  <2>3. list' \in Table /\ Handed(list')
    BY <1>i, <2>1 DEF Table, Handed
  <2> QED
    BY <1>l, <2>1, <2>2, <2>3
<1>w. Without(calls, i) \in Seq(GoodCall) /\ Len(Without(calls, i)) = Len(calls) - 1
  BY WithoutIsSeq
<1>6. CASE LOGIN(i)
  <2>1. /\ token' = TRUE /\ authorized' = TRUE /\ path' = "list" /\ loading' = TRUE
        /\ calls' = Without(calls, i) \o Mount("list") /\ UNCHANGED <<list, detail, broken>>
    BY <1>6 DEF LOGIN
  <2>2. "list" \in Page /\ Mount("list") # <<>>
    BY DEF Page, Mount
  <2>3. calls' \in Seq(GoodCall) /\ Len(calls') \in (Len(calls) - 1)..Len(calls) /\ Busy'
    <3> DEFINE w == Without(calls, i)
    <3>1. w \in Seq(GoodCall) /\ Len(w) = Len(calls) - 1 /\ calls' = w \o Mount("list")
      BY <1>w, <2>1
    <3> HIDE DEF w
    <3>2. calls' \in Seq(GoodCall) /\ Len(calls') \in Len(w)..(Len(w) + 1) /\ Busy'
      BY <2>2, <3>1, MountKeeps
    <3>3. Len(w) + 1 = Len(calls)
      BY <3>1
    <3> QED
      BY <3>1, <3>2, <3>3
  <2>4. Len(calls') <= MaxCalls /\ MaxCalls > 0
    BY <2>3
  <2>5. token' \in BOOLEAN /\ authorized' \in BOOLEAN /\ loading' \in BOOLEAN
        /\ (path' # "login" => authorized') /\ (authorized' => token')
    BY <2>1
  <2>6. list' \in Table /\ Handed(list') /\ detail' \in {NoDetail} \cup [id : used, status : Status]
    BY <2>1
  <2>7. clicks' \in Nat /\ changes' \in Nat /\ path' \in Page
        /\ broken' \in BOOLEAN /\ dead' \in BOOLEAN
    BY <1>u, <2>1, <2>2
  <2> QED
    BY <1>u, <2>3, <2>4, <2>5, <2>6, <2>7, BrowserParts
<1>7. CASE NoResponse(i)
  <2>1. /\ path' \in {path, "login"} /\ calls' = Without(calls, i)
        /\ loading' = (loading /\ calls[i].saga = "LOGIN") /\ broken' \in BOOLEAN
        /\ UNCHANGED <<list, detail, token, authorized>>
    BY <1>7 DEF NoResponse
  <2>2. calls' \in Seq(GoodCall) /\ Len(calls') = Len(calls) - 1
    BY <1>w, <2>1
  <2>3. loading' => Busy' \/ dead'
    <3> SUFFICES ASSUME loading', ~dead PROVE Busy'
      BY <1>u
    <3>1. loading /\ calls[i].saga = "LOGIN"
      BY <2>1
    <3>2. PICK k \in 1..Len(calls) : calls[k].saga # "LOGIN"
      BY <3>1 DEF Inv, Busy
    <3>3. k # i
      BY <3>1, <3>2
    <3>4. \E j \in 1..(Len(calls) - 1) : Without(calls, i)[j] = calls[k]
      BY <3>3, WithoutKeeps
    <3> QED
      BY <2>1, <2>2, <3>2, <3>4 DEF Busy
  <2>4. path' \in Page /\ (path' # "login" => authorized')
    BY <2>1 DEF Page
  <2>5. Len(calls') <= MaxCalls /\ loading' \in BOOLEAN
    BY <2>1, <2>2
  <2> QED
    BY <1>u, <2>1, <2>2, <2>3, <2>4, <2>5, BrowserParts
<1>8. CASE CHART(i)
  <2>1. Leaves /\ broken' \in {broken, FALSE} /\ UNCHANGED <<list, detail, token, authorized>>
    BY <1>8 DEF CHART
  <2> QED
    BY <1>l, <2>1
<1>9. CASE Orphan(i)
  <2>1. /\ dead /\ path' \in {path, "login"} /\ calls' = Without(calls, i)
        /\ UNCHANGED <<list, detail, loading, broken, token, authorized>>
    BY <1>9 DEF Orphan
  <2>2. calls' \in Seq(GoodCall) /\ Len(calls') = Len(calls) - 1
    BY <1>w, <2>1
  <2>3. path' \in Page /\ (path' # "login" => authorized')
    BY <2>1 DEF Page
  <2>4. Len(calls') <= MaxCalls
    BY <2>2
  <2> QED
    BY <1>u, <2>1, <2>2, <2>3, <2>4, BrowserParts
<1> QED
  BY <1>1, <1>2, <1>3, <1>4, <1>5, <1>6, <1>7, <1>8, <1>9 DEF Finish

-----------------------------------------------------------------------------
(* The theorems *)

LEMMA InitInv == Init => Inv
<1> SUFFICES ASSUME Init PROVE Inv
  OBVIOUS
<1> USE DashboardAssumption
<1>1. rows \in Table /\ list \in Table /\ list = NoRows
  BY NoRowsIsTable DEF Init, Table, Status, NoRow
<1>2. calls \in Seq(GoodCall) /\ Len(calls) = 0 /\ ~loading
  BY DEF Init
<1>3. \A a \in App : rows[a] # NoRow \/ list[a] # NoRow => a \in used
  BY <1>1 DEF Init, NoRows
<1>4. TypeOK
  <2>1. detail = NoDetail /\ path = "login" /\ path \in Page /\ loading \in BOOLEAN /\ ~authorized
        /\ broken \in BOOLEAN /\ dead \in BOOLEAN
    BY DEF Init, Page
  <2>2. Len(calls) <= MaxCalls /\ \A i \in 1..Len(calls) : FALSE
    BY <1>2
  <2> QED
    BY <1>1, <1>3, <2>1, <2>2 DEF TypeOK
<1>5. SessionInv
  BY DEF Init, SessionInv
<1> QED
  BY <1>2, <1>4, <1>5 DEF Inv, DashboardInv

LEMMA NextInv == Inv /\ [Next]_vars => Inv'
<1> SUFFICES ASSUME Inv, [Next]_vars PROVE Inv'
  OBVIOUS
<1>1. CASE Next
  BY <1>1, UserKeeps, OthersKeep, ServeKeeps, LoseKeeps, FinishKeeps DEF Next
<1>2. CASE UNCHANGED vars
  <2>1. /\ UNCHANGED server /\ UNCHANGED <<path, token, authorized, list, detail, loading>>
        /\ UNCHANGED <<broken, dead, calls, clicks, changes>>
    BY <1>2 DEF vars, session, store
  <2>2. loading' => Busy' \/ dead'
    BY <2>1 DEF Inv, Busy
  <2> QED
    BY <2>1, <2>2, BrowserFacts, BrowserParts
<1> QED
  BY <1>1, <1>2

(* However requests overtake each other, are refused, lost or answered on another
   page, the browser shows and asks for nothing the server did not hand out, and
   no page but the login page is open without a session. *)
THEOREM DashboardTypes == Spec => []TypeOK
<1>1. Inv => TypeOK
  BY DEF Inv, DashboardInv
<1> QED
  BY <1>1, InitInv, NextInv, PTL DEF Spec

(* As long as no poll has thrown and ended them all, the one loading flag that the
   sagas of lists, pages, charts and logs share never stays on when nothing but a
   login is in flight. *)
THEOREM SpinnerEnds == Spec => []IdleIsNotLoading
<1>1. Inv => IdleIsNotLoading
  BY DEF Inv, Busy, IdleIsNotLoading
<1> QED
  BY <1>1, InitInv, NextInv, PTL DEF Spec
=============================================================================
