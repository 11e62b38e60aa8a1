---------------------------- MODULE ChartsProofs ----------------------------
(***************************************************************************)
(* Proofs about module Charts: for any number of metrics, samples and      *)
(* requests in flight, with failing requests and answers in any order, a   *)
(* chart shows a window of its metric's samples, each once and in order.   *)
(***************************************************************************)
EXTENDS Charts, SequenceTheorems, TLAPS

DataIsWindow(d) == \A m \in 1..Len(d.recs) : IsWindow(d.recs[m], n[m])

(* A poll in flight carries data that will be appended to. *)
GoodCall ==
    {c \in CallType : c.saga = "METRIC_DATA_POLLING" => DataIsWindow(c.data)}

(* The inductive invariant. *)
ChartsInv == TypeOK /\ DataIsWindow(data) /\ calls \in Seq(GoodCall)

-----------------------------------------------------------------------------
(* Sequences *)

(* A function on 1..k is a sequence. *)
LEMMA FunctionIsSeq ==
    ASSUME NEW S, NEW k \in Nat, NEW f \in [1..k -> S]
    PROVE  f \in Seq(S) /\ Len(f) = k
<1>1. f \in Seq(S)
  BY SeqDef
<1> QED
  BY <1>1, LenProperties

(* What taking an element out of a sequence leaves. *)
LEMMA WithoutIsSeq ==
    ASSUME NEW C, NEW s \in Seq(C), NEW i \in 1..Len(s)
    PROVE  Without(s, i) \in Seq(C) /\ Len(Without(s, i)) = Len(s) - 1
<1>1. Len(s) - 1 \in Nat
  OBVIOUS
<1>2. \A j \in 1..(Len(s) - 1) : (IF j < i THEN s[j] ELSE s[j + 1]) \in C
  OBVIOUS
<1>3. Without(s, i) \in [1..(Len(s) - 1) -> C]
  BY <1>2 DEF Without
<1> QED
  BY <1>1, <1>3, FunctionIsSeq

(* What the server answers to a query of a metric. *)
LEMMA SamplesAreSeq ==
    ASSUME NEW f \in Nat, NEW t \in Nat, f <= t
    PROVE  /\ Samples(f, t) \in Seq(Nat) /\ Len(Samples(f, t)) = t - f
           /\ \A i \in 1..(t - f) : Samples(f, t)[i] = f + i
<1>1. t - f \in Nat /\ Samples(f, t) \in [1..(t - f) -> Nat]
  BY DEF Samples
<1>2. Samples(f, t) \in Seq(Nat) /\ Len(Samples(f, t)) = t - f
  BY <1>1, FunctionIsSeq
<1>3. \A i \in 1..(t - f) : Samples(f, t)[i] = f + i
  BY DEF Samples
<1> QED
  BY <1>2, <1>3

(* Appending the samples after f to a window that ends at f. *)
LEMMA WindowExtends ==
    ASSUME NEW f \in Nat, NEW t \in Nat, f <= t, NEW p \in Seq(Nat), Len(p) <= f,
           \A i \in 1..Len(p) : p[i] = f - Len(p) + i
    PROVE  LET q == p \o Samples(f, t) IN
           /\ q \in Seq(Nat) /\ Len(q) <= t
           /\ \A i \in 1..Len(q) : q[i] = t - Len(q) + i
<1> DEFINE s == Samples(f, t)
           q == p \o s
<1>1. /\ s \in Seq(Nat) /\ Len(s) = t - f
      /\ \A i \in 1..(t - f) : s[i] = f + i
  BY SamplesAreSeq
<1> HIDE DEF s
<1>5. s \in Seq(Nat)
  BY <1>1
<1>6. /\ q \in Seq(Nat) /\ Len(q) = Len(p) + Len(s)
      /\ \A i \in 1..(Len(p) + Len(s)) : q[i] = IF i <= Len(p) THEN p[i] ELSE s[i - Len(p)]
  BY <1>5, ConcatProperties
<1> HIDE DEF q
<1>2. q \in Seq(Nat) /\ Len(q) = Len(p) + (t - f)
  BY <1>1, <1>6
<1>3. Len(p) \in Nat
  OBVIOUS
<1>4. ASSUME NEW i \in 1..Len(q) PROVE q[i] = t - Len(q) + i
  <2>1. CASE i <= Len(p)
    <3>1. q[i] = p[i] /\ i \in 1..Len(p)
      BY <1>1, <1>3, <1>4, <1>6, <2>1
    <3> QED
      BY <1>2, <1>3, <3>1
  <2>2. CASE i > Len(p)
    <3>1. q[i] = s[i - Len(p)] /\ i - Len(p) \in 1..(t - f)
      BY <1>1, <1>3, <1>4, <1>6, <2>2
    <3> QED
      BY <1>1, <1>2, <1>3, <3>1
  <2> QED
    BY <1>2, <1>3, <1>4, <2>1, <2>2
<1> QED
  BY <1>2, <1>3, <1>4 DEF s, q

-----------------------------------------------------------------------------
(* Records *)

(* getOfflineMetricData makes a window of what the query returned. *)
LEMMA OfflineRecIsWindow ==
    ASSUME NEW b \in 0..MaxSamples, NEW h \in 0..MaxSamples, b <= h,
           NEW stored \in Nat, h <= stored
    PROVE  OfflineRec(b, h) \in Rec /\ IsWindow(OfflineRec(b, h), stored)
<1> USE ChartsAssumption
<1>1. /\ Samples(b, h) \in Seq(Nat) /\ Len(Samples(b, h)) = h - b
      /\ \A i \in 1..(h - b) : Samples(b, h)[i] = b + i
  BY SamplesAreSeq
<1>2. /\ OfflineRec(b, h).points = Samples(b, h)
      /\ OfflineRec(b, h).last = IF h > b THEN h ELSE 0
      /\ OfflineRec(b, h) \in Rec
  BY <1>1 DEF OfflineRec, Rec
<1>3. IsWindow(OfflineRec(b, h), stored)
  BY <1>1, <1>2 DEF IsWindow
<1> QED
  BY <1>2, <1>3

(* getMetricDataPolling extends a window to a longer one, or starts one. *)
LEMMA PolledRecIsWindow ==
    ASSUME NEW old \in Data, NEW m \in Metric, NEW t \in 0..MaxSamples,
           NEW stored \in Nat, t <= stored,
           m <= Len(old.recs) => IsWindow(old.recs[m], stored)
    PROVE  PolledRec(old, m, t) \in Rec /\ IsWindow(PolledRec(old, m, t), stored)
<1> USE ChartsAssumption
<1> DEFINE f == PolledFrom(old, m)
           p == PolledOnto(old, m)
<1>1. m \in Nat /\ m >= 1 /\ (m <= Len(old.recs) => old.recs[m] \in Rec)
  BY DEF Data, Metric
<1>2. /\ f \in 0..MaxSamples /\ p \in Seq(Nat) /\ Len(p) <= f
      /\ \A i \in 1..Len(p) : p[i] = f - Len(p) + i
  <2>1. CASE HasOld(old, m)
    BY <1>1, <2>1 DEF PolledFrom, PolledOnto, HasOld, IsWindow, Rec
  <2>2. CASE ~HasOld(old, m)
    BY <2>2 DEF PolledFrom, PolledOnto
  <2> QED
    BY <2>1, <2>2
<1>3. CASE t > f
  <2> HIDE DEF f, p
  <2> DEFINE q == p \o Samples(f, t)
             r == [def |-> TRUE, id |-> HasOld(old, m), last |-> t, points |-> q]
  <2>1. f \in Nat /\ t \in Nat /\ f <= t
    BY <1>2, <1>3
  <2>2. /\ q \in Seq(Nat) /\ Len(q) <= t
        /\ \A i \in 1..Len(q) : q[i] = t - Len(q) + i
    BY <1>2, <2>1, WindowExtends
  <2>4. PolledRec(old, m, t) = r
    BY <1>3 DEF PolledRec, f, p
  <2>5. r \in Rec
    BY <2>2 DEF Rec, HasOld
  <2>6. IsWindow(r, stored)
    BY <2>2 DEF IsWindow
  <2> QED
    BY <2>4, <2>5, <2>6
<1>4. CASE ~(t > f)
  <2>1. CASE HasOld(old, m)
    BY <1>1, <1>4, <2>1 DEF PolledRec, HasOld
  <2>2. CASE ~HasOld(old, m)
    <3>1. PolledRec(old, m, t) = Undefined
      BY <1>4, <2>2 DEF PolledRec
    <3>2. Undefined \in Rec /\ IsWindow(Undefined, stored)
      BY DEF Undefined, Rec, IsWindow
    <3> QED
      BY <3>1, <3>2
  <2> QED
    BY <2>1, <2>2
<1> QED
  BY <1>3, <1>4

-----------------------------------------------------------------------------
(* Calls *)

(* What a render dispatches is at most one call, and never a poll. *)
LEMMA EffectsAreCalls ==
    ASSUME TypeOK, gm' \in NoEntry..NMetrics, NEW g
    PROVE  Effects(g) \in Seq(GoodCall) /\ Len(Effects(g)) <= 1
<1> USE ChartsAssumption
<1>1. Call("GRAPHS", rows) \in GoodCall /\ Call("GRAPH_METRICS", rows) \in GoodCall
  BY DEF TypeOK, GoodCall, CallType, Call
<1>2. ASSUME DataWanted
      PROVE  [saga |-> "GRAPH_METRIC_DATA", lo |-> n, k |-> gm',
              realtime |-> shown = Running] \in GoodCall
  <2>1. gm' \in Metric /\ n \in [Metric -> 0..MaxSamples]
    BY <1>2 DEF DataWanted, TypeOK, Metric, NoEntry
  <2> QED
    BY <2>1 DEF GoodCall, CallType
<1> QED
  BY <1>1, <1>2 DEF Effects

LEMMA CallsConcat ==
    ASSUME NEW C, NEW s \in Seq(C), NEW t \in Seq(C)
    PROVE  s \o t \in Seq(C) /\ Len(s \o t) = Len(s) + Len(t)
  BY ConcatProperties

(* An answer takes its call out and adds at most one. *)
LEMMA AnsweredKeepsCalls ==
    ASSUME ChartsInv, NEW i \in 1..Len(calls), NEW g, gm' \in NoEntry..NMetrics,
           Answered(i, g)
    PROVE  /\ calls' \in Seq(GoodCall) /\ Len(calls') <= MaxCalls
           /\ page' \in Page
           /\ UNCHANGED <<server, dead>>
<1> DEFINE w == Without(calls, i)
           e == Effects(g)
<1>1. calls \in Seq(GoodCall) /\ Len(calls) <= MaxCalls /\ page \in Page /\ TypeOK
  BY DEF ChartsInv, TypeOK
<1>2. w \in Seq(GoodCall) /\ Len(w) = Len(calls) - 1
  BY <1>1, WithoutIsSeq
<1>3. e \in Seq(GoodCall) /\ Len(e) <= 1
  BY <1>1, EffectsAreCalls
<1>4. calls' = w \o e /\ Render(page) /\ UNCHANGED <<server, dead>>
  BY DEF Answered
<1>5. page' \in Page
  BY <1>1, <1>4 DEF Render, Page
<1> HIDE DEF w, e
<1>6. w \o e \in Seq(GoodCall) /\ Len(w \o e) = Len(w) + Len(e)
  BY <1>2, <1>3, CallsConcat
<1>7. Len(calls) \in Nat /\ Len(e) \in Nat /\ MaxCalls \in Nat
  BY <1>1, <1>3, ChartsAssumption
<1>8. Len(w \o e) <= MaxCalls
  BY <1>1, <1>2, <1>3, <1>6, <1>7
<1> QED
  BY <1>4, <1>5, <1>6, <1>8

(* A step that changes no sample count keeps the meaning of GoodCall ... *)
LEMMA SameGoodCall ==
    ASSUME n' = n
    PROVE  GoodCall' = GoodCall /\ (\A d \in Data : DataIsWindow(d)' <=> DataIsWindow(d))
  BY DEF GoodCall, DataIsWindow, CallType, IsWindow

LEMMA GoodCallIsCall == GoodCall \subseteq CallType
  BY DEF GoodCall

LEMMA SeqMonotone ==
    ASSUME NEW C, NEW D, C \subseteq D, NEW s \in Seq(C)
    PROVE  s \in Seq(D)
  OBVIOUS

(* What is left to show of a step that stores no sample. *)
LEMMA InvFromParts ==
    ASSUME n' = n, UNCHANGED <<srv, was, rows>>, TypeOK,
           page' \in Page, collapsed' \in BOOLEAN, shown' \in NoEntry..Finished,
           groups' \in BOOLEAN, graphs' \in BOOLEAN, gm' \in NoEntry..NMetrics,
           dead' \in BOOLEAN, data' \in Data, DataIsWindow(data)',
           calls' \in Seq(GoodCall), Len(calls') <= MaxCalls
    PROVE  ChartsInv'
<1>1. calls' \in Seq(GoodCall') /\ calls' \in Seq(CallType)
  BY SameGoodCall, GoodCallIsCall, SeqMonotone
<1>2. TypeOK'
  BY <1>1 DEF TypeOK, CallType, AllRows, Data, Rec, Metric
<1> QED
  BY <1>1, <1>2 DEF ChartsInv

-----------------------------------------------------------------------------
(* The invariant *)

LEMMA InitChartsInv == Init => ChartsInv
<1> SUFFICES ASSUME Init PROVE ChartsInv
  OBVIOUS
<1> USE ChartsAssumption
<1>1. Empty \in Data /\ Len(Empty.recs) = 0
  BY DEF Empty, Data, Rec
<1>2. calls \in Seq(GoodCall) /\ calls \in Seq(CallType) /\ Len(calls) = 0
  BY DEF Init
<1>3. TypeOK
  <2>1. /\ srv \in was /\ was \subseteq Pending..Finished /\ rows \in 0..AllRows
        /\ n \in [Metric -> 0..MaxSamples]
    BY DEF Init, Pending, Finished, AllRows
  <2>2. shown \in NoEntry..Finished /\ gm \in NoEntry..NMetrics
    BY DEF Init, NoEntry, Finished
  <2>4. /\ page \in Page /\ collapsed \in BOOLEAN /\ groups \in BOOLEAN
        /\ graphs \in BOOLEAN /\ data \in Data /\ dead \in BOOLEAN
    BY <1>1, Zenon DEF Init, Page
  <2>3. Len(calls) <= MaxCalls
    BY <1>2
  <2> QED
    BY <1>2, <2>1, <2>2, <2>3, <2>4 DEF TypeOK
<1>4. DataIsWindow(data)
  BY <1>1 DEF Init, DataIsWindow
<1> QED
  BY <1>2, <1>3, <1>4 DEF ChartsInv

(* Storing a sample leaves windows windows. *)
LEMMA SampleKeeps ==
    ASSUME ChartsInv, NEW m \in Metric, Sample(m) PROVE ChartsInv'
<1> USE ChartsAssumption
<1>1. n' \in [Metric -> 0..MaxSamples] /\ \A x \in Metric : n[x] \in Nat /\ n[x] <= n'[x]
  BY DEF Sample, ChartsInv, TypeOK
<1>2. ASSUME NEW d \in Data, DataIsWindow(d) PROVE DataIsWindow(d)'
  <2> SUFFICES ASSUME NEW x \in 1..Len(d.recs) PROVE IsWindow(d.recs[x], n'[x])
    BY DEF DataIsWindow
  <2>1. IsWindow(d.recs[x], n[x]) /\ x \in Metric /\ d.recs[x] \in Rec
    BY <1>2 DEF DataIsWindow, Data, Metric
  <2>2. d.recs[x].last \in Nat
    BY <2>1 DEF Rec
  <2> QED
    BY <1>1, <2>1, <2>2 DEF IsWindow
<1>3. GoodCall \subseteq GoodCall'
  <2> SUFFICES ASSUME NEW c \in GoodCall PROVE c \in GoodCall'
    OBVIOUS
  <2>1. c \in CallType /\ (c.saga = "METRIC_DATA_POLLING" => DataIsWindow(c.data))
    BY DEF GoodCall
  <2>2. c.saga = "METRIC_DATA_POLLING" => c.data \in Data
    BY <2>1 DEF CallType
  <2>3. c.saga = "METRIC_DATA_POLLING" => DataIsWindow(c.data)'
    BY <1>2, <2>1, <2>2
  <2> QED
    BY <2>1, <2>3 DEF GoodCall, CallType
<1>4. UNCHANGED <<srv, was, rows, page, collapsed, store, calls, dead>>
  BY DEF Sample
<1>5. calls' \in Seq(GoodCall')
  <2>1. calls \in Seq(GoodCall) /\ calls' = calls
    BY <1>4 DEF ChartsInv
  <2> QED
    BY <1>3, <2>1, SeqMonotone
<1>6. TypeOK'
  BY <1>1, <1>4 DEF ChartsInv, TypeOK, store, CallType, AllRows, Data, Rec, Metric
<1>7. DataIsWindow(data)'
  <2>1. data \in Data /\ DataIsWindow(data) /\ data' = data
    BY <1>4 DEF ChartsInv, TypeOK, store
  <2> QED
    BY <1>2, <2>1 DEF DataIsWindow
<1> QED
  BY <1>5, <1>6, <1>7 DEF ChartsInv

(* Advance and Register only touch what the page has not asked for. *)
LEMMA ServerKeeps ==
    ASSUME ChartsInv, Advance \/ Register PROVE ChartsInv'
<1> USE ChartsAssumption
<1>1. /\ n' = n /\ UNCHANGED <<page, collapsed, store, calls, dead>>
      /\ srv' \in was' /\ was' \subseteq Pending..Finished /\ rows' \in 0..AllRows
  <2>1. CASE Advance
    BY <2>1 DEF Advance, ChartsInv, TypeOK, Pending, Finished
  <2>2. CASE Register
    BY <2>2 DEF Register, ChartsInv, TypeOK, AllRows
  <2> QED
    BY <2>1, <2>2
<1>2. calls' \in Seq(GoodCall') /\ calls' \in Seq(CallType)
  BY <1>1, SameGoodCall, GoodCallIsCall, SeqMonotone DEF ChartsInv
<1>3. TypeOK'
  BY <1>1, <1>2 DEF ChartsInv, TypeOK, store, CallType, AllRows, Data, Rec, Metric
<1>4. DataIsWindow(data)'
  BY <1>1 DEF ChartsInv, DataIsWindow, store
<1> QED
  BY <1>2, <1>3, <1>4 DEF ChartsInv

(* Mounting and unmounting; the calls that go with it. *)
LEMMA UserKeeps ==
    ASSUME ChartsInv, User PROVE ChartsInv'
<1> USE ChartsAssumption
<1>1. /\ TypeOK /\ DataIsWindow(data) /\ data \in Data /\ gm \in NoEntry..NMetrics
      /\ page \in Page /\ calls \in Seq(GoodCall) /\ Len(calls) <= MaxCalls
  BY DEF ChartsInv, TypeOK
<1>2. ASSUME UNCHANGED <<server, store, dead>>, collapsed' \in BOOLEAN, page' \in Page,
             calls' \in Seq(GoodCall), Len(calls') <= MaxCalls
      PROVE  ChartsInv'
  <2>1. DataIsWindow(data)'
    BY <1>1, <1>2 DEF DataIsWindow, server, store
  <2>2. /\ n' = n /\ UNCHANGED <<srv, was, rows>> /\ data' = data
        /\ UNCHANGED <<shown, groups, graphs, gm, dead>>
    BY <1>2 DEF server, store
  <2>3. /\ shown' \in NoEntry..Finished /\ groups' \in BOOLEAN /\ graphs' \in BOOLEAN
        /\ gm' \in NoEntry..NMetrics /\ dead' \in BOOLEAN /\ data' \in Data
    BY <1>1, <2>2, Zenon DEF TypeOK
  <2> QED
    BY <1>1, <1>2, <2>1, <2>2, <2>3, InvFromParts
<1>3. Call("DETAIL", srv) \in GoodCall /\ Call("GROUPS", rows) \in GoodCall
  BY <1>1 DEF TypeOK, GoodCall, CallType, Call
<1>4. \A g : UNCHANGED store => Effects(g) \in Seq(GoodCall) /\ Len(Effects(g)) <= 1
  BY <1>1, EffectsAreCalls DEF store
<1>5. \A p \in Page : Render(p) => page' \in Page
  BY DEF Render, Page
<1>6. CASE Open
  <2> DEFINE o == <<Call("DETAIL", srv), Call("GROUPS", rows)>>
             e == Effects(FALSE)
  <2>1. o \in Seq(GoodCall)
    BY <1>3
  <2>2. e \in Seq(GoodCall)
    BY <1>4, <1>6 DEF Open
  <2>3. calls' = (calls \o o) \o e /\ Len(calls') <= MaxCalls
    BY <1>6 DEF Open
  <2> HIDE DEF o, e
  <2>4. calls \o o \in Seq(GoodCall)
    BY <1>1, <2>1, CallsConcat
  <2>5. calls' \in Seq(GoodCall)
    BY <2>2, <2>3, <2>4, CallsConcat
  <2>6. page' \in Page /\ UNCHANGED <<server, store, dead>> /\ collapsed' \in BOOLEAN
    BY <1>5, <1>6 DEF Open, Page
  <2> QED
    BY <1>2, <2>3, <2>5, <2>6
<1>7. CASE BackToTab
  <2> DEFINE o == <<Call("GROUPS", rows)>>
             e == Effects(FALSE)
  <2>1. o \in Seq(GoodCall)
    BY <1>3
  <2>2. e \in Seq(GoodCall)
    BY <1>4, <1>7 DEF BackToTab
  <2>3. calls' = (calls \o o) \o e /\ Len(calls') <= MaxCalls
    BY <1>7 DEF BackToTab
  <2> HIDE DEF o, e
  <2>4. calls \o o \in Seq(GoodCall)
    BY <1>1, <2>1, CallsConcat
  <2>5. calls' \in Seq(GoodCall)
    BY <2>2, <2>3, <2>4, CallsConcat
  <2>6. page' \in Page /\ UNCHANGED <<server, store, dead>> /\ collapsed' \in BOOLEAN
    BY <1>5, <1>7 DEF BackToTab, Page
  <2> QED
    BY <1>2, <2>3, <2>5, <2>6
<1>8. CASE Toggle
  <2> DEFINE e == Effects(FALSE)
  <2>2. e \in Seq(GoodCall)
    BY <1>4, <1>8 DEF Toggle
  <2>3. calls' = calls \o e /\ Len(calls') <= MaxCalls
    BY <1>8 DEF Toggle
  <2> HIDE DEF e
  <2>5. calls' \in Seq(GoodCall)
    BY <1>1, <2>2, <2>3, CallsConcat
  <2>6. page' \in Page /\ UNCHANGED <<server, store, dead>> /\ collapsed' \in BOOLEAN
    BY <1>1, <1>5, <1>8 DEF Toggle
  <2> QED
    BY <1>2, <2>3, <2>5, <2>6
<1>9. CASE LeaveTab \/ Close
  <2>1. page' \in Page /\ UNCHANGED <<server, collapsed, store, calls, dead>>
    BY <1>9 DEF LeaveTab, Close, Page
  <2> QED
    BY <1>1, <1>2, <2>1 DEF TypeOK
<1>10. CASE Reload
  <2>1. Empty \in Data /\ Len(Empty.recs) = 0
    BY DEF Empty, Data, Rec
  <2>2. calls' \in Seq(GoodCall) /\ Len(calls') = 0
    BY <1>10 DEF Reload
  <2>3. data' \in Data /\ DataIsWindow(data)'
    BY <1>10, <2>1 DEF Reload, DataIsWindow
  <2>4. shown' \in NoEntry..Finished /\ gm' \in NoEntry..NMetrics
    BY <1>10 DEF Reload, NoEntry, Finished
  <2>5. /\ n' = n /\ UNCHANGED <<srv, was, rows>> /\ page' \in Page
        /\ collapsed' \in BOOLEAN /\ groups' \in BOOLEAN /\ graphs' \in BOOLEAN
        /\ dead' \in BOOLEAN
    BY <1>10, Zenon DEF Reload, server, Page
  <2>6. Len(calls') <= MaxCalls
    BY <2>2
  <2> QED
    BY <1>1, <2>2, <2>3, <2>4, <2>5, <2>6, InvFromParts
<1> QED
  BY <1>6, <1>7, <1>8, <1>9, <1>10 DEF User

(* The timers: a poll captures the data of the moment, which is a window. *)
LEMMA TimerKeeps ==
    ASSUME ChartsInv, Timer PROVE ChartsInv'
<1> USE ChartsAssumption
<1>1. /\ TypeOK /\ DataIsWindow(data) /\ data \in Data /\ gm \in NoEntry..NMetrics
      /\ page \in Page /\ calls \in Seq(GoodCall) /\ Len(calls) <= MaxCalls
  BY DEF ChartsInv, TypeOK
<1>2. ASSUME UNCHANGED <<server, page, collapsed, shown, groups, graphs, gm>>,
             data' \in Data, DataIsWindow(data)', dead' \in BOOLEAN,
             calls' \in Seq(GoodCall), Len(calls') <= MaxCalls
      PROVE  ChartsInv'
  <2>1. n' = n /\ UNCHANGED <<srv, was, rows>>
    BY <1>2 DEF server
  <2>2. /\ page' \in Page /\ collapsed' \in BOOLEAN /\ shown' \in NoEntry..Finished
        /\ groups' \in BOOLEAN /\ graphs' \in BOOLEAN /\ gm' \in NoEntry..NMetrics
    BY <1>1, <1>2, Zenon DEF TypeOK
  <2> QED
    BY <1>1, <1>2, <2>1, <2>2, InvFromParts
<1>3. ASSUME NEW c \in GoodCall, Len(calls) < MaxCalls
      PROVE  Append(calls, c) \in Seq(GoodCall) /\ Len(Append(calls, c)) <= MaxCalls
  BY <1>1, <1>3
<1>4. ASSUME NEW c \in GoodCall, Dispatch(c) PROVE ChartsInv'
  <2>1. calls' \in Seq(GoodCall) /\ Len(calls') <= MaxCalls
    BY <1>3, <1>4 DEF Dispatch
  <2>2. data' = data /\ n' = n /\ dead' = dead
        /\ UNCHANGED <<server, page, collapsed, shown, groups, graphs, gm>>
    BY <1>4 DEF Dispatch, store, server
  <2>3. data' \in Data /\ DataIsWindow(data)' /\ dead' \in BOOLEAN
    BY <1>1, <2>2 DEF TypeOK, DataIsWindow
  <2> QED
    BY <1>2, <2>1, <2>2, <2>3
<1>5. Call("DETAIL", srv) \in GoodCall /\ Call("GROUPS", rows) \in GoodCall
  BY <1>1 DEF TypeOK, GoodCall, CallType, Call
<1>6. CASE DetailTick \/ GroupsTick
  BY <1>4, <1>5, <1>6 DEF DetailTick, GroupsTick
<1>7. CASE PollTick
  <2> DEFINE c == [saga |-> "METRIC_DATA_POLLING", lo |-> n, k |-> gm, data |-> data]
  <2>1. /\ UNCHANGED <<server, page, collapsed, shown, groups, graphs, gm>>
        /\ Len(calls) < MaxCalls
    BY <1>7 DEF PollTick
  <2>2. CASE gm <= 0 /\ data' = Empty /\ UNCHANGED <<calls, dead>>
    <3>1. Empty \in Data /\ Len(Empty.recs) = 0
      BY DEF Empty, Data, Rec
    <3>2. data' \in Data /\ DataIsWindow(data)'
      BY <2>2, <3>1 DEF DataIsWindow
    <3>3. dead' \in BOOLEAN /\ calls' = calls
      BY <1>1, <2>2 DEF TypeOK
    <3> QED
      BY <1>1, <1>2, <2>1, <3>2, <3>3
  <2>3. CASE gm > 0 /\ calls' = Append(calls, c) /\ UNCHANGED <<data, dead>>
    <3>1. gm \in Metric /\ n \in [Metric -> 0..MaxSamples]
      BY <1>1, <2>3 DEF TypeOK, Metric, NoEntry
    <3>2. c \in GoodCall
      BY <1>1, <3>1 DEF GoodCall, CallType
    <3>3. calls' \in Seq(GoodCall) /\ Len(calls') <= MaxCalls
      BY <1>3, <2>1, <2>3, <3>2
    <3>4. data' \in Data /\ DataIsWindow(data)' /\ dead' \in BOOLEAN
      BY <1>1, <2>1, <2>3 DEF TypeOK, DataIsWindow, server
    <3> QED
      BY <1>2, <2>1, <3>3, <3>4
  <2>4. CASE calls' = <<>> /\ dead' = TRUE /\ UNCHANGED data
    <3>1. calls' \in Seq(GoodCall) /\ Len(calls') = 0
      BY <2>4
    <3>2. data' \in Data /\ DataIsWindow(data)'
      BY <1>1, <2>1, <2>4 DEF DataIsWindow, server
    <3>3. Len(calls') <= MaxCalls
      BY <3>1
    <3> QED
      BY <1>2, <2>1, <2>4, <3>1, <3>2, <3>3
  <2> QED
    BY <1>7, <2>2, <2>3, <2>4 DEF PollTick
<1> QED
  BY <1>6, <1>7 DEF Timer

(* An answer, or a failure, that leaves a window in the store. *)
LEMMA AnswerKeeps ==
    ASSUME ChartsInv, NEW i \in 1..Len(calls), Answer(i) \/ Fail(i) PROVE ChartsInv'
<1> USE ChartsAssumption
<1>1. /\ TypeOK /\ DataIsWindow(data) /\ data \in Data /\ gm \in NoEntry..NMetrics
      /\ calls \in Seq(GoodCall) /\ n \in [Metric -> 0..MaxSamples]
      /\ collapsed \in BOOLEAN /\ groups \in BOOLEAN /\ graphs \in BOOLEAN
      /\ shown \in NoEntry..Finished /\ dead \in BOOLEAN
  BY DEF ChartsInv, TypeOK
<1>2. ASSUME NEW g, Answered(i, g), collapsed' \in BOOLEAN, shown' \in NoEntry..Finished,
             groups' \in BOOLEAN, graphs' \in BOOLEAN, gm' \in NoEntry..NMetrics,
             data' \in Data, DataIsWindow(data')
      PROVE  ChartsInv'
  <2>1. /\ calls' \in Seq(GoodCall) /\ Len(calls') <= MaxCalls
        /\ page' \in Page /\ UNCHANGED <<server, dead>>
    BY <1>2, AnsweredKeepsCalls
  <2>2. n' = n /\ UNCHANGED <<srv, was, rows>> /\ dead' \in BOOLEAN
    BY <1>1, <2>1 DEF server
  <2>3. DataIsWindow(data)'
    BY <1>2, <2>2 DEF DataIsWindow
  <2> QED
    BY <1>1, <1>2, <2>1, <2>2, <2>3, InvFromParts
<1>3. CASE DETAIL(i)
  <2>1. shown' \in NoEntry..Finished
    <3>1. PICK s \in was : shown' = s
      BY <1>3 DEF DETAIL
    <3>2. was \subseteq Pending..Finished
      BY <1>1 DEF TypeOK
    <3> QED
      BY <3>1, <3>2 DEF NoEntry, Pending, Finished
  <2> QED
    BY <1>1, <1>2, <1>3, <2>1 DEF DETAIL
<1>4. CASE GROUPS(i)
  <2>1. groups' \in BOOLEAN /\ collapsed' \in BOOLEAN
    BY <1>4 DEF GROUPS
  <2> QED
    BY <1>1, <1>2, <1>4, <2>1 DEF GROUPS
<1>5. CASE GRAPHS(i)
  <2>1. graphs' \in BOOLEAN
    BY <1>5 DEF GRAPHS
  <2> QED
    BY <1>1, <1>2, <1>5, <2>1 DEF GRAPHS
<1>6. CASE GRAPH_METRICS(i)
  <2>1. gm' \in NoEntry..NMetrics
    <3>1. PICK r \in calls[i].lo..rows : gm' = IF r > 2 THEN r - 2 ELSE 0
      BY <1>6 DEF GRAPH_METRICS
    <3>2. calls[i].lo \in Nat /\ rows \in 0..AllRows
      <4>1. calls[i] \in CallType /\ calls[i].saga = "GRAPH_METRICS"
        BY <1>1, <1>6 DEF GRAPH_METRICS, GoodCall
      <4>2. calls[i].lo \in 0..AllRows
        BY <4>1 DEF CallType
      <4> QED
        BY <1>1, <4>2 DEF TypeOK, AllRows
    <3> QED
      BY <3>1, <3>2 DEF NoEntry, AllRows
  <2> QED
    BY <1>1, <1>2, <1>6, <2>1 DEF GRAPH_METRICS
<1>7. CASE GRAPH_METRIC_DATA(i)
  <2>1. PICK b \in [1..calls[i].k -> 0..MaxSamples], h \in [1..calls[i].k -> 0..MaxSamples] :
          /\ \A m \in 1..calls[i].k : b[m] <= h[m] /\ h[m] <= n[m]
          /\ data' = [ok |-> TRUE, recs |-> [m \in 1..calls[i].k |-> OfflineRec(b[m], h[m])]]
    BY <1>7 DEF GRAPH_METRIC_DATA
  <2> DEFINE k == calls[i].k
             rs == [m \in 1..k |-> OfflineRec(b[m], h[m])]
  <2>2. k \in Metric
    <3>1. calls[i] \in CallType /\ calls[i].saga = "GRAPH_METRIC_DATA"
      BY <1>1, <1>7 DEF GRAPH_METRIC_DATA, GoodCall
    <3> QED
      BY <3>1 DEF CallType
  <2>3. \A m \in 1..k : OfflineRec(b[m], h[m]) \in Rec /\ IsWindow(OfflineRec(b[m], h[m]), n[m])
    <3> SUFFICES ASSUME NEW m \in 1..k
                 PROVE OfflineRec(b[m], h[m]) \in Rec /\ IsWindow(OfflineRec(b[m], h[m]), n[m])
      OBVIOUS
    <3>1. /\ b[m] \in 0..MaxSamples /\ h[m] \in 0..MaxSamples /\ n[m] \in Nat
          /\ b[m] <= h[m] /\ h[m] <= n[m]
      <4>1. m \in Metric
        BY <2>2 DEF Metric
      <4>2. n[m] \in 0..MaxSamples
        BY <1>1, <4>1
      <4> QED
        BY <2>1, <4>2
    <3> QED
      BY <3>1, OfflineRecIsWindow
  <2>4. rs \in Seq(Rec) /\ Len(rs) = k
    <3>1. k \in Nat /\ rs \in [1..k -> Rec]
      BY <2>2, <2>3 DEF Metric
    <3> QED
      BY <3>1, FunctionIsSeq
  <2>5. data' \in Data /\ DataIsWindow(data')
    BY <2>1, <2>2, <2>3, <2>4 DEF Data, DataIsWindow, Metric
  <2> QED
    BY <1>1, <1>2, <1>7, <2>5 DEF GRAPH_METRIC_DATA
<1>8. CASE METRIC_DATA_POLLING(i)
  <2>1. PICK t \in [1..calls[i].k -> 0..MaxSamples] :
          /\ \A m \in 1..calls[i].k : t[m] <= n[m]
          /\ data' = [ok |-> TRUE,
                      recs |-> [m \in 1..calls[i].k |-> PolledRec(calls[i].data, m, t[m])]]
    BY <1>8 DEF METRIC_DATA_POLLING
  <2> DEFINE k == calls[i].k
             old == calls[i].data
             rs == [m \in 1..k |-> PolledRec(old, m, t[m])]
  <2>2. k \in Metric /\ old \in Data /\ DataIsWindow(old)
    <3>1. calls[i] \in GoodCall /\ calls[i].saga = "METRIC_DATA_POLLING"
      BY <1>1, <1>8 DEF METRIC_DATA_POLLING
    <3>2. calls[i] \in CallType /\ DataIsWindow(calls[i].data)
      BY <3>1 DEF GoodCall
    <3>3. calls[i].k \in Metric /\ calls[i].data \in Data
      BY <3>1, <3>2 DEF CallType
    <3> QED
      BY <3>2, <3>3
  <2> HIDE DEF k, old
  <2>3. \A m \in 1..k : PolledRec(old, m, t[m]) \in Rec /\ IsWindow(PolledRec(old, m, t[m]), n[m])
    <3> SUFFICES ASSUME NEW m \in 1..k
                 PROVE PolledRec(old, m, t[m]) \in Rec /\ IsWindow(PolledRec(old, m, t[m]), n[m])
      OBVIOUS
    <3>1. m \in Metric /\ t[m] \in 0..MaxSamples /\ n[m] \in Nat /\ t[m] <= n[m]
      <4>1. m \in Metric
        BY <2>2 DEF Metric
      <4>2. n[m] \in 0..MaxSamples
        BY <1>1, <4>1
      <4> QED
        BY <2>1, <4>1, <4>2 DEF k
    <3>2. m <= Len(old.recs) => IsWindow(old.recs[m], n[m])
      BY <2>2, <3>1 DEF DataIsWindow, Data, Metric
    <3> QED
      BY <2>2, <3>1, <3>2, PolledRecIsWindow
  <2>4. rs \in Seq(Rec) /\ Len(rs) = k
    <3>1. k \in Nat /\ rs \in [1..k -> Rec]
      BY <2>2, <2>3 DEF Metric
    <3> QED
      BY <3>1, FunctionIsSeq
  <2>5. data' \in Data /\ DataIsWindow(data')
    <3>1. data' = [ok |-> TRUE, recs |-> rs]
      BY <2>1 DEF k, old
    <3> QED
      BY <2>2, <2>3, <2>4, <3>1 DEF Data, DataIsWindow, Metric
  <2> QED
    BY <1>1, <1>2, <1>8, <2>5 DEF METRIC_DATA_POLLING
<1>9. CASE Fail(i)
  <2>1. Error \in Data /\ Len(Error.recs) = 0
    BY DEF Error, Data, Rec
  <2>2. data' \in Data /\ DataIsWindow(data')
    BY <1>1, <1>9, <2>1 DEF Fail, DataIsWindow
  <2> QED
    BY <1>1, <1>2, <1>9, <2>2 DEF Fail
<1> QED
  BY <1>3, <1>4, <1>5, <1>6, <1>7, <1>8, <1>9 DEF Answer

LEMMA NextChartsInv == ChartsInv /\ [Next]_vars => ChartsInv'
<1> SUFFICES ASSUME ChartsInv, [Next]_vars PROVE ChartsInv'
  OBVIOUS
<1>1. CASE UNCHANGED vars
  BY <1>1 DEF vars, server, store, ChartsInv, TypeOK, DataIsWindow, GoodCall, CallType,
              AllRows, Data, Rec, Metric
<1>2. CASE Next
  BY <1>2, SampleKeeps, ServerKeeps, UserKeeps, TimerKeeps, AnswerKeeps DEF Next, Server
<1> QED
  BY <1>1, <1>2

(* The types of the page's state hold in every state: among them, that a graph
   never has data for more metrics than it has (sagas.js, SET_GRAPH_METRIC_DATA). *)
THEOREM ChartsTypes == Spec => []TypeOK
<1>1. ChartsInv => TypeOK
  BY DEF ChartsInv
<1> QED
  BY <1>1, InitChartsInv, NextChartsInv, PTL DEF Spec

(* getMetricDataPolling: for every number of metrics, samples and overlapping
   polls, and whichever fail, a chart shows a window of the stored samples. *)
THEOREM ChartsAreWindows == Spec => []ChartIsWindow
<1>1. ChartsInv => ChartIsWindow
  BY DEF ChartsInv, DataIsWindow, ChartIsWindow
<1> QED
  BY <1>1, InitChartsInv, NextChartsInv, PTL DEF Spec
=============================================================================
