---------------------------- MODULE MetricsProofs ----------------------------
(***************************************************************************)
(* Proofs about Metrics, for every set of virtual users and every tree of  *)
(* groups, graphs and metrics that their clients set up, with and without  *)
(* failing RPCs.                                                           *)
(***************************************************************************)
EXTENDS Metrics, TLAPS

Inv == TypeOK /\ SetupInv /\ NoDuplicateRows /\ UnitsHaveRows

(* The plans are nonempty sequences of nodes. *)
LEMMA PlanFacts ==
    ASSUME NEW c \in Caller
    PROVE  /\ Plan[c] \in Seq(Node)
           /\ Len(Plan[c]) \in Nat \ {0}
           /\ \A i \in 1 .. Len(Plan[c]) : Plan[c][i] \in Node
<1>1. Plan[c] \in Seq(Node) /\ Len(Plan[c]) > 0
    BY MetricsAssumption
<1> QED
    BY <1>1

(* A caller inside Setup is at a node of its plan. *)
LEMMA NodeType ==
    ASSUME TypeOK, SetupInv, NEW c \in Caller, pc[c] \in InSetup \ {"merge"}
    PROVE  node(c) \in Node /\ idx[c] \in 1 .. Len(Plan[c])
BY PlanFacts DEF SetupInv, node

(* The initial state. *)
LEMMA MetricsInit == Init => Inv
<1> SUFFICES ASSUME Init PROVE Inv
    OBVIOUS
<1> USE MetricsAssumption DEF Init
<1>1. TypeOK
    <2>1. ASSUME NEW c \in Caller
          PROVE  idx[c] \in 1 .. (Len(Plan[c]) + 1)
        <3>1. Len(Plan[c]) \in Nat
            BY PlanFacts
        <3> HIDE MetricsAssumption
        <3> QED
            BY <3>1
    <2>2. notes \in 0 .. MaxNotes
        OBVIOUS
    <2> HIDE MetricsAssumption
    <2>3. /\ pc \in [Caller -> {"new", "ready", "failed"} \cup InSetup]
          /\ idx \in [Caller -> Nat] /\ local \in [Caller -> SUBSET Title]
        BY DEF InSetup
    <2>4. count \in [Title -> Int] /\ saved \in [Title -> Int] /\ rows \in [Node -> Nat]
        OBVIOUS
    <2> QED
        BY <2>1, <2>2, <2>3, <2>4 DEF TypeOK
<1>2. SetupInv
    BY DEF SetupInv, InSetup
<1>3. NoDuplicateRows /\ UnitsHaveRows
    BY DEF NoDuplicateRows, UnitsHaveRows
<1> QED
    BY <1>1, <1>2, <1>3 DEF Inv

(* Every step keeps the variables within their types. *)
LEMMA MetricsTypeStep == Inv /\ [Next]_vars => TypeOK'
<1> SUFFICES ASSUME Inv, [Next]_vars
             PROVE  TypeOK'
    OBVIOUS
<1> USE MetricsAssumption, PlanFacts DEF Inv, TypeOK, InSetup, callerVars, counts
<1>1. ASSUME NEW c \in Caller, Lock(c)
      PROVE  TypeOK'
    BY <1>1 DEF Lock, Goto
<1>2. ASSUME NEW c \in Caller, Find(c)
      PROVE  TypeOK'
    BY <1>2 DEF Find, Goto
<1>3. ASSUME NEW c \in Caller, Create(c)
      PROVE  TypeOK'
    <2>1. node(c) \in Node
        BY <1>3, NodeType DEF Create, At
    <2>2. rows' \in [Node -> Nat] /\ pc' \in [Caller -> {"new", "ready", "failed"} \cup InSetup]
        BY <1>3, <2>1 DEF Create, Goto
    <2> HIDE MetricsAssumption, PlanFacts
    <2> QED
        BY <1>3, <2>2 DEF Create
<1>4. ASSUME NEW c \in Caller, Register(c)
      PROVE  TypeOK'
    <2>1. idx[c] \in 1 .. Len(Plan[c])
        BY <1>4, NodeType DEF Register, At
    <2>2. idx' = [idx EXCEPT ![c] = idx[c] + 1]
        BY <1>4 DEF Register, Advance
    <2>3. idx' \in [Caller -> Nat]
        BY <2>1, <2>2
    <2>4. ASSUME NEW d \in Caller
          PROVE  idx'[d] \in 1 .. (Len(Plan[d]) + 1)
        <3>1. CASE d = c
            <4>1. Len(Plan[c]) \in Nat
                BY PlanFacts
            <4> HIDE MetricsAssumption, PlanFacts
            <4> QED
                BY <2>1, <2>2, <3>1, <4>1
        <3>2. CASE d # c
            BY <2>2, <3>2
        <3> QED
            BY <3>1, <3>2
    <2>5. pc' \in [Caller -> {"new", "ready", "failed"} \cup InSetup]
        BY <1>4 DEF Register, Advance, Goto
    <2>6. registry' \subseteq Title /\ local' \in [Caller -> SUBSET Title]
        <3> HIDE MetricsAssumption, PlanFacts
        <3>1. CASE node(c) \in Title \ registry
            <4>1. local[c] \cup {node(c)} \in SUBSET Title
                BY <3>1
            <4>2. local' = [local EXCEPT ![c] = local[c] \cup {node(c)}]
                BY <1>4, <3>1 DEF Register
            <4>3. registry' = registry \cup {node(c)}
                BY <1>4, <3>1 DEF Register
            <4> QED
                BY <3>1, <4>1, <4>2, <4>3
        <3>2. CASE node(c) \notin Title \ registry
            BY <1>4, <3>2 DEF Register
        <3> QED
            BY <3>1, <3>2
    <2> QED
        BY <1>4, <2>3, <2>4, <2>5, <2>6 DEF Register
<1>5. ASSUME NEW c \in Caller, Merge(c)
      PROVE  TypeOK'
    BY <1>5 DEF Merge, Goto
<1>6. ASSUME NEW c \in Caller, ConcurrentMapWrite(c) \/ SetupFails(c)
      PROVE  TypeOK'
    BY <1>6 DEF ConcurrentMapWrite, SetupFails, Goto
<1>7. ASSUME NEW c \in Caller, NEW t \in Title, Notify(c, t)
      PROVE  TypeOK'
    <2>1. PICK v \in Value : count' = [count EXCEPT ![t] = IF t \in Gauge THEN v ELSE count[t] + v]
        BY <1>7 DEF Notify
    <2>2. v \in Int /\ count[t] \in Int
        OBVIOUS
    <2>3. count' \in [Title -> Int]
        BY <2>1, <2>2
    <2>4. notes' \in 0 .. MaxNotes
        BY <1>7 DEF Notify
    <2> QED
        BY <1>7, <2>3, <2>4 DEF Notify
<1>8. CASE Tick \/ Terminate
    BY <1>8 DEF Tick, Terminate
<1>9. ASSUME NEW t \in Title, Send(t)
      PROVE  TypeOK'
    BY <1>9 DEF Send
<1>10. CASE UNCHANGED vars
    BY <1>10 DEF vars
<1> QED
    BY <1>1, <1>2, <1>3, <1>4, <1>5, <1>6, <1>7, <1>8, <1>9, <1>10 DEF Next, Setup

(* Every step of the metrics preserves the invariant of Setup and what follows
   from it: only the holder of the lock finds and creates. *)
LEMMA SetupStep ==
    Inv /\ [Next]_vars => SetupInv' /\ NoDuplicateRows' /\ UnitsHaveRows'
<1> SUFFICES ASSUME Inv, [Next]_vars
             PROVE  SetupInv' /\ NoDuplicateRows' /\ UnitsHaveRows'
    OBVIOUS
<1> USE MetricsAssumption, PlanFacts
        DEF Inv, TypeOK, SetupInv, NoDuplicateRows, UnitsHaveRows, InSetup, node, At, callerVars
<1>1. ASSUME NEW c \in Caller, Lock(c)
      PROVE  SetupInv' /\ NoDuplicateRows' /\ UnitsHaveRows'
    BY <1>1 DEF Lock, Goto
<1>2. ASSUME NEW c \in Caller, Find(c)
      PROVE  SetupInv' /\ NoDuplicateRows' /\ UnitsHaveRows'
    <2>1. pc[c] = "find" /\ mu = c /\ idx[c] \in 1 .. Len(Plan[c]) /\ node(c) \in Node
        BY <1>2, NodeType DEF Find
    <2>2. /\ pc' = [pc EXCEPT ![c] = IF rows[node(c)] > 0 THEN "register" ELSE "create"]
          /\ UNCHANGED <<mu, idx, local, units, rows>>
        BY <1>2 DEF Find, Goto
    <2>3. rows[node(c)] \in Nat /\ c \in DOMAIN pc
        BY <2>1
    <2> HIDE MetricsAssumption, PlanFacts
    <2> QED
        BY <2>1, <2>2, <2>3
<1>3. ASSUME NEW c \in Caller, Create(c)
      PROVE  SetupInv' /\ NoDuplicateRows' /\ UnitsHaveRows'
    BY <1>3, NodeType DEF Create, Goto
<1>4. ASSUME NEW c \in Caller, Register(c)
      PROVE  SetupInv' /\ NoDuplicateRows' /\ UnitsHaveRows'
    <2>1. /\ pc[c] = "register" /\ mu = c /\ rows[node(c)] > 0
          /\ idx[c] \in 1 .. Len(Plan[c])
        BY <1>4, NodeType DEF Register
    <2>2. /\ idx' = [idx EXCEPT ![c] = idx[c] + 1]
          /\ pc' = [pc EXCEPT ![c] = IF idx[c] < Len(Plan[c]) THEN "find" ELSE "merge"]
          /\ UNCHANGED <<mu, units, rows>>
        BY <1>4 DEF Register, Advance, Goto
    <2>3. \A d \in Caller : d # c => local'[d] = local[d]
        BY <1>4 DEF Register
    <2>4. \A t \in local'[c] : rows[t] > 0
        <3>1. local'[c] \subseteq local[c] \cup {node(c)}
            BY <1>4 DEF Register
        <3>2. \A t \in local[c] : rows[t] > 0
            BY <2>1
        <3> QED
            BY <2>1, <3>1, <3>2
    <2>5. ASSUME NEW d \in Caller, d # c
          PROVE  pc'[d] = pc[d] /\ idx'[d] = idx[d] /\ pc[d] \notin InSetup
        BY <2>1, <2>2, <2>5
    <2>6. /\ pc'[c] \in {"find", "merge"} /\ mu' = c
          /\ pc'[c] = "find" => idx'[c] \in 1 .. Len(Plan[c])
        <3>1. Len(Plan[c]) \in Nat
            BY PlanFacts
        <3>2. pc[c] \in {"register"} /\ c \in DOMAIN pc /\ c \in DOMAIN idx
            BY <2>1
        <3> HIDE MetricsAssumption, PlanFacts
        <3> QED
            BY <2>1, <2>2, <3>1, <3>2
    <2>7. SetupInv'
        <3> HIDE MetricsAssumption, PlanFacts DEF Inv, node
        <3> QED
            BY <2>2, <2>3, <2>4, <2>5, <2>6
    <2> QED
        BY <2>2, <2>7
<1>5. ASSUME NEW c \in Caller, Merge(c)
      PROVE  SetupInv' /\ NoDuplicateRows' /\ UnitsHaveRows'
    BY <1>5 DEF Merge, Goto
<1>6. ASSUME NEW c \in Caller, ConcurrentMapWrite(c) \/ SetupFails(c)
      PROVE  SetupInv' /\ NoDuplicateRows' /\ UnitsHaveRows'
    BY <1>6 DEF ConcurrentMapWrite, SetupFails, Goto
<1>7. ASSUME NEW c \in Caller, NEW t \in Title, Notify(c, t)
      PROVE  SetupInv' /\ NoDuplicateRows' /\ UnitsHaveRows'
    BY <1>7 DEF Notify
<1>8. CASE Tick \/ Terminate
    BY <1>8 DEF Tick, Terminate
<1>9. ASSUME NEW t \in Title, Send(t)
      PROVE  SetupInv' /\ NoDuplicateRows' /\ UnitsHaveRows'
    BY <1>9 DEF Send
<1>10. CASE UNCHANGED vars
    BY <1>10 DEF vars
<1> QED
    BY <1>1, <1>2, <1>3, <1>4, <1>5, <1>6, <1>7, <1>8, <1>9, <1>10 DEF Next, Setup

(* The invariants of the metrics hold in every reachable state. *)
LEMMA MetricsInvariant == Spec => []Inv
<1>1. Inv /\ [Next]_vars => Inv'
    BY MetricsTypeStep, SetupStep DEF Inv
<1> QED
    BY <1>1, MetricsInit, PTL DEF Spec

(* No group, graph or metric ever gets a second row, although the master finds
   and creates in two transactions and the tables have no unique index. *)
THEOREM RowsAreUnique == Spec => []NoDuplicateRows
<1>1. Inv => NoDuplicateRows
    BY DEF Inv
<1> QED
    BY <1>1, MetricsInvariant, PTL

(* Every metric the executor reports refers to a row. *)
THEOREM ReportedMetricsExist == Spec => []UnitsHaveRows
<1>1. Inv => UnitsHaveRows
    BY DEF Inv
<1> QED
    BY <1>1, MetricsInvariant, PTL

(* The variables stay within their types. *)
THEOREM MetricsTypes == Spec => []TypeOK
<1>1. Inv => TypeOK
    BY DEF Inv
<1> QED
    BY <1>1, MetricsInvariant, PTL

(* A Setup holds executorInst.mu from its first RPC to its aggregation, and what
   its find saw is still true when it creates. *)
THEOREM SetupHoldsLock == Spec => []SetupInv
<1>1. Inv => SetupInv
    BY DEF Inv
<1> QED
    BY <1>1, MetricsInvariant, PTL

-----------------------------------------------------------------------------
(* Titles are known after Setup *)

(* A registered title is in units or in the local map of a Setup under way. *)
Held == \A t \in registry : t \in units \/ \E c \in Caller : pc[c] \in InSetup /\ t \in local[c]

(* A Setup has registered the titles it has passed ... *)
Passed ==
    \A c \in Caller : pc[c] \in InSetup =>
        \A i \in 1 .. Len(Plan[c]) : i < idx[c] /\ Plan[c][i] \in Title => Plan[c][i] \in registry

(* ... which are all of them when it aggregates ... *)
Complete == \A c \in Caller : pc[c] = "merge" => idx[c] = Len(Plan[c]) + 1

(* ... and are known once it has. *)
Known ==
    \A c \in Caller : pc[c] = "ready" =>
        \A i \in 1 .. Len(Plan[c]) : Plan[c][i] \in Title => Plan[c][i] \in units

(* A Setup that fails loses its local map, not what it registered. *)
KnownInv == ~failed => Held /\ Passed /\ Complete /\ Known

(* Every step preserves KnownInv: a title is skipped as a duplicate only if the
   Setup that registered it has merged, since both ran under the lock. *)
LEMMA KnownStep == Inv /\ KnownInv /\ [Next]_vars => KnownInv'
<1> SUFFICES ASSUME Inv, KnownInv, [Next]_vars, ~failed'
             PROVE  (Held /\ Passed /\ Complete /\ Known)'
    BY DEF KnownInv
<1> USE DEF InSetup
<1>t. TypeOK /\ SetupInv
    BY DEF Inv
<1>f. failed' = failed
    <2>1. \A c \in Caller : ~SetupFails(c)
        BY DEF SetupFails
    <2> QED
        BY <2>1 DEF Next, Setup, Lock, Find, Create, Register, Advance, Merge, ConcurrentMapWrite,
                    Notify, Tick, Send, Terminate, vars
<1>k. Held /\ Passed /\ Complete /\ Known
    BY <1>f DEF KnownInv
<1>o. ASSUME NEW c \in Caller, NEW d \in Caller, pc[d] \in InSetup, mu \in {NoCaller, c}
      PROVE  d = c
    BY <1>t, <1>o, MetricsAssumption DEF SetupInv
<1> USE DEF Held, Passed, Complete, Known
<1>1. ASSUME NEW c \in Caller, Lock(c)
      PROVE  (Held /\ Passed /\ Complete /\ Known)'
    <2>1. pc' = [pc EXCEPT ![c] = "find"] /\ idx' = [idx EXCEPT ![c] = 1]
          /\ UNCHANGED <<registry, units>>
        BY <1>1 DEF Lock, Goto
    <2>2. \A d \in Caller : pc[d] \notin InSetup
        BY <1>1, <1>t, MetricsAssumption DEF Lock, SetupInv
    <2>3. pc \in [Caller -> {"new", "ready", "failed"} \cup InSetup] /\ idx \in [Caller -> Nat]
        BY <1>t DEF TypeOK
    <2> QED
        BY <1>k, <2>1, <2>2, <2>3
<1>2. ASSUME NEW c \in Caller, Find(c) \/ Create(c)
      PROVE  (Held /\ Passed /\ Complete /\ Known)'
    BY <1>2, <1>k, <1>t DEF Find, Create, Goto, At, TypeOK
<1>3. ASSUME NEW c \in Caller, Register(c)
      PROVE  (Held /\ Passed /\ Complete /\ Known)'
    <2>1. pc[c] = "register" /\ idx[c] \in 1 .. Len(Plan[c]) /\ mu = c
        BY <1>3, <1>t, NodeType DEF Register, At, SetupInv
    <2>2. /\ idx' = [idx EXCEPT ![c] = idx[c] + 1]
          /\ pc' = [pc EXCEPT ![c] = IF idx[c] < Len(Plan[c]) THEN "find" ELSE "merge"]
          /\ units' = units
        BY <1>3 DEF Register, Advance, Goto
    <2>3. pc \in [Caller -> {"new", "ready", "failed"} \cup InSetup] /\ idx \in [Caller -> Nat] /\ Len(Plan[c]) \in Nat
          /\ local \in [Caller -> SUBSET Title]
        BY <1>t, PlanFacts DEF TypeOK
    <2>4. registry \subseteq registry'
        BY <1>3 DEF Register
    <2>5. Held'
        <3>1. \A t \in registry' : t \in registry \/ t \in local'[c]
            BY <1>3, <2>3 DEF Register
        <3>2. local[c] \subseteq local'[c]
            BY <1>3, <2>3 DEF Register
        <3>3. pc'[c] \in InSetup
            BY <2>2, <2>3
        <3>4. \A t \in registry : t \in units \/ t \in local[c]
            BY <1>k, <1>o, <2>1
        <3> QED
            BY <2>2, <3>1, <3>2, <3>3, <3>4
    <2>6. node(c) \in Title => node(c) \in registry'
        BY <1>3 DEF Register
    <2>7. Passed'
        <3> SUFFICES ASSUME NEW d \in Caller, pc'[d] \in InSetup, NEW i \in 1 .. Len(Plan[d]),
                            i < idx'[d], Plan[d][i] \in Title
                     PROVE  Plan[d][i] \in registry'
            OBVIOUS
        <3>1. CASE d # c
            BY <1>k, <2>2, <2>3, <2>4, <3>1
        <3>2. CASE d = c /\ i < idx[c]
            BY <1>k, <2>1, <2>4, <3>2
        <3>3. CASE d = c /\ i = idx[c]
            BY <2>6, <3>3 DEF node
        <3>4. d = c => i < idx[c] \/ i = idx[c]
            BY <2>2, <2>3
        <3> QED
            BY <3>1, <3>2, <3>3, <3>4
    <2>8. Complete'
        BY <1>k, <2>1, <2>2, <2>3
    <2>9. Known'
        BY <1>k, <2>2, <2>3
    <2> QED
        BY <2>5, <2>7, <2>8, <2>9
<1>4. ASSUME NEW c \in Caller, Merge(c)
      PROVE  (Held /\ Passed /\ Complete /\ Known)'
    <2>1. pc[c] = "merge" /\ mu = c
        BY <1>4, <1>t DEF Merge, At, SetupInv
    <2>2. /\ pc' = [pc EXCEPT ![c] = "ready"]
          /\ units' = units \cup local[c]
          /\ UNCHANGED <<idx, local, registry>>
        BY <1>4 DEF Merge, Goto
    <2>3. pc \in [Caller -> {"new", "ready", "failed"} \cup InSetup] /\ Len(Plan[c]) \in Nat
        BY <1>t, PlanFacts DEF TypeOK
    <2>4. registry' \subseteq units'
        BY <1>k, <1>o, <2>1, <2>2
    <2>5. \A i \in 1 .. Len(Plan[c]) : Plan[c][i] \in Title => Plan[c][i] \in units'
        BY <1>k, <2>1, <2>2, <2>3, <2>4
    <2> QED
        BY <1>k, <2>2, <2>3, <2>4, <2>5
<1>5. CASE UNCHANGED <<pc, idx, local, registry, units>>
    BY <1>5, <1>k
<1>6. ASSUME NEW c \in Caller, ConcurrentMapWrite(c) \/ \E t \in Title : Notify(c, t)
      PROVE  UNCHANGED <<pc, idx, local, registry, units>>
    BY <1>6 DEF ConcurrentMapWrite, Notify, callerVars
<1>7. ASSUME NEW t \in Title, Send(t)
      PROVE  UNCHANGED <<pc, idx, local, registry, units>>
    BY <1>7 DEF Send, callerVars
<1>8. CASE Tick \/ Terminate \/ UNCHANGED vars
    BY <1>5, <1>8 DEF Tick, Terminate, vars, callerVars
<1>9. ASSUME NEW c \in Caller, SetupFails(c)
      PROVE  FALSE
    BY <1>9 DEF SetupFails
<1> QED
    BY <1>1, <1>2, <1>3, <1>4, <1>5, <1>6, <1>7, <1>8, <1>9 DEF Next, Setup

(* As long as no Setup failed, a Setup that returned nil made all of its titles
   known to Notify, also those another caller registered. *)
THEOREM TitlesAreKnown == Spec => []SetupMakesTitlesKnown
<1>1. Init => KnownInv
    BY DEF Init, KnownInv, Held, Passed, Complete, Known, InSetup
<1>2. KnownInv => SetupMakesTitlesKnown
    <2>1. ASSUME NEW c \in Caller
          PROVE  DOMAIN Plan[c] = 1 .. Len(Plan[c])
        <3>1. Plan[c] \in Seq(Node)
            BY PlanFacts
        <3> QED
            BY <3>1
    <2> QED
        BY <2>1 DEF KnownInv, Known, SetupMakesTitlesKnown, Titles
<1> QED
    BY <1>1, <1>2, KnownStep, MetricsInvariant, PTL DEF Spec

=============================================================================
