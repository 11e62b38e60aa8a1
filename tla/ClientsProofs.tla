---------------------------- MODULE ClientsProofs ----------------------------
(***************************************************************************)
(* The connection counters balance for any number of clients, calls and    *)
(* lost connections.  What an action changes, it changes at one client; so *)
(* the invariant is shown client by client.                                *)
(***************************************************************************)
EXTENDS Clients, TLAPS

(* Notify keeps the type of the counters. *)
LEMMA NotifyType ==
    ASSUME TypeOK, NEW c \in Client, NEW t \in Counter, Notify(c, t)
    PROVE  count' \in [Client -> [Counter -> Nat]]
<1> DEFINE new == [count[c] EXCEPT ![t] = @ + 1]
<1>1. count \in [Client -> [Counter -> Nat]] /\ count[c] \in [Counter -> Nat] /\ count[c][t] \in Nat
  BY DEF TypeOK
<1>2. new \in [Counter -> Nat]
  BY <1>1
<1>3. count' = [count EXCEPT ![c] = new]
  BY DEF Notify
<1> HIDE DEF new
<1> QED
  BY <1>1, <1>2, <1>3

(* Type correctness of one step: no counter of callbacks due goes below zero,
   because a handler only runs for an event of the library. *)
LEMMA TypeStep == TypeOK /\ [Next]_vars => TypeOK'
<1> SUFFICES ASSUME TypeOK, [Next]_vars PROVE TypeOK'
  OBVIOUS
<1> DEFINE CountOK == count' \in [Client -> [Counter -> Nat]]
<1>a. ASSUME NEW c \in Client, \E t \in Counter : Notify(c, t)
      PROVE  CountOK
  BY <1>a, NotifyType
<1>b. ASSUME UNCHANGED count
      PROVE  CountOK
  BY <1>b DEF TypeOK
<1> USE DEF TypeOK, CallState, MqttOp, connVars, history, Add, Call, Back
<1>1. CASE UNCHANGED vars
  BY <1>1 DEF vars
<1>2a. ASSUME NEW c \in Client, Lose(c)
      PROVE  TypeOK'
  BY <1>2a DEF Lose
<1>2b. ASSUME NEW c \in Client, Reconnect(c)
      PROVE  TypeOK'
  BY <1>2b DEF Reconnect
<1>2c. ASSUME NEW c \in Client, GiveUp(c)
      PROVE  TypeOK'
  BY <1>2c DEF GiveUp
<1>2d. ASSUME NEW c \in Client, OnConnect(c)
      PROVE  TypeOK'
  BY <1>2d DEF OnConnect
<1>2e. ASSUME NEW c \in Client, OnConnectionLost(c)
      PROVE  TypeOK'
  BY <1>2e DEF OnConnectionLost
<1>3a. ASSUME NEW c \in Client, MqttConnectCall(c)
      PROVE  TypeOK'
  BY <1>3a DEF MqttConnectCall
<1>3b. ASSUME NEW c \in Client, Connack(c)
      PROVE  TypeOK'
  <2>1. CASE token' = [token EXCEPT ![c] = "done"]
             /\ link' = [link EXCEPT ![c] = "up"] /\ ups' = Add(ups, c, 1)
    BY <1>3b, <2>1 DEF Connack
  <2>2. CASE token' = [token EXCEPT ![c] = "failed"] /\ UNCHANGED <<link, ups>>
    BY <1>3b, <2>2 DEF Connack
  <2> QED
    BY <1>3b, <2>1, <2>2 DEF Connack
<1>3c. ASSUME NEW c \in Client, Ack(c)
      PROVE  TypeOK'
  BY <1>3c DEF Ack
<1>3d. ASSUME NEW c \in Client, MqttDisconnect(c)
      PROVE  TypeOK'
  BY <1>3d DEF MqttDisconnect
<1>4. ASSUME NEW c \in Client, NEW op \in MqttOp, MqttCall(c, op)
      PROVE  TypeOK'
  BY <1>4 DEF MqttCall
<1>5a. ASSUME NEW c \in Client, NatsConnect(c)
      PROVE  TypeOK'
  <2>1. CountOK
    BY <1>5a, <1>a, <1>b DEF NatsConnect, Counter, MqttCounter, NatsCounter, HttpCounter
  <2>2. link' \in [Client -> {"none", "up", "lost", "closed"}] /\ pc' \in [Client -> CallState]
    BY <1>5a DEF NatsConnect
  <2>3. calls' \in Nat
    BY <1>5a DEF NatsConnect
  <2> QED
    BY <1>5a, <2>1, <2>2, <2>3 DEF NatsConnect
<1>5b. ASSUME NEW c \in Client, NatsCall(c)
      PROVE  TypeOK'
  <2>1. CountOK
    BY <1>5b, <1>a, <1>b DEF NatsCall, Counter, MqttCounter, NatsCounter, HttpCounter
  <2> QED
    BY <1>5b, <2>1 DEF NatsCall
<1>5c. ASSUME NEW c \in Client, NatsDisconnect(c)
      PROVE  TypeOK'
  <2>1. CountOK
    BY <1>5c, <1>a, <1>b DEF NatsDisconnect, Counter, MqttCounter, NatsCounter, HttpCounter
  <2> QED
    BY <1>5c, <2>1 DEF NatsDisconnect
<1>6. ASSUME NEW c \in Client, HttpDo(c)
      PROVE  TypeOK'
  BY <1>6 DEF HttpDo
<1>7. ASSUME NEW c \in Client, MqttConnectReturn(c) \/ MqttDisconnectReturn(c) \/ NatsConnectReturn(c)
      PROVE  TypeOK'
  <2>1. CountOK
    BY <1>7, <1>a, <1>b DEF MqttConnectReturn, MqttDisconnectReturn, NatsConnectReturn, Counter, MqttCounter, NatsCounter, HttpCounter
  <2>2. pc' \in [Client -> CallState] /\ total' \in [Client -> Int]
    BY <1>7 DEF MqttConnectReturn, MqttDisconnectReturn, NatsConnectReturn
  <2>3. UNCHANGED <<connVars, token, calls, drops, history>>
    BY <1>7 DEF MqttConnectReturn, MqttDisconnectReturn, NatsConnectReturn
  <2> QED
    BY <2>1, <2>2, <2>3
<1>8. ASSUME NEW c \in Client, MqttReturn(c)
      PROVE  TypeOK'
  <2>1. CountOK
    BY <1>8, <1>a, <1>b DEF MqttReturn, Counter, MqttCounter, NatsCounter, HttpCounter
  <2> QED
    BY <1>8, <2>1 DEF MqttReturn
<1>9. ASSUME NEW c \in Client, HttpReturn(c)
      PROVE  TypeOK'
  <2>1. CountOK
    BY <1>9, <1>a, <1>b DEF HttpReturn, Counter, MqttCounter, NatsCounter, HttpCounter
  <2>2. \/ nils' = Add(nils, c, 1) /\ UNCHANGED errs
        \/ errs' = Add(errs, c, 1) /\ UNCHANGED nils
    BY <1>9 DEF HttpReturn
  <2>2a. CASE nils' = Add(nils, c, 1) /\ UNCHANGED errs
    BY <1>9, <2>1, <2>2a DEF HttpReturn
  <2>2b. CASE errs' = Add(errs, c, 1) /\ UNCHANGED nils
    BY <1>9, <2>1, <2>2b DEF HttpReturn
  <2> QED
    BY <2>2, <2>2a, <2>2b
<1> QED
  BY <1>1, <1>2a, <1>2b, <1>2c, <1>2d, <1>2e, <1>3a, <1>3b, <1>3c, <1>3d, <1>4,
     <1>5a, <1>5b, <1>5c, <1>6, <1>7, <1>8, <1>9
  DEF Next, Return

(* One step keeps the balance: an event of the connection changes the link and
   the callbacks due together, a handler moves one from due to counted. *)
LEMMA BalanceStep == TypeOK /\ ClientsInv /\ [Next]_vars => ClientsInv'
<1> SUFFICES ASSUME TypeOK, ClientsInv, [Next]_vars PROVE ClientsInv'
  OBVIOUS
<1> SUFFICES ASSUME NEW d \in Client
             PROVE  /\ (total[d] + Owed(d) = Connected(d) - unmatched[d])'
                    /\ (d \in Nats => unmatched[d] = 0)'
                    /\ (pc[d] = "connect" /\ token[d] = "waiting" => link[d] = "none")'
  BY DEF ClientsInv, ConnectionsBalance, NatsIsExact, ConnectsOnce, Client
<1> DEFINE Goal == /\ (total[d] + Owed(d) = Connected(d) - unmatched[d])'
                   /\ (d \in Nats => unmatched[d] = 0)'
                   /\ (pc[d] = "connect" /\ token[d] = "waiting" => link[d] = "none")'
<1>a. /\ total[d] + Owed(d) = Connected(d) - unmatched[d]
      /\ d \in Nats => unmatched[d] = 0
      /\ pc[d] = "connect" /\ token[d] = "waiting" => link[d] = "none"
  BY DEF ClientsInv, ConnectionsBalance, NatsIsExact, ConnectsOnce
<1>b. /\ total[d] \in Int /\ ups[d] \in Nat /\ losses[d] \in Nat /\ unmatched[d] \in Nat
      /\ link[d] \in {"none", "up", "lost", "closed"} /\ pc[d] \in CallState
  BY DEF TypeOK
<1>t. /\ DOMAIN total = Client /\ DOMAIN ups = Client /\ DOMAIN losses = Client
      /\ DOMAIN unmatched = Client /\ DOMAIN link = Client /\ DOMAIN pc = Client
      /\ DOMAIN token = Client
      /\ total = [x \in Client |-> total[x]] /\ ups = [x \in Client |-> ups[x]]
      /\ losses = [x \in Client |-> losses[x]] /\ unmatched = [x \in Client |-> unmatched[x]]
      /\ link = [x \in Client |-> link[x]] /\ pc = [x \in Client |-> pc[x]]
      /\ token = [x \in Client |-> token[x]]
  BY DEF TypeOK
<1> USE <1>a, <1>b, <1>t DEF Owed, Connected, CallState, MqttOp, connVars, history, Add, Call, Back
<1>1. CASE UNCHANGED vars
  BY <1>1 DEF vars
<1>2. ASSUME NEW c \in Client, Lose(c) \/ Reconnect(c) \/ GiveUp(c)
      PROVE  Goal
  BY <1>2 DEF Lose, Reconnect, GiveUp
<1>3. ASSUME NEW c \in Client, OnConnect(c) \/ OnConnectionLost(c)
      PROVE  Goal
  BY <1>3 DEF OnConnect, OnConnectionLost
<1>4. ASSUME NEW c \in Client, MqttConnectCall(c) \/ Ack(c)
      PROVE  Goal
  BY <1>4 DEF MqttConnectCall, Ack
<1>5. ASSUME NEW c \in Client, Connack(c)
      PROVE  Goal
  BY <1>5 DEF Connack
<1>6. ASSUME NEW c \in Client, MqttDisconnect(c)
      PROVE  Goal
  <2>1. CASE d # c
    BY <1>6, <2>1 DEF MqttDisconnect
  <2>2. CASE d = c
    <3>1. pc[d] = "idle" /\ pc'[d] = "disconnect" /\ link'[d] = "none"
      BY <1>6, <2>2 DEF MqttDisconnect
    <3>2. d \notin Nats
      BY <1>6, <2>2, ClientsAssumption DEF MqttDisconnect
    <3>3. total' = total /\ ups' = ups /\ losses' = losses
      BY <1>6 DEF MqttDisconnect
    <3>4. unmatched'[d] = IF link[d] = "up" THEN unmatched[d] ELSE unmatched[d] + 1
      BY <1>6, <2>2 DEF MqttDisconnect
    <3> QED
      BY <3>1, <3>2, <3>3, <3>4
  <2> QED
    BY <2>1, <2>2
<1>7. ASSUME NEW c \in Client, NEW op \in MqttOp, MqttCall(c, op)
      PROVE  Goal
  BY <1>7 DEF MqttCall
<1>8a. ASSUME NEW c \in Client, NatsConnect(c)
      PROVE  Goal
  <2>1. CASE Call(c, "connected") /\ link' = [link EXCEPT ![c] = "up"]
    <3>1. CASE d # c
      BY <1>8a, <2>1, <3>1 DEF NatsConnect
    <3>2. CASE d = c
      <4>1. pc[d] = "idle" /\ pc'[d] = "connected" /\ link[d] = "none" /\ link'[d] = "up"
        BY <1>8a, <2>1, <3>2 DEF NatsConnect
      <4>2. total' = total /\ ups' = ups /\ losses' = losses /\ unmatched' = unmatched
        BY <1>8a DEF NatsConnect
      <4> QED
        BY <4>1, <4>2
    <3> QED
      BY <3>1, <3>2
  <2>2. CASE UNCHANGED <<link, pc>>
    BY <1>8a, <2>2 DEF NatsConnect
  <2> QED
    BY <1>8a, <2>1, <2>2 DEF NatsConnect
<1>8b. ASSUME NEW c \in Client, NatsCall(c)
      PROVE  Goal
  BY <1>8b DEF NatsCall
<1>8c. ASSUME NEW c \in Client, NatsDisconnect(c)
      PROVE  Goal
  BY <1>8c DEF NatsDisconnect
<1>9. ASSUME NEW c \in Client, HttpDo(c) \/ HttpReturn(c)
      PROVE  Goal
  BY <1>9 DEF HttpDo, HttpReturn
<1>10. ASSUME NEW c \in Client, MqttConnectReturn(c) \/ MqttReturn(c)
       PROVE  Goal
  BY <1>10 DEF MqttConnectReturn, MqttReturn
<1>11. ASSUME NEW c \in Client, MqttDisconnectReturn(c) \/ NatsConnectReturn(c)
       PROVE  Goal
  BY <1>11 DEF MqttDisconnectReturn, NatsConnectReturn
<1> QED
  BY <1>1, <1>2, <1>3, <1>4, <1>5, <1>6, <1>7, <1>8a, <1>8b, <1>8c, <1>9, <1>10, <1>11 DEF Next, Return

(* The type invariant and the inductive invariant of the counters hold. *)
THEOREM ClientsInvariant == Spec => [](TypeOK /\ ClientsInv)
<1>1. Init => TypeOK
  BY DEF Init, TypeOK, CallState, Counter, MqttCounter, NatsCounter, HttpCounter
<1>2. Init => ClientsInv
  BY DEF Init, ClientsInv, ConnectionsBalance, NatsIsExact, ConnectsOnce, Owed, Connected, Client
<1>3. TypeOK /\ ClientsInv /\ [Next]_vars => (TypeOK /\ ClientsInv)'
  BY TypeStep, BalanceStep
<1> QED
  BY <1>1, <1>2, <1>3, PTL DEF Spec

(* The variables stay within their types. *)
THEOREM ClientsTypes == Spec => []TypeOK
<1>1. TypeOK /\ ClientsInv => TypeOK
  OBVIOUS
<1> QED
  BY <1>1, ClientsInvariant, PTL

(* current_total, with what is still owed to it, is the number of connections
   less the Disconnects of unconnected MQTT clients: every loss, reconnect and
   close is counted exactly once, whatever the order of the callbacks. *)
THEOREM ConnectionsAreCounted == Spec => []ConnectionsBalance
<1>1. TypeOK /\ ClientsInv => ConnectionsBalance
  BY DEF ClientsInv
<1> QED
  BY <1>1, ClientsInvariant, PTL

(* For a NATS client at rest the counter is exact: it is never negative and
   never more than one per client. *)
THEOREM NatsTotalIsExact ==
    Spec => [](\A c \in Nats :
                  pc[c] = "idle" /\ ups[c] = 0 /\ losses[c] = 0 => total[c] = Connected(c))
<1> DEFINE Exact == \A c \in Nats :
                  pc[c] = "idle" /\ ups[c] = 0 /\ losses[c] = 0 => total[c] = Connected(c)
<1>1. TypeOK /\ ClientsInv => Exact
  <2> SUFFICES ASSUME TypeOK, ClientsInv, NEW c \in Nats,
                      pc[c] = "idle", ups[c] = 0, losses[c] = 0
               PROVE  total[c] = Connected(c)
    OBVIOUS
  <2>1. c \in Client
    BY DEF Client
  <2>2. total[c] \in Int /\ Owed(c) = 0 /\ unmatched[c] = 0
    BY <2>1 DEF TypeOK, ClientsInv, NatsIsExact, Owed
  <2>3. total[c] + Owed(c) = Connected(c) - unmatched[c] /\ Connected(c) \in Int
    BY <2>1 DEF ClientsInv, ConnectionsBalance, Connected
  <2> QED
    BY <2>2, <2>3
<1> QED
  BY <1>1, ClientsInvariant, PTL


-----------------------------------------------------------------------------
(* HTTP requests *)

(* What a step other than the return of a request leaves alone. *)
HttpSame ==
    /\ nils' = nils /\ errs' = errs
    /\ \A c \in Http : \A t \in HttpCounter : count'[c][t] = count[c][t]

(* A notification changes its own counter by one, and no other. *)
LEMMA NotifyCounts ==
    ASSUME TypeOK, NEW c \in Client, NEW t \in Counter, Notify(c, t), NEW d \in Client, NEW u \in Counter
    PROVE  count'[d][u] = IF d = c /\ u = t THEN count[d][u] + 1 ELSE count[d][u]
<1> DEFINE new == [count[c] EXCEPT ![t] = @ + 1]
<1>1. count \in [Client -> [Counter -> Nat]] /\ count[c] \in [Counter -> Nat]
  BY DEF TypeOK
<1>2. new[u] = IF u = t THEN count[c][u] + 1 ELSE count[c][u]
  BY <1>1
<1>3. count' = [count EXCEPT ![c] = new]
  BY DEF Notify
<1> HIDE DEF new
<1> QED
  BY <1>1, <1>2, <1>3

(* Only the return of a request touches the HTTP counters or the history of do():
   the other clients count under names of their own. *)
LEMMA OthersLeaveHttp ==
    ASSUME TypeOK, [Next]_vars, \A c \in Client : ~HttpReturn(c)
    PROVE  HttpSame
<1>1. nils' = nils /\ errs' = errs
  BY DEF Next, Return, Lose, Reconnect, GiveUp, OnConnect, OnConnectionLost, MqttConnectCall, Connack,
         MqttConnectReturn, MqttCall, Ack, MqttReturn, MqttDisconnect, MqttDisconnectReturn,
         NatsConnect, NatsConnectReturn, NatsCall, NatsDisconnect, HttpDo, history, vars
<1>2. count' = count \/ \E c \in Client : \E t \in Counter \ HttpCounter : Notify(c, t)
  <2> DEFINE Quiet == count' = count \/ \E c \in Client : \E t \in Counter \ HttpCounter : Notify(c, t)
  <2>n. {"conError", "published", "subTotal", "subError", "unsubError"} \subseteq Counter \ HttpCounter
    BY DEF Counter, MqttCounter, HttpCounter
  <2>1. ASSUME NEW c \in Client, Lose(c) \/ Reconnect(c) \/ GiveUp(c) \/ OnConnect(c) \/ OnConnectionLost(c)
               \/ MqttConnectCall(c) \/ Connack(c) \/ Ack(c) \/ MqttDisconnect(c)
               \/ NatsDisconnect(c) \/ HttpDo(c) \/ MqttDisconnectReturn(c) \/ NatsConnectReturn(c)
        PROVE  count' = count
    BY <2>1 DEF Lose, Reconnect, GiveUp, OnConnect, OnConnectionLost, MqttConnectCall, Connack, Ack,
                MqttDisconnect, NatsDisconnect, HttpDo, MqttDisconnectReturn, NatsConnectReturn
  <2>2. ASSUME NEW c \in Client, NEW op \in MqttOp, MqttCall(c, op)
        PROVE  count' = count
    BY <2>2 DEF MqttCall
  <2>3. ASSUME NEW c \in Client, MqttConnectReturn(c) \/ MqttReturn(c) \/ NatsConnect(c) \/ NatsCall(c)
        PROVE  Quiet
    BY <2>3, <2>n DEF MqttConnectReturn, MqttReturn, NatsConnect, NatsCall
  <2>4. CASE UNCHANGED vars
    BY <2>4 DEF vars
  <2> QED
    BY <2>1, <2>2, <2>3, <2>4 DEF Next, Return
<1>3. Http \subseteq Client /\ HttpCounter \subseteq Counter
  BY DEF Client, Counter
<1>4. ASSUME NEW c \in Client, NEW t \in Counter \ HttpCounter, Notify(c, t),
             NEW d \in Http, NEW u \in HttpCounter
      PROVE  count'[d][u] = count[d][u]
  BY <1>3, <1>4, NotifyCounts
<1> QED
  BY <1>1, <1>2, <1>4 DEF HttpSame

(* The return of a request adds one to one counter, and one to what do()
   returned. *)
LEMMA RequestStep == TypeOK /\ RequestsAreCounted /\ [Next]_vars => RequestsAreCounted'
<1> SUFFICES ASSUME TypeOK, RequestsAreCounted, [Next]_vars
             PROVE  RequestsAreCounted'
  OBVIOUS
<1>1. CASE \A c \in Client : ~HttpReturn(c)
  <2>1. HttpSame
    BY <1>1, OthersLeaveHttp
  <2> QED
    BY <2>1 DEF HttpSame, RequestsAreCounted, HttpCounter
<1>2. ASSUME NEW c \in Client, HttpReturn(c)
      PROVE  RequestsAreCounted'
  <2> SUFFICES ASSUME NEW d \in Http
               PROVE  /\ count'[d]["http_ok"] = nils'[d]
                      /\ count'[d]["http_fail"] + count'[d]["http_other_fail"] = errs'[d]
    BY DEF RequestsAreCounted
  <2>1. d \in Client /\ {"http_ok", "http_fail", "http_other_fail"} \subseteq Counter
    BY DEF Client, Counter, HttpCounter
  <2>2. /\ count[d]["http_ok"] \in Nat /\ count[d]["http_fail"] \in Nat
        /\ count[d]["http_other_fail"] \in Nat
        /\ nils \in [Client -> Nat] /\ errs \in [Client -> Nat]
    BY <2>1 DEF TypeOK
  <2>3. /\ count[d]["http_ok"] = nils[d]
        /\ count[d]["http_fail"] + count[d]["http_other_fail"] = errs[d]
    BY DEF RequestsAreCounted
  <2>4. ASSUME NEW t \in {"http_ok", "http_fail", "http_other_fail"}, Notify(c, t)
        PROVE  \A u \in {"http_ok", "http_fail", "http_other_fail"} :
                  count'[d][u] = IF d = c /\ u = t THEN count[d][u] + 1 ELSE count[d][u]
    BY <2>1, <2>4, NotifyCounts
  <2>5. CASE Notify(c, "http_ok") /\ nils' = Add(nils, c, 1) /\ errs' = errs
    BY <2>1, <2>2, <2>3, <2>4, <2>5 DEF Add
  <2>6. CASE Notify(c, "http_fail") /\ errs' = Add(errs, c, 1) /\ nils' = nils
    BY <2>1, <2>2, <2>3, <2>4, <2>6 DEF Add
  <2>7. CASE Notify(c, "http_other_fail") /\ errs' = Add(errs, c, 1) /\ nils' = nils
    BY <2>1, <2>2, <2>3, <2>4, <2>7 DEF Add
  <2> QED
    BY <1>2, <2>5, <2>6, <2>7 DEF HttpReturn
<1> QED
  BY <1>1, <1>2

(* Every HTTP request is counted in exactly one class, and do() returns nil if
   and only if that class is ok, for any number of clients and requests. *)
THEOREM HttpRequestsAreCounted == Spec => []RequestsAreCounted
<1>1. Init => RequestsAreCounted
  BY DEF Init, RequestsAreCounted, Client, Counter, HttpCounter
<1> QED
  BY <1>1, RequestStep, ClientsTypes, PTL DEF Spec
=============================================================================
