------------------------------- MODULE Clients -------------------------------
(***************************************************************************)
(* The protocol clients a scenario uses (clients/mqtt, clients/nats,       *)
(* clients/http) and the counters they keep through executor.Notify.  Each *)
(* client belongs to one virtual user, which makes one call at a time;     *)
(* the connection behind it is lost and restored by the protocol library   *)
(* at any time, and the library reports that through callbacks that run on *)
(* goroutines of its own.                                                  *)
(*                                                                         *)
(* A counter of the executor is the sum of what its clients notified, and  *)
(* adding to it is atomic, so the model keeps the share of each client.    *)
(* Latencies and the reconnect counters are left out.                      *)
(***************************************************************************)
EXTENDS Integers

CONSTANTS
    Mqtt, Nats, Http,   \* the clients, by protocol
    MaxCalls,           \* bound: calls of all clients together
    MaxDrops            \* bound: how often a connection is lost

ASSUME ClientsAssumption ==
    /\ Mqtt \cap Nats = {} /\ Mqtt \cap Http = {} /\ Nats \cap Http = {}
    /\ MaxCalls \in Nat
    /\ MaxDrops \in Nat

Client == Mqtt \cup Nats \cup Http

VARIABLES
    link,           \* link[c]: none, up, lost (the library reconnects), closed
    pc,             \* pc[c]: the call its virtual user is in
    token,          \* token[c]: the library's answer to that call
    ups, losses,    \* callbacks due: connected, connection lost
    total,          \* share of c in ...connection.current_total
    count,          \* count[c][t]: share of c in the counter t
    calls, drops,   \* number of calls, and of connections lost
    nils, errs,     \* history: calls of do() that returned nil or an error
    unmatched       \* history: Disconnects of a client that was not connected

connVars == <<link, ups, losses>>
history == <<nils, errs, unmatched>>
vars == <<connVars, pc, token, total, count, calls, drops, history>>

MqttCounter == {"conError", "published", "subTotal", "subError", "unsubError"}
NatsCounter == {"conError", "published", "subTotal", "subError"}
HttpCounter == {"http_ok", "http_fail", "http_other_fail"}
Counter == MqttCounter \cup NatsCounter \cup HttpCounter

MqttOp == {"publish", "subscribe", "unsubscribe"}

Init ==
    /\ link = [c \in Client |-> "none"]
    /\ pc = [c \in Client |-> "idle"]
    /\ token = [c \in Client |-> "none"]
    /\ ups = [c \in Client |-> 0] /\ losses = [c \in Client |-> 0]
    /\ total = [c \in Client |-> 0]
    /\ count = [c \in Client |-> [t \in Counter |-> 0]]
    /\ calls = 0 /\ drops = 0
    /\ nils = [c \in Client |-> 0] /\ errs = [c \in Client |-> 0]
    /\ unmatched = [c \in Client |-> 0]

-----------------------------------------------------------------------------
(* Helpers *)

Add(f, c, n) == [f EXCEPT ![c] = @ + n]

(* executor.Notify(t, 1) by client c. *)
Notify(c, t) == count' = [count EXCEPT ![c][t] = @ + 1]

(* The virtual user calls an operation of its client ... *)
Call(c, op) ==
    /\ pc[c] = "idle" /\ calls < MaxCalls
    /\ pc' = [pc EXCEPT ![c] = op]
    /\ calls' = calls + 1

(* ... and gets control back. *)
Back(c) == pc' = [pc EXCEPT ![c] = "idle"]

-----------------------------------------------------------------------------
(* The connection, as the protocol libraries keep it *)

(* Unexpected loss: the lost handler is called on another goroutine. *)
Lose(c) ==
    /\ link[c] = "up" /\ drops < MaxDrops
    /\ link' = [link EXCEPT ![c] = "lost"]
    /\ losses' = Add(losses, c, 1)
    /\ drops' = drops + 1
    /\ UNCHANGED <<ups, pc, token, total, count, calls, history>>

(* Automatic reconnect: the connect (NATS: reconnect) handler is called. *)
Reconnect(c) ==
    /\ link[c] = "lost"
    /\ link' = [link EXCEPT ![c] = "up"]
    /\ ups' = Add(ups, c, 1)
    /\ UNCHANGED <<losses, pc, token, total, count, calls, drops, history>>

(* NATS stops trying after a number of attempts and closes the connection. *)
GiveUp(c) ==
    /\ c \in Nats /\ link[c] = "lost"
    /\ link' = [link EXCEPT ![c] = "closed"]
    /\ UNCHANGED <<ups, losses, pc, token, total, count, calls, drops, history>>

(* The handlers the clients install. *)
OnConnect(c) ==
    /\ ups[c] > 0
    /\ ups' = Add(ups, c, -1)
    /\ total' = Add(total, c, 1)
    /\ UNCHANGED <<link, losses, pc, token, count, calls, drops, history>>

OnConnectionLost(c) ==
    /\ losses[c] > 0
    /\ losses' = Add(losses, c, -1)
    /\ total' = Add(total, c, -1)
    /\ UNCHANGED <<link, ups, pc, token, count, calls, drops, history>>

-----------------------------------------------------------------------------
(* MQTT *)

MqttConnectCall(c) ==
    /\ c \in Mqtt /\ link[c] = "none"
    /\ Call(c, "connect")
    /\ token' = [token EXCEPT ![c] = "waiting"]
    /\ UNCHANGED <<connVars, total, count, drops, history>>

(* The library completes the connect token. *)
Connack(c) ==
    /\ c \in Mqtt /\ pc[c] = "connect" /\ token[c] = "waiting"
    /\ \/ /\ token' = [token EXCEPT ![c] = "done"]
          /\ link' = [link EXCEPT ![c] = "up"]
          /\ ups' = Add(ups, c, 1)
       \/ /\ token' = [token EXCEPT ![c] = "failed"]
          /\ UNCHANGED <<link, ups>>
    /\ UNCHANGED <<losses, pc, total, count, calls, drops, history>>

(* Connect waits, 3 seconds at a time, until the token is complete. *)
MqttConnectReturn(c) ==
    /\ pc[c] = "connect" /\ token[c] # "waiting"
    /\ Back(c)
    /\ IF token[c] = "failed" THEN Notify(c, "conError") ELSE UNCHANGED count
    /\ UNCHANGED <<connVars, token, total, calls, drops, history>>

(* Publish, Subscribe and Unsubscribe, whatever the state of the connection. *)
MqttCall(c, op) ==
    /\ c \in Mqtt
    /\ Call(c, op)
    /\ token' = [token EXCEPT ![c] = "waiting"]
    /\ UNCHANGED <<connVars, total, count, drops, history>>

(* The library completes the token: an acknowledgement needs a connection. *)
Ack(c) ==
    /\ pc[c] \in MqttOp /\ token[c] = "waiting"
    /\ \/ link[c] # "none" /\ token' = [token EXCEPT ![c] = "done"]
       \/ token' = [token EXCEPT ![c] = "failed"]
    /\ UNCHANGED <<connVars, pc, total, count, calls, drops, history>>

(* Mutant: token.Wait() in place of token.WaitTimeout(). *)
MqttReturnWithoutTimer(c) ==
    /\ pc[c] \in MqttOp /\ token[c] # "waiting"
    /\ Back(c)
    /\ UNCHANGED <<connVars, token, total, count, calls, drops, history>>

(* Mutant: an Unsubscribe that went well is taken off the subscriptions, although
   nobody asked whether there was one. *)
MqttReturnUncounts(c) ==
    /\ pc[c] \in MqttOp
    /\ Back(c)
    /\ \/ /\ token[c] # "failed"
          /\ \/ pc[c] = "publish" /\ Notify(c, "published")
             \/ pc[c] = "subscribe" /\ Notify(c, "subTotal")
             \/ pc[c] = "unsubscribe" /\ count' = [count EXCEPT ![c]["subTotal"] = @ - 1]
       \/ token[c] = "failed" /\ UNCHANGED count
    /\ UNCHANGED <<connVars, token, total, calls, drops, history>>

(* The call returns when the token is complete or after 3 seconds; a token that
   is not complete has no error, so the timeout counts like an answer. *)
MqttReturn(c) ==
    /\ pc[c] \in MqttOp
    /\ Back(c)
    /\ \/ /\ token[c] # "failed"
          /\ \/ pc[c] = "publish" /\ Notify(c, "published")
             \/ pc[c] = "subscribe" /\ Notify(c, "subTotal")
             \/ pc[c] = "unsubscribe" /\ UNCHANGED count
       \/ /\ token[c] = "failed"
          /\ \/ pc[c] = "publish" /\ UNCHANGED count
             \/ pc[c] = "subscribe" /\ Notify(c, "subError")
             \/ pc[c] = "unsubscribe" /\ Notify(c, "unsubError")
    /\ UNCHANGED <<connVars, token, total, calls, drops, history>>

(* Disconnect closes the connection if there is one (the library calls no
   handler for it), and stops reconnecting ... *)
MqttDisconnect(c) ==
    /\ c \in Mqtt
    /\ Call(c, "disconnect")
    /\ link' = [link EXCEPT ![c] = "none"]
    /\ unmatched' = IF link[c] = "up" THEN unmatched ELSE Add(unmatched, c, 1)
    /\ UNCHANGED <<ups, losses, token, total, count, drops, nils, errs>>

(* ... then it notifies -1, in either case. *)
MqttDisconnectReturn(c) ==
    /\ pc[c] = "disconnect"
    /\ Back(c)
    /\ total' = Add(total, c, -1)
    /\ UNCHANGED <<connVars, token, count, calls, drops, history>>

-----------------------------------------------------------------------------
(* NATS: the calls of the library are synchronous *)

(* nats.Connect of NewNatClient ... *)
NatsConnect(c) ==
    /\ c \in Nats /\ link[c] = "none"
    /\ \/ /\ Call(c, "connected")
          /\ link' = [link EXCEPT ![c] = "up"]
          /\ UNCHANGED count
       \/ /\ pc[c] = "idle" /\ calls < MaxCalls
          /\ calls' = calls + 1
          /\ Notify(c, "conError")
          /\ UNCHANGED <<link, pc>>
    /\ UNCHANGED <<ups, losses, token, total, drops, history>>

(* ... and the count of the connection, which may be lost again by now. *)
NatsConnectReturn(c) ==
    /\ pc[c] = "connected"
    /\ Back(c)
    /\ total' = Add(total, c, 1)
    /\ UNCHANGED <<connVars, token, count, calls, drops, history>>

(* Publish and Subscribe; on a closed connection they fail. *)
NatsCall(c) ==
    /\ c \in Nats /\ link[c] # "none"
    /\ pc[c] = "idle" /\ calls < MaxCalls
    /\ calls' = calls + 1
    /\ \/ link[c] # "closed" /\ (Notify(c, "published") \/ Notify(c, "subTotal"))
       \/ UNCHANGED count \/ Notify(c, "subError")
    /\ UNCHANGED <<connVars, pc, token, total, drops, history>>

(* Mutant: a client that disconnects also counts, as the MQTT one does. *)
NatsDisconnectCounts(c) ==
    /\ c \in Nats /\ link[c] # "none"
    /\ pc[c] = "idle" /\ calls < MaxCalls
    /\ calls' = calls + 1
    /\ link' = [link EXCEPT ![c] = "closed"]
    /\ losses' = IF link[c] = "up" THEN Add(losses, c, 1) ELSE losses
    /\ total' = Add(total, c, -1)
    /\ UNCHANGED <<ups, pc, token, count, drops, history>>

(* Drain and Close: the library reports the end of a live connection through
   the disconnect handler. *)
NatsDisconnect(c) ==
    /\ c \in Nats /\ link[c] # "none"
    /\ pc[c] = "idle" /\ calls < MaxCalls
    /\ calls' = calls + 1
    /\ link' = [link EXCEPT ![c] = "closed"]
    /\ losses' = IF link[c] = "up" THEN Add(losses, c, 1) ELSE losses
    /\ UNCHANGED <<ups, pc, token, total, count, drops, history>>

-----------------------------------------------------------------------------
(* HTTP *)

HttpDo(c) ==
    /\ c \in Http
    /\ Call(c, "request")
    /\ UNCHANGED <<connVars, token, total, count, drops, history>>

(* What NewRequest, client.Do (10 s timeout included) and ReadAll made of it:
   no response, a response cut short, or a complete one, with its status. *)
Response == {"none", "short2xx", "shortOther", "2xx", "other"}

(* Mutant: the deferred function looks at the status before the error. *)
HttpReturnStatusFirst(c) ==
    /\ pc[c] = "request"
    /\ Back(c)
    /\ \E r \in Response :
          \/ /\ r = "2xx" /\ Notify(c, "http_ok")
             /\ nils' = Add(nils, c, 1) /\ UNCHANGED errs
          \/ /\ r = "short2xx" /\ Notify(c, "http_ok")
             /\ errs' = Add(errs, c, 1) /\ UNCHANGED nils
          \/ /\ r \in {"other", "shortOther"} /\ Notify(c, "http_fail")
             /\ errs' = Add(errs, c, 1) /\ UNCHANGED nils
    /\ UNCHANGED <<connVars, token, total, calls, drops, unmatched>>

(* The deferred function of do(): count the outcome, and turn a bad status into
   an error. *)
HttpReturn(c) ==
    /\ pc[c] = "request"
    /\ Back(c)
    /\ \E r \in Response :
          \/ /\ r = "2xx" /\ Notify(c, "http_ok")
             /\ nils' = Add(nils, c, 1) /\ UNCHANGED errs
          \/ /\ r = "other" /\ Notify(c, "http_fail")
             /\ errs' = Add(errs, c, 1) /\ UNCHANGED nils
          \/ /\ r \in {"none", "short2xx", "shortOther"} /\ Notify(c, "http_other_fail")
             /\ errs' = Add(errs, c, 1) /\ UNCHANGED nils
    /\ UNCHANGED <<connVars, token, total, calls, drops, unmatched>>

-----------------------------------------------------------------------------
(* Steps of the call a virtual user is in. *)
Return(c) ==
    \/ MqttConnectReturn(c) \/ MqttReturn(c) \/ MqttDisconnectReturn(c)
    \/ NatsConnectReturn(c) \/ HttpReturn(c)

Next ==
    \E c \in Client :
        \/ Lose(c) \/ Reconnect(c) \/ GiveUp(c) \/ OnConnect(c) \/ OnConnectionLost(c)
        \/ MqttConnectCall(c) \/ Connack(c) \/ Ack(c) \/ MqttDisconnect(c)
        \/ \E op \in MqttOp : MqttCall(c, op)
        \/ NatsConnect(c) \/ NatsCall(c) \/ NatsDisconnect(c)
        \/ HttpDo(c)
        \/ Return(c)

Spec == Init /\ [][Next]_vars

(* Goroutines go on and the timers of the clients fire; the broker need not answer
   anything, the CONNECT of a client included. *)
Fairness == \A c \in Client : WF_vars(Return(c))

FairSpec == Spec /\ Fairness
-----------------------------------------------------------------------------
(* Properties *)

CallState == {"idle", "connect", "connected", "disconnect", "request"} \cup MqttOp

(* Type invariant. *)
TypeOK ==
    /\ link \in [Client -> {"none", "up", "lost", "closed"}]
    /\ pc \in [Client -> CallState]
    /\ token \in [Client -> {"none", "waiting", "done", "failed"}]
    /\ ups \in [Client -> Nat] /\ losses \in [Client -> Nat]
    /\ total \in [Client -> Int]
    /\ count \in [Client -> [Counter -> Nat]]
    /\ calls \in Nat /\ drops \in Nat
    /\ nils \in [Client -> Nat] /\ errs \in [Client -> Nat]
    /\ unmatched \in [Client -> Nat]

(* What is still to be added to current_total for c: by callbacks that have not
   run yet, and by the call that is in progress. *)
Owed(c) ==
    ups[c] - losses[c] + (IF pc[c] = "connected" THEN 1 ELSE 0)
                       - (IF pc[c] = "disconnect" THEN 1 ELSE 0)

Connected(c) == IF link[c] = "up" THEN 1 ELSE 0

(* current_total is the number of connections, once what is owed to it is
   added and the Disconnects of MQTT clients that were not connected are taken
   off: losses, reconnects, closes and late callbacks, in whatever order they
   run, are each counted exactly once. *)
ConnectionsBalance == \A c \in Client : total[c] + Owed(c) = Connected(c) - unmatched[c]

(* A NATS client has nothing to take off. *)
NatsIsExact == \A c \in Nats : unmatched[c] = 0

(* A connect token is only completed for a client without a connection. *)
ConnectsOnce == \A c \in Client : pc[c] = "connect" /\ token[c] = "waiting" => link[c] = "none"

(* The inductive invariant behind the balance. *)
ClientsInv == ConnectionsBalance /\ NatsIsExact /\ ConnectsOnce

(* Every HTTP request is counted in exactly one of ok, fail and other_fail, and
   the caller gets nil if and only if it was counted as ok: a body that was cut
   short is a failure although its status was good. *)
RequestsAreCounted ==
    \A c \in Http :
        /\ count[c]["http_ok"] = nils[c]
        /\ count[c]["http_fail"] + count[c]["http_other_fail"] = errs[c]

(* Every call returns to the virtual user, although the broker may never
   acknowledge anything and the connection may be lost during the call: Publish,
   Subscribe and Unsubscribe by their timer, HTTP requests by the timeout of the
   client, the others because they do not wait.  Connect is the exception: its
   loop (mqtt.go:327) ends only with the token, and the library waits for the
   answer to CONNECT without a deadline. *)
AwaitsConnack(c) == pc[c] = "connect" /\ token[c] = "waiting"

CallsReturn ==
    \A c \in Client : pc[c] # "idle" /\ ~AwaitsConnack(c) ~> pc[c] = "idle"
=============================================================================
