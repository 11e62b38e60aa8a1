------------------------------ MODULE MCClients ------------------------------
(* One client of each protocol: clients share nothing but counters, to which
   they add atomically. *)
EXTENDS Clients

CONSTANTS m1, n1, h1

MqttClients == {m1}
NatsClients == {n1}
HttpClients == {h1}
=============================================================================
