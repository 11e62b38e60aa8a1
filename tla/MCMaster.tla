------------------------------ MODULE MCMaster ------------------------------
(* Small instances of Master for TLC: the sets of concurrent requests, which
   are interchangeable. *)
EXTENDS Master, TLC

CONSTANTS c1, c2

OneClient == {c1}
TwoClients == {c1, c2}
ClientSymmetry == Permutations(Client)
=============================================================================
