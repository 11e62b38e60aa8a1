----------------------------- MODULE MCDashboard -----------------------------
(***************************************************************************)
(* Two applications: the first waits or runs; the second is created by the *)
(* user or by others.                                                      *)
(***************************************************************************)
EXTENDS Dashboard

MCApp == {"a", "b"}
MCInitRows == {[a |-> "pending", b |-> "none"], [a |-> "running", b |-> "none"]}
=============================================================================
