---------------------------- MODULE MCLifecycle ----------------------------
(* An instance of Lifecycle for TLC: one connection to each audited server. *)
EXTENDS Lifecycle

OneEach == [c \in Conns |-> c]
=============================================================================
