------------------------- MODULE RoundTripContract -------------------------
(***************************************************************************)
(* What the reverse proxy may rely on when it sends a request through the  *)
(* timeout transport, in terms of what it sees: an outcome, and for a      *)
(* response a body it reads until it closes it.                            *)
(*                                                                         *)
(* The timeout decides about the headers only.  Once there is a response   *)
(* the one thing that can cut its body short from this side is the         *)
(* cancellation of the client's own request.                               *)
(***************************************************************************)
EXTENDS Integers

CONSTANT Deadline   \* the earliest time at which the timeout may strike

VARIABLES
    now,        \* the clock
    outcome,    \* "pending", "response", "failure" or "deadline"
    stream      \* the body: "none", "open", "cut" or "closed"

vars == <<now, outcome, stream>>

Init ==
    /\ now \in Nat
    /\ outcome = "pending"
    /\ stream = "none"

\* A response, without a body or for a client that is gone already perhaps.
Respond ==
    /\ outcome = "pending"
    /\ outcome' = "response"
    /\ stream' \in {"none", "open", "cut"}
    /\ UNCHANGED now

Fail ==
    /\ outcome = "pending"
    /\ outcome' = "failure"
    /\ UNCHANGED <<now, stream>>

Expire ==
    /\ outcome = "pending"
    /\ now >= Deadline
    /\ outcome' = "deadline"
    /\ UNCHANGED <<now, stream>>

ClientLeaves ==
    /\ stream = "open"
    /\ stream' = "cut"
    /\ UNCHANGED <<now, outcome>>

CloseBody ==
    /\ stream \in {"open", "cut"}
    /\ stream' = "closed"
    /\ UNCHANGED <<now, outcome>>

Tick == now' = now + 1 /\ UNCHANGED <<outcome, stream>>

Next == Respond \/ Fail \/ Expire \/ ClientLeaves \/ CloseBody \/ Tick

Spec == Init /\ [][Next]_vars
=============================================================================
