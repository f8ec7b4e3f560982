----------------------------- MODULE AccessGate -----------------------------
(***************************************************************************)
(* What the handler chain promises of one request, without the chain: who  *)
(* is let through to the upstream, and until when.                         *)
(*                                                                         *)
(* A request is refused at the door, let in unchecked, or has to pass the  *)
(* checks 0 to n in this order: 0 is authentication, the others are its    *)
(* attributes.  A check is passed within the time for all of them, and     *)
(* what has passed every check is forwarded, once, within the total time.  *)
(* A refusal is final, and so is the answer of the upstream.               *)
(***************************************************************************)
EXTENDS Integers

CONSTANTS
    CheckTime,      \* for the checks of a request together, 0 for no limit
    TotalTime,      \* until the upstream answers, 0 for no limit
    MaxCheck        \* number of the last check, at most

VARIABLES
    clock,
    since,      \* when the request came
    needed,     \* the checks it has to pass
    passed,     \* those it has passed
    verdict     \* "none", "open", "forwarded", "answered" or "refused"

vars == <<clock, since, needed, passed, verdict>>

Unchecked == {}
Needs == {Unchecked} \cup {0 .. n : n \in 1 .. MaxCheck}

InTime(limit) == limit > 0 => clock <= since + limit

Init ==
    /\ clock = 0
    /\ since = 0
    /\ needed = Unchecked
    /\ passed = {}
    /\ verdict = "none"

Enter ==
    /\ verdict = "none"
    /\ since' = clock
    /\ needed' \in Needs
    /\ verdict' \in {"open", "refused"}
    /\ UNCHANGED <<clock, passed>>

Pass(check) ==
    /\ verdict = "open"
    /\ check \notin passed
    /\ \A earlier \in needed : earlier < check => earlier \in passed
    /\ InTime(CheckTime)
    /\ passed' = passed \cup {check}
    /\ UNCHANGED <<clock, since, needed, verdict>>

Forward ==
    /\ verdict = "open"
    /\ passed = needed
    /\ TotalTime > 0 => clock < since + TotalTime
    /\ verdict' = "forwarded"
    /\ UNCHANGED <<clock, since, needed, passed>>

\* The upstream's answer counts, whatever becomes of it on its way to the client.
Answer ==
    /\ verdict = "forwarded"
    /\ InTime(TotalTime)
    /\ verdict' = "answered"
    /\ UNCHANGED <<clock, since, needed, passed>>

Refuse ==
    /\ verdict \in {"open", "forwarded"}
    /\ verdict' = "refused"
    /\ UNCHANGED <<clock, since, needed, passed>>

Tick == clock' = clock + 1 /\ UNCHANGED <<since, needed, passed, verdict>>

Next ==
    \/ Enter
    \/ \E check \in needed : Pass(check)
    \/ Forward \/ Answer \/ Refuse
    \/ Tick

Spec == Init /\ [][Next]_vars
=============================================================================
