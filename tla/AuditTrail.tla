----------------------------- MODULE AuditTrail -----------------------------
(***************************************************************************)
(* What the audit log promises its reader, without the goroutines, locks   *)
(* and buffers that keep the promise.                                      *)
(*                                                                         *)
(* Each event is decided once: it joins the line of records to be written, *)
(* it is lost, or it is dropped.  The trail gets the head of the line or a *)
(* summary of losses nobody was told of yet, so it has the records in the  *)
(* order they joined, each at most once, and every gap is told at most     *)
(* once.  An event is lost only because the line is full or its write      *)
(* failed.  Once the log is shut nothing joins the line, and it is sealed  *)
(* when the line is empty.                                                 *)
(***************************************************************************)
EXTENDS Integers, Sequences, FiniteSets

CONSTANTS
    Capacity,   \* the line is full from here on
    MayDrop     \* an event may be impossible to encode

VARIABLES
    offered,    \* number of events so far
    undecided,  \* those whose fate is open
    line,       \* records to be written
    trail,      \* what the reader sees
    lost,       \* events that only show in a summary
    told,       \* how many of them do
    open,       \* events may join the line
    sealed      \* nothing more is written

vars == <<offered, undecided, line, trail, lost, told, open, sealed>>

Record(e) == [kind |-> "record", event |-> e]
Summary(n) == [kind |-> "gap", count |-> n]

Init ==
    /\ offered = 0
    /\ undecided = {}
    /\ line = <<>>
    /\ trail = <<>>
    /\ lost = {}
    /\ told = 0
    /\ open = TRUE
    /\ sealed = FALSE

Offer ==
    /\ offered' = offered + 1
    /\ undecided' = undecided \cup {offered + 1}
    /\ UNCHANGED <<line, trail, lost, told, open, sealed>>

Drop(e) ==
    /\ MayDrop \/ ~open
    /\ undecided' = undecided \ {e}
    /\ UNCHANGED <<offered, line, trail, lost, told, open, sealed>>

\* The writer may hold one record besides those that wait.
Join(e) ==
    /\ open
    /\ Len(line) <= Capacity
    /\ undecided' = undecided \ {e}
    /\ line' = Append(line, e)
    /\ UNCHANGED <<offered, trail, lost, told, open, sealed>>

Overflow(e) ==
    /\ open
    /\ Len(line) >= Capacity
    /\ undecided' = undecided \ {e}
    /\ lost' = lost \cup {e}
    /\ UNCHANGED <<offered, line, trail, told, open, sealed>>

Write ==
    /\ ~sealed
    /\ line # <<>>
    /\ trail' = Append(trail, Record(Head(line)))
    /\ line' = Tail(line)
    /\ UNCHANGED <<offered, undecided, lost, told, open, sealed>>

WriteFails ==
    /\ ~sealed
    /\ line # <<>>
    /\ lost' = lost \cup {Head(line)}
    /\ line' = Tail(line)
    /\ UNCHANGED <<offered, undecided, trail, told, open, sealed>>

Tell ==
    /\ ~sealed
    /\ \E n \in 1 .. (Cardinality(lost) - told) :
        /\ trail' = Append(trail, Summary(n))
        /\ told' = told + n
    /\ UNCHANGED <<offered, undecided, line, lost, open, sealed>>

Shut ==
    /\ open' = FALSE
    /\ UNCHANGED <<offered, undecided, line, trail, lost, told, sealed>>

Seal ==
    /\ ~open
    /\ line = <<>>
    /\ sealed' = TRUE
    /\ UNCHANGED <<offered, undecided, line, trail, lost, told, open>>

Next ==
    \/ Offer
    \/ \E e \in undecided : Drop(e) \/ Join(e) \/ Overflow(e)
    \/ Write \/ WriteFails \/ Tell
    \/ Shut \/ Seal

Spec == Init /\ [][Next]_vars
=============================================================================
