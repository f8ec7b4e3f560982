-------------------------- MODULE UpstreamTimeout --------------------------
(***************************************************************************)
(* upstreamTimeoutRoundTripper: one RoundTrip, the timer callback that may *)
(* run in a goroutine of its own, the cancellation of the request by its   *)
(* client, and the reader of the response body, all racing.                *)
(*                                                                         *)
(* The two critical sections under mu are one step each.  A cancellation   *)
(* sets the cause of a context that has none; later ones have no effect.   *)
(* The timer never runs early; how late it runs is up to the scheduler.    *)
(***************************************************************************)
EXTENDS Integers

CONSTANTS
    Timeout,    \* --upstream-timeout, positive: otherwise there is no wrapper
    Arrival,    \* when the request arrived, the start of its budget
    HasBudget,  \* the request context carries a requestTimeoutBudget
    MaxNow      \* bound: the clock stops here

ASSUME TimeAssumption ==
    Timeout \in Nat \ {0} /\ Arrival \in Nat /\ MaxNow \in Nat
ASSUME BudgetAssumption == HasBudget \in BOOLEAN

VARIABLES
    now,        \* the clock
    pc,         \* RoundTrip and then the reader of the body
    parent,     \* the request context is cancelled (client gone, server closed)
    cause,      \* context.Cause of the child context
    timer,      \* time.AfterFunc
    fireAt,     \* when it fires
    completed,  \* completed and timedOut, the variables under mu
    timedOut,
    resp,       \* what next.RoundTrip returned
    upBody,     \* the body of the upstream response
    won,        \* timeoutWon
    result      \* what RoundTrip returned

ctxVars == <<parent, cause>>
timerVars == <<timer, fireAt>>
muVars == <<completed, timedOut>>
vars == <<now, pc, ctxVars, timerVars, muVars, resp, upBody, won, result>>

Init ==
    /\ now = Arrival
    /\ pc = "start"
    /\ parent = FALSE
    /\ cause = "none"
    /\ timer = "unset"
    /\ fireAt = 0
    /\ completed = FALSE
    /\ timedOut = FALSE
    /\ resp = "none"
    /\ upBody = "none"
    /\ won = FALSE
    /\ result = "none"

Cancelled(c, why) == IF c = "none" THEN why ELSE c

\* Mutant: closing the body, or an error, leaves the child context alone.
NotReleased(c) == c

Released(c) == Cancelled(c, "released")

\* The deadline of the budget counts from the arrival of the request.
Remaining == IF HasBudget THEN Arrival + Timeout - now ELSE Timeout

\* The budget is used up: nothing is sent.
Exhausted ==
    /\ pc = "start"
    /\ Remaining <= 0
    /\ result' = IF parent THEN "failure" ELSE "deadline"
    /\ pc' = "end"
    /\ UNCHANGED <<now, ctxVars, timerVars, muVars, resp, upBody, won>>

Start ==
    /\ pc = "start"
    /\ Remaining > 0
    /\ cause' = IF parent THEN "parent" ELSE "none"
    /\ timer' = "armed"
    /\ fireAt' = now + Remaining
    /\ pc' = "transport"
    /\ UNCHANGED <<now, parent, muVars, resp, upBody, won, result>>

\* The transport may return anything at any time, also for a context that is
\* done: a response with a body, one without, or an error.
TransportReturns ==
    /\ pc = "transport"
    /\ resp' \in {"response", "bodyless", "error"}
    /\ upBody' = IF resp' = "response" THEN "open" ELSE "none"
    /\ pc' = "returned"
    /\ UNCHANGED <<now, ctxVars, timerVars, muVars, won, result>>

\* timer.Stop has no effect on a callback that is running already.
Stopped(t) == IF t = "armed" THEN "stopped" ELSE t

\* Mutant: the flag alone decides, whoever cancelled the request.
TimerRan == timedOut

TimeoutWon == timedOut /\ cause = "timeout"

Complete ==
    /\ pc = "returned"
    /\ completed' = TRUE
    /\ timer' = Stopped(timer)
    /\ won' = TimeoutWon
    /\ pc' = "completed"
    /\ UNCHANGED <<now, ctxVars, fireAt, timedOut, resp, upBody, result>>

\* Mutant: the late response is just forgotten.
LeftOpen(body) == body

\* resp.Body.Close on a response nobody will read.
Closed(body) == IF body = "open" THEN "closed" ELSE body

\* The late response is closed and the deadline reported.
ReturnDeadline ==
    /\ pc = "completed"
    /\ won
    /\ upBody' = Closed(upBody)
    /\ result' = "deadline"
    /\ pc' = "end"
    /\ UNCHANGED <<now, ctxVars, timerVars, muVars, resp, won>>

\* An error, or a response without a body, releases the child context.
ReturnBodyless ==
    /\ pc = "completed"
    /\ ~won
    /\ resp # "response"
    /\ cause' = Released(cause)
    /\ result' = IF resp = "error" THEN "failure" ELSE "response"
    /\ pc' = "end"
    /\ UNCHANGED <<now, parent, timerVars, muVars, resp, upBody, won>>

\* The body is wrapped: closing it releases the child context.
ReturnResponse ==
    /\ pc = "completed"
    /\ ~won
    /\ resp = "response"
    /\ result' = "response"
    /\ pc' = "body"
    /\ UNCHANGED <<now, ctxVars, timerVars, muVars, resp, upBody, won>>

CloseBody ==
    /\ pc = "body"
    /\ cause' = Released(cause)
    /\ upBody' = "closed"
    /\ pc' = "end"
    /\ UNCHANGED <<now, parent, timerVars, muVars, resp, won, result>>

-----------------------------------------------------------------------------
TimerFires ==
    /\ timer = "armed"
    /\ now >= fireAt
    /\ timer' = "running"
    /\ UNCHANGED <<now, pc, ctxVars, fireAt, muVars, resp, upBody, won, result>>

\* Mutants: the callback relies on Stop alone, or does not cancel the request.
NeverBacksOut == FALSE
NotCancelled(c) == c

\* The callback, under mu: it backs out if the transport has returned.
BacksOut == completed
TimerCancels(c) == Cancelled(c, "timeout")

Callback ==
    /\ timer = "running"
    /\ timer' = "ended"
    /\ \/ /\ BacksOut
          /\ UNCHANGED <<timedOut, cause>>
       \/ /\ ~BacksOut
          /\ timedOut' = TRUE
          /\ cause' = TimerCancels(cause)
    /\ UNCHANGED <<now, pc, parent, fireAt, completed, resp, upBody, won, result>>

\* The client leaves or the server closes the connection; the child context, if
\* there is one already, follows.
ParentCancelled ==
    /\ ~parent
    /\ parent' = TRUE
    /\ cause' = IF timer = "unset" THEN cause ELSE Cancelled(cause, "parent")
    /\ UNCHANGED <<now, pc, timerVars, muVars, resp, upBody, won, result>>

Tick ==
    /\ now < MaxNow
    /\ now' = now + 1
    /\ UNCHANGED <<pc, ctxVars, timerVars, muVars, resp, upBody, won, result>>

Finished == pc = "end" /\ UNCHANGED vars

RoundTrip ==
    \/ Exhausted \/ Start \/ TransportReturns \/ Complete
    \/ ReturnDeadline \/ ReturnBodyless \/ ReturnResponse

Next ==
    \/ RoundTrip \/ CloseBody \/ TimerFires \/ Callback
    \/ ParentCancelled \/ Tick \/ Finished

Spec == Init /\ [][Next]_vars

(***************************************************************************)
(* Fairness: RoundTrip, the timer and its callback run, and a transport    *)
(* returns once the context of its request is cancelled.  A transport      *)
(* whose context is not cancelled may wait for ever.                       *)
(***************************************************************************)
TransportHonoursContext == cause # "none" /\ TransportReturns

Fairness ==
    /\ WF_vars(Tick)
    /\ WF_vars(Exhausted \/ Start)
    /\ WF_vars(Complete \/ ReturnDeadline \/ ReturnBodyless \/ ReturnResponse)
    /\ WF_vars(TransportHonoursContext)
    /\ WF_vars(TimerFires)
    /\ WF_vars(Callback)

LiveSpec == Spec /\ Fairness

-----------------------------------------------------------------------------
TypeOK ==
    /\ now \in Nat
    /\ pc \in {"start", "transport", "returned", "completed", "body", "end"}
    /\ parent \in BOOLEAN
    /\ cause \in {"none", "parent", "timeout", "released"}
    /\ timer \in {"unset", "armed", "running", "stopped", "ended"}
    /\ fireAt \in Nat
    /\ completed \in BOOLEAN
    /\ timedOut \in BOOLEAN
    /\ resp \in {"none", "response", "bodyless", "error"}
    /\ upBody \in {"none", "open", "closed"}
    /\ won \in BOOLEAN
    /\ result \in {"none", "deadline", "failure", "response"}

\* The stream the caller of RoundTrip got.  A body whose context the timer
\* cancelled would be neither open nor cut by the client.
Stream ==
    IF result # "response" \/ resp # "response" THEN "none"
    ELSE IF pc = "end" THEN "closed"
    ELSE CASE cause = "none" -> "open"
           [] cause = "parent" -> "cut"
           [] OTHER -> cause

Contract == INSTANCE RoundTripContract
                WITH Deadline <- Arrival + Timeout,
                     outcome <- IF result = "none" THEN "pending" ELSE result,
                     stream <- Stream

\* "After headers arrive, the timeout is disarmed": the transport implements
\* RoundTripContract.  The timeout never strikes early, and a response that was
\* returned is never cut by a timer, even one whose callback was under way
\* already when Stop was called (RoundTrip).
ImplementsContract == Contract!Spec

\* When the timeout won, the body of a response that came late after all is
\* closed, and every body is closed in the end (RoundTrip).
LateBodyIsClosed ==
    pc = "end" => upBody # "open"

\* A client's cancellation stays distinguishable from the timeout: a deadline is
\* reported only if it was the timer that cancelled the request, or if the
\* request was not sent at all (RoundTrip).
DeadlineMeansTimer ==
    result = "deadline" /\ timer # "unset" => cause = "timeout"

\* The child context never outlives the request: whatever way it ended, its
\* context is cancelled (RoundTrip, cancelOnCloseReadCloser.Close).
ChildContextIsReleased ==
    pc = "end" /\ timer # "unset" => cause # "none"

\* A request the upstream does not answer comes back once the timer has fired.
RoundTripReturns ==
    (pc = "start") ~> (result # "none")
=============================================================================
