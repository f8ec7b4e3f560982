----------------------- MODULE UpstreamTimeoutProofs -----------------------
(***************************************************************************)
(* For every timeout, every arrival and with or without a budget: the      *)
(* round trip implements RoundTripContract, and what a deadline means.     *)
(***************************************************************************)
EXTENDS UpstreamTimeout, TLAPS

\* Before Start there is no timer and no child context; later the timer is set
\* for the deadline or after it.
TimerInv ==
    /\ Arrival <= now
    /\ pc = "start" => timer = "unset" /\ cause = "none"
    /\ timer = "unset" => pc \in {"start", "end"} /\ ~timedOut
    /\ timer # "unset" => Arrival + Timeout <= fireAt
    /\ timer = "running" \/ timedOut => Arrival + Timeout <= now

\* Who cancelled the child context.
CauseInv ==
    /\ cause = "timeout" => timedOut
    /\ timedOut => cause # "none"
    /\ cause = "released" => pc = "end"

\* The decision taken under mu stands: a timer that runs later changes neither
\* timedOut nor the context.
DecisionInv ==
    /\ pc \in {"start", "transport", "returned"} => ~completed
    /\ pc \in {"completed", "body"} => completed
    /\ pc = "completed" => (won <=> TimeoutWon)
    /\ pc = "body" => ~TimeoutWon

ResultInv ==
    /\ result = "none" <=> pc \in {"start", "transport", "returned", "completed"}
    /\ pc = "body" => result = "response" /\ resp = "response"
    /\ pc \in {"start", "transport"} => resp = "none" /\ upBody = "none"
    /\ upBody = "open" => resp = "response" /\ pc \in {"returned", "completed", "body"}
    /\ result = "deadline" /\ timer # "unset" => cause = "timeout"
    /\ pc = "end" /\ timer # "unset" => cause # "none"

IInv == TypeOK /\ TimerInv /\ CauseInv /\ DecisionInv /\ ResultInv

\* The invariant holds before RoundTrip is called.
LEMMA InitInv == Init => IInv
<1> SUFFICES ASSUME Init PROVE IInv
  OBVIOUS
<1> USE TimeAssumption DEF TimeAssumption, Init
<1>1. TypeOK
  BY DEF TypeOK
<1>2. TimerInv
  BY DEF TimerInv
<1>3. CauseInv
  BY DEF CauseInv
<1>4. DecisionInv
  BY DEF DecisionInv
<1>5. ResultInv
  BY DEF ResultInv
<1> QED
  BY <1>1, <1>2, <1>3, <1>4, <1>5 DEF IInv

\* Every step of the round trip, its timer, its client and its reader keeps it.
LEMMA NextInv == IInv /\ [Next]_vars => IInv'
<1> SUFFICES ASSUME IInv, [Next]_vars PROVE IInv'
  OBVIOUS
<1> USE DEF IInv, TypeOK, TimerInv, CauseInv, DecisionInv, ResultInv,
            ctxVars, timerVars, muVars
<1>1. CASE Exhausted
  BY <1>1, TimeAssumption, BudgetAssumption DEF TimeAssumption, BudgetAssumption, Exhausted, Remaining
<1>2. CASE Start
  BY <1>2, TimeAssumption, BudgetAssumption
    DEF TimeAssumption, BudgetAssumption, Start, Remaining, Cancelled
<1>3. CASE TransportReturns
  BY <1>3 DEF TransportReturns
<1>4. CASE Complete
  BY <1>4 DEF Complete, TimeoutWon, Stopped
<1>5. CASE ReturnDeadline
  BY <1>5 DEF ReturnDeadline, Closed, TimeoutWon
<1>6. CASE ReturnBodyless
  BY <1>6 DEF ReturnBodyless, Released, Cancelled, TimeoutWon
<1>7. CASE ReturnResponse
  BY <1>7 DEF ReturnResponse, TimeoutWon
<1>8. CASE CloseBody
  BY <1>8 DEF CloseBody, Released, Cancelled, TimeoutWon
<1>9. CASE TimerFires
  <2> USE <1>9 DEF TimerFires, TimeoutWon
  <2>1. TypeOK'
    OBVIOUS
  <2>2. TimerInv'
    BY TimeAssumption DEF TimeAssumption
  <2>3. CauseInv'
    OBVIOUS
  <2>4. DecisionInv'
    OBVIOUS
  <2>5. ResultInv'
    OBVIOUS
  <2> QED
    BY <2>1, <2>2, <2>3, <2>4, <2>5
<1>10. CASE Callback
  <2> USE <1>10 DEF Callback, BacksOut, TimerCancels, Cancelled, TimeoutWon
  <2>1. TypeOK'
    OBVIOUS
  <2>2. TimerInv'
    OBVIOUS
  <2>3. CauseInv'
    OBVIOUS
  <2>4. DecisionInv'
    OBVIOUS
  <2>5. ResultInv'
    OBVIOUS
  <2> QED
    BY <2>1, <2>2, <2>3, <2>4, <2>5
<1>11. CASE ParentCancelled
  <2> USE <1>11 DEF ParentCancelled, Cancelled, TimeoutWon
  <2>1. TypeOK'
    OBVIOUS
  <2>2. TimerInv'
    OBVIOUS
  <2>3. CauseInv'
    OBVIOUS
  <2>4. DecisionInv'
    OBVIOUS
  <2>5. ResultInv'
    OBVIOUS
  <2> QED
    BY <2>1, <2>2, <2>3, <2>4, <2>5
<1>12. CASE Tick
  BY <1>12, TimeAssumption DEF TimeAssumption, Tick, TimeoutWon
<1>13. CASE UNCHANGED vars
  BY <1>13 DEF vars, TimeoutWon
<1> QED
  BY <1>1, <1>2, <1>3, <1>4, <1>5, <1>6, <1>7, <1>8, <1>9, <1>10, <1>11, <1>12, <1>13 DEF Next, RoundTrip, Finished

LEMMA Invariant == Spec => []IInv
BY InitInv, NextInv, PTL DEF Spec

\* When the timeout won, the body of a response that came late after all is
\* closed, and every body is closed in the end (RoundTrip).
THEOREM LateBodyTheorem == Spec => []LateBodyIsClosed
<1>1. IInv => LateBodyIsClosed
  BY DEF IInv, ResultInv, LateBodyIsClosed
<1> QED
  BY <1>1, Invariant, PTL

\* A deadline is reported only if it was the timer that cancelled the request,
\* or if the request was not sent at all (RoundTrip).
THEOREM DeadlineTheorem == Spec => []DeadlineMeansTimer
<1>1. IInv => DeadlineMeansTimer
  BY DEF IInv, ResultInv, DeadlineMeansTimer
<1> QED
  BY <1>1, Invariant, PTL

\* Whatever way the request ended, its child context is cancelled (RoundTrip,
\* cancelOnCloseReadCloser.Close).
THEOREM ReleaseTheorem == Spec => []ChildContextIsReleased
<1>1. IInv => ChildContextIsReleased
  BY DEF IInv, ResultInv, ChildContextIsReleased
<1> QED
  BY <1>1, Invariant, PTL

-----------------------------------------------------------------------------
(* The refinement.                                                         *)

\* Before RoundTrip is called the reverse proxy sees a pending outcome.
LEMMA RefinesInit == Init => Contract!Init
BY TimeAssumption DEF TimeAssumption, Init, Contract!Init, Stream

\* Every step is a step of the contract or invisible to the reverse proxy.
LEMMA RefinesNext == IInv /\ [Next]_vars => [Contract!Next]_Contract!vars
<1> SUFFICES ASSUME IInv, [Next]_vars PROVE [Contract!Next]_Contract!vars
  OBVIOUS
<1> USE DEF IInv, TypeOK, Stream, ctxVars, timerVars, muVars
<1>1. CASE Exhausted
  <2>1. Arrival + Timeout <= now
    BY <1>1, TimeAssumption, BudgetAssumption
      DEF TimeAssumption, BudgetAssumption, Exhausted, Remaining
  <2>2. CASE parent
    BY <1>1, <2>2, TimeAssumption
      DEF Exhausted, ResultInv, Contract!Next, Contract!Fail, Contract!vars
  <2>3. CASE ~parent
    BY <1>1, <2>1, <2>3
      DEF Exhausted, ResultInv, Contract!Next, Contract!Expire, Contract!vars
  <2> QED
    BY <2>2, <2>3
<1>2. CASE Start
  BY <1>2 DEF Start, ResultInv, Contract!vars
<1>3. CASE TransportReturns
  BY <1>3 DEF TransportReturns, ResultInv, Contract!vars
<1>4. CASE Complete
  BY <1>4 DEF Complete, ResultInv, Contract!vars
<1>5. CASE ReturnDeadline
  <2>1. Arrival + Timeout <= now
    BY <1>5 DEF ReturnDeadline, DecisionInv, TimeoutWon, TimerInv
  <2> QED
    BY <1>5, <2>1 DEF ReturnDeadline, ResultInv, Contract!Next, Contract!Expire
<1>6. CASE ReturnBodyless
  <2>1. CASE resp = "error"
    BY <1>6, <2>1 DEF ReturnBodyless, ResultInv, Contract!Next, Contract!Fail
  <2>2. CASE resp # "error"
    BY <1>6, <2>2 DEF ReturnBodyless, ResultInv, Contract!Next, Contract!Respond
  <2> QED
    BY <2>1, <2>2
<1>7. CASE ReturnResponse
  <2>1. cause \in {"none", "parent"}
    BY <1>7 DEF ReturnResponse, CauseInv, DecisionInv, TimeoutWon
  <2> QED
    BY <1>7, <2>1 DEF ReturnResponse, ResultInv, Contract!Next, Contract!Respond
<1>8. CASE CloseBody
  <2>1. cause \in {"none", "parent"}
    BY <1>8 DEF CloseBody, CauseInv, DecisionInv, TimeoutWon
  <2> QED
    BY <1>8, <2>1 DEF CloseBody, ResultInv, Contract!Next, Contract!CloseBody
<1>9. CASE TimerFires
  BY <1>9 DEF TimerFires, Contract!vars
<1>10. CASE Callback
  \* In pc "body" completed holds, and the callback backs out.
  <2>1. pc = "body" => UNCHANGED cause
    BY <1>10 DEF Callback, BacksOut, DecisionInv
  <2> QED
    BY <1>10, <2>1 DEF Callback, ResultInv, Contract!vars
<1>11. CASE ParentCancelled
  <2>1. CASE pc = "body" /\ cause = "none"
    BY <1>11, <2>1 DEF ParentCancelled, Cancelled, ResultInv, TimerInv,
      Contract!Next, Contract!ClientLeaves
  <2>2. CASE ~(pc = "body" /\ cause = "none")
    BY <1>11, <2>2 DEF ParentCancelled, Cancelled, ResultInv, Contract!vars
  <2> QED
    BY <2>1, <2>2
<1>12. CASE Tick
  BY <1>12 DEF Tick, Contract!Next, Contract!Tick
<1>13. CASE UNCHANGED vars
  BY <1>13 DEF vars, Contract!vars
<1> QED
  BY <1>1, <1>2, <1>3, <1>4, <1>5, <1>6, <1>7, <1>8, <1>9, <1>10, <1>11, <1>12, <1>13
    DEF Next, RoundTrip, Finished

\* The timeout never strikes early, and a response that was returned is never
\* cut by the timer, however late its callback runs (RoundTrip).
THEOREM ContractTheorem == Spec => ImplementsContract
BY Invariant, RefinesInit, RefinesNext, PTL DEF Spec, ImplementsContract, Contract!Spec
=============================================================================
