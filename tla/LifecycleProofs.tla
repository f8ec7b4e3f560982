-------------------------- MODULE LifecycleProofs --------------------------
(* Proofs about Lifecycle, for every choice of servers, connections and     *)
(* signals.                                                                 *)
EXTENDS Lifecycle, TLAPS

\* Nothing is served before its server runs; the group is started once.
StartInv ==
    /\ main = "setup" => interrupted = {} /\ \A a \in Actors : actor[a] = "new"
    /\ \A c \in Conns : conn[c] # "none" => actor[ServerOf[c]] \in {"running", "returned"}

\* Once Shutdown of a server is through, it stays quiet.
Quiet(s) == s \in shut /\ actor[s] # "running" /\ NoneTracked(s)
ShutdownInv == \A s \in Servers \cap interrupted : Quiet(s)

\* The log is closed after all interrupts, or without the group ever started.
PhaseInv ==
    /\ main = "collecting" => interrupted = Actors
    /\ main \in {"flushing", "exited"} =>
        interrupted = Actors \/ \A a \in Actors : actor[a] = "new"

RecordInv == \A c \in Conns : record[c] = "refused" => conn[c] = "hijackEnded"

IInv == TypeOK /\ StartInv /\ ShutdownInv /\ PhaseInv /\ RecordInv

LEMMA ActorFacts ==
    Servers \subseteq Actors /\ "signal" \in Actors /\ (Reloading => "reloader" \in Actors)
    /\ "signal" \notin Servers /\ "reloader" \notin Servers
BY ServersAssumption DEF ServersAssumption, Actors

LEMMA InitInv == Init => IInv
<1> SUFFICES ASSUME Init
             PROVE  IInv
  OBVIOUS
<1> USE DEF Init
<1>1. TypeOK
  <2>1. signals \in 0 .. MaxSignals
    BY SignalsAssumption DEF SignalsAssumption
  <2> QED
    BY <2>1 DEF TypeOK, Ended
<1>2. StartInv /\ ShutdownInv /\ PhaseInv /\ RecordInv
  BY ActorFacts, ConnsAssumption
  DEF ConnsAssumption, StartInv, ShutdownInv, PhaseInv, RecordInv
<1> QED
  BY <1>1, <1>2 DEF IInv

LEMMA NextInv == IInv /\ [Next]_vars => IInv'
<1> SUFFICES ASSUME IInv, [Next]_vars
             PROVE  IInv'
  OBVIOUS
<1> USE ActorFacts, ConnsAssumption, SignalsAssumption
    DEF ConnsAssumption, SignalsAssumption, IInv, TypeOK, StartInv, ShutdownInv, PhaseInv,
        RecordInv, Quiet, NoneTracked, Ended, Alive, interruptVars, sigVars, connVars
<1>1. CASE StartGroup
  BY <1>1 DEF StartGroup
<1>2. CASE SetupFails
  BY <1>2 DEF SetupFails
<1>3. CASE FirstReturns
  BY <1>3 DEF FirstReturns
<1>4. CASE Interrupt
  <2>1. CASE InterruptReloader
    BY <1>4, <2>1 DEF InterruptReloader, Turn, InterruptDone
  <2>2. CASE InterruptSignal
    BY <1>4, <2>2 DEF InterruptSignal, Turn, InterruptDone, CloseChannel
  <2>3. ASSUME NEW s \in Servers, BeginShutdown(s)
        PROVE  IInv'
    BY <2>3 DEF BeginShutdown, Turn
  <2>4. ASSUME NEW s \in Servers, ShutdownReturns(s)
        PROVE  IInv'
    BY <2>4 DEF ShutdownReturns, Turn, InterruptDone
  <2> QED
    BY <1>4, <2>1, <2>2, <2>3, <2>4 DEF Interrupt
<1>5. CASE GroupReturns
  BY <1>5 DEF GroupReturns
<1>6. CASE Exit
  BY <1>6 DEF Exit
<1>7. CASE ReloaderReturns
  BY <1>7 DEF ReloaderReturns, Return
<1>8. CASE ReloadFails
  BY <1>8 DEF ReloadFails, Return
<1>9. ASSUME NEW s \in Servers, Serve(s)
      PROVE  IInv'
  BY <1>9 DEF Serve
<1>10. ASSUME NEW s \in Servers, ServeReturns(s)
       PROVE  IInv'
  BY <1>10 DEF ServeReturns, Return
<1>11. ASSUME NEW s \in Servers, ListenerFails(s)
       PROVE  IInv'
  BY <1>11 DEF ListenerFails, Return
<1>12. CASE Notify
  BY <1>12 DEF Notify
<1>13. CASE SignalReceived
  BY <1>13 DEF SignalReceived, Return
<1>14. CASE Signal
  <2>1. CASE SignalKills
    BY <2>1 DEF SignalKills, Arrives
  <2>2. CASE SignalSent
    BY <2>2 DEF SignalSent, Arrives
  <2>3. CASE SignalPanics
    BY <2>3 DEF SignalPanics, Arrives
  <2> QED
    BY <1>14, <2>1, <2>2, <2>3 DEF Signal
<1>15. ASSUME NEW c \in Conns, Accept(c)
       PROVE  IInv'
  BY <1>15 DEF Accept
<1>16. ASSUME NEW c \in Conns, Request(c)
       PROVE  IInv'
  BY <1>16 DEF Request
<1>17. ASSUME NEW c \in Conns, Answer(c)
       PROVE  IInv'
  BY <1>17 DEF Answer, Enqueue
<1>18. ASSUME NEW c \in Conns, Hijack(c)
       PROVE  IInv'
  BY <1>18 DEF Hijack
<1>19. ASSUME NEW c \in Conns, HijackedEnds(c)
       PROVE  IInv'
  BY <1>19 DEF HijackedEnds, Enqueue
<1>20. ASSUME NEW c \in Conns, CloseIdle(c)
       PROVE  IInv'
  BY <1>20 DEF CloseIdle
<1>21. ASSUME NEW c \in Conns, WriteRecord(c)
       PROVE  IInv'
  BY <1>21 DEF WriteRecord
<1>22. CASE Finished \/ UNCHANGED vars
  BY <1>22 DEF Finished, vars
<1> QED
  BY <1>1, <1>2, <1>3, <1>4, <1>5, <1>6, <1>7, <1>8, <1>9, <1>10, <1>11, <1>12, <1>13,
     <1>14, <1>15, <1>16, <1>17, <1>18, <1>19, <1>20, <1>21, <1>22
  DEF Next, Run, ServerStep, SignalStep, ConnStep

LEMMA Invariance == Spec => []IInv
BY InitInv, NextInv, PTL DEF Spec

\* The variables stay within their types, for any servers and connections.
THEOREM LifecycleTypeOK == Spec => []TypeOK
<1>1. IInv => TypeOK
  BY DEF IInv
<1> QED
  BY Invariance, <1>1, PTL

\* The audit log is closed behind the last served request, so only hijacked
\* connections outlive it.
THEOREM RecordsOfServedRequests == Spec => []ServedRequestsAreRecorded
<1>1. IInv => ServedRequestsAreRecorded
  <2> SUFFICES ASSUME IInv, main \in {"flushing", "exited"}, NEW c \in Conns
               PROVE  conn[c] # "active"
    BY DEF IInv, RecordInv, ServedRequestsAreRecorded
  <2>1. CASE interrupted = Actors
    BY <2>1, ActorFacts, ConnsAssumption
    DEF IInv, ShutdownInv, Quiet, NoneTracked, ConnsAssumption
  <2>2. CASE \A a \in Actors : actor[a] = "new"
    BY <2>2, ActorFacts, ConnsAssumption DEF IInv, StartInv, ConnsAssumption
  <2> QED
    BY <2>1, <2>2 DEF IInv, PhaseInv
<1> QED
  BY Invariance, <1>1, PTL
=============================================================================
