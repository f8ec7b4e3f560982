----------------------------- MODULE Lifecycle -----------------------------
(***************************************************************************)
(* Run: the actors of the run group (certificate reloader, servers, signal *)
(* handler), the shutdown that starts when the first of them ends, and the *)
(* deferred flush of the audit log.                                        *)
(*                                                                         *)
(* run.Group starts all actors, waits for the first to return, interrupts  *)
(* them one after the other and then waits for the others.  http.Server's  *)
(* Shutdown has no deadline here; it waits for connections that serve a    *)
(* request, closes idle ones and does not know of hijacked ones (upgrades, *)
(* h2c).  A connection of the model carries one request, and audit logging *)
(* is on.                                                                  *)
(***************************************************************************)
EXTENDS Integers

CONSTANTS
    Reloading,      \* --tls-cert-file is set, so there is a reloader
    Servers,        \* the configured servers
    Conns,          \* connections
    ServerOf,       \* the server a connection is made to
    MaxSignals      \* bound: SIGINT or SIGTERM sent to the process

ASSUME ServersAssumption ==
    /\ Servers \in SUBSET {"secure", "endpoints", "insecure"}
    /\ Servers \cap {"secure", "insecure"} # {}
    /\ "endpoints" \in Servers => "secure" \in Servers
    /\ Reloading \in BOOLEAN
    /\ Reloading => "secure" \in Servers
ASSUME ConnsAssumption == ServerOf \in [Conns -> Servers]
ASSUME SignalsAssumption == MaxSignals \in Nat

Actors == Servers \cup {"signal"} \cup (IF Reloading THEN {"reloader"} ELSE {})

\* The order of gr.Add.
Rank == [reloader |-> 1, secure |-> 2, endpoints |-> 3, insecure |-> 4, signal |-> 5]

VARIABLES
    main,       \* the goroutine of Run: "setup", "waiting", "interrupting",
                \* "collecting", "flushing", "exited"; or the end of the process
                \* without it, "crashed" or "killed"
    actor,      \* each actor: "new", "starting", "running" or "returned"
    interrupted,\* actors whose interrupt function is through
    cancelled,  \* the context of the reloader is cancelled
    shut,       \* servers whose Shutdown has been called
    sig,        \* a signal is in the channel, which holds one
    sigClosed,  \* the channel of the signal actor is closed
    signals,    \* how many signals were sent
    conn,       \* "none", "idle", "active", "hijacked", "closed", "hijackEnded"
    record,     \* audit record of the request: "none", "queued", "written", "refused"
    expired     \* Close of the audit log gave up

interruptVars == <<interrupted, cancelled, shut>>
sigVars == <<sig, sigClosed, signals>>
connVars == <<conn, record>>
vars == <<main, actor, interruptVars, sigVars, connVars, expired>>

Ended == {"exited", "crashed", "killed"}
Alive == main \notin Ended

Init ==
    /\ main = "setup"
    /\ actor = [a \in Actors |-> "new"]
    /\ interrupted = {}
    /\ cancelled = FALSE
    /\ shut = {}
    /\ sig = FALSE
    /\ sigClosed = FALSE
    /\ signals = 0
    /\ conn = [c \in Conns |-> "none"]
    /\ record = [c \in Conns |-> "none"]
    /\ expired = FALSE

-----------------------------------------------------------------------------
(* The goroutine of Run.                                                   *)

StartGroup ==
    /\ main = "setup"
    /\ main' = "waiting"
    /\ actor' = [a \in Actors |-> "starting"]
    /\ UNCHANGED <<interruptVars, sigVars, connVars, expired>>

\* A certificate that cannot be loaded, or an insecure address that is taken.
SetupFails ==
    /\ main = "setup"
    /\ main' = "flushing"
    /\ UNCHANGED <<actor, interruptVars, sigVars, connVars, expired>>

FirstReturns ==
    /\ main = "waiting"
    /\ \E a \in Actors : actor[a] = "returned"
    /\ main' = "interrupting"
    /\ UNCHANGED <<actor, interruptVars, sigVars, connVars, expired>>

\* It is the turn of a to be interrupted.
Turn(a) ==
    /\ main = "interrupting"
    /\ a \in Actors \ interrupted
    /\ \A b \in Actors \ interrupted : Rank[a] <= Rank[b]

InterruptDone(a) ==
    /\ interrupted' = interrupted \cup {a}
    /\ main' = IF interrupted' = Actors THEN "collecting" ELSE main

InterruptReloader ==
    /\ Turn("reloader")
    /\ cancelled' = TRUE
    /\ InterruptDone("reloader")
    /\ UNCHANGED <<actor, shut, sigVars, connVars, expired>>

BeginShutdown(s) ==
    /\ Turn(s)
    /\ s \notin shut
    /\ shut' = shut \cup {s}
    /\ UNCHANGED <<main, actor, interrupted, cancelled, sigVars, connVars, expired>>

\* Mutant: Shutdown does not wait for requests.
NoneIdle(s) == \A c \in Conns : ServerOf[c] = s => conn[c] # "idle"

NoneTracked(s) == \A c \in Conns : ServerOf[c] = s => conn[c] \notin {"idle", "active"}

\* Shutdown first waits for the accept loop, so no connection escapes it.

ShutdownReturns(s) ==
    /\ Turn(s)
    /\ s \in shut
    /\ actor[s] # "running"
    /\ NoneTracked(s)
    /\ InterruptDone(s)
    /\ UNCHANGED <<actor, cancelled, shut, sigVars, connVars, expired>>

\* Mutant: the channel stays open.
LeaveChannelOpen == UNCHANGED sigClosed

CloseChannel == sigClosed' = TRUE

InterruptSignal ==
    /\ Turn("signal")
    /\ CloseChannel
    /\ InterruptDone("signal")
    /\ UNCHANGED <<actor, cancelled, shut, sig, signals, connVars, expired>>

\* All actors have returned; the deferred Close of the audit log begins.
GroupReturns ==
    /\ main = "collecting"
    /\ \A a \in Actors : actor[a] = "returned"
    /\ main' = "flushing"
    /\ UNCHANGED <<actor, interruptVars, sigVars, connVars, expired>>

\* The writer is done, or auditShutdownTimeout is over.
Exit ==
    /\ main = "flushing"
    /\ \/ expired' = FALSE /\ \A c \in Conns : record[c] # "queued"
       \/ expired' = TRUE
    /\ main' = "exited"
    /\ UNCHANGED <<actor, interruptVars, sigVars, connVars>>

-----------------------------------------------------------------------------
(* The goroutines of the actors.                                           *)

Return(a) == actor' = [actor EXCEPT ![a] = "returned"]

\* Watch, from its start: it looks at its context between reloads, and a reload
\* may fail.
ReloaderReturns ==
    /\ Alive
    /\ Reloading
    /\ actor["reloader"] = "starting"
    /\ cancelled
    /\ Return("reloader")
    /\ UNCHANGED <<main, interruptVars, sigVars, connVars, expired>>

ReloadFails ==
    /\ Alive
    /\ Reloading
    /\ actor["reloader"] = "starting"
    /\ Return("reloader")
    /\ UNCHANGED <<main, interruptVars, sigVars, connVars, expired>>

\* net.Listen and Serve.  Serve returns at once if Shutdown came first.
Serve(s) ==
    /\ Alive
    /\ actor[s] = "starting"
    /\ s \notin shut
    /\ actor' = [actor EXCEPT ![s] = "running"]
    /\ UNCHANGED <<main, interruptVars, sigVars, connVars, expired>>

ServeReturns(s) ==
    /\ Alive
    /\ actor[s] \in {"starting", "running"}
    /\ s \in shut
    /\ Return(s)
    /\ UNCHANGED <<main, interruptVars, sigVars, connVars, expired>>

\* The address is taken, or accepting connections fails for good.
ListenerFails(s) ==
    /\ Alive
    /\ actor[s] \in {"starting", "running"}
    /\ Return(s)
    /\ UNCHANGED <<main, interruptVars, sigVars, connVars, expired>>

Notify ==
    /\ Alive
    /\ actor["signal"] = "starting"
    /\ actor' = [actor EXCEPT !["signal"] = "running"]
    /\ UNCHANGED <<main, interruptVars, sigVars, connVars, expired>>

\* A closed channel is received from after what it still holds.
SignalReceived ==
    /\ Alive
    /\ actor["signal"] = "running"
    /\ sig \/ sigClosed
    /\ sig' = FALSE
    /\ Return("signal")
    /\ UNCHANGED <<main, interruptVars, sigClosed, signals, connVars, expired>>

(* The Go runtime gets a signal.                                           *)
Arrives ==
    /\ Alive
    /\ signals < MaxSignals
    /\ signals' = signals + 1
    /\ UNCHANGED <<actor, interruptVars, sigClosed, connVars, expired>>

Notified == actor["signal"] \in {"running", "returned"}

\* Without Notify a signal ends the process.
SignalKills == Arrives /\ ~Notified /\ main' = "killed" /\ UNCHANGED sig

\* With it the signal is sent, unless the channel is full.
SignalSent == Arrives /\ Notified /\ ~sigClosed /\ sig' = TRUE /\ UNCHANGED main

\* Sending on a closed channel panics, and nobody calls signal.Stop.
SignalPanics == Arrives /\ Notified /\ sigClosed /\ main' = "crashed" /\ UNCHANGED sig

Signal == SignalKills \/ SignalSent \/ SignalPanics

-----------------------------------------------------------------------------
(* Connections and the audit log.                                          *)

\* Also by an accept loop that has not noticed the shutdown yet.
Accept(c) ==
    /\ Alive
    /\ conn[c] = "none"
    /\ actor[ServerOf[c]] = "running"
    /\ conn' = [conn EXCEPT ![c] = "idle"]
    /\ UNCHANGED <<main, actor, interruptVars, sigVars, record, expired>>

\* A request on an open connection is served also while Shutdown polls.
Request(c) ==
    /\ Alive
    /\ conn[c] = "idle"
    /\ conn' = [conn EXCEPT ![c] = "active"]
    /\ UNCHANGED <<main, actor, interruptVars, sigVars, record, expired>>

\* enqueue: /healthz is not audited, and Close has been called when flushing.
Enqueue(c) ==
    record' = [record EXCEPT ![c] =
        CASE ServerOf[c] = "endpoints" -> "none"
          [] ServerOf[c] # "endpoints" /\ main = "flushing" -> "refused"
          [] OTHER -> "queued"]

Answer(c) ==
    /\ Alive
    /\ conn[c] = "active"
    /\ Enqueue(c)
    /\ conn' = [conn EXCEPT ![c] = "closed"]
    /\ UNCHANGED <<main, actor, interruptVars, sigVars, expired>>

\* A protocol upgrade, or h2c on the insecure listener.
Hijack(c) ==
    /\ Alive
    /\ conn[c] = "active"
    /\ ServerOf[c] # "endpoints"
    /\ conn' = [conn EXCEPT ![c] = "hijacked"]
    /\ UNCHANGED <<main, actor, interruptVars, sigVars, record, expired>>

HijackedEnds(c) ==
    /\ Alive
    /\ conn[c] = "hijacked"
    /\ Enqueue(c)
    /\ conn' = [conn EXCEPT ![c] = "hijackEnded"]
    /\ UNCHANGED <<main, actor, interruptVars, sigVars, expired>>

\* Shutdown and the idle timeout close idle connections, and so do clients.
CloseIdle(c) ==
    /\ Alive
    /\ conn[c] = "idle"
    /\ conn' = [conn EXCEPT ![c] = "closed"]
    /\ UNCHANGED <<main, actor, interruptVars, sigVars, record, expired>>

WriteRecord(c) ==
    /\ Alive
    /\ record[c] = "queued"
    /\ record' = [record EXCEPT ![c] = "written"]
    /\ UNCHANGED <<main, actor, interruptVars, sigVars, conn, expired>>

-----------------------------------------------------------------------------
Finished == ~Alive /\ UNCHANGED vars

Interrupt ==
    \/ InterruptReloader \/ InterruptSignal
    \/ \E s \in Servers : BeginShutdown(s) \/ ShutdownReturns(s)

Run ==
    StartGroup \/ SetupFails \/ FirstReturns \/ Interrupt \/ GroupReturns \/ Exit

ServerStep(s) == Serve(s) \/ ServeReturns(s) \/ ListenerFails(s)

SignalStep == Notify \/ SignalReceived

ConnStep(c) ==
    \/ Accept(c) \/ Request(c) \/ Answer(c) \/ Hijack(c) \/ HijackedEnds(c)
    \/ CloseIdle(c) \/ WriteRecord(c)

Next ==
    \/ Run
    \/ ReloaderReturns \/ ReloadFails
    \/ \E s \in Servers : ServerStep(s)
    \/ SignalStep \/ Signal
    \/ \E c \in Conns : ConnStep(c)
    \/ Finished

Spec == Init /\ [][Next]_vars

(***************************************************************************)
(* Fairness.  Goroutines that can run do run, Shutdown closes idle         *)
(* connections, and auditShutdownTimeout ends the wait for the writer.     *)
(* Whether requests end is a separate assumption: nothing bounds a         *)
(* streaming body.                                                         *)
(***************************************************************************)
LiveSpec ==
    /\ Spec
    /\ WF_vars(Run)
    /\ WF_vars(ReloaderReturns)
    /\ \A s \in Servers : WF_vars(Serve(s) \/ ServeReturns(s))
    /\ WF_vars(SignalStep)
    /\ \A c \in Conns : WF_vars(CloseIdle(c))

RequestsEnd == \A c \in Conns : WF_vars(Answer(c))

-----------------------------------------------------------------------------
TypeOK ==
    /\ main \in {"setup", "waiting", "interrupting", "collecting", "flushing"} \cup Ended
    /\ actor \in [Actors -> {"new", "starting", "running", "returned"}]
    /\ interrupted \subseteq Actors
    /\ cancelled \in BOOLEAN
    /\ shut \subseteq Servers
    /\ sig \in BOOLEAN
    /\ sigClosed \in BOOLEAN
    /\ signals \in 0 .. MaxSignals
    /\ conn \in [Conns -> {"none", "idle", "active", "hijacked", "closed", "hijackEnded"}]
    /\ record \in [Conns -> {"none", "queued", "written", "refused"}]
    /\ expired \in BOOLEAN

\* The audit log is closed only when no server serves a request any more, so
\* the record of an answered request is refused only if its connection was
\* hijacked: Shutdown does not wait for those (Run, Close).
ServedRequestsAreRecorded ==
    /\ main \in {"flushing", "exited"} => \A c \in Conns : conn[c] # "active"
    /\ \A c \in Conns : record[c] = "refused" => conn[c] = "hijackEnded"

\* One actor that ends takes the process down, whichever it is and whatever the
\* others are doing: waiting for a tick, for connections, for a signal, or not
\* yet started (Run).
OneActorEndsAll ==
    RequestsEnd =>
        ((\E a \in Actors : actor[a] = "returned") ~> main \in Ended)

\* "Graceful shutdown drains the queue and attempts a final loss summary": a
\* process that got its signal does not end with queued records while the flush
\* still has time (Run).
GracefulShutdownDrains ==
    (main \in {"exited", "crashed"} /\ ~expired) => \A c \in Conns : record[c] # "queued"
=============================================================================
