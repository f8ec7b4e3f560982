---------------------------- MODULE AuditLogger ----------------------------
(***************************************************************************)
(* The audit Logger of pkg/audit: request handlers put events on a bounded *)
(* channel without ever waiting for the sink, one writer goroutine drains  *)
(* it, and Close stops the intake and waits for the writer.                *)
(*                                                                         *)
(* Events that do not fit, and records the sink refused, are counted in    *)
(* pendingLoss.  The writer takes the counter before each record and once  *)
(* more when it ends, and turns it into a summary ("Audit Event Loss").    *)
(*                                                                         *)
(* stateMu is the Go RWMutex: a waiting writer keeps new readers out.      *)
(* lossMu protects single steps only, so those steps are atomic here.  A   *)
(* write to the sink is one step that succeeds or fails, at any time after *)
(* the writer got there; it may also never happen.                         *)
(***************************************************************************)
EXTENDS Integers, Sequences, FiniteSets

CONSTANTS
    Handlers,           \* request goroutines
    Closers,            \* calls of Close
    QueueSize,          \* capacity of the events channel
    EncodingMayFail,    \* json.Marshal may fail, a bounded event may be too large
    MaxEvents,          \* bound: events produced
    MaxNow              \* bound: the clock stops here

ASSUME QueueAssumption == QueueSize \in Nat \ {0}
ASSUME BoundAssumption == MaxEvents \in Nat /\ MaxNow \in Nat
ASSUME EncodingAssumption == EncodingMayFail \in BOOLEAN

VARIABLES
    now,        \* wall clock, for the window of a summary
    issued,     \* events produced so far; events are numbered 1 .. issued
    hpc,        \* enqueue, per handler
    hev,        \* the event a handler is enqueueing
    hstamp,     \* the time.Now() it took before recordQueueLoss
    readers,    \* handlers that hold stateMu for reading
    wlock,      \* stateMu for writing: "free", "waiting" or "held"
    closed,     \* l.closed
    queue,      \* the events channel
    chanClosed, \* close(l.events) happened
    once,       \* closeOnce: "new", "running" or "finished"
    cpc,        \* Close, per call
    wpc,        \* run, the writer goroutine
    wev,        \* the event it received last
    wsnap,      \* the snapshot it took from pendingLoss
    wstamp,     \* the time.Now() it took before recordLoss
    pending,    \* l.pendingLoss
    dropped,    \* l.dropped
    done,       \* close(l.done) happened
    output,     \* what the sink accepted
    lost,       \* history: events counted in pendingLoss
    reported,   \* history: losses covered by summaries in output
    received,   \* history: losses already counted when wev was received
    gapFailed   \* history: the last summary the writer attempted failed

handlerVars == <<hpc, hev, hstamp>>
lockVars == <<readers, wlock, closed>>
closeVars == <<once, cpc>>
writerVars == <<wpc, wev, wsnap, wstamp, done>>
lossVars == <<pending, dropped, lost>>
chanVars == <<queue, chanClosed>>
outVars == <<output, reported, received, gapFailed>>
vars == <<now, issued, handlerVars, lockVars, closeVars, writerVars, lossVars,
          chanVars, outVars>>

NoEvent == 0
NoLoss == [count |-> 0, start |-> 0, end |-> 0]

Record(e) == [kind |-> "record", event |-> e]
Gap(s) == [kind |-> "gap", count |-> s.count, start |-> s.start, end |-> s.end]

Init ==
    /\ now = 0
    /\ issued = 0
    /\ hpc = [h \in Handlers |-> "idle"]
    /\ hev = [h \in Handlers |-> NoEvent]
    /\ hstamp = [h \in Handlers |-> 0]
    /\ readers = {}
    /\ wlock = "free"
    /\ closed = FALSE
    /\ queue = <<>>
    /\ chanClosed = FALSE
    /\ once = "new"
    /\ cpc = [c \in Closers |-> "idle"]
    /\ wpc = "receive"
    /\ wev = NoEvent
    /\ wsnap = NoLoss
    /\ wstamp = 0
    /\ pending = NoLoss
    /\ dropped = 0
    /\ done = FALSE
    /\ output = <<>>
    /\ lost = {}
    /\ reported = 0
    /\ received = 0
    /\ gapFailed = FALSE

-----------------------------------------------------------------------------
(* Losses.                                                                 *)

\* recordLoss: the first loss opens the window, every loss moves its end.  The
\* counter dropped is incremented after lossMu is released; nothing in the
\* program reads it, so it moves in the same step here.
AddLoss(p, stamp) ==
    [count |-> p.count + 1,
     start |-> IF p.count = 0 THEN stamp ELSE p.start,
     end |-> stamp]

RecordLoss(e, stamp) ==
    /\ pending' = AddLoss(pending, stamp)
    /\ dropped' = dropped + 1
    /\ lost' = lost \cup {e}

\* Mutant: the merged counter forgets the snapshot.
MergeWindowOnly(p, s) ==
    IF p.count = 0 THEN s
    ELSE [p EXCEPT !.start = IF s.start < p.start THEN s.start ELSE p.start]

\* restorePendingLoss: losses recorded meanwhile are merged.
Merge(p, s) ==
    IF s.count = 0 THEN p
    ELSE IF p.count = 0 THEN s
    ELSE [count |-> p.count + s.count,
          start |-> IF s.start < p.start THEN s.start ELSE p.start,
          end |-> IF s.end > p.end THEN s.end ELSE p.end]

-----------------------------------------------------------------------------
(* enqueue, called when a request handler returns or unwinds.              *)

Submit(h) ==
    /\ hpc[h] = "idle"
    /\ issued < MaxEvents
    /\ issued' = issued + 1
    /\ hev' = [hev EXCEPT ![h] = issued + 1]
    /\ hpc' = [hpc EXCEPT ![h] = "encode"]
    /\ UNCHANGED <<now, hstamp, lockVars, closeVars, writerVars, lossVars,
                   chanVars, outVars>>

\* The event could not be serialized (counted in dropped, not in a summary), or
\* its bounded form is still too large (reported on stderr only).
Discard(h) ==
    /\ EncodingMayFail
    /\ hpc[h] = "encode"
    /\ dropped' \in {dropped, dropped + 1}
    /\ hpc' = [hpc EXCEPT ![h] = "idle"]
    /\ hev' = [hev EXCEPT ![h] = NoEvent]
    /\ UNCHANGED <<now, issued, hstamp, lockVars, closeVars, writerVars, pending,
                   lost, chanVars, outVars>>

RLock(h) ==
    /\ hpc[h] = "encode"
    /\ wlock = "free"
    /\ readers' = readers \cup {h}
    /\ hpc' = [hpc EXCEPT ![h] = "locked"]
    /\ UNCHANGED <<now, issued, hev, hstamp, wlock, closed, closeVars, writerVars,
                   lossVars, chanVars, outVars>>

\* The deferred RUnlock, as the last thing enqueue does.
Return(h) ==
    /\ readers' = readers \ {h}
    /\ hpc' = [hpc EXCEPT ![h] = "idle"]
    /\ hev' = [hev EXCEPT ![h] = NoEvent]

CheckClosed(h) ==
    /\ hpc[h] = "locked"
    /\ \/ /\ closed
          /\ Return(h)
       \/ /\ ~closed
          /\ hpc' = [hpc EXCEPT ![h] = "open"]
          /\ UNCHANGED <<readers, hev>>
    /\ UNCHANGED <<now, issued, hstamp, wlock, closed, closeVars, writerVars,
                   lossVars, chanVars, outVars>>

\* Mutant: one more event than the channel holds.
RoomForOneMore == Len(queue) <= QueueSize

HasRoom == Len(queue) < QueueSize

Send(h) ==
    /\ hpc[h] = "open"
    /\ HasRoom
    /\ queue' = Append(queue, hev[h])
    /\ Return(h)
    /\ UNCHANGED <<now, issued, hstamp, wlock, closed, closeVars, writerVars,
                   lossVars, chanClosed, outVars>>

\* Mutant: a send without a default case.
NeverFallsThrough(h) == FALSE

\* The select falls through: the time is taken before lossMu is.
SendWouldBlock(h) ==
    /\ hpc[h] = "open"
    /\ ~HasRoom
    /\ hstamp' = [hstamp EXCEPT ![h] = now]
    /\ hpc' = [hpc EXCEPT ![h] = "full"]
    /\ UNCHANGED <<now, issued, hev, lockVars, closeVars, writerVars, lossVars,
                   chanVars, outVars>>

RecordQueueLoss(h) ==
    /\ hpc[h] = "full"
    /\ RecordLoss(hev[h], hstamp[h])
    /\ Return(h)
    /\ UNCHANGED <<now, issued, hstamp, wlock, closed, closeVars, writerVars,
                   chanVars, outVars>>

-----------------------------------------------------------------------------
(* run, the writer goroutine.                                              *)

Receive ==
    /\ wpc = "receive"
    /\ queue # <<>>
    /\ wev' = Head(queue)
    /\ queue' = Tail(queue)
    /\ received' = Cardinality(lost)
    /\ wpc' = "takeLoss"
    /\ UNCHANGED <<now, issued, handlerVars, lockVars, closeVars, wsnap, wstamp, done,
                   lossVars, chanClosed, output, reported, gapFailed>>

\* Mutants: the end of the channel goes unnoticed, or ends the writer at once.
NeverSeesTheEnd == FALSE
StopWithoutSummary ==
    /\ wpc = "receive"
    /\ queue = <<>>
    /\ chanClosed
    /\ wev' = NoEvent
    /\ wpc' = "stop"
    /\ UNCHANGED <<now, issued, handlerVars, lockVars, closeVars, wsnap, wstamp, done,
                   lossVars, chanVars, outVars>>

\* The channel is closed and drained.
ReceiveClosed ==
    /\ wpc = "receive"
    /\ queue = <<>>
    /\ chanClosed
    /\ wev' = NoEvent
    /\ wpc' = "takeLoss"
    /\ UNCHANGED <<now, issued, handlerVars, lockVars, closeVars, wsnap, wstamp, done,
                   lossVars, chanVars, outVars>>

\* Where emitPendingLoss returns to: the record in hand, or the end of run.
AfterLoss == IF wev = NoEvent THEN "stop" ELSE "write"

\* Mutant: a single loss does not make a summary.
SeveralLosses == pending.count > 1

SomethingLost == pending.count # 0

\* takePendingLoss; without a loss there is nothing to summarize.
TakeLoss ==
    /\ wpc = "takeLoss"
    /\ wsnap' = pending
    /\ pending' = NoLoss
    /\ gapFailed' = FALSE
    /\ wpc' = IF SomethingLost THEN "writeGap" ELSE AfterLoss
    /\ UNCHANGED <<now, issued, handlerVars, lockVars, closeVars, wev, wstamp, done,
                   dropped, lost, chanVars, output, reported, received>>

WriteGap ==
    /\ wpc = "writeGap"
    /\ output' = Append(output, Gap(wsnap))
    /\ reported' = reported + wsnap.count
    /\ wsnap' = NoLoss
    /\ wpc' = AfterLoss
    /\ UNCHANGED <<now, issued, handlerVars, lockVars, closeVars, wev, wstamp, done,
                   lossVars, chanVars, received, gapFailed>>

\* The sink refused the summary: its losses go back into pendingLoss.
GapWriteFails ==
    /\ wpc = "writeGap"
    /\ pending' = Merge(pending, wsnap)
    /\ wsnap' = NoLoss
    /\ gapFailed' = TRUE
    /\ wpc' = AfterLoss
    /\ UNCHANGED <<now, issued, handlerVars, lockVars, closeVars, wev, wstamp, done,
                   dropped, lost, chanVars, output, reported, received>>

WriteRecord ==
    /\ wpc = "write"
    /\ output' = Append(output, Record(wev))
    /\ wev' = NoEvent
    /\ wpc' = "receive"
    /\ UNCHANGED <<now, issued, handlerVars, lockVars, closeVars, wsnap, wstamp, done,
                   lossVars, chanVars, reported, received, gapFailed>>

\* Mutant: the lost record is not counted.
LoseSilently ==
    /\ wpc = "write"
    /\ wev' = NoEvent
    /\ wpc' = "receive"
    /\ UNCHANGED <<now, issued, handlerVars, lockVars, closeVars, wsnap, wstamp, done,
                   lossVars, chanVars, outVars>>

\* The sink refused the record: the time is taken before lossMu is.
RecordWriteFails ==
    /\ wpc = "write"
    /\ wstamp' = now
    /\ wpc' = "failed"
    /\ UNCHANGED <<now, issued, handlerVars, lockVars, closeVars, wev, wsnap, done,
                   lossVars, chanVars, outVars>>

RecordWriteLoss ==
    /\ wpc = "failed"
    /\ RecordLoss(wev, wstamp)
    /\ wev' = NoEvent
    /\ wpc' = "receive"
    /\ UNCHANGED <<now, issued, handlerVars, lockVars, closeVars, wsnap, wstamp, done,
                   chanVars, outVars>>

Stop ==
    /\ wpc = "stop"
    /\ done' = TRUE
    /\ wpc' = "stopped"
    /\ UNCHANGED <<now, issued, handlerVars, lockVars, closeVars, wev, wsnap, wstamp,
                   lossVars, chanVars, outVars>>

-----------------------------------------------------------------------------
(* Close.                                                                  *)

\* The first call runs the function of closeOnce: it asks for the write lock.
CloseFirst(c) ==
    /\ cpc[c] = "idle"
    /\ once = "new"
    /\ once' = "running"
    /\ wlock' = "waiting"
    /\ cpc' = [cpc EXCEPT ![c] = "locking"]
    /\ UNCHANGED <<now, issued, handlerVars, readers, closed, writerVars, lossVars,
                   chanVars, outVars>>

\* A later call waits in closeOnce until that function has returned.
CloseAgain(c) ==
    /\ cpc[c] = "idle"
    /\ once = "finished"
    /\ cpc' = [cpc EXCEPT ![c] = "waiting"]
    /\ UNCHANGED <<now, issued, handlerVars, lockVars, once, writerVars, lossVars,
                   chanVars, outVars>>

\* Mutant: the lock is taken without waiting for the handlers that hold it.
IgnoreReaders == TRUE

WriteLockFree == readers = {}

MarkClosed(c) ==
    /\ cpc[c] = "locking"
    /\ WriteLockFree
    /\ wlock' = "held"
    /\ closed' = TRUE
    /\ cpc' = [cpc EXCEPT ![c] = "closing"]
    /\ UNCHANGED <<now, issued, handlerVars, readers, once, writerVars, lossVars,
                   chanVars, outVars>>

CloseEvents(c) ==
    /\ cpc[c] = "closing"
    /\ chanClosed' = TRUE
    /\ wlock' = "free"
    /\ once' = "finished"
    /\ cpc' = [cpc EXCEPT ![c] = "waiting"]
    /\ UNCHANGED <<now, issued, handlerVars, readers, closed, writerVars, lossVars,
                   queue, outVars>>

CloseDone(c) ==
    /\ cpc[c] = "waiting"
    /\ done
    /\ cpc' = [cpc EXCEPT ![c] = "closed"]
    /\ UNCHANGED <<now, issued, handlerVars, lockVars, once, writerVars, lossVars,
                   chanVars, outVars>>

\* Mutant: Close waits for the writer only.
WaitsForTheWriter(c) == FALSE

\* The context of the caller expires; the writer goes on without it.
CloseExpired(c) ==
    /\ cpc[c] = "waiting"
    /\ cpc' = [cpc EXCEPT ![c] = "expired"]
    /\ UNCHANGED <<now, issued, handlerVars, lockVars, once, writerVars, lossVars,
                   chanVars, outVars>>

-----------------------------------------------------------------------------
Tick ==
    /\ now < MaxNow
    /\ now' = now + 1
    /\ UNCHANGED <<issued, handlerVars, lockVars, closeVars, writerVars, lossVars,
                   chanVars, outVars>>

\* enqueue up to the return of stateMu.
Enqueue(h) ==
    \/ Discard(h) \/ RLock(h) \/ CheckClosed(h)
    \/ Send(h) \/ SendWouldBlock(h) \/ RecordQueueLoss(h)

\* The steps of run that do not touch the sink, and those that do.
RunStep == Receive \/ ReceiveClosed \/ TakeLoss \/ RecordWriteLoss \/ Stop
SinkStep == WriteGap \/ GapWriteFails \/ WriteRecord \/ RecordWriteFails

CloseStep(c) ==
    \/ CloseFirst(c) \/ CloseAgain(c) \/ MarkClosed(c)
    \/ CloseEvents(c) \/ CloseDone(c) \/ CloseExpired(c)

\* The only states in which nothing is left to do: the bound on events is
\* reached, the writer has stopped and every call of Close has returned.
Finished ==
    /\ issued = MaxEvents
    /\ \A h \in Handlers : hpc[h] = "idle"
    /\ \A c \in Closers : cpc[c] \in {"closed", "expired"}
    /\ wpc = "stopped"
    /\ UNCHANGED vars

Next ==
    \/ \E h \in Handlers : Submit(h) \/ Enqueue(h)
    \/ RunStep
    \/ SinkStep
    \/ \E c \in Closers : CloseStep(c)
    \/ Tick
    \/ Finished

Spec == Init /\ [][Next]_vars

(***************************************************************************)
(* Fairness.  Goroutines that can run do run, and the context given to     *)
(* Close expires (auditShutdownTimeout).  The sink is an arbitrary         *)
(* io.Writer: whether its writes ever finish is a separate assumption.     *)
(***************************************************************************)
CallersProgress ==
    /\ \A h \in Handlers : WF_vars(Enqueue(h))
    /\ \A c \in Closers :
        /\ WF_vars(CloseAgain(c))
        /\ WF_vars(MarkClosed(c))
        /\ WF_vars(CloseEvents(c))
        /\ WF_vars(CloseDone(c) \/ CloseExpired(c))

WriterProgress == WF_vars(RunStep)
SinkProgress == WF_vars(SinkStep)

LiveSpec == Spec /\ CallersProgress /\ WriterProgress

-----------------------------------------------------------------------------
LossSnapshot == [count : Nat, start : Nat, end : Nat]
Entry == [kind : {"record"}, event : Nat]
             \cup [kind : {"gap"}, count : Nat, start : Nat, end : Nat]

TypeOK ==
    /\ now \in Nat
    /\ issued \in Nat
    /\ hpc \in [Handlers -> {"idle", "encode", "locked", "open", "full"}]
    /\ hev \in [Handlers -> Nat]
    /\ hstamp \in [Handlers -> Nat]
    /\ readers \subseteq Handlers
    /\ wlock \in {"free", "waiting", "held"}
    /\ closed \in BOOLEAN
    /\ queue \in Seq(Nat \ {NoEvent})
    /\ Len(queue) <= QueueSize
    /\ chanClosed \in BOOLEAN
    /\ once \in {"new", "running", "finished"}
    /\ cpc \in [Closers -> {"idle", "locking", "closing", "waiting", "closed", "expired"}]
    /\ wpc \in {"receive", "takeLoss", "writeGap", "write", "failed", "stop", "stopped"}
    /\ wev \in Nat
    /\ wsnap \in LossSnapshot
    /\ wstamp \in Nat
    /\ pending \in LossSnapshot
    /\ dropped \in Nat
    /\ done \in BOOLEAN
    /\ output \in Seq(Entry)
    /\ lost \subseteq Nat
    /\ reported \in Nat
    /\ received \in Nat
    /\ gapFailed \in BOOLEAN

\* Every loss is pending, in the snapshot the writer took, or covered by a
\* summary the sink accepted; a failed summary gives nothing away and merges
\* with what was lost meanwhile (takePendingLoss, restorePendingLoss).
LossesAreConserved ==
    Cardinality(lost) = pending.count + wsnap.count + reported

\* "The writer emits [a summary] before the next queued request record": when a
\* record is about to be written, every loss that was counted when the writer
\* received it is in a summary already, unless the sink just refused the
\* summary (run, emitPendingLoss).
NoRecordOvertakesItsSummary ==
    wpc = "write" => gapFailed \/ reported >= received

\* No handler is between its look at closed and the end of its loss accounting
\* while the channel is or gets closed: a send cannot hit a closed channel,
\* and no loss is counted behind the writer's back (enqueue, Close).
IntakeStopsBeforeClose ==
    closed => \A h \in Handlers : hpc[h] \notin {"open", "full"}

\* "Graceful shutdown drains the queue and attempts a final loss summary": once
\* the writer is done nothing is queued or in its hand, and every loss is in a
\* summary unless the sink refused the last one (run, Close).
ShutdownLeavesNothingBehind ==
    done => /\ queue = <<>> /\ wev = NoEvent
            /\ gapFailed \/ reported = Cardinality(lost)

\* "A slow sink cannot stall requests": a handler that starts to enqueue
\* returns, even if the sink never finishes a write and Close is under way.
SlowSinkNeverStallsRequests ==
    \A h \in Handlers : hpc[h] = "encode" ~> hpc[h] = "idle"

\* Close returns promptly when its context expires, whoever holds stateMu, even
\* if the sink is stuck.
CloseReturns ==
    \A c \in Closers : cpc[c] # "idle" ~> cpc[c] \in {"closed", "expired"}

\* With a sink that answers, Close leads to a drained queue and a stopped
\* writer, also when the calls of Close have given up waiting.
CloseDrains == SinkProgress => (once = "running" ~> done)

-----------------------------------------------------------------------------
(* The audit trail the logger keeps.  An event is decided when the handler *)
(* looks at the channel and when the sink answers, even if the counting of *)
(* its loss comes later.                                                   *)

Undecided == {hev[h] : h \in {g \in Handlers : hpc[g] \in {"encode", "locked", "open"}}}
Line == (IF wev # NoEvent /\ wpc # "failed" THEN <<wev>> ELSE <<>>) \o queue
DecidedLosses ==
    lost \cup {hev[h] : h \in {g \in Handlers : hpc[g] = "full"}}
         \cup (IF wpc = "failed" THEN {wev} ELSE {})
WithoutWindow(entry) ==
    IF entry.kind = "gap" THEN [kind |-> "gap", count |-> entry.count] ELSE entry
Written == [i \in DOMAIN output |-> WithoutWindow(output[i])]

Trail == INSTANCE AuditTrail WITH
    Capacity <- QueueSize,
    MayDrop <- EncodingMayFail,
    offered <- issued,
    undecided <- Undecided,
    line <- Line,
    trail <- Written,
    lost <- DecidedLosses,
    told <- reported,
    open <- ~closed,
    sealed <- done

\* "The audit output uses a bounded, non-blocking queue": whatever handlers, the
\* writer, a failing sink and Close interleave, every event has one fate, records
\* come in the order the channel took them and once, no loss is told twice, an
\* event is lost only to a full queue or a failed write, and nothing is written
\* once the writer is done (enqueue, run, Close implement AuditTrail).
ImplementsAuditTrail == Trail!Spec

\* The window of a summary does not end before it starts, so its duration is
\* not negative (recordLoss, newGapEvent).
LossWindowIsOrdered ==
    \A i \in DOMAIN output : output[i].kind = "gap" => output[i].start <= output[i].end
=============================================================================
