------------------------- MODULE AuditLoggerProofs -------------------------
(***************************************************************************)
(* For any number of handlers and calls of Close and any queue size: the   *)
(* intake stops before the channel closes, losses are conserved, records   *)
(* do not overtake summaries, the drain leaves nothing behind, and all of  *)
(* it implements the audit trail.                                          *)
(***************************************************************************)
EXTENDS AuditLogger, FiniteSetTheorems, SequenceTheorems, TLAPS

\* Handlers between RLock and RUnlock are the readers; Close marks the logger
\* closed when there are none, and closes the channel after that.
IntakeInv ==
    /\ \A h \in Handlers : h \in readers <=> hpc[h] \in {"locked", "open", "full"}
    /\ \A c \in Closers : cpc[c] = "closing" => closed
    /\ chanClosed => closed
    /\ IntakeStopsBeforeClose

\* An event on its way is in one place only, and not lost.
FateInv ==
    /\ \A h \in Handlers : /\ hev[h] \in 0 .. issued /\ hev[h] \notin lost
                           /\ hpc[h] = "idle" <=> hev[h] = NoEvent
                           /\ hev[h] = wev => wev = NoEvent
    /\ \A h, g \in Handlers : hev[h] = hev[g] => h = g \/ hev[h] = NoEvent
    /\ wev \in 0 .. issued /\ wev \notin lost
    /\ \A i \in DOMAIN queue : /\ queue[i] \in 1 .. issued /\ queue[i] \notin lost
                               /\ queue[i] # wev
                               /\ \A h \in Handlers : hev[h] # queue[i]
                               /\ \A j \in DOMAIN queue : queue[i] = queue[j] => i = j
    /\ lost \subseteq 1 .. issued

\* What the writer has in hand at each of its control points.
WriterInv ==
    /\ wpc \in {"receive", "stop", "stopped"} => wev = NoEvent
    /\ wpc \in {"write", "failed"} => wev # NoEvent
    /\ wpc = "writeGap" <=> wsnap.count # 0
    /\ done <=> wpc = "stopped"
    /\ wev = NoEvent /\ wpc # "receive" => chanClosed /\ queue = <<>>
    /\ wev = NoEvent /\ wpc = "writeGap" => pending.count = 0
    /\ wpc \in {"stop", "stopped"} => gapFailed \/ pending.count = 0

\* Losses are counted once, and those counted before a record was received stay
\* in front of it.
LossInv ==
    /\ IsFiniteSet(lost)
    /\ LossesAreConserved
    /\ received <= Cardinality(lost)
    /\ wpc = "writeGap" => received <= wsnap.count + reported
    /\ NoRecordOvertakesItsSummary

IInv == TypeOK /\ IntakeInv /\ FateInv /\ WriterInv /\ LossInv

-----------------------------------------------------------------------------
(* Types.                                                                  *)

LEMMA TypeInit == Init => TypeOK
<1> SUFFICES ASSUME Init PROVE TypeOK
  OBVIOUS
<1>1. /\ queue \in Seq(Nat \ {NoEvent}) /\ Len(queue) <= QueueSize
      /\ output \in Seq(Entry)
  BY QueueAssumption DEF QueueAssumption, Init
<1>2. pending \in LossSnapshot /\ wsnap \in LossSnapshot
  BY DEF Init, NoLoss, LossSnapshot
<1>3. /\ hpc \in [Handlers -> {"idle", "encode", "locked", "open", "full"}]
      /\ hev \in [Handlers -> Nat] /\ hstamp \in [Handlers -> Nat]
      /\ cpc \in [Closers -> {"idle", "locking", "closing", "waiting", "closed", "expired"}]
  BY DEF Init, NoEvent
<1> QED
  BY <1>1, <1>2, <1>3 DEF Init, TypeOK, NoEvent

LEMMA LossType ==
    ASSUME NEW p \in LossSnapshot, NEW s \in LossSnapshot, NEW t \in Nat
    PROVE  AddLoss(p, t) \in LossSnapshot /\ Merge(p, s) \in LossSnapshot
BY DEF LossSnapshot, AddLoss, Merge

\* The sink gets records of events and summaries of losses.
LEMMA EntryType ==
    ASSUME NEW e \in Nat, NEW s \in LossSnapshot
    PROVE  Record(e) \in Entry /\ Gap(s) \in Entry
BY DEF Record, Gap, Entry, LossSnapshot

LEMMA TypeNext == TypeOK /\ FateInv /\ LossInv /\ [Next]_vars => TypeOK'
<1> SUFFICES ASSUME TypeOK, FateInv, LossInv, [Next]_vars PROVE TypeOK'
  OBVIOUS
<1> USE DEF TypeOK, handlerVars, lockVars, closeVars, writerVars, lossVars, chanVars, outVars
<1>1. ASSUME NEW h \in Handlers, Submit(h) PROVE TypeOK'
  BY <1>1 DEF Submit
<1>2. ASSUME NEW h \in Handlers, Discard(h) PROVE TypeOK'
  <2>1. hpc' \in [Handlers -> {"idle", "encode", "locked", "open", "full"}]
        /\ hev' \in [Handlers -> Nat]
    BY <1>2 DEF Discard, NoEvent
  <2>2. dropped' \in Nat
    BY <1>2 DEF Discard
  <2> QED
    BY <1>2, <2>1, <2>2 DEF Discard
<1>3. ASSUME NEW h \in Handlers, RLock(h) PROVE TypeOK'
  BY <1>3 DEF RLock
<1>4. ASSUME NEW h \in Handlers, CheckClosed(h) PROVE TypeOK'
  <2>1. hev[h] \in Nat /\ NoEvent \in Nat
    BY DEF NoEvent
  <2>2. CASE closed
    BY <1>4, <2>1, <2>2 DEF CheckClosed, Return
  <2>3. CASE ~closed
    BY <1>4, <2>3 DEF CheckClosed
  <2> QED
    BY <2>2, <2>3
<1>5. ASSUME NEW h \in Handlers, Send(h) PROVE TypeOK'
  <2>1. hev[h] \in Nat \ {NoEvent}
    BY <1>5 DEF Send, FateInv
  <2>2. queue' \in Seq(Nat \ {NoEvent}) /\ Len(queue') <= QueueSize
    BY <1>5, <2>1, QueueAssumption DEF QueueAssumption, Send, HasRoom
  <2> QED
    BY <1>5, <2>2 DEF Send, Return, NoEvent
<1>6. ASSUME NEW h \in Handlers, SendWouldBlock(h) PROVE TypeOK'
  BY <1>6 DEF SendWouldBlock
<1>7. ASSUME NEW h \in Handlers, RecordQueueLoss(h) PROVE TypeOK'
  <2>1. pending' \in LossSnapshot
    BY <1>7, LossType DEF RecordQueueLoss, RecordLoss
  <2>2. /\ hev[h] \in Nat /\ lost' = lost \cup {hev[h]}
        /\ dropped' = dropped + 1 /\ readers' = readers \ {h}
    BY <1>7 DEF RecordQueueLoss, RecordLoss, Return
  <2>3. hpc' \in [Handlers -> {"idle", "encode", "locked", "open", "full"}]
        /\ hev' \in [Handlers -> Nat]
    BY <1>7 DEF RecordQueueLoss, Return, NoEvent
  <2>4. lost' \subseteq Nat /\ dropped' \in Nat /\ readers' \subseteq Handlers
    <3>1. lost \subseteq Nat /\ dropped \in Nat /\ readers \subseteq Handlers
      OBVIOUS
    <3> HIDE DEF TypeOK
    <3>2. dropped' \in Nat
      BY <2>2, <3>1, SMT
    <3> QED
      BY <2>2, <3>1, <3>2, Zenon
  <2> QED
    BY <1>7, <2>1, <2>3, <2>4 DEF RecordQueueLoss
<1>8. ASSUME Receive PROVE TypeOK'
  <2>1. wev' \in Nat /\ queue' \in Seq(Nat \ {NoEvent}) /\ Len(queue') <= QueueSize
    BY <1>8, QueueAssumption DEF QueueAssumption, Receive
  <2>2. received' \in Nat
    BY <1>8, FS_CardinalityType DEF Receive, LossInv
  <2> QED
    BY <1>8, <2>1, <2>2 DEF Receive
<1>9. ASSUME ReceiveClosed PROVE TypeOK'
  BY <1>9 DEF ReceiveClosed, NoEvent
<1>10. ASSUME TakeLoss PROVE TypeOK'
  <2>1. NoLoss \in LossSnapshot
    BY DEF NoLoss, LossSnapshot
  <2> QED
    BY <1>10, <2>1 DEF TakeLoss, AfterLoss
<1>11. ASSUME WriteGap PROVE TypeOK'
  <2>1. NoLoss \in LossSnapshot /\ wsnap.count \in Nat
    BY DEF NoLoss, LossSnapshot
  <2>2. output' \in Seq(Entry)
    BY <1>11, EntryType DEF WriteGap
  <2> QED
    BY <1>11, <2>1, <2>2 DEF WriteGap, AfterLoss
<1>12. ASSUME GapWriteFails PROVE TypeOK'
  <2>1. NoLoss \in LossSnapshot
    BY DEF NoLoss, LossSnapshot
  <2>2. pending' \in LossSnapshot
    BY <1>12, LossType DEF GapWriteFails
  <2> QED
    BY <1>12, <2>1, <2>2 DEF GapWriteFails, AfterLoss
<1>13. ASSUME WriteRecord PROVE TypeOK'
  <2>1. output' \in Seq(Entry)
    BY <1>13, EntryType DEF WriteRecord
  <2> QED
    BY <1>13, <2>1 DEF WriteRecord, NoEvent
<1>14. ASSUME RecordWriteFails PROVE TypeOK'
  BY <1>14 DEF RecordWriteFails
<1>15. ASSUME RecordWriteLoss PROVE TypeOK'
  <2>1. pending' \in LossSnapshot
    BY <1>15, LossType DEF RecordWriteLoss, RecordLoss
  <2> QED
    BY <1>15, <2>1 DEF RecordWriteLoss, RecordLoss, NoEvent
<1>16. ASSUME Stop PROVE TypeOK'
  BY <1>16 DEF Stop
<1>17. ASSUME NEW c \in Closers, CloseFirst(c) PROVE TypeOK'
  BY <1>17 DEF CloseFirst
<1>18. ASSUME NEW c \in Closers, CloseAgain(c) PROVE TypeOK'
  BY <1>18 DEF CloseAgain
<1>19. ASSUME NEW c \in Closers, MarkClosed(c) PROVE TypeOK'
  BY <1>19 DEF MarkClosed, WriteLockFree
<1>20. ASSUME NEW c \in Closers, CloseEvents(c) PROVE TypeOK'
  BY <1>20 DEF CloseEvents
<1>21. ASSUME NEW c \in Closers, CloseDone(c) PROVE TypeOK'
  BY <1>21 DEF CloseDone
<1>22. ASSUME NEW c \in Closers, CloseExpired(c) PROVE TypeOK'
  BY <1>22 DEF CloseExpired
<1>23. ASSUME Tick PROVE TypeOK'
  BY <1>23 DEF Tick
<1>24. CASE UNCHANGED vars
  BY <1>24 DEF vars
<1> QED
  BY <1>1, <1>2, <1>3, <1>4, <1>5, <1>6, <1>7, <1>8, <1>9, <1>10, <1>11, <1>12, <1>13,
     <1>14, <1>15, <1>16, <1>17, <1>18, <1>19, <1>20, <1>21, <1>22, <1>23, <1>24
    DEF Next, Enqueue, RunStep, SinkStep, CloseStep, Finished

-----------------------------------------------------------------------------
(* The intake.                                                             *)

LEMMA IntakeInit == Init => IntakeInv
BY DEF Init, IntakeInv, IntakeStopsBeforeClose

\* A handler looks at closed under the read lock, and closed is set when there
\* is no reader: whoever saw an open logger is done with it by then.
LEMMA IntakeNext == TypeOK /\ IntakeInv /\ [Next]_vars => IntakeInv'
<1> SUFFICES ASSUME TypeOK, IntakeInv, [Next]_vars PROVE IntakeInv'
  OBVIOUS
<1> USE DEF IntakeInv, IntakeStopsBeforeClose, handlerVars, lockVars, closeVars, chanVars
<1>a. /\ hpc \in [Handlers -> {"idle", "encode", "locked", "open", "full"}]
      /\ cpc \in [Closers -> {"idle", "locking", "closing", "waiting", "closed", "expired"}]
      /\ closed \in BOOLEAN
  BY DEF TypeOK
<1>1. ASSUME NEW h \in Handlers, Submit(h) PROVE IntakeInv'
  BY <1>1, <1>a DEF Submit
<1>2. ASSUME NEW h \in Handlers, Discard(h) PROVE IntakeInv'
  BY <1>2, <1>a DEF Discard
<1>3. ASSUME NEW h \in Handlers, RLock(h) PROVE IntakeInv'
  BY <1>3, <1>a DEF RLock
<1>4. ASSUME NEW h \in Handlers, CheckClosed(h) PROVE IntakeInv'
  BY <1>4, <1>a DEF CheckClosed, Return
<1>5. ASSUME NEW h \in Handlers, Send(h) PROVE IntakeInv'
  BY <1>5, <1>a DEF Send, Return
<1>6. ASSUME NEW h \in Handlers, SendWouldBlock(h) PROVE IntakeInv'
  BY <1>6, <1>a DEF SendWouldBlock
<1>7. ASSUME NEW h \in Handlers, RecordQueueLoss(h) PROVE IntakeInv'
  BY <1>7, <1>a DEF RecordQueueLoss, Return
<1>8. ASSUME NEW c \in Closers, MarkClosed(c) PROVE IntakeInv'
  BY <1>8, <1>a DEF MarkClosed, WriteLockFree
<1>9. ASSUME NEW c \in Closers, CloseEvents(c) PROVE IntakeInv'
  BY <1>9, <1>a DEF CloseEvents
<1>10. ASSUME NEW c \in Closers,
              CloseFirst(c) \/ CloseAgain(c) \/ CloseDone(c) \/ CloseExpired(c)
       PROVE  IntakeInv'
  BY <1>10, <1>a DEF CloseFirst, CloseAgain, CloseDone, CloseExpired
<1>11. CASE RunStep \/ SinkStep \/ Tick \/ UNCHANGED vars
  <2>1. UNCHANGED <<hpc, readers, closed, cpc, chanClosed>>
    BY <1>11 DEF RunStep, SinkStep, Tick, vars, Receive, ReceiveClosed, TakeLoss, WriteGap,
      GapWriteFails, WriteRecord, RecordWriteFails, RecordWriteLoss, Stop
  <2> QED
    BY <2>1
<1> QED
  BY <1>1, <1>2, <1>3, <1>4, <1>5, <1>6, <1>7, <1>8, <1>9, <1>10, <1>11
    DEF Next, Enqueue, CloseStep, Finished

-----------------------------------------------------------------------------
(* The fate of events.                                                     *)

LEMMA FateInit == Init => FateInv
BY DEF Init, FateInv, NoEvent

\* An event moves from the handler to the queue, to the writer, or to the losses,
\* and leaves the place where it was.
LEMMA FateNext == TypeOK /\ FateInv /\ WriterInv /\ [Next]_vars => FateInv'
<1> SUFFICES ASSUME TypeOK, FateInv, WriterInv, [Next]_vars PROVE FateInv'
  OBVIOUS
<1> USE DEF FateInv, NoEvent, handlerVars, writerVars, lossVars, chanVars
<1>a. /\ hpc \in [Handlers -> {"idle", "encode", "locked", "open", "full"}]
      /\ hev \in [Handlers -> Nat] /\ issued \in Nat /\ wev \in Nat
      /\ queue \in Seq(Nat \ {0})
  BY DEF TypeOK
<1>1. ASSUME NEW h \in Handlers, Submit(h) PROVE FateInv'
  BY <1>1, <1>a DEF Submit
<1>2. ASSUME NEW h \in Handlers, Discard(h) PROVE FateInv'
  BY <1>2, <1>a DEF Discard
<1>3. ASSUME NEW h \in Handlers, RLock(h) PROVE FateInv'
  BY <1>3, <1>a DEF RLock
<1>4. ASSUME NEW h \in Handlers, CheckClosed(h) PROVE FateInv'
  <2>1. CASE closed
    BY <1>4, <2>1, <1>a DEF CheckClosed, Return
  <2>2. CASE ~closed
    BY <1>4, <2>2, <1>a DEF CheckClosed
  <2> QED
    BY <2>1, <2>2
<1>5. ASSUME NEW h \in Handlers, Send(h) PROVE FateInv'
  <2>1. /\ queue' = Append(queue, hev[h]) /\ UNCHANGED <<issued, wev, lost>>
        /\ hpc' = [hpc EXCEPT ![h] = "idle"] /\ hev' = [hev EXCEPT ![h] = 0] /\ hev[h] # 0
    BY <1>5 DEF Send, Return
  <2>2. /\ Len(queue') = Len(queue) + 1 /\ DOMAIN queue' = 1 .. Len(queue) + 1
        /\ DOMAIN queue = 1 .. Len(queue) /\ Len(queue) \in Nat
        /\ \A i \in 1 .. Len(queue) : queue'[i] = queue[i]
        /\ queue'[Len(queue) + 1] = hev[h]
    BY <1>a, <2>1
  <2>3. \A i \in DOMAIN queue' : i \in DOMAIN queue \/ i = Len(queue) + 1
    BY <2>2
  <2> QED
    BY <1>a, <2>1, <2>2, <2>3
<1>6. ASSUME NEW h \in Handlers, SendWouldBlock(h) PROVE FateInv'
  BY <1>6, <1>a DEF SendWouldBlock
<1>7. ASSUME NEW h \in Handlers, RecordQueueLoss(h) PROVE FateInv'
  <2>1. /\ lost' = lost \cup {hev[h]} /\ UNCHANGED <<issued, wev, queue>> /\ hev[h] # 0
        /\ hpc' = [hpc EXCEPT ![h] = "idle"] /\ hev' = [hev EXCEPT ![h] = 0]
    BY <1>7 DEF RecordQueueLoss, RecordLoss, Return
  <2>2. hev[h] \in 1 .. issued /\ 0 \notin lost'
    BY <1>a, <2>1
  <2>3. lost' \subseteq 1 .. issued'
    BY <2>1, <2>2
  <2>4. \A g \in Handlers : /\ hev'[g] \in 0 .. issued' /\ hev'[g] \notin lost'
                            /\ hpc'[g] = "idle" <=> hev'[g] = 0
                            /\ hev'[g] = wev' => wev' = 0
    BY <1>a, <2>1, <2>2
  <2>5. wev' \notin lost' /\ \A i \in DOMAIN queue' : queue'[i] \notin lost'
    BY <1>a, <2>1, <2>2
  <2>6. \A i \in DOMAIN queue', g \in Handlers : hev'[g] # queue'[i]
    BY <1>a, <2>1, <2>2
  <2> QED
    BY <1>a, <2>1, <2>3, <2>4, <2>5, <2>6
<1>8. CASE Receive
  <2>1. /\ queue # <<>> /\ wev' = queue[1] /\ queue' = Tail(queue) /\ UNCHANGED <<issued, hpc, hev, lost>>
    BY <1>8, <1>a DEF Receive
  <2>2. /\ Len(queue) \in Nat \ {0} /\ DOMAIN queue = 1 .. Len(queue)
        /\ DOMAIN queue' = 1 .. Len(queue) - 1
        /\ \A i \in DOMAIN queue' : queue'[i] = queue[i + 1] /\ i + 1 \in DOMAIN queue /\ i + 1 # 1
    BY <1>a, <2>1
  <2>3. 1 \in DOMAIN queue
    BY <2>2
  <2>4. /\ wev' \in 0 .. issued' /\ wev' \notin lost'
        /\ \A h \in Handlers : hev'[h] # wev'
    BY <1>a, <2>1, <2>3
  <2>5. \A i \in DOMAIN queue' : queue'[i] # wev'
    BY <2>1, <2>2, <2>3
  <2>6. \A i, j \in DOMAIN queue' : queue'[i] = queue'[j] => i = j
    <3> SUFFICES ASSUME NEW i \in DOMAIN queue', NEW j \in DOMAIN queue', queue'[i] = queue'[j]
                 PROVE  i = j
      OBVIOUS
    <3>1. i + 1 = j + 1
      BY <2>2
    <3> QED
      BY <2>2, <3>1
  <2>7. \A i \in DOMAIN queue' : /\ queue'[i] \in 1 .. issued' /\ queue'[i] \notin lost'
                                  /\ \A h \in Handlers : hev'[h] # queue'[i]
    BY <2>1, <2>2
  <2> QED
    BY <1>a, <2>1, <2>4, <2>5, <2>6, <2>7
<1>9. CASE RecordWriteLoss
  <2>1. /\ lost' = lost \cup {wev} /\ wev' = 0 /\ wev # 0 /\ UNCHANGED <<issued, hpc, hev, queue>>
    BY <1>9 DEF RecordWriteLoss, RecordLoss, WriterInv
  <2>2. wev \in 1 .. issued /\ 0 \notin lost
    BY <1>a, <2>1
  <2> QED
    BY <1>a, <2>1, <2>2
<1>10. CASE WriteRecord \/ ReceiveClosed
  <2>1. UNCHANGED <<issued, hpc, hev, lost, queue>> /\ wev' = 0
    BY <1>10 DEF WriteRecord, ReceiveClosed
  <2>2. 0 \notin lost /\ 0 \in 0 .. issued
    BY <1>a
  <2> QED
    BY <1>a, <2>1, <2>2
<1>11. CASE TakeLoss \/ WriteGap \/ GapWriteFails \/ RecordWriteFails \/ Stop
            \/ (\E c \in Closers : CloseStep(c)) \/ Tick \/ UNCHANGED vars
  <2>1. UNCHANGED <<issued, hpc, hev, wev, lost, queue>>
    BY <1>11 DEF TakeLoss, WriteGap, GapWriteFails, RecordWriteFails, Stop, CloseStep,
      CloseFirst, CloseAgain, MarkClosed, CloseEvents, CloseDone, CloseExpired, Tick, vars
  <2> QED
    BY <2>1
<1> QED
  BY <1>1, <1>2, <1>3, <1>4, <1>5, <1>6, <1>7, <1>8, <1>9, <1>10, <1>11
    DEF Next, Enqueue, RunStep, SinkStep, Finished

-----------------------------------------------------------------------------
(* The writer.                                                             *)

LEMMA WriterInit == Init => WriterInv
BY DEF Init, WriterInv, NoEvent, NoLoss

\* Once the channel is closed no handler sends and none counts a loss.
LEMMA NoIntakeAfterClose ==
    ASSUME TypeOK, IntakeInv, NEW h \in Handlers, hpc[h] \in {"open", "full"}
    PROVE  ~chanClosed
BY DEF TypeOK, IntakeInv, IntakeStopsBeforeClose

LEMMA WriterNext ==
    TypeOK /\ IntakeInv /\ FateInv /\ WriterInv /\ [Next]_vars => WriterInv'
<1> SUFFICES ASSUME TypeOK, IntakeInv, FateInv, WriterInv, [Next]_vars PROVE WriterInv'
  OBVIOUS
<1> USE DEF WriterInv, NoEvent, writerVars, lossVars, chanVars, outVars
<1>a. /\ wpc \in {"receive", "takeLoss", "writeGap", "write", "failed", "stop", "stopped"}
      /\ wev \in Nat /\ done \in BOOLEAN /\ chanClosed \in BOOLEAN /\ gapFailed \in BOOLEAN
      /\ pending.count \in Nat /\ wsnap.count \in Nat
      /\ queue \in Seq(Nat \ {0})
  BY DEF TypeOK, LossSnapshot
<1>b. NoLoss.count = 0
  BY DEF NoLoss
<1>1. ASSUME NEW h \in Handlers, Send(h) \/ RecordQueueLoss(h) PROVE WriterInv'
  <2>1. ~chanClosed
    BY <1>1, NoIntakeAfterClose DEF Send, RecordQueueLoss
  <2>2. UNCHANGED <<wpc, wev, wsnap, done, chanClosed, gapFailed>>
    BY <1>1 DEF Send, RecordQueueLoss
  <2> QED
    BY <2>1, <2>2, <1>a
<1>2. CASE Receive
  <2>1. wev' # 0
    BY <1>2, <1>a DEF Receive
  <2> QED
    BY <1>2, <1>a, <2>1 DEF Receive
<1>3. CASE ReceiveClosed
  BY <1>3, <1>a DEF ReceiveClosed
<1>4. CASE TakeLoss
  BY <1>4, <1>a, <1>b DEF TakeLoss, AfterLoss, SomethingLost
<1>5. CASE WriteGap
  BY <1>5, <1>a, <1>b DEF WriteGap, AfterLoss
<1>6. CASE GapWriteFails
  BY <1>6, <1>a, <1>b DEF GapWriteFails, AfterLoss
<1>7. CASE WriteRecord
  BY <1>7, <1>a DEF WriteRecord
<1>8. CASE RecordWriteFails
  BY <1>8, <1>a DEF RecordWriteFails
<1>9. CASE RecordWriteLoss
  BY <1>9, <1>a DEF RecordWriteLoss
<1>10. CASE Stop
  BY <1>10, <1>a DEF Stop
<1>11. ASSUME NEW c \in Closers, CloseEvents(c) PROVE WriterInv'
  BY <1>11, <1>a DEF CloseEvents
<1>12. CASE \/ \E h \in Handlers : \/ Submit(h) \/ Discard(h) \/ RLock(h)
                                   \/ CheckClosed(h) \/ SendWouldBlock(h)
            \/ \E c \in Closers : \/ CloseFirst(c) \/ CloseAgain(c) \/ MarkClosed(c)
                                  \/ CloseDone(c) \/ CloseExpired(c)
            \/ Tick \/ UNCHANGED vars
  <2>1. UNCHANGED <<wpc, wev, wsnap, done, pending, queue, chanClosed, gapFailed>>
    BY <1>12 DEF Submit, Discard, RLock, CheckClosed, SendWouldBlock, CloseFirst, CloseAgain,
      MarkClosed, CloseDone, CloseExpired, Tick, vars
  <2> QED
    BY <2>1
<1> QED
  BY <1>1, <1>2, <1>3, <1>4, <1>5, <1>6, <1>7, <1>8, <1>9, <1>10, <1>11, <1>12
    DEF Next, Enqueue, RunStep, SinkStep, CloseStep, Finished

-----------------------------------------------------------------------------
(* The losses.                                                             *)

LEMMA LossInit == Init => LossInv
<1> SUFFICES ASSUME Init PROVE LossInv
  OBVIOUS
<1>1. IsFiniteSet(lost) /\ Cardinality(lost) = 0
  BY FS_EmptySet DEF Init
<1> QED
  BY <1>1 DEF Init, LossInv, LossesAreConserved, NoRecordOvertakesItsSummary, NoLoss

\* A loss is one more element of lost and one more in pendingLoss.
LEMMA OneMoreLoss ==
    ASSUME TypeOK, LossInv, NEW e, e \notin lost, NEW stamp, RecordLoss(e, stamp),
           UNCHANGED <<wsnap, reported>>
    PROVE  /\ IsFiniteSet(lost') /\ LossesAreConserved'
           /\ Cardinality(lost') = Cardinality(lost) + 1
<1>1. IsFiniteSet(lost') /\ Cardinality(lost') = Cardinality(lost) + 1
  BY FS_AddElement DEF LossInv, RecordLoss
<1>2. pending'.count = pending.count + 1
  BY DEF RecordLoss, AddLoss
<1>3. pending.count \in Nat /\ wsnap.count \in Nat /\ reported \in Nat
  BY DEF TypeOK, LossSnapshot
<1> QED
  BY <1>1, <1>2, <1>3 DEF LossInv, LossesAreConserved

LEMMA MergeCounts ==
    ASSUME NEW p \in LossSnapshot, NEW s \in LossSnapshot
    PROVE  Merge(p, s).count = p.count + s.count
BY DEF Merge, LossSnapshot

\* The writer moves the losses from pendingLoss to its snapshot and from there to
\* the sink, or back.
LEMMA LossNext == TypeOK /\ FateInv /\ WriterInv /\ LossInv /\ [Next]_vars => LossInv'
<1> SUFFICES ASSUME TypeOK, FateInv, WriterInv, LossInv, [Next]_vars PROVE LossInv'
  OBVIOUS
<1> USE DEF LossInv, LossesAreConserved, NoRecordOvertakesItsSummary,
            writerVars, lossVars, outVars
<1>a. /\ pending.count \in Nat /\ wsnap.count \in Nat /\ reported \in Nat /\ received \in Nat
      /\ Cardinality(lost) \in Nat /\ gapFailed \in BOOLEAN
  BY FS_CardinalityType DEF TypeOK, LossSnapshot
<1>b. NoLoss.count = 0
  BY DEF NoLoss
<1>1. ASSUME NEW h \in Handlers, RecordQueueLoss(h) PROVE LossInv'
  <2>1. hev[h] \notin lost /\ RecordLoss(hev[h], hstamp[h])
    BY <1>1 DEF RecordQueueLoss, FateInv
  <2>2. UNCHANGED <<wpc, wsnap, reported, received, gapFailed>>
    BY <1>1 DEF RecordQueueLoss
  <2>3. /\ IsFiniteSet(lost') /\ LossesAreConserved'
        /\ Cardinality(lost') = Cardinality(lost) + 1
    BY <2>1, <2>2, OneMoreLoss
  <2> QED
    BY <1>a, <2>2, <2>3
<1>2. CASE RecordWriteLoss
  <2>1. wev \notin lost /\ RecordLoss(wev, wstamp)
    BY <1>2 DEF RecordWriteLoss, FateInv
  <2>2. UNCHANGED <<wsnap, reported, received, gapFailed>> /\ wpc' = "receive"
    BY <1>2 DEF RecordWriteLoss
  <2>3. /\ IsFiniteSet(lost') /\ LossesAreConserved'
        /\ Cardinality(lost') = Cardinality(lost) + 1
    BY <2>1, <2>2, OneMoreLoss
  <2> QED
    BY <1>a, <2>2, <2>3
<1>3. CASE Receive
  BY <1>3, <1>a DEF Receive
<1>4. CASE TakeLoss
  <2>1. wsnap.count = 0
    BY <1>4 DEF TakeLoss, WriterInv
  <2> QED
    BY <1>4, <1>a, <1>b, <2>1 DEF TakeLoss, AfterLoss, SomethingLost
<1>5. CASE WriteGap
  BY <1>5, <1>a, <1>b DEF WriteGap, AfterLoss
<1>6. CASE GapWriteFails
  <2>1. pending'.count = pending.count + wsnap.count
    BY <1>6, MergeCounts DEF GapWriteFails, TypeOK
  <2> QED
    BY <1>6, <1>a, <1>b, <2>1 DEF GapWriteFails, AfterLoss
<1>7. CASE ReceiveClosed \/ WriteRecord \/ RecordWriteFails \/ Stop
  BY <1>7 DEF ReceiveClosed, WriteRecord, RecordWriteFails, Stop
<1>8. CASE \/ \E h \in Handlers : \/ Submit(h) \/ Discard(h) \/ RLock(h)
                                  \/ CheckClosed(h) \/ Send(h) \/ SendWouldBlock(h)
           \/ \E c \in Closers : CloseStep(c)
           \/ Tick \/ UNCHANGED vars
  <2>1. UNCHANGED <<wpc, wsnap, pending, lost, reported, received, gapFailed>>
    BY <1>8 DEF Submit, Discard, RLock, CheckClosed, Send, SendWouldBlock, CloseStep,
      CloseFirst, CloseAgain, MarkClosed, CloseEvents, CloseDone, CloseExpired, Tick, vars
  <2> QED
    BY <2>1
<1> QED
  BY <1>1, <1>2, <1>3, <1>4, <1>5, <1>6, <1>7, <1>8
    DEF Next, Enqueue, RunStep, SinkStep, Finished

-----------------------------------------------------------------------------
(* The theorems.                                                           *)

LEMMA InitInv == Init => IInv
BY TypeInit, IntakeInit, FateInit, WriterInit, LossInit DEF IInv

LEMMA NextInv == IInv /\ [Next]_vars => IInv'
BY TypeNext, IntakeNext, FateNext, WriterNext, LossNext DEF IInv

LEMMA Invariant == Spec => []IInv
BY InitInv, NextInv, PTL DEF Spec

\* Types, and the queue never holds more than its capacity.
THEOREM TypeTheorem == Spec => []TypeOK
<1>1. IInv => TypeOK
  BY DEF IInv
<1> QED
  BY <1>1, Invariant, PTL

\* No handler is between its look at closed and the end of its loss accounting
\* while the channel is or gets closed (enqueue, Close).
THEOREM IntakeTheorem == Spec => []IntakeStopsBeforeClose
<1>1. IInv => IntakeStopsBeforeClose
  BY DEF IInv, IntakeInv
<1> QED
  BY <1>1, Invariant, PTL

\* Every loss is pending, in the writer's snapshot or in a summary the sink
\* accepted, however many summaries failed (takePendingLoss, restorePendingLoss).
THEOREM LossTheorem == Spec => []LossesAreConserved
<1>1. IInv => LossesAreConserved
  BY DEF IInv, LossInv
<1> QED
  BY <1>1, Invariant, PTL

\* A record is written after the summary of the losses that were counted when it
\* was received, unless the sink just refused that summary (run, emitPendingLoss).
THEOREM SummaryTheorem == Spec => []NoRecordOvertakesItsSummary
<1>1. IInv => NoRecordOvertakesItsSummary
  BY DEF IInv, LossInv
<1> QED
  BY <1>1, Invariant, PTL

\* When the writer is done the queue and its hand are empty, and every loss is in
\* a summary unless the sink refused the last one (run, Close).
THEOREM DrainTheorem == Spec => []ShutdownLeavesNothingBehind
<1>1. IInv => ShutdownLeavesNothingBehind
  <2> SUFFICES ASSUME IInv, done PROVE queue = <<>> /\ wev = NoEvent
                                       /\ (gapFailed \/ reported = Cardinality(lost))
    BY DEF ShutdownLeavesNothingBehind
  <2>1. wpc = "stopped" /\ wev = NoEvent /\ wsnap.count = 0
    BY DEF IInv, WriterInv
  <2>2. queue = <<>> /\ (gapFailed \/ pending.count = 0)
    BY <2>1 DEF IInv, WriterInv
  <2>3. reported \in Nat
    BY DEF IInv, TypeOK
  <2> QED
    BY <2>1, <2>2, <2>3 DEF IInv, LossInv, LossesAreConserved
<1> QED
  BY <1>1, Invariant, PTL
-----------------------------------------------------------------------------
(***************************************************************************)
(* The logger implements the audit trail, for any number of handlers and   *)
(* calls of Close, any queue size and any behaviour of the sink.           *)
(*                                                                         *)
(* The steps that decide a fate are Send, SendWouldBlock, Discard and      *)
(* CheckClosed on the handlers' side, WriteRecord and RecordWriteFails on  *)
(* the writer's; every other step leaves the trail as it is, in particular *)
(* the counting of a loss and the hand-over from the queue to the writer.  *)
(***************************************************************************)

LEMMA RefinesInit == Init => Trail!Init
<1> SUFFICES ASSUME Init PROVE Trail!Init
  OBVIOUS
<1>1. Line = <<>>
  BY DEF Init, Line, NoEvent
<1>2. Written = <<>>
  BY DEF Init, Written
<1>3. Undecided = {} /\ DecidedLosses = {}
  BY DEF Init, Undecided, DecidedLosses
<1> QED
  BY <1>1, <1>2, <1>3 DEF Init, Trail!Init

\* What a step that moves one handler does to the sets of the trail.
LEMMA HandlerStep ==
    ASSUME TypeOK, FateInv, NEW h \in Handlers, NEW pc, NEW e,
           hpc' = [hpc EXCEPT ![h] = pc], hev' = [hev EXCEPT ![h] = e]
    PROVE  Undecided' = (Undecided \ {hev[h]})
                           \cup (IF pc \in {"encode", "locked", "open"} THEN {e} ELSE {})
<1> DEFINE deciding == {"encode", "locked", "open"}
<1>1. /\ DOMAIN hpc = Handlers /\ DOMAIN hev = Handlers
      /\ \A g \in Handlers : g # h => hpc'[g] = hpc[g] /\ hev'[g] = hev[g]
      /\ hpc'[h] = pc /\ hev'[h] = e
  BY DEF TypeOK
<1>2. \A g \in Handlers : g # h /\ hpc[g] \in deciding => hev[g] # hev[h]
  BY DEF FateInv
<1>3. \A x : x \in Undecided' <=> \E g \in Handlers : hpc'[g] \in deciding /\ x = hev'[g]
  BY DEF Undecided
<1>4. \A x : x \in Undecided <=> \E g \in Handlers : hpc[g] \in deciding /\ x = hev[g]
  BY DEF Undecided
<1> QED
  BY <1>1, <1>2, <1>3, <1>4

\* A handler that neither finds the queue full nor counts a loss decides none.
LEMMA NoLossStep ==
    ASSUME TypeOK, NEW h \in Handlers, NEW pc, NEW e,
           hpc' = [hpc EXCEPT ![h] = pc], hev' = [hev EXCEPT ![h] = e],
           hpc[h] # "full", pc # "full",
           UNCHANGED <<lost, wpc, wev>>
    PROVE  DecidedLosses' = DecidedLosses
<1>1. /\ \A g \in Handlers : g # h => hpc'[g] = hpc[g] /\ hev'[g] = hev[g]
      /\ hpc'[h] = pc
  BY DEF TypeOK
<1>2. {g \in Handlers : hpc'[g] = "full"} = {g \in Handlers : hpc[g] = "full"}
  BY <1>1
<1>3. \A g \in {x \in Handlers : hpc[x] = "full"} : hev'[g] = hev[g]
  BY <1>1
<1> QED
  BY <1>2, <1>3 DEF DecidedLosses

\* A loss is decided before it is counted, and counting it decides nothing more.
LEMMA LosingStep ==
    ASSUME TypeOK, NEW h \in Handlers, NEW pc, NEW e,
           hpc' = [hpc EXCEPT ![h] = pc], hev' = [hev EXCEPT ![h] = e],
           \/ hpc[h] = "full" /\ lost' = lost \cup {hev[h]} /\ pc # "full"
           \/ hpc[h] # "full" /\ lost' = lost /\ pc = "full" /\ e = hev[h],
           UNCHANGED <<wpc, wev>>
    PROVE  DecidedLosses' = DecidedLosses \cup {hev[h]}
<1>1. /\ \A g \in Handlers : g # h => hpc'[g] = hpc[g] /\ hev'[g] = hev[g]
      /\ hpc'[h] = pc /\ hev'[h] = e
  BY DEF TypeOK
<1>2. \A x : x \in DecidedLosses' <=> \/ x \in lost'
                                      \/ \E g \in Handlers : hpc'[g] = "full" /\ x = hev'[g]
                                      \/ wpc' = "failed" /\ x = wev'
  BY DEF DecidedLosses
<1>3. \A x : x \in DecidedLosses <=> \/ x \in lost
                                     \/ \E g \in Handlers : hpc[g] = "full" /\ x = hev[g]
                                     \/ wpc = "failed" /\ x = wev
  BY DEF DecidedLosses
<1> QED
  BY <1>1, <1>2, <1>3

\* One more entry at the sink is one more entry of the trail.
LEMMA OneMoreEntry ==
    ASSUME TypeOK, NEW entry \in Entry, output' = Append(output, entry)
    PROVE  Written' = Append(Written, WithoutWindow(entry))
<1>1. /\ output \in Seq(Entry) /\ output' \in Seq(Entry)
      /\ Len(output') = Len(output) + 1 /\ Len(output) \in Nat
      /\ \A i \in 1 .. Len(output) : output'[i] = output[i]
      /\ output'[Len(output) + 1] = entry
  BY DEF TypeOK
<1>2. /\ DOMAIN output = 1 .. Len(output) /\ DOMAIN output' = 1 .. Len(output) + 1
  BY <1>1
<1> DEFINE Shown == {WithoutWindow(x) : x \in Entry}
<1>3. /\ Written \in Seq(Shown) /\ Len(Written) = Len(output)
      /\ Written' \in Seq(Shown) /\ Len(Written') = Len(output) + 1
  <2>1. /\ \A i \in DOMAIN output : output[i] \in Entry
        /\ \A i \in DOMAIN output' : output'[i] \in Entry
    BY <1>1
  <2> QED
    BY <1>1, <1>2, <2>1 DEF Written
<1>4. \A i \in 1 .. Len(output) + 1 :
        Written'[i] = IF i = Len(output) + 1 THEN WithoutWindow(entry) ELSE Written[i]
  BY <1>1, <1>2 DEF Written
<1>5. WithoutWindow(entry) \in Shown
  OBVIOUS
<1> HIDE DEF Shown
<1>6. Append(Written, WithoutWindow(entry)) \in Seq(Shown)
  BY <1>3, <1>5
<1>7. /\ Len(Append(Written, WithoutWindow(entry))) = Len(output) + 1
      /\ \A i \in 1 .. Len(output) + 1 : Append(Written, WithoutWindow(entry))[i] =
            IF i = Len(output) + 1 THEN WithoutWindow(entry) ELSE Written[i]
  BY <1>1, <1>3, <1>5
<1> QED
  BY <1>1, <1>3, <1>4, <1>6, <1>7, SeqEqual

\* The record the writer holds, if any, is the head of the line.
LEMMA LineWithHand ==
    ASSUME TypeOK, wev # NoEvent, wpc # "failed"
    PROVE  Line # <<>> /\ Head(Line) = wev /\ Tail(Line) = queue
<1>1. Line = <<wev>> \o queue /\ queue \in Seq(Nat \ {NoEvent})
  BY DEF Line, TypeOK
<1> QED
  BY <1>1

LEMMA LineWithoutHand ==
    ASSUME TypeOK, wev = NoEvent \/ wpc = "failed"
    PROVE  Line = queue
<1>1. Line = <<>> \o queue /\ queue \in Seq(Nat \ {NoEvent})
  BY DEF Line, TypeOK
<1> QED
  BY <1>1

\* The channel has room for QueueSize records, the line for one more.
LEMMA LineLength ==
    ASSUME TypeOK
    PROVE  /\ Len(queue) < QueueSize => Len(Line) <= QueueSize
           /\ Len(queue) >= QueueSize => Len(Line) >= QueueSize
<1>1. Line \in {queue, <<wev>> \o queue} /\ queue \in Seq(Nat \ {NoEvent})
  BY LineWithoutHand DEF Line, TypeOK
<1>2. Len(<<wev>> \o queue) = Len(queue) + 1 /\ Len(queue) \in Nat
  BY <1>1
<1> QED
  BY <1>1, <1>2, QueueAssumption DEF QueueAssumption

-----------------------------------------------------------------------------
(* The steps of the handlers.                                              *)

LEMMA HandlersRefine ==
    ASSUME IInv, NEW h \in Handlers, Submit(h) \/ Enqueue(h)
    PROVE  Trail!Next \/ UNCHANGED Trail!vars
<1> USE DEF IInv, lockVars, closeVars, writerVars, lossVars, chanVars, outVars
<1>1. CASE Submit(h)
  <2>1. Undecided' = (Undecided \ {hev[h]}) \cup {issued + 1}
    BY <1>1, HandlerStep DEF Submit
  <2>2. hev[h] \notin Undecided
    BY <1>1 DEF Submit, Undecided, FateInv
  <2>3. DecidedLosses' = DecidedLosses
    BY <1>1, NoLossStep DEF Submit
  <2>4. UNCHANGED <<Line, Written, reported, closed, done>>
    BY <1>1 DEF Submit, Line, Written
  <2> QED
    BY <1>1, <2>1, <2>2, <2>3, <2>4 DEF Submit, Trail!Next, Trail!Offer
<1>2. CASE Discard(h)
  <2>1. Undecided' = Undecided \ {hev[h]} /\ hev[h] \in Undecided
    BY <1>2, HandlerStep DEF Discard, Undecided
  <2>2. DecidedLosses' = DecidedLosses
    BY <1>2, NoLossStep DEF Discard
  <2>3. UNCHANGED <<issued, Line, Written, reported, closed, done>>
    BY <1>2 DEF Discard, Line, Written
  <2> QED
    BY <1>2, <2>1, <2>2, <2>3 DEF Discard, Trail!Next, Trail!Drop
<1>3. CASE RLock(h)
  <2>0. hev' = [hev EXCEPT ![h] = hev[h]]
    BY <1>3 DEF RLock, TypeOK
  <2>1. Undecided' = (Undecided \ {hev[h]}) \cup {hev[h]} /\ hev[h] \in Undecided
    BY <1>3, <2>0, HandlerStep DEF RLock, Undecided
  <2>2. DecidedLosses' = DecidedLosses
    BY <1>3, <2>0, NoLossStep DEF RLock
  <2>3. UNCHANGED <<issued, Line, Written, reported, closed, done>>
    BY <1>3 DEF RLock, Line, Written
  <2> QED
    BY <2>1, <2>2, <2>3 DEF Trail!vars
<1>4. CASE CheckClosed(h) /\ closed
  <2>0. /\ hpc[h] = "locked" /\ hpc' = [hpc EXCEPT ![h] = "idle"]
        /\ hev' = [hev EXCEPT ![h] = NoEvent]
    BY <1>4 DEF CheckClosed, Return
  <2>1. Undecided' = Undecided \ {hev[h]} /\ hev[h] \in Undecided
    BY <2>0, HandlerStep DEF Undecided
  <2>2. DecidedLosses' = DecidedLosses
    BY <1>4, NoLossStep DEF CheckClosed, Return
  <2>3. UNCHANGED <<issued, Line, Written, reported, closed, done>>
    BY <1>4 DEF CheckClosed, Line, Written
  <2> QED
    BY <1>4, <2>1, <2>2, <2>3 DEF Trail!Next, Trail!Drop
<1>5. CASE CheckClosed(h) /\ ~closed
  <2>0. hev' = [hev EXCEPT ![h] = hev[h]]
    BY <1>5 DEF CheckClosed, TypeOK
  <2>1. Undecided' = (Undecided \ {hev[h]}) \cup {hev[h]} /\ hev[h] \in Undecided
    BY <1>5, <2>0, HandlerStep DEF CheckClosed, Undecided
  <2>2. DecidedLosses' = DecidedLosses
    BY <1>5, <2>0, NoLossStep DEF CheckClosed
  <2>3. UNCHANGED <<issued, Line, Written, reported, closed, done>>
    BY <1>5 DEF CheckClosed, Line, Written
  <2> QED
    BY <2>1, <2>2, <2>3 DEF Trail!vars
\* The handler saw an open logger, and it still is open: IntakeInv.
<1>6. CASE Send(h)
  <2>1. Undecided' = Undecided \ {hev[h]} /\ hev[h] \in Undecided
    BY <1>6, HandlerStep DEF Send, Return, Undecided
  <2>2. DecidedLosses' = DecidedLosses
    BY <1>6, NoLossStep DEF Send, Return
  <2>3. ~closed /\ Len(Line) <= QueueSize
    BY <1>6, LineLength DEF Send, HasRoom, IntakeInv, IntakeStopsBeforeClose
  <2>4. Line' = Append(Line, hev[h])
    <3>1. queue \in Seq(Nat \ {NoEvent}) /\ hev[h] \in Nat \ {NoEvent} /\ wev \in Nat
      BY <1>6 DEF Send, FateInv, TypeOK
    <3>2. <<wev>> \o Append(queue, hev[h]) = Append(<<wev>> \o queue, hev[h])
          /\ <<>> \o Append(queue, hev[h]) = Append(<<>> \o queue, hev[h])
      BY <3>1
    <3> QED
      BY <1>6, <3>2 DEF Send, Line
  <2>5. UNCHANGED <<issued, Written, reported, closed, done>>
    BY <1>6 DEF Send, Written
  <2> QED
    BY <2>1, <2>2, <2>3, <2>4, <2>5 DEF Trail!Next, Trail!Join
<1>7. CASE SendWouldBlock(h)
  <2>0. hev' = [hev EXCEPT ![h] = hev[h]]
    BY <1>7 DEF SendWouldBlock, TypeOK
  <2>1. Undecided' = Undecided \ {hev[h]} /\ hev[h] \in Undecided
    BY <1>7, <2>0, HandlerStep DEF SendWouldBlock, Undecided
  <2>2. DecidedLosses' = DecidedLosses \cup {hev[h]}
    BY <1>7, <2>0, LosingStep DEF SendWouldBlock
  <2>3. ~closed /\ Len(Line) >= QueueSize
    BY <1>7, LineLength, QueueAssumption
      DEF SendWouldBlock, HasRoom, IntakeInv, IntakeStopsBeforeClose, TypeOK, QueueAssumption
  <2>4. UNCHANGED <<issued, Line, Written, reported, closed, done>>
    BY <1>7 DEF SendWouldBlock, Line, Written
  <2> QED
    BY <2>1, <2>2, <2>3, <2>4 DEF Trail!Next, Trail!Overflow
\* The loss was decided before; now it is counted.
<1>8. CASE RecordQueueLoss(h)
  <2>1. Undecided' = Undecided \ {hev[h]}
    BY <1>8, HandlerStep DEF RecordQueueLoss, Return
  <2>2. hev[h] \notin Undecided
    BY <1>8 DEF RecordQueueLoss, Undecided, FateInv
  <2>3. DecidedLosses' = DecidedLosses \cup {hev[h]} /\ hev[h] \in DecidedLosses
    BY <1>8, LosingStep DEF RecordQueueLoss, RecordLoss, Return, DecidedLosses
  <2>4. UNCHANGED <<issued, Line, Written, reported, closed, done>>
    BY <1>8 DEF RecordQueueLoss, Line, Written
  <2> QED
    BY <2>1, <2>2, <2>3, <2>4 DEF Trail!vars
<1> QED
  BY <1>1, <1>2, <1>3, <1>4, <1>5, <1>6, <1>7, <1>8 DEF Enqueue

-----------------------------------------------------------------------------
(* The steps of the writer.                                                *)

LEMMA WriterRefines ==
    ASSUME IInv, RunStep \/ SinkStep
    PROVE  Trail!Next \/ UNCHANGED Trail!vars
<1> USE DEF IInv, handlerVars, lockVars, closeVars, lossVars, chanVars, outVars
<1>1. UNCHANGED Undecided
  BY DEF RunStep, SinkStep, Receive, ReceiveClosed, TakeLoss, WriteGap, GapWriteFails,
    WriteRecord, RecordWriteFails, RecordWriteLoss, Stop, Undecided
\* The head of the channel becomes the record in hand.
<1>2. CASE Receive
  <2>1. wev = NoEvent /\ queue # <<>> /\ queue \in Seq(Nat \ {NoEvent})
    BY <1>2 DEF Receive, WriterInv, TypeOK
  <2>2. Line = queue
    BY <2>1, LineWithoutHand
  <2>3. wev' # NoEvent /\ queue = <<Head(queue)>> \o Tail(queue)
    BY <1>2, <2>1 DEF Receive
  <2>4. Line' = Line
    BY <1>2, <2>2, <2>3 DEF Receive, Line
  <2>5. UNCHANGED <<issued, Written, DecidedLosses, reported, closed, done>>
    BY <1>2 DEF Receive, Written, DecidedLosses
  <2> QED
    BY <1>1, <2>4, <2>5 DEF Trail!vars
<1>3. CASE ReceiveClosed
  <2>1. UNCHANGED <<issued, Line, Written, DecidedLosses, reported, closed, done>>
    BY <1>3 DEF ReceiveClosed, WriterInv, Line, Written, DecidedLosses
  <2> QED
    BY <1>1, <2>1 DEF Trail!vars
<1>4. CASE TakeLoss \/ GapWriteFails
  <2>1. wpc # "failed" /\ wpc' # "failed"
    BY <1>4 DEF TakeLoss, GapWriteFails, AfterLoss
  <2>2. UNCHANGED <<issued, Line, Written, DecidedLosses, reported, closed, done>>
    BY <1>4, <2>1 DEF TakeLoss, GapWriteFails, Line, Written, DecidedLosses
  <2> QED
    BY <1>1, <2>2 DEF Trail!vars
\* A summary tells of no more than what is lost and was not told: LossInv.
<1>5. CASE WriteGap
  <2>1. wpc # "failed" /\ wpc' # "failed"
    BY <1>5 DEF WriteGap, AfterLoss
  <2>2. UNCHANGED <<issued, Line, DecidedLosses, closed, done>>
    BY <1>5, <2>1 DEF WriteGap, Line, DecidedLosses
  <2>3. Written' = Append(Written, Trail!Summary(wsnap.count))
    <3>1. Gap(wsnap) \in Entry /\ output' = Append(output, Gap(wsnap))
      BY <1>5, EntryType DEF WriteGap, TypeOK
    <3>2. WithoutWindow(Gap(wsnap)) = Trail!Summary(wsnap.count)
      BY DEF WithoutWindow, Gap, Trail!Summary
    <3> QED
      BY <3>1, <3>2, OneMoreEntry
  <2>4. wsnap.count \in 1 .. (Cardinality(DecidedLosses) - reported)
    <3>1. IsFiniteSet(DecidedLosses)
      <4>1. \A x \in DecidedLosses : x \in lost \/ (\E h \in Handlers : x = hev[h]) \/ x = wev
        BY DEF DecidedLosses
      <4>2. DecidedLosses \subseteq 0 .. issued
        <5>1. issued \in Nat /\ (\A x \in lost : x \in 1 .. issued) /\ wev \in 0 .. issued
              /\ \A h \in Handlers : hev[h] \in 0 .. issued
          BY DEF FateInv, TypeOK
        <5>2. \A x \in 1 .. issued : x \in 0 .. issued
          BY <5>1
        <5> QED
          BY <4>1, <5>1, <5>2
      <4>3. IsFiniteSet(0 .. issued)
        BY FS_Interval DEF TypeOK
      <4> QED
        BY <4>2, <4>3, FS_Subset
    <3>2. Cardinality(lost) <= Cardinality(DecidedLosses)
      BY <3>1, FS_Subset DEF DecidedLosses
    <3>3. Cardinality(lost) \in Nat /\ Cardinality(DecidedLosses) \in Nat
      BY <3>1, FS_CardinalityType DEF LossInv
    <3>4. wsnap.count > 0 /\ wsnap.count \in Nat /\ pending.count \in Nat /\ reported \in Nat
      BY <1>5 DEF WriteGap, WriterInv, TypeOK, LossSnapshot
    <3>5. Cardinality(lost) = pending.count + wsnap.count + reported
      BY DEF LossInv, LossesAreConserved
    <3> QED
      BY <3>2, <3>3, <3>4, <3>5
  <2>5. ~done /\ reported' = reported + wsnap.count
    BY <1>5 DEF WriteGap, WriterInv
  <2>6. Trail!Tell
    <3>0. Trail!Cardinality(DecidedLosses) = Cardinality(DecidedLosses)
      BY DEF Cardinality, Trail!Cardinality
    <3>1. \E n \in 1 .. (Trail!Cardinality(DecidedLosses) - reported) :
            Written' = Append(Written, Trail!Summary(n)) /\ reported' = reported + n
      BY <2>3, <2>4, <2>5, <3>0
    <3>2. UNCHANGED <<issued, Undecided, Line, DecidedLosses, ~closed, done>>
      BY <1>1, <2>2
    <3> QED
      BY <2>5, <3>1, <3>2 DEF Trail!Tell
  <2> QED
    BY <2>6 DEF Trail!Next
<1>6. CASE WriteRecord
  <2>1. wev # NoEvent /\ wev \in Nat /\ ~done
    BY <1>6 DEF WriteRecord, WriterInv, TypeOK
  <2>2. Line # <<>> /\ Head(Line) = wev /\ Tail(Line) = queue
    BY <1>6, <2>1, LineWithHand DEF WriteRecord
  <2>3. Line' = queue
    <3>1. Line' = <<>> \o queue /\ queue \in Seq(Nat \ {NoEvent})
      BY <1>6 DEF WriteRecord, Line, TypeOK
    <3> QED
      BY <3>1
  <2>4. Written' = Append(Written, Trail!Record(wev))
    <3>1. Record(wev) \in Entry /\ output' = Append(output, Record(wev))
      BY <1>6, <2>1, EntryType DEF WriteRecord, TypeOK, LossSnapshot
    <3>2. WithoutWindow(Record(wev)) = Trail!Record(wev)
      BY DEF WithoutWindow, Record, Trail!Record
    <3> QED
      BY <3>1, <3>2, OneMoreEntry
  <2>5. UNCHANGED <<issued, DecidedLosses, reported, closed, done>>
    BY <1>6 DEF WriteRecord, DecidedLosses
  <2> QED
    BY <1>1, <2>1, <2>2, <2>3, <2>4, <2>5 DEF Trail!Next, Trail!Write
<1>7. CASE RecordWriteFails
  <2>1. wev # NoEvent /\ ~done
    BY <1>7 DEF RecordWriteFails, WriterInv
  <2>2. Line # <<>> /\ Head(Line) = wev /\ Tail(Line) = queue
    BY <1>7, <2>1, LineWithHand DEF RecordWriteFails
  <2>3. Line' = queue
    <3>1. Line' = <<>> \o queue /\ queue \in Seq(Nat \ {NoEvent})
      BY <1>7 DEF RecordWriteFails, Line, TypeOK
    <3> QED
      BY <3>1
  <2>4. DecidedLosses' = DecidedLosses \cup {wev}
    BY <1>7 DEF RecordWriteFails, DecidedLosses
  <2>5. UNCHANGED <<issued, Written, reported, closed, done>>
    BY <1>7 DEF RecordWriteFails, Written
  <2> QED
    BY <1>1, <2>1, <2>2, <2>3, <2>4, <2>5 DEF Trail!Next, Trail!WriteFails
<1>8. CASE RecordWriteLoss
  <2>1. DecidedLosses' = DecidedLosses
    BY <1>8 DEF RecordWriteLoss, RecordLoss, DecidedLosses
  <2>2. UNCHANGED <<issued, Line, Written, reported, closed, done>>
    BY <1>8 DEF RecordWriteLoss, Line, Written
  <2> QED
    BY <1>1, <2>1, <2>2 DEF Trail!vars
<1>9. CASE Stop
  <2>1. closed /\ Line = <<>>
    <3>1. wev = NoEvent /\ chanClosed /\ queue = <<>>
      BY <1>9 DEF Stop, WriterInv
    <3> QED
      BY <3>1, LineWithoutHand DEF IntakeInv
  <2>2. UNCHANGED <<issued, Line, Written, DecidedLosses, reported, closed>> /\ done'
    BY <1>9 DEF Stop, Line, Written, DecidedLosses
  <2> QED
    BY <1>1, <2>1, <2>2 DEF Trail!Next, Trail!Seal
<1> QED
  BY <1>2, <1>3, <1>4, <1>5, <1>6, <1>7, <1>8, <1>9 DEF RunStep, SinkStep

-----------------------------------------------------------------------------
LEMMA RefinesNext ==
    IInv /\ [Next]_vars => [Trail!Next]_Trail!vars
<1> SUFFICES ASSUME IInv, [Next]_vars PROVE [Trail!Next]_Trail!vars
  OBVIOUS
<1>1. ASSUME NEW c \in Closers, CloseStep(c) PROVE [Trail!Next]_Trail!vars
  <2>1. UNCHANGED <<issued, Undecided, Line, Written, DecidedLosses, reported, done>>
    BY <1>1 DEF CloseStep, CloseFirst, CloseAgain, MarkClosed, CloseEvents, CloseDone,
      CloseExpired, handlerVars, writerVars, lossVars, chanVars, outVars, Undecided, Line,
      Written, DecidedLosses
  <2>2. closed' \/ closed' = closed
    BY <1>1 DEF CloseStep, CloseFirst, CloseAgain, MarkClosed, CloseEvents, CloseDone,
      CloseExpired, lockVars
  <2>3. CASE closed'
    BY <2>1, <2>3 DEF Trail!Next, Trail!Shut
  <2>4. CASE closed' = closed
    BY <2>1, <2>4 DEF Trail!vars
  <2> QED
    BY <2>2, <2>3, <2>4
<1>2. CASE Tick \/ UNCHANGED vars
  BY <1>2 DEF Tick, vars, handlerVars, lockVars, writerVars, lossVars, chanVars, outVars,
    Undecided, Line, Written, DecidedLosses, Trail!vars
<1> QED
  BY <1>1, <1>2, HandlersRefine, WriterRefines DEF Next, Finished

\* Whatever handlers, the writer, a failing sink and Close interleave, every event
\* has one fate, records come in the order the channel took them and once, no loss
\* is told twice, and nothing is written once the writer is done (enqueue, run,
\* Close).
THEOREM TrailTheorem == Spec => ImplementsAuditTrail
BY Invariant, RefinesInit, RefinesNext, PTL DEF Spec, ImplementsAuditTrail, Trail!Spec
=============================================================================
