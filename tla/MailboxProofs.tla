--------------------------- MODULE MailboxProofs ---------------------------
(***************************************************************************)
(* Theorems about the mailbox runtime, for every finite set of tasks and   *)
(* every value of the other constants.  They rest on one inductive         *)
(* invariant, IInv: the types, the uniqueness of an execution, the exact   *)
(* in-flight counter, and what makes these inductive -- where the          *)
(* dispatcher's hand is full, that a start finds no future of an earlier   *)
(* run, that a task has one fate in the queue, and that an id on its way   *)
(* to the queue has never been there.                                      *)
(*                                                                         *)
(* There is one lemma for each conjunct of IInv that a step preserves it;  *)
(* in each, the steps that leave its variables alone share a case (Polls,  *)
(* HandlerStep), and every other action has one of its own.                *)
(*                                                                         *)
(* The idle stop rests on a second one, IdleInv, which adds to IInv what   *)
(* is left when an empty pop meets a counter of zero.                      *)
(***************************************************************************)
EXTENDS Mailbox, TaskQueueProofs, FiniteSetTheorems, SequenceTheorems, TLAPS

\* Frame tuples and abbreviations are expanded everywhere.
USE DEF queueVars, loopVars, controlVars, futureVars, envVars, restVars,
        dispatcherVars, Goto, ReadyEnabled, ProducerEnabled, Spawn, NewWorker

-----------------------------------------------------------------------------
(* The strengthening.                                                      *)

\* The dispatcher holds a task exactly between receiving and applying a result,
\* and between popping and dispatching; it got there with the intake open.
HandMatchesPc ==
    /\ pc \in {"handle", "dispatch"} <=> hand # NoHand
    /\ pc = "dispatch" => ~paused /\ ~stopping

\* Nothing of a crashed run survives it: recovery starts without futures.
FreshStart == pc = "start" => Spawned = {} /\ resultCh = <<>>

\* The tasks the queue has seen.
Entered == Stored \cup dlq \cup acked

\* The id a handler is waiting to enqueue is new, and no other handler's.
ChildrenUnborn ==
    /\ \A t \in Tasks : worker[t].child \notin known
    /\ \A t, u \in Tasks :
          worker[t].child # NoTask /\ worker[t].child = worker[u].child => t = u

\* An id in the producer channel has not reached the queue, and is there once.
ChannelUnborn ==
    /\ Entered \subseteq known
    /\ \A i \in DOMAIN producerCh : producerCh[i] \in known \ Entered
    /\ \A i, j \in DOMAIN producerCh : producerCh[i] = producerCh[j] => i = j

InTransit == ChildrenUnborn /\ ChannelUnborn

\* The inductive invariant.
IInv == TypeOK /\ HandMatchesPc /\ FreshStart /\ OneFate /\ OneExecution
        /\ InFlightExact /\ InTransit

-----------------------------------------------------------------------------
(* Sequences.                                                              *)

\* Receiving from a channel.
LEMMA HeadTail ==
    ASSUME NEW S, NEW s \in Seq(S), s # <<>>
    PROVE  /\ Head(s) \in S /\ Head(s) = s[1] /\ 1 \in DOMAIN s
           /\ Tail(s) \in Seq(S) /\ Len(Tail(s)) = Len(s) - 1 /\ Len(s) \in Nat \ {0}
           /\ DOMAIN Tail(s) = 1 .. Len(s) - 1 /\ DOMAIN s = 1 .. Len(s)
           /\ \A i \in DOMAIN Tail(s) : i + 1 \in DOMAIN s /\ Tail(s)[i] = s[i + 1]
<1>1. Len(s) \in Nat \ {0} /\ DOMAIN s = 1 .. Len(s)
  BY EmptySeq, LenProperties
<1>2. /\ Head(s) \in S /\ Tail(s) \in Seq(S) /\ Len(Tail(s)) = Len(s) - 1
      /\ \A i \in 1 .. Len(Tail(s)) : Tail(s)[i] = s[i + 1]
  BY HeadTailProperties
<1>3. Head(s) = s[1]
  BY <1>1
<1>4. DOMAIN Tail(s) = 1 .. Len(s) - 1
  BY <1>2, LenProperties
<1> QED
  BY <1>1, <1>2, <1>3, <1>4

\* Sending to a channel.
LEMMA Appended ==
    ASSUME NEW S, NEW s \in Seq(S), NEW e \in S
    PROVE  /\ Append(s, e) \in Seq(S) /\ Len(Append(s, e)) = Len(s) + 1 /\ Len(s) \in Nat
           /\ DOMAIN s = 1 .. Len(s) /\ DOMAIN Append(s, e) = 1 .. Len(s) + 1
           /\ \A i \in DOMAIN s : Append(s, e)[i] = s[i]
           /\ Append(s, e)[Len(s) + 1] = e
<1>1. /\ Append(s, e) \in Seq(S) /\ Len(Append(s, e)) = Len(s) + 1
      /\ \A i \in 1 .. Len(s) : Append(s, e)[i] = s[i]
      /\ Append(s, e)[Len(s) + 1] = e
  BY AppendProperties
<1>2. Len(s) \in Nat /\ DOMAIN s = 1 .. Len(s)
  BY LenProperties
<1>3. DOMAIN Append(s, e) = 1 .. Len(s) + 1
  BY <1>1, LenProperties
<1> QED
  BY <1>1, <1>2, <1>3

-----------------------------------------------------------------------------
(* A step preserves the types: every action writes values of the right type,  *)
(* and sends only to a channel with room.                                    *)

\* A step preserves TypeOK.
LEMMA TypeInv == ASSUME IInv, [Next]_vars PROVE TypeOK'
<1> USE TaskQueueAssumption, MailboxAssumption, NoTaskAssumption
<1> USE DEF TypeOK, QueueTypeOK, IInv, Labels
<1>1. CASE Recover
  BY <1>1 DEF Recover, Try, RecoverInflight
<1>2. CASE ControlPending
  BY <1>2 DEF ControlPending
<1>3. CASE ControlFires
  <2>1. control' \in Seq(Commands) /\ Len(control') <= ControlBuffer
    BY <1>3, HeadTail DEF ControlFires
  <2> QED
    BY <1>3, <2>1 DEF ControlFires, BeginStop
<1>4. CASE ProducerPending
  BY <1>4 DEF ProducerPending
<1>5. CASE ProducerFires
  <2>1. Head(producerCh) \in Tasks /\ Tail(producerCh) \in Seq(Tasks)
        /\ Len(Tail(producerCh)) <= ProducerBuffer
    BY <1>5, HeadTail DEF ProducerFires
  <2>2. row' \in [Tasks -> 0 .. MaxRetries \cup {NoRow}]
    <3>1. CASE Push(Head(producerCh), 0)
      <4>1. 0 \in 0 .. MaxRetries
        OBVIOUS
      <4> QED
        BY <3>1, <4>1, <2>1 DEF Push
    <3>2. CASE UNCHANGED queueVars
      BY <3>2
    <3> QED
      BY <1>5, <3>1, <3>2 DEF ProducerFires
  <2>3. QueueTypeOK' /\ sawWork' \in BOOLEAN
    BY <1>5, <2>1, <2>2 DEF ProducerFires, Push
  <2> QED
    BY <1>5, <2>1, <2>3 DEF ProducerFires
<1>6. CASE ResultPending
  BY <1>6 DEF ResultPending
<1>7. CASE ResultFires
  <2>1. /\ Head(resultCh) \in Result /\ Tail(resultCh) \in Seq(Result)
        /\ Len(resultCh) \in Nat \ {0} /\ Len(Tail(resultCh)) = Len(resultCh) - 1
    <3>1. resultCh \in Seq(Result) /\ resultCh # <<>>
      BY <1>7 DEF ResultFires
    <3> QED
      BY <3>1, HeadTail
  <2>2. inFlight' \in Nat
    <3>1. Cardinality(Spawned) \in Nat
      BY FS_Subset, FS_CardinalityType DEF Spawned
    <3> QED
      BY <1>7, <2>1, <3>1 DEF ResultFires, InFlightExact
  <2> QED
    BY <1>7, <2>1, <2>2 DEF ResultFires
<1>8. CASE HandleResult
  <2>1. hand.task \in Tasks /\ hand.retries \in 0 .. MaxRetries
    BY <1>8 DEF HandleResult, HandMatchesPc, Result
  <2>2. QueueTypeOK'
    <3>1. CASE UNCHANGED queueVars
      BY <3>1
    <3>2. CASE Ack(hand.task)
      BY <2>1, <3>2 DEF Ack
    <3>3. CASE hand.retries + 1 <= MaxRetries /\ Push(hand.task, hand.retries + 1)
      BY <2>1, <3>3 DEF Push
    <3>4. CASE Nack(hand.task)
      BY <2>1, <3>4 DEF Nack
    <3> QED
      BY <1>8, <3>1, <3>2, <3>3, <3>4 DEF HandleResult, Try, ApplyResult
  <2> QED
    BY <1>8, <2>2 DEF HandleResult
<1>9. CASE ReadyPending
  BY <1>9 DEF ReadyPending
<1>10. CASE ReadyFails
  BY <1>10 DEF ReadyFails, BeginStop
<1>11. ASSUME NEW t \in Tasks, PopTask(t) PROVE TypeOK'
  <2>1. row[t] \in 0 .. MaxRetries
    BY <1>11 DEF PopTask, Pop, OneFate, Stored
  <2>2. hand' \in Result
    BY <1>11, <2>1 DEF PopTask, Result
  <2> QED
    BY <1>11, <2>2 DEF PopTask, Pop
<1>12. CASE PopEmpty
  BY <1>12 DEF PopEmpty, BeginStop
<1>13. CASE PopFails
  BY <1>13 DEF PopFails
<1>14. CASE Dispatch
  <2>1. hand.task \in Tasks /\ hand.retries \in 0 .. MaxRetries
    BY <1>14 DEF Dispatch, HandMatchesPc, Result
  <2>2. [st |-> "running", child |-> NoTask, retries |-> hand.retries, ok |-> FALSE]
          \in Worker
    BY <2>1 DEF Worker
  <2>3. worker' \in [Tasks -> Worker \cup {NoWorker}]
    BY <1>14, <2>2 DEF Dispatch
  <2>4. QueueTypeOK' /\ calls' \in [Tasks -> Nat]
    BY <1>14, <2>1 DEF Dispatch, Set
  <2> QED
    BY <1>14, <2>3, <2>4 DEF Dispatch
<1>15. CASE DispatchFails
  BY <1>15 DEF DispatchFails
<1>16. CASE DrainCheck
  BY <1>16 DEF DrainCheck
<1>17. ASSUME NEW t \in Tasks, NEW c \in Tasks, HandlerEnqueues(t, c) PROVE TypeOK'
  <2>1. worker[t] \in Worker
    BY <1>17 DEF HandlerEnqueues, NoWorker
  <2>2. [worker[t] EXCEPT !.child = c] \in Worker
    BY <2>1 DEF Worker
  <2> QED
    BY <1>17, <2>2 DEF HandlerEnqueues
<1>18. ASSUME NEW t \in Tasks, HandlerEnqueued(t) PROVE TypeOK'
  <2>1. worker[t] \in Worker /\ worker[t].child \in Tasks
    BY <1>18 DEF HandlerEnqueued, Worker, NoWorker
  <2>2. /\ producerCh' \in Seq(Tasks) /\ Len(producerCh') <= ProducerBuffer
        /\ known' \subseteq Tasks
    <3>1. CASE Enqueue(worker[t].child)
      BY <3>1, <2>1, Appended DEF Enqueue
    <3>2. CASE UNCHANGED <<producerCh, known>>
      BY <3>2
    <3> QED
      BY <1>18, <3>1, <3>2 DEF HandlerEnqueued
  <2>3. [worker[t] EXCEPT !.child = NoTask] \in Worker
    BY <2>1 DEF Worker
  <2> QED
    BY <1>18, <2>2, <2>3 DEF HandlerEnqueued
<1>19. ASSUME NEW t \in Tasks, NEW ok \in BOOLEAN, Complete(t, ok) PROVE TypeOK'
  <2>1. worker[t] \in Worker
    BY <1>19 DEF Complete, NoWorker
  <2>2. [worker[t] EXCEPT !.st = "done", !.ok = ok] \in Worker
    BY <2>1 DEF Worker
  <2> QED
    BY <1>19, <2>2 DEF Complete
<1>20. ASSUME NEW t \in Tasks, TimeOut(t) PROVE TypeOK'
  <2>1. worker[t] \in Worker
    BY <1>20 DEF TimeOut, NoWorker
  <2>2. [worker[t] EXCEPT !.st = "done", !.child = NoTask] \in Worker
    BY <2>1 DEF Worker
  <2> QED
    BY <1>20, <2>2 DEF TimeOut
<1>21. ASSUME NEW t \in Tasks, Panic(t) PROVE TypeOK'
  <2>1. worker[t] \in Worker
    BY <1>21 DEF Panic, NoWorker
  <2>2. [worker[t] EXCEPT !.st = "panicked"] \in Worker
    BY <2>1 DEF Worker
  <2> QED
    BY <1>21, <2>2 DEF Panic
<1>22. ASSUME NEW t \in Tasks, SendResult(t) PROVE TypeOK'
  <2>1. [task |-> t, retries |-> worker[t].retries, ok |-> worker[t].ok] \in Result
    BY <1>22 DEF SendResult, Worker, NoWorker, Result
  <2>2. resultCh' \in Seq(Result) /\ Len(resultCh') <= ResultBuffer
    BY <1>22, <2>1, Appended DEF SendResult
  <2> QED
    BY <1>22, <2>2 DEF SendResult
<1>23. ASSUME NEW t \in Tasks, ExternalEnqueue(t) PROVE TypeOK'
  <2>1. /\ producerCh' \in Seq(Tasks) /\ Len(producerCh') <= ProducerBuffer
        /\ known' \subseteq Tasks
    BY <1>23, Appended DEF ExternalEnqueue, Enqueue
  <2> QED
    BY <1>23, <2>1 DEF ExternalEnqueue
<1>24. ASSUME NEW c \in Commands, SendCommand(c) PROVE TypeOK'
  <2>1. control' \in Seq(Commands) /\ Len(control') <= ControlBuffer
    <3>1. CASE Len(control) < ControlBuffer
      <4>1. control' = Append(control, c)
        BY <1>24, <3>1 DEF SendCommand
      <4> QED
        BY <3>1, <4>1, Appended
    <3>2. CASE ~(Len(control) < ControlBuffer)
      <4>1. control # <<>> /\ control' = Append(Tail(control), c)
        BY <1>24, <3>2, EmptySeq DEF SendCommand
      <4>2. Tail(control) \in Seq(Commands) /\ Len(Tail(control)) = Len(control) - 1
            /\ Len(control) \in Nat
        BY <4>1, HeadTail
      <4>3. control' \in Seq(Commands) /\ Len(control') = Len(Tail(control)) + 1
        BY <4>1, <4>2, Appended
      <4> QED
        BY <4>2, <4>3
    <3> QED
      BY <3>1, <3>2
  <2>2. lagged' \in BOOLEAN
    BY <1>24 DEF SendCommand
  <2>3. commands' \in 0 .. MaxCommands
    BY <1>24 DEF SendCommand
  <2> QED
    BY <1>24, <2>1, <2>2, <2>3 DEF SendCommand
<1>25. CASE DropControl
  BY <1>25 DEF DropControl
<1>26. CASE Restart
  <2>1. /\ control' \in Seq(Commands) /\ Len(control') <= ControlBuffer
        /\ producerCh' \in Seq(Tasks) /\ Len(producerCh') <= ProducerBuffer
        /\ resultCh' \in Seq(Result) /\ Len(resultCh') <= ResultBuffer
    BY <1>26, EmptySeq DEF Restart
  <2>2. worker' \in [Tasks -> Worker \cup {NoWorker}]
    BY <1>26 DEF Restart
  <2>3. crashes' \in 0 .. MaxCrashes
    BY <1>26 DEF Restart
  <2> QED
    BY <1>26, <2>1, <2>2, <2>3 DEF Restart
<1>27. CASE UNCHANGED vars
  BY <1>27 DEF vars
<1> QED
  BY <1>1, <1>2, <1>3, <1>4, <1>5, <1>6, <1>7, <1>8, <1>9, <1>10, <1>11, <1>12,
     <1>13, <1>14, <1>15, <1>16, <1>17, <1>18, <1>19, <1>20, <1>21, <1>22, <1>23,
     <1>24, <1>25, <1>26, <1>27 DEF Next, Dispatcher, WorkerStep, Environment

-----------------------------------------------------------------------------

(* Cases of a step, and what each of them leaves alone.                    *)

\* The steps that only look, or only change the control channel and the flags.
Polls ==
    \/ ControlPending \/ ControlFires \/ ProducerPending \/ ResultPending
    \/ ReadyPending \/ ReadyFails \/ PopEmpty \/ PopFails \/ DrainCheck
    \/ (\E c \in Commands : SendCommand(c)) \/ DropControl \/ UNCHANGED vars

\* They touch neither queue nor channels nor futures, and never leave `start`.
LEMMA PollsFrame ==
    ASSUME Polls
    PROVE  /\ UNCHANGED <<queueVars, inFlight, hand, producerCh, resultCh, worker,
                          known, calls, crashes>>
           /\ \/ pc' \in {"control", "producer", "result", "ready", "check", "exited"}
                /\ pc \in {"control", "producer", "result", "ready", "check"}
              \/ pc' = pc /\ UNCHANGED <<paused, stopping>>
BY DEF Polls, ControlPending, ControlFires, ProducerPending, ResultPending,
       ReadyPending, ReadyFails, PopEmpty, PopFails, DrainCheck, SendCommand,
       DropControl, vars

\* Every step is one of them or one of the others.
LEMMA NextCases ==
    ASSUME [Next]_vars
    PROVE  \/ Polls
           \/ Recover \/ ProducerFires \/ ResultFires \/ HandleResult
           \/ (\E t \in Tasks : PopTask(t)) \/ Dispatch \/ DispatchFails
           \/ (\E t, c \in Tasks : HandlerEnqueues(t, c))
           \/ (\E t \in Tasks : HandlerEnqueued(t))
           \/ (\E t \in Tasks, ok \in BOOLEAN : Complete(t, ok))
           \/ (\E t \in Tasks : TimeOut(t)) \/ (\E t \in Tasks : Panic(t))
           \/ (\E t \in Tasks : SendResult(t))
           \/ (\E t \in Tasks : ExternalEnqueue(t)) \/ Restart
BY DEF Polls, Next, Dispatcher, WorkerStep, Environment

\* A task in hand is told apart from none.
LEMMA HandNotNone ==
    ASSUME NEW h \in Result
    PROVE  h # NoHand /\ h.task \in Tasks /\ h.retries \in 0 .. MaxRetries
BY NoTaskAssumption DEF Result, NoHand

-----------------------------------------------------------------------------
(* One lemma for each remaining conjunct.                                  *)

\* A step preserves where the hand is full, and fresh starts.
LEMMA HandInv == ASSUME IInv, [Next]_vars PROVE HandMatchesPc' /\ FreshStart'
<1> USE DEF IInv, HandMatchesPc, FreshStart
<1>1. CASE Polls
  BY <1>1, PollsFrame DEF Spawned
<1>2. CASE Recover
  BY <1>2 DEF Recover
<1>3. CASE ProducerFires
  BY <1>3 DEF ProducerFires
<1>4. CASE ResultFires
  <2>1. Head(resultCh) \in Result
    BY <1>4, HeadTail DEF ResultFires, TypeOK
  <2> QED
    BY <1>4, <2>1, HandNotNone DEF ResultFires
<1>5. CASE HandleResult
  BY <1>5 DEF HandleResult
<1>6. ASSUME NEW t \in Tasks, PopTask(t) PROVE HandMatchesPc' /\ FreshStart'
  <2>1. hand' # NoHand
    BY <1>6, NoTaskAssumption DEF PopTask, NoHand
  <2> QED
    BY <1>6, <2>1 DEF PopTask
<1>7. CASE Dispatch \/ DispatchFails
  BY <1>7 DEF Dispatch, DispatchFails
<1>8. ASSUME NEW t \in Tasks,
             \/ \E c \in Tasks : HandlerEnqueues(t, c)
             \/ HandlerEnqueued(t)
             \/ \E ok \in BOOLEAN : Complete(t, ok)
             \/ TimeOut(t) \/ Panic(t) \/ SendResult(t)
      PROVE  HandMatchesPc' /\ FreshStart'
  <2>1. t \in Spawned
    BY <1>8 DEF Spawned, HandlerEnqueues, HandlerEnqueued, Complete, TimeOut, Panic,
                SendResult
  <2>2. UNCHANGED <<pc, paused, stopping, hand>>
    BY <1>8 DEF HandlerEnqueues, HandlerEnqueued, Complete, TimeOut, Panic, SendResult
  <2> QED
    BY <2>1, <2>2
<1>9. ASSUME NEW t \in Tasks, ExternalEnqueue(t) PROVE HandMatchesPc' /\ FreshStart'
  BY <1>9 DEF ExternalEnqueue, Spawned
<1>10. CASE Restart
  BY <1>10 DEF Restart, Spawned, NoWorker
<1> QED
  BY <1>1, <1>2, <1>3, <1>4, <1>5, <1>6, <1>7, <1>8, <1>9, <1>10, NextCases

\* What the dispatcher's hand holds is leased, with the stored retries.
LEMMA HandTask ==
    ASSUME IInv, pc \in {"handle", "dispatch"}
    PROVE  /\ hand.task \in Tasks /\ hand.retries = row[hand.task]
           /\ hand.retries \in 0 .. MaxRetries /\ Handling = {hand.task}
           /\ hand.task \in leased
BY HandNotNone, NoTaskAssumption
   DEF IInv, TypeOK, HandMatchesPc, OneExecution, Handling

\* Every step is a step of the life cycle or leaves the queue alone: the runtime
\* pushes only tasks the queue has never seen or that it holds a lease of, and
\* settles only the latter.
LEMMA LifecycleStep ==
    ASSUME IInv, [Next]_vars
    PROVE  [LifecycleNext]_queueVars
<1> USE DEF LifecycleNext
<1>0. QueueTypeOK /\ OneFate
  BY DEF IInv, TypeOK
<1>1. CASE UNCHANGED queueVars
  BY <1>1
<1>2. CASE RecoverInflight
  BY <1>2
<1>3. CASE ProducerFires
  <2>1. Head(producerCh) \in Tasks \ Entered
    BY <1>3, HeadTail DEF ProducerFires, IInv, TypeOK, InTransit, ChannelUnborn
  <2>2. Push(Head(producerCh), 0) => Submit(Head(producerCh))
    BY <2>1 DEF Submit, Entered
  <2> QED
    BY <1>1, <1>3, <2>1, <2>2 DEF ProducerFires
<1>4. CASE HandleResult
  <2>1. /\ hand.task \in Tasks /\ hand.task \in leased
        /\ hand.retries = row[hand.task] /\ hand.retries \in 0 .. MaxRetries
    BY <1>4, HandTask DEF HandleResult
  <2>2. CASE Ack(hand.task)
    BY <2>1, <2>2 DEF Finish
  <2>3. CASE hand.retries + 1 <= MaxRetries /\ Push(hand.task, hand.retries + 1)
    BY <2>1, <2>3, TaskQueueAssumption DEF Retry
  <2>4. CASE hand.retries + 1 > MaxRetries /\ Nack(hand.task)
    <3>1. row[hand.task] = MaxRetries
      BY <2>1, <2>4, TaskQueueAssumption
    <3> QED
      BY <2>1, <2>4, <3>1 DEF Bury
  <2> QED
    BY <1>1, <1>4, <2>2, <2>3, <2>4 DEF HandleResult, Try, ApplyResult
<1>5. ASSUME NEW t \in Tasks, PopTask(t) PROVE LifecycleNext
  BY <1>5 DEF PopTask
<1>6. CASE Dispatch
  <2>1. row' = row
    BY <1>0, <1>6, HandTask DEF Dispatch, Set, QueueTypeOK
  <2> QED
    BY <1>6, <2>1 DEF Dispatch, Set
<1> QED
  BY <1>1, <1>2, <1>3, <1>4, <1>5, <1>6, NextCases, PollsFrame
     DEF Recover, Try, ResultFires, DispatchFails, HandlerEnqueues, HandlerEnqueued,
         Complete, TimeOut, Panic, SendResult, ExternalEnqueue, Restart

\* So a step preserves that a task has one fate, as every disciplined client does.
LEMMA FateInv == ASSUME IInv, [Next]_vars PROVE OneFate'
<1>1. Fated
  BY DEF Fated, IInv, TypeOK
<1> QED
  BY <1>1, LifecycleStep, FatedStep DEF Fated

\* What a running handler does before it reports.
HandlerStep(t) ==
    \/ \E c \in Tasks : HandlerEnqueues(t, c)
    \/ HandlerEnqueued(t)
    \/ \E ok \in BOOLEAN : Complete(t, ok)
    \/ TimeOut(t) \/ Panic(t)

\* It changes neither which futures exist nor what they will report about retries.
LEMMA HandlerFrame ==
    ASSUME TypeOK, NEW t \in Tasks, HandlerStep(t)
    PROVE  /\ UNCHANGED <<queueVars, pc, inFlight, hand, resultCh, calls, crashes>>
           /\ Spawned' = Spawned
           /\ \A u \in Tasks : worker'[u].retries = worker[u].retries
<1>1. UNCHANGED <<queueVars, pc, inFlight, hand, resultCh, calls, crashes>>
  BY DEF HandlerStep, HandlerEnqueues, HandlerEnqueued, Complete, TimeOut, Panic
<1>2. worker \in [Tasks -> Worker \cup {NoWorker}] /\ worker[t].st = "running"
  BY DEF HandlerStep, HandlerEnqueues, HandlerEnqueued, Complete, TimeOut, Panic,
         TypeOK
<1>3. worker[t] \in Worker
  BY <1>2 DEF NoWorker
<1>4. \E w : /\ worker' = [worker EXCEPT ![t] = w]
             /\ w.st # "none" /\ w.retries = worker[t].retries
  BY <1>2, <1>3
     DEF HandlerStep, HandlerEnqueues, HandlerEnqueued, Complete, TimeOut, Panic,
         Worker
<1>5. \A u \in Tasks : /\ worker'[u].retries = worker[u].retries
                       /\ worker'[u].st = "none" <=> worker[u].st = "none"
  BY <1>2, <1>4
<1> QED
  BY <1>1, <1>5 DEF Spawned

\* A report moves a task from the spawned futures to the end of the result channel.
LEMMA ReportFrame ==
    ASSUME TypeOK, NEW t \in Tasks, SendResult(t)
    PROVE  /\ t \in Spawned /\ Spawned' = Spawned \ {t}
           /\ \A u \in Spawned' : worker'[u] = worker[u]
           /\ Reported' = Reported \cup {t}
           /\ Len(resultCh') = Len(resultCh) + 1 /\ Len(resultCh) \in Nat
           /\ DOMAIN resultCh = 1 .. Len(resultCh)
           /\ DOMAIN resultCh' = 1 .. Len(resultCh) + 1
           /\ \A i \in DOMAIN resultCh : resultCh'[i] = resultCh[i]
           /\ resultCh'[Len(resultCh) + 1].task = t
           /\ resultCh'[Len(resultCh) + 1].retries = worker[t].retries
           /\ UNCHANGED <<queueVars, pc, inFlight, hand>>
<1> DEFINE e == [task |-> t, retries |-> worker[t].retries, ok |-> worker[t].ok]
<1>1. e \in Result
  BY DEF SendResult, TypeOK, Worker, NoWorker, Result
<1>2. /\ Len(resultCh') = Len(resultCh) + 1 /\ Len(resultCh) \in Nat
      /\ DOMAIN resultCh = 1 .. Len(resultCh)
      /\ DOMAIN resultCh' = 1 .. Len(resultCh) + 1
      /\ \A i \in DOMAIN resultCh : resultCh'[i] = resultCh[i]
      /\ resultCh'[Len(resultCh) + 1] = e
  BY <1>1, Appended DEF SendResult, TypeOK
<1>3. Reported' = Reported \cup {t}
  BY <1>2 DEF Reported
<1>4. /\ t \in Spawned /\ Spawned' = Spawned \ {t}
      /\ \A u \in Spawned' : worker'[u] = worker[u]
  BY DEF Spawned, SendResult, TypeOK, NoWorker
<1>5. UNCHANGED <<queueVars, pc, inFlight, hand>>
  BY DEF SendResult
<1> QED
  BY <1>2, <1>3, <1>4, <1>5

\* A step preserves that a task has one execution, with its lease and its retries.
LEMMA ExecutionInv == ASSUME IInv, [Next]_vars PROVE OneExecution'
<1> USE DEF OneExecution
<1>0. OneExecution /\ OneFate /\ TypeOK
  BY DEF IInv
<1> USE <1>0
<1>1. CASE Polls
  BY <1>1, PollsFrame DEF Spawned, Reported, Handling
<1>2. CASE Recover \/ Restart
  <2>1. Spawned' = {} /\ resultCh' = <<>> /\ hand' = NoHand
    BY <1>2 DEF Recover, Restart, IInv, FreshStart, HandMatchesPc, Spawned, NoWorker
  <2> QED
    BY <2>1 DEF Reported, Handling, NoHand
<1>3. CASE ProducerFires
  <2>1. UNCHANGED <<resultCh, hand, worker>>
    BY <1>3 DEF ProducerFires
  <2>2. Head(producerCh) \in Tasks \ Entered
    BY <1>3, HeadTail DEF ProducerFires, IInv, TypeOK, InTransit, ChannelUnborn
  <2>3. Head(producerCh) \notin leased
    BY <2>2 DEF Entered, OneFate
  <2>4. leased' = leased /\ \A u \in leased : row'[u] = row[u]
    <3>1. CASE Push(Head(producerCh), 0)
      BY <2>3, <3>1 DEF Push, TypeOK, QueueTypeOK
    <3>2. CASE UNCHANGED queueVars
      BY <3>2
    <3> QED
      BY <1>3, <3>1, <3>2 DEF ProducerFires
  <2>5. hand = NoHand
    BY <1>3 DEF ProducerFires, HandMatchesPc, IInv
  <2> QED
    BY <2>1, <2>4, <2>5 DEF Spawned, Reported, Handling
<1>4. CASE ResultFires
  <2>1. /\ Head(resultCh) = resultCh[1] /\ 1 \in DOMAIN resultCh
        /\ Head(resultCh) \in Result /\ Len(resultCh) \in Nat \ {0}
        /\ DOMAIN resultCh' = 1 .. Len(resultCh) - 1
        /\ DOMAIN resultCh = 1 .. Len(resultCh)
        /\ \A i \in DOMAIN resultCh' :
              i + 1 \in DOMAIN resultCh /\ resultCh'[i] = resultCh[i + 1]
    BY <1>4, HeadTail DEF ResultFires, TypeOK
  <2>2. UNCHANGED <<queueVars, worker>> /\ hand' = Head(resultCh)
    BY <1>4 DEF ResultFires
  <2>3. Handling' = {resultCh[1].task} /\ Handling' \subseteq Reported
    BY <2>1, <2>2, HandNotNone, NoTaskAssumption DEF Handling, Reported
  <2>4. Reported' \subseteq Reported
    BY <2>1 DEF Reported
  <2>5. \A i, j \in DOMAIN resultCh' : resultCh'[i].task = resultCh'[j].task => i = j
    BY <2>1
  <2>6. resultCh[1].task \notin Reported'
    BY <2>1 DEF Reported
  <2>7. \A i \in DOMAIN resultCh' : resultCh'[i].retries = row[resultCh'[i].task]
    BY <2>1
  <2> QED
    BY <2>1, <2>2, <2>3, <2>4, <2>5, <2>6, <2>7 DEF Spawned
<1>5. CASE HandleResult
  <2>1. UNCHANGED <<resultCh, worker>> /\ hand' = NoHand /\ Handling' = {}
    BY <1>5 DEF HandleResult, Handling, NoHand
  <2>2. hand.task \in Tasks /\ Handling = {hand.task}
    BY <1>5, HandTask DEF HandleResult
  <2>3. /\ leased \ {hand.task} \subseteq leased'
        /\ \A u \in leased \ {hand.task} : row'[u] = row[u]
    BY <1>5, <2>2
       DEF HandleResult, Try, ApplyResult, Ack, Nack, Push, TypeOK, QueueTypeOK
  <2> QED
    BY <2>1, <2>2, <2>3 DEF Spawned, Reported
<1>6. ASSUME NEW t \in Tasks, PopTask(t) PROVE OneExecution'
  <2>1. UNCHANGED <<resultCh, worker, row>> /\ leased' = leased \cup {t}
    BY <1>6 DEF PopTask, Pop
  <2>2. t \in queued /\ t \notin leased
    BY <1>6 DEF PopTask, Pop, OneFate
  <2>3. Handling' = {t} /\ hand'.task = t /\ hand'.retries = row[t]
    BY <1>6, NoTaskAssumption DEF PopTask, Handling
  <2> QED
    BY <2>1, <2>2, <2>3 DEF Spawned, Reported
<1>7. CASE Dispatch
  <2>1. /\ hand.task \in Tasks /\ Handling = {hand.task}
        /\ hand.retries = row[hand.task] /\ hand.task \in leased
    BY <1>7, HandTask DEF Dispatch
  <2>2. UNCHANGED <<resultCh, leased>> /\ hand' = NoHand /\ Handling' = {}
    BY <1>7 DEF Dispatch, Set, Handling, NoHand
  <2>3. row' = row
    BY <1>7, <2>1 DEF Dispatch, Set, TypeOK, QueueTypeOK
  <2>4. /\ Spawned' = Spawned \cup {hand.task}
        /\ worker'[hand.task].retries = hand.retries
        /\ \A u \in Tasks \ {hand.task} : worker'[u] = worker[u]
    BY <1>7, <2>1 DEF Dispatch, Spawned, TypeOK
  <2> QED
    BY <2>1, <2>2, <2>3, <2>4 DEF Spawned, Reported
<1>8. CASE DispatchFails
  <2>1. UNCHANGED <<queueVars, resultCh, worker>> /\ hand' = NoHand /\ Handling' = {}
    BY <1>8 DEF DispatchFails, Handling, NoHand
  <2> QED
    BY <2>1 DEF Spawned, Reported
<1>9. ASSUME NEW t \in Tasks, HandlerStep(t) PROVE OneExecution'
  BY <1>9, HandlerFrame DEF Reported, Handling, Spawned
<1>10. ASSUME NEW t \in Tasks, SendResult(t) PROVE OneExecution'
  <2>1. \A i, j \in DOMAIN resultCh' : resultCh'[i].task = resultCh'[j].task => i = j
    BY <1>10, ReportFrame DEF Reported
  <2>2. \A i \in DOMAIN resultCh' : resultCh'[i].retries = row[resultCh'[i].task]
    BY <1>10, ReportFrame
  <2>3. /\ Spawned' \cap Reported' = {}
        /\ Handling' \cap (Spawned' \cup Reported') = {}
        /\ Spawned' \cup Reported' \cup Handling' \subseteq leased'
    BY <1>10, ReportFrame DEF Handling
  <2>4. \A u \in Spawned' : worker'[u].retries = row'[u]
    BY <1>10, ReportFrame
  <2> QED
    BY <1>10, <2>1, <2>2, <2>3, <2>4, ReportFrame
<1>11. ASSUME NEW t \in Tasks, ExternalEnqueue(t) PROVE OneExecution'
  BY <1>11 DEF ExternalEnqueue, Spawned, Reported, Handling
<1> QED
  BY <1>1, <1>2, <1>3, <1>4, <1>5, <1>6, <1>7, <1>8, <1>9, <1>10, <1>11, NextCases
     DEF HandlerStep

\* The futures can be counted.
LEMMA SpawnedFinite ==
    ASSUME TypeOK
    PROVE  IsFiniteSet(Spawned) /\ Cardinality(Spawned) \in Nat
<1>1. IsFiniteSet(Spawned)
  BY TaskQueueAssumption, FS_Subset DEF Spawned
<1> QED
  BY <1>1, FS_CardinalityType

\* A step preserves that the in-flight counter is exact.
LEMMA CountInv == ASSUME IInv, [Next]_vars PROVE InFlightExact'
<1> USE DEF InFlightExact
<1>0. InFlightExact /\ TypeOK /\ OneExecution /\ Len(resultCh) \in Nat
  BY LenProperties DEF IInv, TypeOK
<1> USE <1>0
<1>1. CASE UNCHANGED <<inFlight, resultCh, worker>>
  BY <1>1 DEF Spawned
<1>2. CASE ResultFires
  <2>1. Len(resultCh') = Len(resultCh) - 1
    BY <1>2, HeadTail DEF ResultFires, TypeOK
  <2>2. inFlight' = inFlight - 1 /\ Spawned' = Spawned
    BY <1>2 DEF ResultFires, Spawned
  <2> QED
    BY <2>1, <2>2, SpawnedFinite
<1>3. CASE Dispatch
  <2>1. hand.task \in Tasks /\ hand.task \notin Spawned
    BY <1>3, HandTask DEF Dispatch, OneExecution
  <2>2. Spawned' = Spawned \cup {hand.task}
    BY <1>3, <2>1 DEF Dispatch, Spawned, TypeOK
  <2>3. Cardinality(Spawned') = Cardinality(Spawned) + 1
    BY <2>1, <2>2, SpawnedFinite, FS_AddElement
  <2> QED
    BY <1>3, <2>3, SpawnedFinite DEF Dispatch
<1>4. ASSUME NEW t \in Tasks, HandlerStep(t) PROVE InFlightExact'
  BY <1>4, HandlerFrame
<1>5. ASSUME NEW t \in Tasks, SendResult(t) PROVE InFlightExact'
  <2>1. Cardinality(Spawned') = Cardinality(Spawned) - 1
    BY <1>5, ReportFrame, SpawnedFinite, FS_RemoveElement
  <2> QED
    BY <1>5, <2>1, ReportFrame, SpawnedFinite
<1>6. CASE Restart
  <2>1. Spawned' = {} /\ resultCh' = <<>> /\ inFlight' = 0
    BY <1>6 DEF Restart, Spawned, NoWorker
  <2> QED
    BY <2>1, FS_EmptySet
<1>7. CASE Recover \/ ProducerFires \/ HandleResult \/ DispatchFails
           \/ (\E t \in Tasks : PopTask(t) \/ ExternalEnqueue(t))
  BY <1>1, <1>7 DEF Recover, ProducerFires, HandleResult, DispatchFails, PopTask,
                    ExternalEnqueue
<1> QED
  BY <1>1, <1>2, <1>3, <1>4, <1>5, <1>6, <1>7, NextCases, PollsFrame DEF HandlerStep

\* What a queue operation of the runtime adds to the tasks the queue has seen.
LEMMA EnteredFrame ==
    ASSUME IInv, [Next]_vars
    PROVE  \/ Entered' = Entered
           \/ ProducerFires /\ Entered' = Entered \cup {Head(producerCh)}
<1> USE DEF Entered, Stored
<1>0. QueueTypeOK /\ OneFate
  BY DEF IInv, TypeOK
<1>1. CASE UNCHANGED queueVars
  BY <1>1
<1>2. CASE Recover \/ (\E t \in Tasks : PopTask(t))
  BY <1>2 DEF Recover, Try, RecoverInflight, PopTask, Pop
<1>3. CASE ProducerFires
  <2>1. Head(producerCh) \in Tasks /\ NoRow # 0
    BY <1>3, HeadTail DEF ProducerFires, IInv, TypeOK, NoRow
  <2>2. CASE Push(Head(producerCh), 0)
    BY <1>0, <1>3, <2>1, <2>2 DEF Push, QueueTypeOK
  <2> QED
    BY <1>1, <1>3, <2>2 DEF ProducerFires
<1>4. CASE HandleResult
  <2>1. /\ hand.task \in Tasks /\ hand.task \in Stored
        /\ hand.retries + 1 # NoRow
    BY <1>0, <1>4, HandTask DEF HandleResult, OneFate, NoRow
  <2>2. CASE Ack(hand.task) \/ Nack(hand.task)
    BY <1>0, <2>1, <2>2 DEF Ack, Nack, QueueTypeOK
  <2>3. CASE Push(hand.task, hand.retries + 1)
    BY <1>0, <2>1, <2>3 DEF Push, QueueTypeOK
  <2> QED
    BY <1>1, <1>4, <2>2, <2>3 DEF HandleResult, Try, ApplyResult
<1>5. CASE Dispatch
  <2>1. row' = row
    BY <1>0, <1>5, HandTask DEF Dispatch, Set, QueueTypeOK
  <2> QED
    BY <1>5, <2>1 DEF Dispatch, Set
<1> QED
  BY <1>1, <1>2, <1>3, <1>4, <1>5, NextCases, PollsFrame
     DEF ResultFires, DispatchFails, HandlerEnqueues, HandlerEnqueued, Complete,
         TimeOut, Panic, SendResult, ExternalEnqueue, Restart

\* An enqueued id is known and is the last in the channel.
LEMMA EnqueueFrame ==
    ASSUME TypeOK, NEW t \in Tasks, Enqueue(t)
    PROVE  /\ known' = known \cup {t}
           /\ Len(producerCh) \in Nat /\ DOMAIN producerCh = 1 .. Len(producerCh)
           /\ DOMAIN producerCh' = 1 .. Len(producerCh) + 1
           /\ \A i \in DOMAIN producerCh : producerCh'[i] = producerCh[i]
           /\ producerCh'[Len(producerCh) + 1] = t
BY Appended DEF Enqueue, TypeOK

\* A step preserves that the ids handlers are about to enqueue are new.
LEMMA ChildrenInv == ASSUME IInv, [Next]_vars PROVE ChildrenUnborn'
<1> USE DEF ChildrenUnborn
<1>0. ChildrenUnborn /\ TypeOK /\ NoTask \notin known
  BY NoTaskAssumption DEF IInv, InTransit, TypeOK
<1> USE <1>0
<1>1. CASE UNCHANGED <<worker, known>>
  BY <1>1
<1>2. ASSUME NEW t \in Tasks, NEW c \in Tasks, HandlerEnqueues(t, c)
      PROVE  ChildrenUnborn'
  <2>1. c \notin known /\ \A u \in Tasks : worker[u].child # c
    BY <1>2, NoTaskAssumption DEF HandlerEnqueues, Fresh, Children
  <2>2. /\ known' = known /\ worker'[t].child = c
        /\ \A u \in Tasks \ {t} : worker'[u] = worker[u]
    BY <1>2 DEF HandlerEnqueues, TypeOK, Worker, NoWorker
  <2> QED
    BY <2>1, <2>2
<1>3. ASSUME NEW t \in Tasks, HandlerEnqueued(t) PROVE ChildrenUnborn'
  <2>1. /\ worker'[t].child = NoTask
        /\ \A u \in Tasks \ {t} : worker'[u] = worker[u]
    BY <1>3 DEF HandlerEnqueued, TypeOK, Worker, NoWorker
  <2>2. known' \subseteq known \cup {worker[t].child}
    BY <1>3 DEF HandlerEnqueued, Enqueue
  <2>3. worker[t].child # NoTask
    BY <1>3 DEF HandlerEnqueued
  <2> QED
    BY <2>1, <2>2, <2>3
<1>4. ASSUME NEW t \in Tasks,
             (\E ok \in BOOLEAN : Complete(t, ok)) \/ TimeOut(t) \/ Panic(t)
      PROVE  ChildrenUnborn'
  <2>1. worker[t] \in Worker
    BY <1>4 DEF Complete, TimeOut, Panic, TypeOK, NoWorker
  <2>2. known' = known
    BY <1>4 DEF Complete, TimeOut, Panic
  <2>3. \E w : worker' = [worker EXCEPT ![t] = w] /\ w.child \in {worker[t].child, NoTask}
    BY <1>4, <2>1 DEF Complete, TimeOut, Panic, Worker, TypeOK
  <2>4. /\ worker'[t].child \in {worker[t].child, NoTask}
        /\ \A u \in Tasks \ {t} : worker'[u] = worker[u]
    BY <2>3 DEF TypeOK
  <2> QED
    BY <2>2, <2>4
<1>5. ASSUME NEW t \in Tasks, ExternalEnqueue(t) PROVE ChildrenUnborn'
  <2>1. \A u \in Tasks : worker[u].child # t
    BY <1>5, NoTaskAssumption DEF ExternalEnqueue, Fresh, Children
  <2> QED
    BY <1>5, <2>1 DEF ExternalEnqueue, Enqueue
<1>6. ASSUME NEW t \in Tasks, worker' = [worker EXCEPT ![t] = NoWorker],
             known' = known
      PROVE  ChildrenUnborn'
  BY <1>6 DEF TypeOK, NoWorker
<1>7. CASE Dispatch
  <2>1. hand.task \in Tasks
    BY <1>7, HandTask DEF Dispatch
  <2>2. /\ known' = known /\ worker'[hand.task].child = NoTask
        /\ \A u \in Tasks \ {hand.task} : worker'[u] = worker[u]
    BY <1>7, <2>1 DEF Dispatch, TypeOK
  <2> QED
    BY <2>2
<1>8. CASE Restart
  BY <1>8 DEF Restart, NoWorker
<1> QED
  BY <1>1, <1>2, <1>3, <1>4, <1>5, <1>6, <1>7, <1>8, NextCases, PollsFrame
     DEF Recover, ProducerFires, ResultFires, HandleResult, PopTask, DispatchFails,
         SendResult

\* A step preserves that the ids in the producer channel are new to the queue.
LEMMA ChannelInv == ASSUME IInv, [Next]_vars PROVE ChannelUnborn'
<1> USE DEF ChannelUnborn
<1>0. ChannelUnborn /\ TypeOK
  BY DEF IInv, InTransit
<1> USE <1>0
<1>1. CASE Entered' = Entered /\ UNCHANGED <<producerCh, known>>
  BY <1>1
<1>2. CASE ProducerFires
  <2>1. /\ Head(producerCh) = producerCh[1] /\ 1 \in DOMAIN producerCh
        /\ \A i \in DOMAIN producerCh' :
              i + 1 \in DOMAIN producerCh /\ producerCh'[i] = producerCh[i + 1]
        /\ DOMAIN producerCh' = 1 .. Len(producerCh) - 1
        /\ Len(producerCh) \in Nat
    BY <1>2, HeadTail DEF ProducerFires, TypeOK
  <2>2. Entered' \subseteq Entered \cup {producerCh[1]}
    BY <1>2, <2>1, EnteredFrame
  <2>3. known' = known
    BY <1>2 DEF ProducerFires
  <2>4. \A i \in DOMAIN producerCh' : producerCh'[i] # producerCh[1]
    BY <2>1
  <2>5. \A i, j \in DOMAIN producerCh' : producerCh'[i] = producerCh'[j] => i = j
    BY <2>1
  <2> QED
    BY <2>1, <2>2, <2>3, <2>4, <2>5
<1>3. ASSUME NEW t \in Tasks, t \notin known, Enqueue(t), Entered' = Entered
      PROVE  ChannelUnborn'
  BY <1>3, EnqueueFrame
<1>4. ASSUME NEW t \in Tasks, ExternalEnqueue(t) PROVE ChannelUnborn'
  <2>1. t \notin known /\ Enqueue(t) /\ ~ProducerFires
    BY <1>4 DEF ExternalEnqueue, Fresh, ProducerFires, Enqueue
  <2> QED
    BY <1>3, <2>1, EnteredFrame
<1>5. ASSUME NEW t \in Tasks, HandlerEnqueued(t) PROVE ChannelUnborn'
  <2>1. worker[t].child \in Tasks \ known
    BY <1>5
       DEF HandlerEnqueued, IInv, InTransit, ChildrenUnborn, TypeOK, Worker, NoWorker
  <2>2. Entered' = Entered
    BY <1>5 DEF HandlerEnqueued, Entered, Stored
  <2> QED
    BY <1>1, <1>3, <1>5, <2>1, <2>2 DEF HandlerEnqueued
<1>6. CASE Restart
  <2>1. Entered' = Entered /\ known' = known /\ producerCh' = <<>>
    BY <1>6 DEF Restart, Entered, Stored
  <2> QED
    BY <2>1
<1>7. CASE UNCHANGED <<producerCh, known>>
  BY <1>1, <1>2, <1>7, EnteredFrame
<1> QED
  BY <1>2, <1>4, <1>5, <1>6, <1>7, NextCases, PollsFrame
     DEF Recover, ResultFires, HandleResult, PopTask, Dispatch, DispatchFails,
         HandlerEnqueues, Complete, TimeOut, Panic, SendResult

-----------------------------------------------------------------------------

\* The invariant holds at first ...
LEMMA InitInv == Init => IInv
<1> SUFFICES ASSUME Init PROVE IInv
  OBVIOUS
<1> USE TaskQueueAssumption, MailboxAssumption DEF Init, QueueInit
<1>1. Spawned = {} /\ Reported = {} /\ Handling = {}
  BY DEF Spawned, Reported, Handling, NoWorker, NoHand
<1>2. TypeOK
  <2>1. QueueTypeOK
    BY DEF QueueTypeOK
  <2>2. /\ control \in Seq(Commands) /\ Len(control) <= ControlBuffer
        /\ producerCh \in Seq(Tasks) /\ Len(producerCh) <= ProducerBuffer
        /\ resultCh \in Seq(Result) /\ Len(resultCh) <= ResultBuffer
    BY EmptySeq
  <2>3. /\ worker \in [Tasks -> Worker \cup {NoWorker}] /\ calls \in [Tasks -> Nat]
        /\ commands \in 0 .. MaxCommands /\ crashes \in 0 .. MaxCrashes
    OBVIOUS
  <2> QED
    BY <2>1, <2>2, <2>3 DEF TypeOK, Labels
<1>3. Stored = queued
  BY DEF Stored, NoRow
<1>4. OneFate /\ OneExecution
  BY <1>1, <1>3 DEF OneFate, OneExecution
<1>5. InFlightExact
  BY <1>1, FS_EmptySet DEF InFlightExact
<1>6. InTransit
  BY <1>3, NoTaskAssumption
     DEF InTransit, ChildrenUnborn, ChannelUnborn, Entered, NoWorker
<1>7. HandMatchesPc /\ FreshStart
  BY <1>1 DEF HandMatchesPc, FreshStart
<1> QED
  BY <1>2, <1>4, <1>5, <1>6, <1>7 DEF IInv

\* ... and every step preserves it.
LEMMA Inductive == IInv /\ [Next]_vars => IInv'
<1> SUFFICES ASSUME IInv, [Next]_vars PROVE IInv'
  OBVIOUS
<1> QED
  BY TypeInv, HandInv, FateInv, ExecutionInv, CountInv, ChildrenInv, ChannelInv
     DEF IInv, InTransit

\* The inductive invariant holds in every reachable state.
THEOREM Invariance == Spec => []IInv
BY InitInv, Inductive, PTL DEF Spec

-----------------------------------------------------------------------------
(* What follows from it.                                                   *)

\* Every variable keeps its type and every channel its capacity, however many
\* tasks, crashes and faults there are.
THEOREM TypeCorrect == Spec => []TypeOK
<1>1. IInv => TypeOK
  BY DEF IInv
<1> QED
  BY <1>1, Invariance, PTL

\* The in-flight counter of dispatcher_loop is exact, so the drain check and the
\* idle stop read the truth from it.
THEOREM CounterExact == Spec => []InFlightExact
<1>1. IInv => InFlightExact
  BY DEF IInv
<1> QED
  BY <1>1, Invariance, PTL

\* No task is executed by two futures at once, and every execution holds the
\* lease and the current retry counter of its task.
THEOREM SingleExecution == Spec => []OneExecution
<1>1. IInv => OneExecution
  BY DEF IInv
<1> QED
  BY <1>1, Invariance, PTL

\* The runtime is a disciplined client of its queue: each of its steps is a step
\* of a task's life cycle or leaves the queue alone.  In particular a task is
\* submitted once, settled only under a lease, retried at most max_retries times,
\* and buried only when these are used up.
THEOREM ImplementsLifecycle == Spec => LifecycleSpec
<1>1. Init => QueueInit
  BY DEF Init
<1> QED
  BY <1>1, Invariance, LifecycleStep, PTL DEF Spec, LifecycleSpec

\* So nothing a task went through is undone, by any fault or restart.
THEOREM NothingForgotten == Spec => NoRegress
BY ImplementsLifecycle, NothingUndone

\* No handler is called while the runtime is paused or stopping, not even when a
\* Resume arrives after a Stop.
THEOREM NoCallWhileHeld == Spec => HeldBack
<1>1. IInv /\ [Next]_vars => [calls' # calls => ~paused /\ ~stopping]_vars
  <2> SUFFICES ASSUME IInv, [Next]_vars, calls' # calls PROVE ~paused /\ ~stopping
    OBVIOUS
  <2>1. ASSUME NEW t \in Tasks, HandlerStep(t) PROVE calls' = calls
    BY <2>1, HandlerFrame DEF IInv
  <2>2. Dispatch
    BY <2>1, NextCases, PollsFrame
       DEF HandlerStep, Recover, ProducerFires, ResultFires, HandleResult, PopTask,
           DispatchFails, SendResult, ExternalEnqueue, Restart
  <2> QED
    BY <2>2 DEF Dispatch, IInv, HandMatchesPc
<1> QED
  BY <1>1, Invariance, PTL DEF Spec, HeldBack

-----------------------------------------------------------------------------
(* What a dispatcher leaves behind.                                        *)

\* A step preserves that every lease is held by an execution.
LEMMA OrphanInv ==
    ASSUME IInv, NoOrphanLease, [Next]_vars
    PROVE  NoOrphanLease'
<1> SUFFICES ASSUME "storage" \notin Faults, pc' # "start"
             PROVE  leased' = Spawned' \cup Reported' \cup Handling'
  BY DEF NoOrphanLease
<1> DEFINE Held == Spawned \cup Reported \cup Handling
<1>0. /\ TypeOK /\ QueueTypeOK /\ OneFate /\ OneExecution
      /\ pc # "start" => leased = Held
  BY DEF IInv, TypeOK, NoOrphanLease
<1>1. CASE Polls
  <2>1. pc # "start"
    BY <1>1, PollsFrame
  <2> QED
    BY <1>0, <1>1, <2>1, PollsFrame DEF Spawned, Reported, Handling
<1>2. CASE Recover
  <2>1. Spawned' = {} /\ resultCh' = <<>> /\ hand' = NoHand /\ leased' = {}
    BY <1>2 DEF Recover, Try, RecoverInflight, IInv, FreshStart, HandMatchesPc, Spawned
  <2> QED
    BY <2>1 DEF Reported, Handling, NoHand
<1>3. CASE ProducerFires
  <2>1. Push(Head(producerCh), 0) /\ UNCHANGED <<worker, resultCh, hand>>
        /\ pc # "start"
    BY <1>3 DEF ProducerFires
  <2>2. Head(producerCh) \notin leased
    BY <1>0, <1>3, HeadTail
       DEF ProducerFires, IInv, TypeOK, InTransit, ChannelUnborn, Entered, OneFate
  <2> QED
    BY <1>0, <2>1, <2>2 DEF Push, Spawned, Reported, Handling
<1>4. CASE ResultFires
  <2>1. /\ Head(resultCh) = resultCh[1] /\ 1 \in DOMAIN resultCh
        /\ Head(resultCh) \in Result /\ Len(resultCh) \in Nat \ {0}
        /\ DOMAIN resultCh' = 1 .. Len(resultCh) - 1
        /\ DOMAIN resultCh = 1 .. Len(resultCh)
        /\ \A i \in DOMAIN resultCh' :
              i + 1 \in DOMAIN resultCh /\ resultCh'[i] = resultCh[i + 1]
    BY <1>0, <1>4, HeadTail DEF ResultFires, TypeOK
  <2>2. Handling' = {resultCh[1].task} /\ Handling = {}
    BY <1>4, <2>1, HandNotNone, NoTaskAssumption
       DEF ResultFires, Handling, IInv, HandMatchesPc, NoHand
  <2>3. Reported = Reported' \cup {resultCh[1].task}
    <3>1. \A i \in DOMAIN resultCh : i = 1 \/ (i - 1 \in DOMAIN resultCh'
                                             /\ resultCh'[i - 1] = resultCh[i])
      BY <2>1
    <3> QED
      BY <2>1, <3>1 DEF Reported
  <2> QED
    BY <1>0, <1>4, <2>2, <2>3 DEF ResultFires, Spawned
<1>5. CASE HandleResult
  <2>1. /\ hand.task \in Tasks /\ Handling = {hand.task} /\ pc # "start"
        /\ UNCHANGED <<worker, resultCh>> /\ Handling' = {}
    BY <1>5, HandTask DEF HandleResult, Handling, NoHand
  <2>2. leased' = leased \ {hand.task}
    BY <1>5 DEF HandleResult, Try, ApplyResult, Ack, Nack, Push
  <2> QED
    BY <1>0, <2>1, <2>2 DEF OneExecution, Spawned, Reported
<1>6. ASSUME NEW t \in Tasks, PopTask(t)
      PROVE  leased' = Spawned' \cup Reported' \cup Handling'
  <2>1. Handling' = {t} /\ Handling = {}
    BY <1>6, NoTaskAssumption DEF PopTask, Handling, IInv, HandMatchesPc, NoHand
  <2> QED
    BY <1>0, <1>6, <2>1 DEF PopTask, Pop, Spawned, Reported
<1>7. CASE Dispatch
  <2>1. /\ hand.task \in Tasks /\ Handling = {hand.task} /\ Handling' = {}
        /\ UNCHANGED <<leased, resultCh>> /\ pc # "start"
    BY <1>7, HandTask DEF Dispatch, Set, Handling, NoHand
  <2>2. Spawned' = Spawned \cup {hand.task}
    BY <1>0, <1>7, <2>1 DEF Dispatch, Spawned, TypeOK
  <2> QED
    BY <1>0, <2>1, <2>2 DEF Reported
<1>8. CASE DispatchFails
  BY <1>8 DEF DispatchFails
<1>9. ASSUME NEW t \in Tasks, HandlerStep(t)
      PROVE  leased' = Spawned' \cup Reported' \cup Handling'
  BY <1>0, <1>9, HandlerFrame DEF Reported, Handling
<1>10. ASSUME NEW t \in Tasks, SendResult(t)
       PROVE  leased' = Spawned' \cup Reported' \cup Handling'
  BY <1>0, <1>10, ReportFrame DEF Handling
<1>11. ASSUME NEW t \in Tasks, ExternalEnqueue(t)
       PROVE  leased' = Spawned' \cup Reported' \cup Handling'
  BY <1>0, <1>11 DEF ExternalEnqueue, Spawned, Reported, Handling
<1>12. CASE Restart
  BY <1>12 DEF Restart
<1> QED
  BY <1>1, <1>2, <1>3, <1>4, <1>5, <1>6, <1>7, <1>8, <1>9, <1>10, <1>11, <1>12,
     NextCases DEF HandlerStep

\* A lease without an execution is a crash's doing: as long as the storage works
\* every leased task is spawned, reported or in the dispatcher's hand.
THEOREM EveryLeaseHeld == Spec => []NoOrphanLease
<1>1. Init => NoOrphanLease
  BY DEF Init, NoOrphanLease
<1>2. IInv /\ NoOrphanLease /\ [Next]_vars => NoOrphanLease'
  BY OrphanInv
<1> QED
  BY <1>1, <1>2, Invariance, PTL DEF Spec

\* The exit condition of the loop, which no later step undoes.
Drained == pc = "exited" => inFlight = 0 /\ resultCh = <<>>

\* A step preserves it: without futures nobody reports any more.
LEMMA DrainedInv == ASSUME IInv, Drained, [Next]_vars PROVE Drained'
<1>1. CASE pc # "exited"
  <2>1. DrainCheck => Drained'
    BY DEF DrainCheck, IsDrained, Drained
  <2>2. ~DrainCheck /\ Polls => pc' # "exited"
    BY <1>1
       DEF Polls, ControlPending, ControlFires, ProducerPending, ResultPending,
           ReadyPending, ReadyFails, PopEmpty, PopFails, SendCommand, DropControl,
           vars
  <2>3. ~Polls => pc' # "exited"
    BY <1>1, NextCases
       DEF Recover, ProducerFires, ResultFires, HandleResult, PopTask, Dispatch,
           DispatchFails, HandlerEnqueues, HandlerEnqueued, Complete, TimeOut, Panic,
           SendResult, ExternalEnqueue, Restart
  <2> QED
    BY <2>1, <2>2, <2>3 DEF Drained
<1>2. CASE pc = "exited"
  <2>1. inFlight = 0 /\ resultCh = <<>>
    BY <1>2 DEF Drained
  <2>2. Spawned = {}
    BY <2>1, SpawnedFinite, FS_EmptySet DEF IInv, InFlightExact
  <2>3. ASSUME NEW t \in Tasks PROVE ~HandlerStep(t) /\ ~SendResult(t)
    BY <2>2 DEF Spawned, HandlerStep, HandlerEnqueues, HandlerEnqueued, Complete,
                TimeOut, Panic, SendResult
  <2>4. CASE Polls \/ Restart \/ \E t \in Tasks : ExternalEnqueue(t)
    BY <2>1, <2>4, PollsFrame DEF Restart, ExternalEnqueue, Drained
  <2> QED
    BY <1>2, <2>3, <2>4, NextCases
       DEF HandlerStep, Recover, ProducerFires, ResultFires, HandleResult, PopTask,
           Dispatch, DispatchFails
<1> QED
  BY <1>1, <1>2

\* When the dispatcher leaves its loop no future, result or lease is left behind:
\* what the queue still holds is waiting in it.
THEOREM ExitIsClean == Spec => []DrainedExit
<1>1. Init => Drained
  BY DEF Init, Drained
<1>2. Spec => []Drained
  BY <1>1, DrainedInv, Invariance, PTL DEF Spec
<1>3. IInv /\ NoOrphanLease /\ Drained => DrainedExit
  <2> SUFFICES ASSUME IInv, NoOrphanLease, Drained, pc = "exited"
               PROVE  /\ Spawned = {} /\ resultCh = <<>> /\ hand = NoHand
                      /\ "storage" \in Faults \/ (leased = {} /\ Stored = queued)
    BY DEF DrainedExit
  <2>1. inFlight = 0 /\ resultCh = <<>>
    BY DEF Drained
  <2>2. Spawned = {}
    BY <2>1, SpawnedFinite, FS_EmptySet DEF IInv, InFlightExact
  <2>3. hand = NoHand /\ Handling = {} /\ Reported = {}
    BY <2>1 DEF IInv, HandMatchesPc, Handling, Reported, NoHand
  <2> QED
    BY <2>1, <2>2, <2>3 DEF NoOrphanLease, IInv, OneFate
<1> QED
  BY <1>2, <1>3, Invariance, EveryLeaseHeld, PTL

-----------------------------------------------------------------------------
(* How often a handler is called.                                          *)

\* A task has been called once for each stored retry, once more under a lease that
\* has been dispatched, and at most once more for each crash.  A lease found at
\* start-up is a crashed runtime's, whose call the crash accounts for.

\* The tasks whose call is under way or not yet settled ...
Underway == Spawned \cup Reported \cup (IF pc = "handle" THEN Handling ELSE {})

\* ... and the leased tasks that may have had the call of their lease.
Spare == IF pc = "start" THEN {} ELSE leased \ (IF pc = "dispatch" THEN Handling ELSE {})

\* How many calls a task the queue stores may have had.
CallsAccounted ==
    \A t \in Tasks :
        /\ t \in Stored => row[t] <= calls[t] /\ calls[t] <= row[t] + crashes + 1
        /\ t \in Stored \ Spare => calls[t] <= row[t] + crashes
        /\ t \in Underway => row[t] < calls[t]
        /\ t \notin Entered => calls[t] = 0

\* A step preserves the account of the calls, and with it the bound.
LEMMA AttemptInv ==
    ASSUME IInv, CallsAccounted, AttemptBound, [Next]_vars
    PROVE  CallsAccounted' /\ AttemptBound'
<1> USE TaskQueueAssumption
<1> DEFINE Calls(t) == /\ t \in Stored => row[t] <= calls[t] /\ calls[t] <= row[t] + crashes + 1
                       /\ t \in Stored \ Spare => calls[t] <= row[t] + crashes
                       /\ t \in Underway => row[t] < calls[t]
                       /\ t \notin Entered => calls[t] = 0
           Bound(t) == /\ calls[t] <= MaxRetries + 1 + crashes
                       /\ t \in dlq => calls[t] > MaxRetries
                       /\ t \in acked => calls[t] > 0
<1> SUFFICES ASSUME NEW t \in Tasks PROVE Calls(t)' /\ Bound(t)'
  BY DEF CallsAccounted, AttemptBound
<1>0. /\ Calls(t) /\ Bound(t) /\ QueueTypeOK /\ OneFate /\ OneExecution
      /\ calls \in [Tasks -> Nat] /\ calls[t] \in Nat /\ crashes \in Nat
      /\ row[t] \in 0 .. MaxRetries \cup {NoRow}
      /\ t \in Stored <=> row[t] \in 0 .. MaxRetries
  BY DEF IInv, TypeOK, QueueTypeOK, CallsAccounted, AttemptBound, Stored, NoRow
<1> HIDE DEF Calls, Bound
<1>1. ASSUME UNCHANGED <<queueVars, calls, crashes>>, t \in Underway' => t \in Underway,
             Stored \ Spare' \subseteq Stored \ Spare
      PROVE  Calls(t)' /\ Bound(t)'
  BY <1>0, <1>1 DEF Calls, Bound, Stored, Entered
<1>2. CASE Polls
  <2>1. Underway' = Underway /\ Spare' = Spare
    BY <1>2, PollsFrame DEF Underway, Spare, Spawned, Reported, Handling
  <2> QED
    BY <1>1, <1>2, <2>1, PollsFrame
<1>3. CASE Recover
  <2>1. Underway' = {} /\ Spare = {} /\ row' = row /\ Stored' = Stored /\ Entered' = Entered
        /\ UNCHANGED <<calls, crashes, dlq, acked>>
    BY <1>3 DEF Recover, Try, RecoverInflight, Underway, Spare, Spawned, Reported, IInv,
                FreshStart, Stored, Entered
  <2> QED
    BY <1>0, <2>1 DEF Calls, Bound
<1>4. CASE ProducerFires
  <2> DEFINE h == Head(producerCh)
  <2>1. h \in Tasks \ Entered
    BY <1>4, HeadTail DEF ProducerFires, IInv, TypeOK, InTransit, ChannelUnborn
  <2>2. /\ UNCHANGED <<calls, crashes, dlq, acked>>
        /\ Underway' = Spawned \cup Reported /\ Underway = Spawned \cup Reported
        /\ Spare = leased /\ Spare' = leased'
    BY <1>4 DEF ProducerFires, Push, Underway, Spare, Spawned, Reported
  <2> HIDE DEF h
  <2>3. CASE UNCHANGED queueVars
    BY <1>1, <2>2, <2>3 DEF Stored
  <2>4. CASE Push(h, 0) /\ t = h
    <3>1. calls[t] = 0 /\ row'[t] = 0 /\ t \notin Underway
      BY <1>0, <2>1, <2>2, <2>4 DEF Calls, Push, QueueTypeOK, OneExecution, OneFate, Entered
    <3> QED
      BY <1>0, <2>2, <2>4, <3>1 DEF Calls, Bound, Stored, Entered, Push
  <2>5. CASE Push(h, 0) /\ t # h
    <3>1. row'[t] = row[t] /\ (t \in leased' <=> t \in leased)
      BY <1>0, <2>1, <2>5 DEF Push, QueueTypeOK
    <3> QED
      BY <1>0, <2>2, <2>5, <3>1 DEF Calls, Bound, Stored, Entered, Push
  <2> QED
    BY <1>4, <2>3, <2>4, <2>5 DEF ProducerFires, h
<1>5. CASE ResultFires
  <2>1. /\ UNCHANGED <<queueVars, worker, calls, crashes>> /\ hand' = Head(resultCh)
        /\ pc = "result" /\ pc' = "handle"
    BY <1>5 DEF ResultFires
  <2>2. /\ Head(resultCh) = resultCh[1] /\ 1 \in DOMAIN resultCh
        /\ \A i \in DOMAIN resultCh' :
              i + 1 \in DOMAIN resultCh /\ resultCh'[i] = resultCh[i + 1]
    BY <1>5, HeadTail DEF ResultFires, IInv, TypeOK
  <2>3. Reported' \cup Handling' \subseteq Reported \cup {NoTask}
    BY <2>1, <2>2 DEF Reported, Handling
  <2>4. t \in Underway' => t \in Underway
    BY <2>1, <2>3, NoTaskAssumption DEF Underway, Spawned
  <2>5. Stored \ Spare' \subseteq Stored \ Spare
    BY <2>1 DEF Spare
  <2> QED
    BY <1>1, <2>1, <2>4, <2>5
<1>6. CASE HandleResult
  <2>1. /\ hand.task \in Tasks /\ hand.retries = row[hand.task]
        /\ hand.retries \in 0 .. MaxRetries /\ hand.task \in leased
        /\ Handling = {hand.task}
    BY <1>6, HandTask DEF HandleResult
  <2>2. /\ UNCHANGED <<calls, crashes>>
        /\ Underway' = Spawned \cup Reported
        /\ Underway = Spawned \cup Reported \cup {hand.task}
        /\ Spare = leased /\ Spare' = leased'
    BY <1>6, <2>1 DEF HandleResult, Underway, Spare, Spawned, Reported
  <2>3. hand.task \notin Underway'
    BY <1>0, <2>1, <2>2 DEF OneExecution
  <2>4. CASE UNCHANGED queueVars
    BY <1>1, <2>2, <2>4
  <2>5. ASSUME t = hand.task, ~UNCHANGED queueVars PROVE Calls(t)' /\ Bound(t)'
    <3>1. /\ row[t] < calls[t] /\ calls[t] <= row[t] + crashes + 1
          /\ t \in Stored /\ t \notin dlq /\ t \notin acked /\ row[t] \in 0 .. MaxRetries
      BY <1>0, <2>1, <2>2, <2>5 DEF Calls, OneFate
    <3>2. CASE Ack(t)
      BY <1>0, <2>2, <2>3, <2>5, <3>1, <3>2
         DEF Calls, Bound, Ack, QueueTypeOK, Stored, Entered
    <3>3. CASE row[t] + 1 <= MaxRetries /\ Push(t, row[t] + 1)
      <4>1. row'[t] = row[t] + 1 /\ UNCHANGED <<dlq, acked>> /\ t \in Stored'
        BY <1>0, <2>5, <3>1, <3>3 DEF Push, QueueTypeOK, Stored, NoRow
      <4> QED
        BY <1>0, <2>2, <2>3, <2>5, <3>1, <4>1 DEF Calls, Bound, Entered
    <3>4. CASE row[t] + 1 > MaxRetries /\ Nack(t)
      <4>1. row'[t] = NoRow /\ t \notin Stored' /\ t \in dlq' /\ acked' = acked
        BY <1>0, <2>5, <3>1, <3>4 DEF Nack, QueueTypeOK, Stored
      <4> QED
        BY <1>0, <2>2, <2>3, <2>5, <3>1, <3>4, <4>1 DEF Calls, Bound, Entered
    <3> QED
      BY <1>6, <2>1, <2>5, <3>2, <3>3, <3>4 DEF HandleResult, Try, ApplyResult
  <2>6. ASSUME t # hand.task PROVE Calls(t)' /\ Bound(t)'
    <3>1. /\ row'[t] = row[t] /\ (t \in leased' <=> t \in leased)
          /\ (t \in dlq' <=> t \in dlq) /\ (t \in acked' <=> t \in acked)
      BY <1>0, <1>6, <2>1, <2>6
         DEF HandleResult, Try, ApplyResult, Ack, Nack, Push, QueueTypeOK
    <3>2. /\ (t \in Stored' <=> t \in Stored) /\ (t \in Entered' <=> t \in Entered)
          /\ (t \in Underway' <=> t \in Underway) /\ (t \in Spare' <=> t \in Spare)
      BY <2>2, <2>6, <3>1 DEF Stored, Entered
    <3> QED
      BY <1>0, <2>2, <3>1, <3>2 DEF Calls, Bound
  <2> QED
    BY <2>4, <2>5, <2>6
<1>7. ASSUME NEW h \in Tasks, PopTask(h) PROVE Calls(t)' /\ Bound(t)'
  <2>1. /\ UNCHANGED <<calls, crashes, row, dlq, acked, worker, resultCh>>
        /\ leased' = leased \cup {h} /\ h \notin leased /\ Handling' = {h}
        /\ pc = "ready" /\ pc' = "dispatch"
    BY <1>0, <1>7, NoTaskAssumption DEF PopTask, Pop, OneFate, Handling
  <2>2. Underway' = Underway /\ Spare' = Spare /\ Stored' = Stored /\ Entered' = Entered
    BY <2>1 DEF Underway, Spare, Spawned, Reported, Stored, Entered
  <2> QED
    BY <1>0, <2>1, <2>2 DEF Calls, Bound
<1>8. CASE Dispatch
  <2>1. /\ hand.task \in Tasks /\ hand.retries = row[hand.task]
        /\ hand.task \in leased /\ Handling = {hand.task}
    BY <1>8, HandTask DEF Dispatch
  <2>2. /\ UNCHANGED <<crashes, leased, dlq, acked, resultCh>> /\ row' = row
        /\ calls' = [calls EXCEPT ![hand.task] = @ + 1]
        /\ Spawned' \subseteq Spawned \cup {hand.task}
        /\ pc = "dispatch" /\ pc' = "check"
    BY <1>0, <1>8, <2>1 DEF Dispatch, Set, QueueTypeOK, IInv, TypeOK, Spawned
  <2>3. /\ Underway' \subseteq Underway \cup {hand.task}
        /\ Spare = leased \ {hand.task} /\ Spare' = leased
        /\ Stored' = Stored /\ Entered' = Entered
    BY <2>1, <2>2 DEF Underway, Spare, Reported, Stored, Entered
  <2>4. CASE t = hand.task
    <3>1. calls'[t] = calls[t] + 1 /\ t \in Stored \ Spare /\ t \in Spare'
          /\ t \notin dlq /\ t \notin acked /\ t \in Entered
      BY <1>0, <2>1, <2>2, <2>3, <2>4 DEF OneFate, Entered
    <3> QED
      BY <1>0, <2>2, <2>3, <3>1 DEF Calls, Bound
  <2>5. CASE t # hand.task
    <3>1. calls'[t] = calls[t] /\ (t \in Underway' => t \in Underway)
          /\ (t \in Spare' <=> t \in Spare)
      BY <1>0, <2>1, <2>2, <2>3, <2>5
    <3> QED
      BY <1>0, <2>2, <2>3, <3>1 DEF Calls, Bound
  <2> QED
    BY <2>4, <2>5
<1>9. CASE DispatchFails
  <2>1. UNCHANGED <<queueVars, calls, crashes, worker, resultCh>>
        /\ pc = "dispatch" /\ pc' = "control"
    BY <1>9 DEF DispatchFails
  <2>2. Underway' = Underway /\ Stored \ Spare' \subseteq Stored \ Spare
    BY <2>1 DEF Underway, Spare, Spawned, Reported
  <2> QED
    BY <1>1, <2>1, <2>2
<1>10. ASSUME NEW u \in Tasks, HandlerStep(u) PROVE Calls(t)' /\ Bound(t)'
  <2>1. /\ UNCHANGED <<queueVars, pc, hand, resultCh, calls, crashes>>
        /\ Spawned' = Spawned
    BY <1>10, HandlerFrame DEF IInv
  <2>2. Underway' = Underway /\ Spare' = Spare
    BY <2>1 DEF Underway, Spare, Reported, Handling
  <2> QED
    BY <1>1, <2>1, <2>2
<1>11. ASSUME NEW u \in Tasks, SendResult(u) PROVE Calls(t)' /\ Bound(t)'
  <2>1. /\ UNCHANGED <<queueVars, pc, hand, calls, crashes>>
        /\ u \in Spawned /\ Spawned' = Spawned \ {u} /\ Reported' = Reported \cup {u}
    BY <1>11, ReportFrame DEF IInv, SendResult
  <2>2. Underway' = Underway /\ Spare' = Spare
    BY <2>1 DEF Underway, Spare, Handling
  <2> QED
    BY <1>1, <2>1, <2>2
<1>12. ASSUME NEW u \in Tasks, ExternalEnqueue(u) PROVE Calls(t)' /\ Bound(t)'
  <2>1. UNCHANGED <<queueVars, pc, hand, resultCh, worker, calls, crashes>>
    BY <1>12 DEF ExternalEnqueue
  <2>2. Underway' = Underway /\ Spare' = Spare
    BY <2>1 DEF Underway, Spare, Spawned, Reported, Handling
  <2> QED
    BY <1>1, <2>1, <2>2
<1>13. CASE Restart
  <2>1. /\ UNCHANGED <<queueVars, calls>> /\ crashes' = crashes + 1
        /\ Underway' = {} /\ Stored' = Stored /\ Entered' = Entered
    BY <1>13 DEF Restart, Underway, Spawned, Reported, NoWorker, Stored, Entered
  <2> QED
    BY <1>0, <2>1 DEF Calls, Bound
<1> QED
  BY <1>2, <1>3, <1>4, <1>5, <1>6, <1>7, <1>8, <1>9, <1>10, <1>11, <1>12, <1>13,
     NextCases DEF HandlerStep

\* A handler runs at most max_retries + 1 times for a task, and once more for each
\* crash; a task is dead only after more than max_retries calls, and done only
\* after one.
THEOREM AttemptsBounded == Spec => []AttemptBound
<1>1. Init => CallsAccounted /\ AttemptBound
  <2> SUFFICES ASSUME Init PROVE CallsAccounted /\ AttemptBound
    OBVIOUS
  <2>1. Underway = {} /\ crashes = 0 /\ \A t \in Tasks : calls[t] = 0
    BY DEF Init, Underway, Spawned, Reported, NoWorker
  <2>2. \A t \in Stored : row[t] = 0
    BY DEF Init, QueueInit, Stored, NoRow
  <2> QED
    BY <2>1, <2>2, TaskQueueAssumption
       DEF CallsAccounted, AttemptBound, Stored, Init, QueueInit
<1> QED
  BY <1>1, AttemptInv, Invariance, PTL DEF Spec


-----------------------------------------------------------------------------
(* The idle stop.                                                          *)

\* Nothing but the idle stop can end the intake: no Stop, no command overwritten, no
\* sender dropped, no error of the service or of the storage.  Pauses, crashes,
\* timeouts and panics may happen.
NothingElseStops ==
    /\ "Stop" \notin Commands /\ MaxCommands <= ControlBuffer
    /\ Faults \subseteq {"panic", "timeout"}

\* The tasks in the producer channel.
Sent == {producerCh[i] : i \in DOMAIN producerCh}

\* The control channel holds no more commands than were sent, and is in order.
ControlInOrder == controlOpen /\ ~lagged /\ Len(control) <= commands

\* A known task has reached the queue or is on its way, unless a crash took it.
NothingLost == crashes = 0 => known \subseteq Entered \cup Sent

\* Between the poll that finds the producer channel empty and the decision to stop,
\* a handler may send a task; but then its future is still counted.
LatePostsCounted ==
    pc \in {"result", "ready"} /\ ~stopping /\ inFlight = 0 => Sent \subseteq ExternalTasks

\* A dispatcher that is stopping has nothing left but what producers just sent.
StoppedIdle ==
    stopping => /\ pc \in {"check", "exited"} /\ inFlight = 0 /\ Stored = {}
                /\ Sent \subseteq ExternalTasks

\* What the idle stop needs besides IInv and NoOrphanLease.
IdleInv ==
    NothingElseStops =>
        ControlInOrder /\ NothingLost /\ LatePostsCounted /\ StoppedIdle

\* What is sent is the last in the producer channel.
LEMMA SentByEnqueue ==
    ASSUME TypeOK, NEW t \in Tasks, Enqueue(t)
    PROVE  Sent' = Sent \cup {t} /\ known' = known \cup {t} /\ ~stopping
<1>1. /\ Len(producerCh) \in Nat /\ DOMAIN producerCh = 1 .. Len(producerCh)
      /\ DOMAIN producerCh' = 1 .. Len(producerCh) + 1
      /\ \A i \in DOMAIN producerCh : producerCh'[i] = producerCh[i]
      /\ producerCh'[Len(producerCh) + 1] = t /\ known' = known \cup {t}
  BY EnqueueFrame
<1>2. Sent' \subseteq Sent \cup {t}
  BY <1>1 DEF Sent
<1>3. Sent \subseteq Sent' /\ t \in Sent'
  BY <1>1 DEF Sent
<1> QED
  BY <1>1, <1>2, <1>3 DEF Enqueue

\* What is received was the first in it.
LEMMA SentByProducer ==
    ASSUME TypeOK, ProducerFires
    PROVE  /\ Head(producerCh) \in Tasks
           /\ Sent' \subseteq Sent /\ Sent \subseteq Sent' \cup {Head(producerCh)}
<1>1. /\ Head(producerCh) \in Tasks /\ Head(producerCh) = producerCh[1]
      /\ Len(producerCh) \in Nat \ {0}
      /\ DOMAIN producerCh' = 1 .. Len(producerCh) - 1
      /\ DOMAIN producerCh = 1 .. Len(producerCh)
      /\ \A i \in DOMAIN producerCh' :
            i + 1 \in DOMAIN producerCh /\ producerCh'[i] = producerCh[i + 1]
  BY HeadTail DEF ProducerFires, TypeOK
<1>2. \A i \in DOMAIN producerCh : i = 1 \/ (i - 1 \in DOMAIN producerCh'
                                          /\ producerCh'[i - 1] = producerCh[i])
  BY <1>1
<1> QED
  BY <1>1, <1>2 DEF Sent

\* A future that takes a step is counted.
LEMMA StepIsCounted ==
    ASSUME IInv, NEW t \in Tasks, HandlerStep(t) \/ SendResult(t)
    PROVE  inFlight # 0 /\ inFlight' = inFlight
<1>1. t \in Spawned /\ inFlight' = inFlight
  BY DEF Spawned, HandlerStep, HandlerEnqueues, HandlerEnqueued, Complete, TimeOut,
         Panic, SendResult
<1>2. Cardinality(Spawned) # 0 /\ Len(resultCh) \in Nat
  BY <1>1, SpawnedFinite, FS_EmptySet, LenProperties DEF IInv, TypeOK
<1> QED
  BY <1>1, <1>2, SpawnedFinite DEF IInv, InFlightExact

\* A step leaves the control channel in order.
LEMMA ControlStep ==
    ASSUME TypeOK, NothingElseStops, ControlInOrder, [Next]_vars
    PROVE  ControlInOrder'
<1> USE DEF ControlInOrder
<1>0. /\ control \in Seq(Commands) /\ Len(control) \in Nat
      /\ commands \in 0 .. MaxCommands /\ MaxCommands <= ControlBuffer
      /\ MaxCommands \in Nat /\ ControlBuffer \in Nat
  BY MailboxAssumption, LenProperties DEF TypeOK, NothingElseStops
<1>1. ASSUME NEW c \in Commands, SendCommand(c) PROVE ControlInOrder'
  <2>1. Len(control) < ControlBuffer
    BY <1>0, <1>1 DEF SendCommand
  <2>2. Len(control') = Len(control) + 1
    BY <1>0, <1>1, <2>1, AppendProperties DEF SendCommand
  <2> QED
    BY <1>0, <1>1, <2>1, <2>2 DEF SendCommand
<1>2. CASE ControlFires
  <2>1. control = <<>> \/ Len(Tail(control)) = Len(control) - 1
    BY <1>0, HeadTailProperties
  <2> QED
    BY <1>0, <1>2, <2>1 DEF ControlFires
<1>3. CASE Restart
  BY <1>0, <1>3, EmptySeq DEF Restart, envVars
<1>4. ~DropControl
  BY DEF DropControl, NothingElseStops
<1>5. CASE UNCHANGED <<controlVars, commands>>
  BY <1>5
<1> QED
  BY <1>1, <1>2, <1>3, <1>4, <1>5, NextCases
     DEF Polls, ControlPending, ProducerPending, ResultPending, ReadyPending,
         ReadyFails, PopEmpty, PopFails, DrainCheck, Recover, ProducerFires,
         ResultFires, HandleResult, PopTask, Dispatch, DispatchFails, HandlerEnqueues,
         HandlerEnqueued, Complete, TimeOut, Panic, SendResult, ExternalEnqueue, vars

\* So no command stops the dispatcher.
LEMMA OnlyPopEmptyStops ==
    ASSUME TypeOK, NothingElseStops, ControlInOrder, [Next]_vars
    PROVE  stopping' => stopping \/ (PopEmpty /\ IsIdle)
<1>1. ControlFires => ControlEvent \notin StopEvents
  <2> SUFFICES ASSUME ControlFires PROVE ControlEvent \notin StopEvents
    OBVIOUS
  <2>1. control # <<>> => Head(control) \in Commands
    BY HeadTailProperties DEF TypeOK
  <2> QED
    BY <2>1, MailboxAssumption
       DEF ControlEvent, StopEvents, ControlInOrder, NothingElseStops, ControlFires
<1>2. ~ReadyFails
  BY DEF ReadyFails, NothingElseStops
<1> QED
  BY <1>1, <1>2, NextCases
     DEF Polls, ControlFires, ControlPending, ProducerPending, ResultPending,
         ReadyPending, PopEmpty, PopFails, DrainCheck, SendCommand, DropControl,
         Recover, ProducerFires, ResultFires, HandleResult, PopTask, Dispatch,
         DispatchFails, HandlerEnqueues, HandlerEnqueued, Complete, TimeOut, Panic,
         SendResult, ExternalEnqueue, Restart, vars

\* No step loses a known task, but a crash.
LEMMA LossStep ==
    ASSUME IInv, NothingElseStops, NothingLost, [Next]_vars
    PROVE  NothingLost'
<1> SUFFICES ASSUME crashes' = 0 PROVE known' \subseteq Entered' \cup Sent'
  BY DEF NothingLost
<1>0. TypeOK /\ QueueTypeOK /\ crashes \in Nat
  BY DEF IInv, TypeOK
<1>1. ~Restart
  BY <1>0 DEF Restart
<1>2. crashes = 0
  BY <1>1, NextCases
     DEF Polls, ControlPending, ControlFires, ProducerPending, ResultPending,
         ReadyPending, ReadyFails, PopEmpty, PopFails, DrainCheck, SendCommand,
         DropControl, Recover, ProducerFires, ResultFires, HandleResult, PopTask,
         Dispatch, DispatchFails, HandlerEnqueues, HandlerEnqueued, Complete, TimeOut,
         Panic, SendResult, ExternalEnqueue, vars
<1>3. known \subseteq Entered \cup Sent
  BY <1>2 DEF NothingLost
<1>4. Entered \subseteq Entered'
  BY EnteredFrame
<1>5. ASSUME NEW t \in Tasks, Enqueue(t) PROVE known' \subseteq Entered' \cup Sent'
  BY <1>0, <1>3, <1>4, <1>5, SentByEnqueue
<1>6. CASE ProducerFires
  <2>1. Push(Head(producerCh), 0)
    BY <1>6 DEF ProducerFires, NothingElseStops
  <2>2. Head(producerCh) \in Tasks /\ Sent \subseteq Sent' \cup {Head(producerCh)}
    BY <1>0, <1>6, SentByProducer
  <2>3. Head(producerCh) \in Stored'
    BY <1>0, <2>1, <2>2 DEF Push, Stored, QueueTypeOK, NoRow
  <2>4. known' = known
    BY <1>6 DEF ProducerFires
  <2> QED
    BY <1>3, <1>4, <2>2, <2>3, <2>4 DEF Entered
<1>7. CASE UNCHANGED <<producerCh, known>>
  BY <1>3, <1>4, <1>7 DEF Sent
<1>8. ASSUME NEW t \in Tasks, HandlerEnqueued(t)
      PROVE  known' \subseteq Entered' \cup Sent'
  <2>1. CASE Enqueue(worker[t].child)
    <3>1. worker[t].child \in Tasks
      BY <1>8 DEF HandlerEnqueued, IInv, TypeOK, Worker, NoWorker
    <3> QED
      BY <1>5, <2>1, <3>1
  <2> QED
    BY <1>7, <1>8, <2>1 DEF HandlerEnqueued
<1> QED
  BY <1>1, <1>5, <1>6, <1>7, <1>8, NextCases, PollsFrame
     DEF Recover, ResultFires, HandleResult, PopTask, Dispatch, DispatchFails,
         HandlerEnqueues, Complete, TimeOut, Panic, SendResult, ExternalEnqueue

\* Whatever a handler sends after the poll of the producer channel, its own result has
\* not been received when the readiness is polled, so the counter is not zero.
LEMMA LatePostsStep ==
    ASSUME IInv, LatePostsCounted, [Next]_vars
    PROVE  LatePostsCounted'
<1> SUFFICES ASSUME pc' \in {"result", "ready"}, ~stopping', inFlight' = 0
             PROVE  Sent' \subseteq ExternalTasks
  BY DEF LatePostsCounted
<1>0. TypeOK
  BY DEF IInv
<1>1. CASE ProducerPending
  <2>1. producerCh' = <<>>
    BY <1>1 DEF ProducerPending, ProducerEnabled
  <2> QED
    BY <2>1 DEF Sent
<1>2. CASE UNCHANGED <<producerCh, inFlight, stopping>> /\ pc \in {"result", "ready"}
  BY <1>2 DEF LatePostsCounted, Sent
<1>3. ASSUME NEW t \in Tasks, ExternalEnqueue(t) PROVE Sent' \subseteq ExternalTasks
  <2>1. Sent' = Sent \cup {t} /\ t \in ExternalTasks
    BY <1>0, <1>3, SentByEnqueue DEF ExternalEnqueue
  <2> QED
    BY <1>3, <2>1 DEF ExternalEnqueue, LatePostsCounted
<1>4. ASSUME NEW t \in Tasks, HandlerStep(t) \/ SendResult(t) PROVE FALSE
  BY <1>4, StepIsCounted
<1>5. ~Recover /\ ~ProducerFires /\ ~ResultFires /\ ~HandleResult /\ ~Dispatch
      /\ ~DispatchFails /\ ~Restart /\ \A t \in Tasks : ~PopTask(t)
  BY DEF Recover, ProducerFires, ResultFires, HandleResult, Dispatch, DispatchFails,
         Restart, PopTask
<1>6. Polls => ProducerPending \/ (UNCHANGED <<producerCh, inFlight, stopping>>
                                     /\ pc \in {"result", "ready"})
  BY DEF Polls, ControlPending, ControlFires, ResultPending, ReadyPending, ReadyFails,
         PopEmpty, PopFails, DrainCheck, SendCommand, DropControl, vars
<1> QED
  BY <1>1, <1>2, <1>3, <1>4, <1>5, <1>6, NextCases DEF HandlerStep

\* A dispatcher that decides to stop has nothing left in the queue, and one that is
\* stopping gets nothing more.
LEMMA StoppedStep ==
    ASSUME IInv, NoOrphanLease, NothingElseStops, ControlInOrder, LatePostsCounted,
           StoppedIdle, [Next]_vars
    PROVE  StoppedIdle'
<1> SUFFICES ASSUME stopping'
             PROVE  /\ pc' \in {"check", "exited"} /\ inFlight' = 0 /\ Stored' = {}
                    /\ Sent' \subseteq ExternalTasks
  BY DEF StoppedIdle
<1>0. TypeOK /\ OneFate
  BY DEF IInv
<1>1. CASE PopEmpty /\ IsIdle /\ ~stopping
  <2>1. pc = "ready" /\ inFlight = 0 /\ queued = {}
    BY <1>1 DEF PopEmpty, IsIdle
  <2>2. Spawned = {} /\ resultCh = <<>>
    <3>1. Cardinality(Spawned) = 0 /\ Len(resultCh) = 0
      BY <1>0, <2>1, SpawnedFinite, LenProperties DEF IInv, InFlightExact, TypeOK
    <3> QED
      BY <1>0, <3>1, SpawnedFinite, FS_EmptySet, EmptySeq DEF TypeOK
  <2>3. Handling = {} /\ Reported = {}
    BY <2>1, <2>2 DEF IInv, HandMatchesPc, Handling, Reported, NoHand
  <2>4. Stored = {}
    BY <1>0, <2>1, <2>2, <2>3 DEF NoOrphanLease, NothingElseStops, OneFate
  <2>5. Sent \subseteq ExternalTasks
    BY <1>1, <2>1 DEF LatePostsCounted
  <2>6. /\ pc' = "check" /\ inFlight' = inFlight
        /\ UNCHANGED <<queueVars, producerCh>>
    BY <1>1 DEF PopEmpty
  <2> QED
    BY <2>1, <2>4, <2>5, <2>6 DEF Stored, Sent
<1>2. CASE stopping
  <2>1. /\ pc \in {"check", "exited"} /\ inFlight = 0 /\ Stored = {}
        /\ Sent \subseteq ExternalTasks
    BY <1>2 DEF StoppedIdle
  <2>2. ASSUME NEW t \in Tasks, HandlerStep(t) \/ SendResult(t) PROVE FALSE
    BY <2>1, <2>2, StepIsCounted
  <2>3. ASSUME NEW t \in Tasks, ExternalEnqueue(t) PROVE FALSE
    BY <1>2, <2>3 DEF ExternalEnqueue, Enqueue
  <2>4. Polls
    BY <2>1, <2>2, <2>3, NextCases
       DEF HandlerStep, Recover, ProducerFires, ResultFires, HandleResult, PopTask,
           Dispatch, DispatchFails, Restart
  <2>5. pc' \in {"check", "exited"}
    <3>1. DrainCheck => pc' = "exited"
      <4>1. resultCh = <<>>
        <5>1. Len(resultCh) = 0
          BY <1>0, <2>1, SpawnedFinite, LenProperties DEF IInv, InFlightExact, TypeOK
        <5> QED
          BY <1>0, <5>1, EmptySeq DEF TypeOK
      <4> QED
        BY <1>2, <2>1, <4>1 DEF DrainCheck, IsDrained
    <3>2. ~DrainCheck => pc' = pc
      BY <2>1, <2>4
         DEF Polls, ControlPending, ControlFires, ProducerPending, ResultPending,
             ReadyPending, ReadyFails, PopEmpty, PopFails, SendCommand, DropControl,
             vars
    <3> QED
      BY <2>1, <3>1, <3>2
  <2> QED
    BY <2>1, <2>4, <2>5, PollsFrame DEF Stored, Sent
<1> QED
  BY <1>0, <1>1, <1>2, OnlyPopEmptyStops

\* The idle stop never cuts a crawl short: if nothing else stops the dispatcher, then
\* when it stops every seed and every task a handler has enqueued is settled, unless a
\* crash took it on its way.  Pauses, timeouts, panics and restarts are allowed, and
\* neither the buffers nor the concurrency limit matter.
THEOREM IdleStopCutsNothing == Spec => [](NothingElseStops => IdleStopComplete)
<1>1. Init => IdleInv
  <2> SUFFICES ASSUME Init PROVE IdleInv
    OBVIOUS
  <2>1. Len(control) <= commands /\ controlOpen /\ ~lagged
    BY EmptySeq DEF Init
  <2>2. Stored = queued
    BY DEF Init, QueueInit, Stored, NoRow
  <2> QED
    BY <2>1, <2>2
       DEF Init, IdleInv, ControlInOrder, NothingLost, LatePostsCounted, StoppedIdle,
           Entered
<1>2. IInv /\ NoOrphanLease /\ IdleInv /\ [Next]_vars => IdleInv'
  <2> SUFFICES ASSUME IInv, NoOrphanLease, IdleInv, [Next]_vars, NothingElseStops
               PROVE  (ControlInOrder /\ NothingLost /\ LatePostsCounted /\ StoppedIdle)'
    BY DEF IdleInv, NothingElseStops
  <2>1. TypeOK /\ ControlInOrder /\ NothingLost /\ LatePostsCounted /\ StoppedIdle
    BY DEF IdleInv, IInv
  <2> QED
    BY <2>1, ControlStep, LossStep, LatePostsStep, StoppedStep
<1>3. IInv /\ IdleInv => (NothingElseStops => IdleStopComplete)
  <2> SUFFICES ASSUME IInv, IdleInv, NothingElseStops, stopping, NEW t \in known,
                      t \notin acked \cup dlq, ~(crashes > 0 /\ t \notin Stored)
               PROVE  \E i \in DOMAIN producerCh :
                         producerCh[i] = t /\ t \in ExternalTasks
    BY DEF IdleStopComplete
  <2>1. Stored = {} /\ Sent \subseteq ExternalTasks /\ NothingLost
    BY DEF IdleInv, StoppedIdle
  <2>2. crashes = 0
    BY <2>1 DEF IInv, TypeOK
  <2>3. t \in Sent
    BY <2>1, <2>2 DEF NothingLost, Entered
  <2> QED
    BY <2>1, <2>3 DEF Sent
<1> QED
  BY <1>1, <1>2, <1>3, Invariance, EveryLeaseHeld, PTL DEF Spec
=============================================================================
