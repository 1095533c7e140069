------------------------------ MODULE Mailbox ------------------------------
(***************************************************************************)
(* The mailbox runtime of capp (manager/mailbox.rs): one dispatcher task   *)
(* that polls four sources in a fixed order -- control commands, tasks     *)
(* enqueued by producers, worker results, and finally the service's        *)
(* readiness, on which it pops a task and dispatches it -- and one spawned *)
(* worker per dispatched task that runs the handler and reports back.      *)
(*                                                                         *)
(* `tokio::select! { biased; ... }` polls its branches one after the other *)
(* while the other threads go on, so every poll is a step of its own here  *)
(* and pc names the next one.  A poll that finds its branch pending moves  *)
(* on; the branch that fires runs to the drain check at the end of the     *)
(* loop.  Waiting for a wake-up is a round of polls that find nothing.     *)
(***************************************************************************)
EXTENDS TaskQueue, Sequences

CONSTANTS
    ExternalTasks,     \* the tasks that producers outside the handlers enqueue
    ProducerBuffer,    \* MailboxConfig::producer_buffer
    ResultBuffer,      \* MailboxConfig::result_buffer
    ControlBuffer,     \* capacity of the control broadcast (16 in the code)
    ConcurrencyLimit,  \* the caller's tower concurrency_limit
    StopWhenIdle,      \* MailboxConfig::stop_when_idle
    Commands,          \* the control commands the operator uses
    MaxCommands,       \* how many of them a behaviour contains
    MaxCrashes,        \* how many times the process dies and is restarted
    Faults             \* what may go wrong in this instance

FaultKinds == {"storage",  \* a queue operation returns an error
               "ready",    \* service.ready() returns an error
               "panic",    \* a handler panics
               "timeout",  \* the service stack's timeout cancels a handler
               "drop"}     \* the owner drops every control sender

ASSUME MailboxAssumption ==
    /\ ExternalTasks \subseteq Tasks
    /\ ProducerBuffer \in Nat \ {0} /\ ResultBuffer \in Nat \ {0}
    /\ ControlBuffer \in Nat \ {0} /\ ConcurrencyLimit \in Nat \ {0}
    /\ StopWhenIdle \in BOOLEAN
    /\ Commands \subseteq {"Pause", "Resume", "Stop"}
    /\ MaxCommands \in Nat /\ MaxCrashes \in Nat
    /\ Faults \subseteq FaultKinds

NoTask == "none"

ASSUME NoTaskAssumption == NoTask \notin Tasks

VARIABLES
    pc,           \* where the dispatcher is in its loop
    paused, stopping, sawWork,
    inFlight,     \* the atomic counter
    hand,         \* the popped task or received result being handled
    control,      \* commands the dispatcher has not received yet
    lagged,       \* the broadcast overwrote a command it had not received
    controlOpen,  \* some control sender still exists
    producerCh, resultCh,
    worker,       \* the spawned future of each task
    known,        \* history: ids submitted, i.e. seeded or enqueued with Ok
    calls,        \* history: how often the handler of a task was called
    commands, crashes  \* how many there were (bounded)

loopVars    == <<paused, stopping, sawWork>>
controlVars == <<control, lagged, controlOpen>>
futureVars  == <<worker, known, calls>>
envVars     == <<commands, crashes>>
restVars    == <<queueVars, loopVars, inFlight, hand, controlVars, producerCh,
                 resultCh, futureVars, envVars>>
vars        == <<pc, restVars>>

-----------------------------------------------------------------------------
(* Types.                                                                  *)

\* A task in the hands of the runtime: its own copy of the retry counter, and
\* whether its handler succeeded.
Result == [task : Tasks, retries : 0 .. MaxRetries, ok : BOOLEAN]

NoHand == [task |-> NoTask, retries |-> 0, ok |-> FALSE]

\* A spawned future: running its handler (`child` is the task the handler is
\* waiting to enqueue), done and waiting to report, or dead of a panic.
Worker == [st : {"running", "done", "panicked"}, child : Tasks \cup {NoTask},
           retries : 0 .. MaxRetries, ok : BOOLEAN]

NoWorker == [st |-> "none", child |-> NoTask, retries |-> 0, ok |-> FALSE]

Running == {t \in Tasks : worker[t].st = "running"}
Spawned == {t \in Tasks : worker[t].st # "none"}
Children == {worker[t].child : t \in Tasks} \ {NoTask}

\* An id that TaskId::new may return.
Fresh == Tasks \ (known \cup Children)

\* A running future holds a permit of the concurrency limit.
PermitAvailable == Cardinality(Running) < ConcurrencyLimit

Handling == {hand.task} \ {NoTask}
Reported == {resultCh[i].task : i \in DOMAIN resultCh}

-----------------------------------------------------------------------------

\* The caller may have seeded the queue before it spawns the runtime.
Init ==
    /\ QueueInit
    /\ queued \cap ExternalTasks = {}
    /\ pc = "start"
    /\ paused = FALSE /\ stopping = FALSE /\ sawWork = FALSE
    /\ inFlight = 0
    /\ hand = NoHand
    /\ control = <<>> /\ lagged = FALSE /\ controlOpen = TRUE
    /\ producerCh = <<>> /\ resultCh = <<>>
    /\ worker = [t \in Tasks |-> NoWorker]
    /\ known = queued
    /\ calls = [t \in Tasks |-> 0]
    /\ commands = 0 /\ crashes = 0

-----------------------------------------------------------------------------
(* The dispatcher.  (A definition marked "Mutant" is wrong on purpose: it   *)
(* stands in for the definition after it to show that a property notices.)  *)

Goto(l) == pc' = l

\* Ok(Stop), an error of the control channel, an error of service.ready() and
\* the idle stop all end the intake: the producer channel is closed, so from
\* here on `stopping` also says that enqueue fails.
BeginStop == stopping' = TRUE /\ paused' = TRUE

\* A queue operation either takes effect or, where the storage may fail,
\* returns an error that is logged.
Try(op) == op \/ ("storage" \in Faults /\ UNCHANGED queueVars)

Recover ==
    /\ pc = "start"
    /\ Try(RecoverInflight)
    /\ Goto("control")
    /\ UNCHANGED <<loopVars, inFlight, hand, controlVars, producerCh, resultCh,
                   futureVars, envVars>>

\* What control_rx.recv() would return now.
ControlEvent ==
    IF lagged THEN "Lagged"
    ELSE IF control # <<>> THEN Head(control)
    ELSE IF controlOpen THEN "Pending" ELSE "Closed"

\* Mutant: an overwritten command does not stop the dispatcher.
StopEventsWithoutLag == {"Stop", "Closed"}

\* Ok(Stop) | Err(_)
StopEvents == {"Stop", "Lagged", "Closed"}

ControlPending ==
    /\ pc = "control" /\ ControlEvent = "Pending"
    /\ Goto("producer") /\ UNCHANGED restVars

ControlFires ==
    /\ pc = "control" /\ ControlEvent # "Pending"
    /\ IF ControlEvent \in StopEvents
         THEN BeginStop
         ELSE paused' = (ControlEvent = "Pause") /\ UNCHANGED stopping
    /\ control' = IF lagged \/ control = <<>> THEN control ELSE Tail(control)
    /\ lagged' = FALSE
    /\ Goto("check")
    /\ UNCHANGED <<queueVars, sawWork, inFlight, hand, controlOpen, producerCh,
                   resultCh, futureVars, envVars>>

\* Mutant: a paused dispatcher does not listen to producers.
ProducerUnlessPaused == ~paused /\ ~stopping

ProducerEnabled == ~stopping

ProducerPending ==
    /\ pc = "producer" /\ (~ProducerEnabled \/ producerCh = <<>>)
    /\ Goto("result") /\ UNCHANGED restVars

ProducerFires ==
    /\ pc = "producer" /\ ProducerEnabled /\ producerCh # <<>>
    /\ \/ Push(Head(producerCh), 0) /\ sawWork' = TRUE
       \/ "storage" \in Faults /\ UNCHANGED <<queueVars, sawWork>>
    /\ producerCh' = Tail(producerCh)
    /\ Goto("check")
    /\ UNCHANGED <<paused, stopping, inFlight, hand, controlVars, resultCh,
                   futureVars, envVars>>

\* Mutant: a paused dispatcher need not listen to results.
ResultPendingPaused ==
    /\ pc = "result" /\ (paused \/ resultCh = <<>>)
    /\ Goto("ready") /\ UNCHANGED restVars

ResultPending ==
    /\ pc = "result" /\ resultCh = <<>>
    /\ Goto("ready") /\ UNCHANGED restVars

\* A received result leaves the counter before it is applied to the queue.
ResultFires ==
    /\ pc = "result" /\ resultCh # <<>>
    /\ inFlight' = inFlight - 1
    /\ hand' = Head(resultCh)
    /\ resultCh' = Tail(resultCh)
    /\ Goto("handle")
    /\ UNCHANGED <<queueVars, loopVars, controlVars, producerCh, futureVars, envVars>>

\* Mutant: the limit is compared with the retries before this failure.
ApplyResultOffByOne(r) ==
    \/ r.ok /\ Ack(r.task)
    \/ ~r.ok /\ r.retries <= MaxRetries /\ Push(r.task, r.retries + 1)
    \/ ~r.ok /\ r.retries > MaxRetries  /\ Nack(r.task)

\* Mutant: a task out of retries is logged and left as it is.
ApplyResultNoDlq(r) ==
    \/ r.ok /\ Ack(r.task)
    \/ ~r.ok /\ r.retries + 1 <= MaxRetries /\ Push(r.task, r.retries + 1)
    \/ ~r.ok /\ r.retries + 1 > MaxRetries  /\ UNCHANGED queueVars

\* Mutant: every failure goes to the dead-letter store.
ApplyResultNoRetry(r) == (r.ok /\ Ack(r.task)) \/ (~r.ok /\ Nack(r.task))

\* Mutant: a failed task is queued again by recovering the in-flight set.
ApplyResultRecovers(r) == (r.ok /\ Ack(r.task)) \/ (~r.ok /\ RecoverInflight)

\* set_retry has counted the failure before it is compared with max_retries.
ApplyResult(r) ==
    \/ r.ok /\ Ack(r.task)
    \/ ~r.ok /\ r.retries + 1 <= MaxRetries /\ Push(r.task, r.retries + 1)
    \/ ~r.ok /\ r.retries + 1 > MaxRetries  /\ Nack(r.task)

HandleResult ==
    /\ pc = "handle"
    /\ Try(ApplyResult(hand))
    /\ hand' = NoHand
    /\ Goto("check")
    /\ UNCHANGED <<loopVars, inFlight, controlVars, producerCh, resultCh, futureVars,
                   envVars>>

\* Mutant: only `paused` is looked at, which a late Resume clears.
ReadyUnlessPaused == ~paused

ReadyEnabled == ~paused /\ ~stopping

\* The branch is disabled, or the service has no permit to give.
ReadyPending ==
    /\ pc = "ready" /\ ~(ReadyEnabled /\ PermitAvailable)
    /\ Goto("control") /\ UNCHANGED restVars

\* The error path leaves by `continue`, past the drain check.
ReadyFails ==
    /\ pc = "ready" /\ ReadyEnabled /\ "ready" \in Faults
    /\ BeginStop
    /\ Goto("control")
    /\ UNCHANGED <<queueVars, sawWork, inFlight, hand, controlVars, producerCh,
                   resultCh, futureVars, envVars>>

PopTask(t) ==
    /\ pc = "ready" /\ ReadyEnabled /\ PermitAvailable
    /\ Pop(t)
    /\ hand' = [task |-> t, retries |-> row[t], ok |-> FALSE]
    /\ sawWork' = TRUE
    /\ Goto("dispatch")
    /\ UNCHANGED <<paused, stopping, inFlight, controlVars, producerCh, resultCh,
                   futureVars, envVars>>

\* Mutant: an empty queue alone counts as idle.
LooksIdle == StopWhenIdle /\ sawWork

IsIdle == StopWhenIdle /\ sawWork /\ inFlight = 0

PopEmpty ==
    /\ pc = "ready" /\ ReadyEnabled /\ PermitAvailable
    /\ queued = {}
    /\ IF IsIdle THEN BeginStop ELSE UNCHANGED <<stopping, paused>>
    /\ Goto("check")
    /\ UNCHANGED <<queueVars, sawWork, inFlight, hand, controlVars, producerCh,
                   resultCh, futureVars, envVars>>

PopFails ==
    /\ pc = "ready" /\ ReadyEnabled /\ PermitAvailable /\ "storage" \in Faults
    /\ Goto("check") /\ UNCHANGED restVars

NewWorker(r) == [st |-> "running", child |-> NoTask, retries |-> r, ok |-> FALSE]

\* Mutant: only the first call of a task is counted in flight.
SpawnCountedOnce(t, r) ==
    /\ worker' = [worker EXCEPT ![t] = NewWorker(r)]
    /\ inFlight' = IF r = 0 THEN inFlight + 1 ELSE inFlight
    /\ calls' = [calls EXCEPT ![t] = @ + 1]

\* Call the service, count the call, spawn its future.
Spawn(t, r) ==
    /\ worker' = [worker EXCEPT ![t] = NewWorker(r)]
    /\ inFlight' = inFlight + 1
    /\ calls' = [calls EXCEPT ![t] = @ + 1]

\* The row is marked in progress before the call.
Dispatch ==
    /\ pc = "dispatch"
    /\ Set(hand.task, hand.retries)
    /\ Spawn(hand.task, hand.retries)
    /\ hand' = NoHand
    /\ Goto("check")
    /\ UNCHANGED <<loopVars, controlVars, producerCh, resultCh, known, envVars>>

\* If the row cannot be written the popped task is dropped, its lease is not.
DispatchFails ==
    /\ pc = "dispatch" /\ "storage" \in Faults
    /\ hand' = NoHand
    /\ Goto("control")
    /\ UNCHANGED <<queueVars, loopVars, inFlight, controlVars, producerCh, resultCh,
                   futureVars, envVars>>

\* Mutant: only the results that have arrived are waited for.
IsDrainedEarly == stopping /\ resultCh = <<>>

\* Mutant: a drained dispatcher leaves only if it is not paused.
IsDrainedUnlessPaused == stopping /\ ~paused /\ inFlight = 0 /\ resultCh = <<>>

IsDrained == stopping /\ inFlight = 0 /\ resultCh = <<>>

DrainCheck ==
    /\ pc = "check"
    /\ Goto(IF IsDrained THEN "exited" ELSE "control") /\ UNCHANGED restVars

Dispatcher ==
    \/ Recover \/ ControlPending \/ ControlFires \/ ProducerPending
    \/ ProducerFires \/ ResultPending \/ ResultFires \/ HandleResult
    \/ ReadyPending \/ ReadyFails \/ (\E t \in Tasks : PopTask(t)) \/ PopEmpty
    \/ PopFails \/ Dispatch \/ DispatchFails \/ DrainCheck

-----------------------------------------------------------------------------
(* The spawned futures.                                                    *)

\* What no spawned future and no producer touches.
dispatcherVars == <<queueVars, pc, loopVars, inFlight, hand>>

\* Mutant: an unbounded channel.
EnqueueUnbounded(t) ==
    ~stopping /\ producerCh' = Append(producerCh, t) /\ known' = known \cup {t}

Enqueue(t) ==
    /\ ~stopping /\ Len(producerCh) < ProducerBuffer
    /\ producerCh' = Append(producerCh, t)
    /\ known' = known \cup {t}

\* A handler awaits ProducerHandle::enqueue on a task it has made ...
HandlerEnqueues(t, c) ==
    /\ worker[t].st = "running" /\ worker[t].child = NoTask
    /\ c \in Fresh \ ExternalTasks
    /\ worker' = [worker EXCEPT ![t].child = c]
    /\ UNCHANGED <<dispatcherVars, controlVars, producerCh, resultCh, known, calls,
                   envVars>>

\* Mutant: the task is dropped when the channel is full.
HandlerEnqueuedLossy(t) ==
    /\ worker[t].st = "running" /\ worker[t].child # NoTask
    /\ \/ Enqueue(worker[t].child)
       \/ Len(producerCh) = ProducerBuffer /\ UNCHANGED <<producerCh, known>>
    /\ worker' = [worker EXCEPT ![t].child = NoTask]
    /\ UNCHANGED <<dispatcherVars, controlVars, resultCh, calls, envVars>>

\* ... until the channel has room, or is closed and the call returns an error.
HandlerEnqueued(t) ==
    /\ worker[t].st = "running" /\ worker[t].child # NoTask
    /\ Enqueue(worker[t].child) \/ (stopping /\ UNCHANGED <<producerCh, known>>)
    /\ worker' = [worker EXCEPT ![t].child = NoTask]
    /\ UNCHANGED <<dispatcherVars, controlVars, resultCh, calls, envVars>>

\* The handler returns Ok or Err; the permit is free from here on.
Complete(t, ok) ==
    /\ worker[t].st = "running" /\ worker[t].child = NoTask
    /\ worker' = [worker EXCEPT ![t].st = "done", ![t].ok = ok]
    /\ UNCHANGED <<dispatcherVars, controlVars, producerCh, resultCh, known, calls,
                   envVars>>

\* The timeout layer drops the handler, wherever it is, and returns an error.
TimeOut(t) ==
    /\ "timeout" \in Faults /\ worker[t].st = "running"
    /\ worker' = [worker EXCEPT ![t].st = "done", ![t].child = NoTask]
    /\ UNCHANGED <<dispatcherVars, controlVars, producerCh, resultCh, known, calls,
                   envVars>>

\* A panic unwinds the spawned future: no result will be sent.
Panic(t) ==
    /\ "panic" \in Faults /\ worker[t].st = "running" /\ worker[t].child = NoTask
    /\ worker' = [worker EXCEPT ![t].st = "panicked"]
    /\ UNCHANGED <<dispatcherVars, controlVars, producerCh, resultCh, known, calls,
                   envVars>>

SendResult(t) ==
    /\ worker[t].st = "done" /\ Len(resultCh) < ResultBuffer
    /\ resultCh' = Append(resultCh, [task |-> t, retries |-> worker[t].retries,
                                     ok |-> worker[t].ok])
    /\ worker' = [worker EXCEPT ![t] = NoWorker]
    /\ UNCHANGED <<dispatcherVars, controlVars, producerCh, known, calls, envVars>>

WorkerStep(t) ==
    \/ \E c \in Tasks : HandlerEnqueues(t, c)
    \/ HandlerEnqueued(t)
    \/ \E ok \in BOOLEAN : Complete(t, ok)
    \/ TimeOut(t) \/ Panic(t) \/ SendResult(t)

-----------------------------------------------------------------------------
(* The owner of the runtime, and its host.                                 *)

ExternalEnqueue(t) ==
    /\ t \in ExternalTasks \cap Fresh
    /\ Enqueue(t)
    /\ UNCHANGED <<dispatcherVars, controlVars, resultCh, worker, calls, envVars>>

\* A broadcast never blocks: when the ring is full the oldest command goes.
SendCommand(c) ==
    /\ controlOpen /\ pc # "exited" /\ commands < MaxCommands
    /\ IF Len(control) < ControlBuffer
         THEN control' = Append(control, c) /\ UNCHANGED lagged
         ELSE control' = Append(Tail(control), c) /\ lagged' = TRUE
    /\ commands' = commands + 1
    /\ UNCHANGED <<dispatcherVars, controlOpen, producerCh, resultCh, futureVars, crashes>>

DropControl ==
    /\ "drop" \in Faults /\ controlOpen
    /\ controlOpen' = FALSE
    /\ UNCHANGED <<dispatcherVars, control, lagged, producerCh, resultCh, futureVars,
                   envVars>>

\* The process dies and a new one spawns a runtime on the same (durable) queue.
Restart ==
    /\ crashes < MaxCrashes /\ crashes' = crashes + 1
    /\ pc' = "start"
    /\ paused' = FALSE /\ stopping' = FALSE /\ sawWork' = FALSE
    /\ inFlight' = 0
    /\ hand' = NoHand
    /\ control' = <<>> /\ lagged' = FALSE /\ controlOpen' = TRUE
    /\ producerCh' = <<>> /\ resultCh' = <<>>
    /\ worker' = [t \in Tasks |-> NoWorker]
    /\ UNCHANGED <<queueVars, known, calls, commands>>

Environment ==
    \/ \E t \in Tasks : ExternalEnqueue(t)
    \/ \E c \in Commands : SendCommand(c)
    \/ DropControl \/ Restart

Next == Dispatcher \/ (\E t \in Tasks : WorkerStep(t)) \/ Environment

Spec == Init /\ [][Next]_vars

\* Fairness: tokio polls a woken task again, so the dispatcher and the spawned
\* futures go on; a handler returns in the end, whatever it enqueues before (the
\* timeout layer of build_service_stack ends those that would not); a send on a
\* channel with room, or on a closed one, completes.  Timeouts themselves, panics,
\* commands, crashes and what a handler chooses to enqueue are never forced.
Fairness ==
    /\ WF_vars(Dispatcher)
    /\ \A t \in Tasks : /\ WF_vars(HandlerEnqueued(t))
                        /\ SF_vars(\E ok \in BOOLEAN : Complete(t, ok))
                        /\ WF_vars(SendResult(t))

FairSpec == Spec /\ Fairness

-----------------------------------------------------------------------------
(* Safety.                                                                 *)

Labels == {"start", "control", "producer", "result", "handle", "ready",
           "dispatch", "check", "exited"}

\* Every variable has its type, and the channels respect their capacity.
TypeOK ==
    /\ QueueTypeOK
    /\ pc \in Labels
    /\ paused \in BOOLEAN /\ stopping \in BOOLEAN /\ sawWork \in BOOLEAN
    /\ inFlight \in Nat
    /\ hand \in Result \cup {NoHand}
    /\ control \in Seq(Commands) /\ Len(control) <= ControlBuffer
    /\ lagged \in BOOLEAN /\ controlOpen \in BOOLEAN
    /\ producerCh \in Seq(Tasks) /\ Len(producerCh) <= ProducerBuffer
    /\ resultCh \in Seq(Result) /\ Len(resultCh) <= ResultBuffer
    /\ worker \in [Tasks -> Worker \cup {NoWorker}]
    /\ known \subseteq Tasks
    /\ calls \in [Tasks -> Nat]
    /\ commands \in 0 .. MaxCommands /\ crashes \in 0 .. MaxCrashes

\* The counter that the drain check and the idle stop rely on counts exactly the
\* futures that have not reported plus the results nobody has received: it is
\* raised after the call and lowered before the result is applied, and never
\* underflows (u64).
InFlightExact == inFlight = Cardinality(Spawned) + Len(resultCh)

\* A task is executed by one future at a time: it is running, or reported, or in
\* the dispatcher's hand, never two of these, it is leased as long as it is, and
\* the runtime's copy of its retry counter is the stored one (so the push of a
\* retry does not overwrite a newer row).
OneExecution ==
    /\ \A i, j \in DOMAIN resultCh : resultCh[i].task = resultCh[j].task => i = j
    /\ Spawned \cap Reported = {} /\ Handling \cap (Spawned \cup Reported) = {}
    /\ Spawned \cup Reported \cup Handling \subseteq leased
    /\ \A t \in Spawned : worker[t].retries = row[t]
    /\ \A i \in DOMAIN resultCh : resultCh[i].retries = row[resultCh[i].task]
    /\ hand # NoHand => hand.retries = row[hand.task]

\* As long as no queue operation fails, a lease belongs to an execution that will
\* settle it: only a crash leaves a lease for recover_inflight.
NoOrphanLease ==
    "storage" \notin Faults /\ pc # "start"
        => leased = Spawned \cup Reported \cup Handling

\* Pause and Stop hold back the next call, also when a Resume is received after
\* the Stop, and whichever branch ended the intake.
HeldBack == [][calls' # calls => ~paused /\ ~stopping]_vars

\* A task is called at most once more than max_retries, and once more for each
\* crash; it is not declared dead before its retries are used up, nor settled
\* without a call.
AttemptBound ==
    \A t \in Tasks : /\ calls[t] <= MaxRetries + 1 + crashes
                     /\ t \in dlq => calls[t] > MaxRetries
                     /\ t \in acked => calls[t] > 0

\* When the dispatcher leaves its loop no future is left behind, no result is
\* unread, and every task the queue still holds is waiting in it for the next
\* run (unless the storage refused to settle it).
DrainedExit ==
    pc = "exited" =>
        /\ Spawned = {} /\ resultCh = <<>> /\ hand = NoHand
        /\ "storage" \in Faults \/ (leased = {} /\ Stored = queued)

\* stop_when_idle never cuts a crawl short: when the dispatcher decides that it
\* is idle every seed and every task a handler enqueued is settled.  Only what an
\* external producer has just sent may be cut off, and what was still in the
\* channel when the process died is gone.  (For instances in which nothing else
\* stops the dispatcher.)
IdleStopComplete ==
    stopping =>
        \A t \in known :
            \/ t \in acked \cup dlq
            \/ crashes > 0 /\ t \notin Stored
            \/ \E i \in DOMAIN producerCh :
                  producerCh[i] = t /\ t \in ExternalTasks

\* What the test shutdown_does_not_lose_pending_tasks asserts of a shutdown: a
\* task whose enqueue returned Ok is settled or still in the queue afterwards.
AcceptedSurvivesStop == pc = "exited" => known \subseteq Stored \cup acked \cup dlq

-----------------------------------------------------------------------------
(* Liveness.                                                               *)

StopSent == \E i \in DOMAIN control : control[i] = "Stop"

\* A Stop that was sent is obeyed, even if the broadcast overwrites it, and a
\* dispatcher that is stopping exits: shutdown() and join() return (unless the
\* process dies before).
StopTerminates == (StopSent \/ stopping) ~> pc \in {"exited", "start"}

\* Pause keeps result handling alive: what was in flight is drained.
PauseDrains == paused ~> (inFlight = 0 \/ ~paused)

\* A handler blocked on a full producer channel is released, without the help
\* of a timeout: the dispatcher never waits for the handler that waits for it.
BackpressureReleases ==
    \A t \in Tasks : worker[t].child # NoTask ~> worker[t].child = NoTask

\* A mailbox that is not paused or stopped settles every task it has accepted into
\* the queue, also across a crash.
EveryTaskSettled ==
    \A t \in Tasks : t \in Stored ~> (t \in acked \cup dlq \/ paused \/ stopping)

\* A finite crawl that has seen work ends by itself (unless the process dies).
IdleStopTerminates == sawWork ~> pc \in {"exited", "start"}

=============================================================================
