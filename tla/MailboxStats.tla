---------------------------- MODULE MailboxStats ----------------------------
(***************************************************************************)
(* The runtime's statistics (manager/mailbox.rs): the dispatcher and the   *)
(* spawned futures send events into one bounded channel, and a collector   *)
(* folds them into the snapshot that observers watch.  Every send is       *)
(* awaited, so a full channel holds up its sender.                         *)
(*                                                                         *)
(* The steps are those of Mailbox; a step that sends an event waits for    *)
(* room and makes the change and the send at once, since nobody reads the  *)
(* counter or the queue between the two.  The `Call` event of a finished   *)
(* future is a step of its own, before the result is sent.                 *)
(***************************************************************************)
EXTENDS Mailbox, SequencesExt

CONSTANT StatsBuffer   \* capacity of the stats channel (64 in the code)

ASSUME StatsAssumption == StatsBuffer \in Nat \ {0}

VARIABLES
    statsCh,   \* the events the collector has not received
    snapshot,  \* the collector's StatsSnapshot
    counted    \* the finished futures whose Call event is sent

statsVars   == <<statsCh, snapshot, counted>>
runtimeVars == <<vars, statsVars>>

-----------------------------------------------------------------------------
(* Events and what the collector makes of them.                            *)

Call(ok)        == [kind |-> IF ok THEN "success" ELSE "failure", n |-> 0]
TerminalFailure == [kind |-> "terminal", n |-> 0]
InFlight(n)     == [kind |-> "in_flight", n |-> n]

\* The default snapshot; last_latency is left out.
NoStats == [processed |-> 0, succeeded |-> 0, failed |-> 0, in_flight |-> 0,
            terminal_failures |-> 0]

Collected(s, e) ==
    CASE e.kind = "success" ->
            [s EXCEPT !.processed = @ + 1, !.succeeded = @ + 1]
      [] e.kind = "failure" ->
            [s EXCEPT !.processed = @ + 1, !.failed = @ + 1]
      [] e.kind = "terminal"  -> [s EXCEPT !.terminal_failures = @ + 1]
      [] e.kind = "in_flight" -> [s EXCEPT !.in_flight = e.n]

StatsInit == statsCh = <<>> /\ snapshot = NoStats /\ counted = {}

Send(e) == Len(statsCh) < StatsBuffer /\ statsCh' = Append(statsCh, e)

Collect ==
    /\ statsCh # <<>>
    /\ snapshot' = Collected(snapshot, Head(statsCh))
    /\ statsCh' = Tail(statsCh)
    /\ UNCHANGED <<vars, counted>>

-----------------------------------------------------------------------------
(* The steps of Mailbox with their events.                                 *)

\* Mutant: the counter is read before the result is taken off it.
ResultFiresStale ==
    ResultFires /\ Send(InFlight(inFlight)) /\ UNCHANGED <<snapshot, counted>>

CountedResultFires ==
    ResultFires /\ Send(InFlight(inFlight')) /\ UNCHANGED <<snapshot, counted>>

CountedDispatch ==
    Dispatch /\ Send(InFlight(inFlight')) /\ UNCHANGED <<snapshot, counted>>

\* A nack that succeeded is a terminal failure.
CountedHandleResult ==
    /\ HandleResult
    /\ IF dlq' # dlq THEN Send(TerminalFailure) ELSE UNCHANGED statsCh
    /\ UNCHANGED <<snapshot, counted>>

CountedDispatcher ==
    \/ CountedResultFires \/ CountedDispatch \/ CountedHandleResult
    \/ /\ \/ Recover \/ ControlPending \/ ControlFires \/ ProducerPending
          \/ ProducerFires \/ ResultPending \/ ReadyPending \/ ReadyFails
          \/ (\E t \in Tasks : PopTask(t)) \/ PopEmpty \/ PopFails
          \/ DispatchFails \/ DrainCheck
       /\ UNCHANGED statsVars

\* A future counts its call once the handler is done ...
SendCall(t) ==
    /\ worker[t].st = "done" /\ t \notin counted
    /\ Send(Call(worker[t].ok))
    /\ counted' = counted \cup {t}
    /\ UNCHANGED <<vars, snapshot>>

\* ... and only then reports the result.
CountedSendResult(t) ==
    /\ t \in counted /\ SendResult(t)
    /\ counted' = counted \ {t}
    /\ UNCHANGED <<statsCh, snapshot>>

\* The rest of the runtime sends no event, and a new process starts its own statistics.
CountedRestart == Restart /\ statsCh' = <<>> /\ snapshot' = NoStats /\ counted' = {}

OtherWorkerStep(t) ==
    \/ \E c \in Tasks : HandlerEnqueues(t, c)
    \/ HandlerEnqueued(t)
    \/ \E ok \in BOOLEAN : Complete(t, ok)
    \/ TimeOut(t) \/ Panic(t)

OwnerStep ==
    \/ \E t \in Tasks : ExternalEnqueue(t)
    \/ \E c \in Commands : SendCommand(c)
    \/ DropControl

CountedNext ==
    \/ CountedDispatcher \/ Collect \/ CountedRestart
    \/ \E t \in Tasks : SendCall(t) \/ CountedSendResult(t)
    \/ (OwnerStep \/ \E t \in Tasks : OtherWorkerStep(t)) /\ UNCHANGED statsVars

CountedSpec == Init /\ StatsInit /\ [][CountedNext]_runtimeVars

-----------------------------------------------------------------------------
(* What an observer of the snapshot may rely on.                           *)

\* How many events of a kind have not been collected, and the latest gauge.
OnTheWay(kind) == Cardinality({i \in DOMAIN statsCh : statsCh[i].kind = kind})

Gauges == {i \in DOMAIN statsCh : statsCh[i].kind = "in_flight"}

LatestGauge == IF Gauges = {} THEN snapshot.in_flight ELSE statsCh[Max(Gauges)].n

\* Every call of a handler, and those whose future has not said that it is over.
CallsMade  == UNION {{t} \X (1 .. calls[t]) : t \in Tasks}
Unfinished == Spawned \ counted

\* The snapshot plus the events on their way is the state of the runtime: the
\* latest gauge is the counter, a call is counted once its future has said so, and
\* terminal failures are the dead letters (unless the process died).  And in no
\* snapshot are more tasks dead than calls have failed, although the two events come
\* from different senders.
StatsExact ==
    crashes = 0 =>
        /\ LatestGauge = inFlight
        /\ snapshot.terminal_failures + OnTheWay("terminal") = Cardinality(dlq)
        /\ snapshot.processed + OnTheWay("success") + OnTheWay("failure")
              = Cardinality(CallsMade) - Cardinality(Unfinished)
        /\ snapshot.terminal_failures <= snapshot.failed

=============================================================================
