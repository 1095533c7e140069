------------------------- MODULE MailboxStatsProofs -------------------------
(***************************************************************************)
(* Theorems about the runtime's statistics, for any number of tasks and    *)
(* any size of the channels.  A step with its event is a step of the       *)
(* runtime (StatisticsChangeNothing), so IInv of MailboxProofs holds here. *)
(*                                                                         *)
(* StatsInv adds what the senders and the collector keep.  An event is in  *)
(* the channel or in the snapshot, so what is claimed of both together     *)
(* changes only where an event is sent.  That no snapshot shows a death    *)
(* before its failure is a claim about the order of two senders' events:   *)
(* it has to hold of every prefix of the channel (FailureFirst), and it is *)
(* kept because every dead task is one of those whose failure is counted   *)
(* (DoomedCounted).                                                        *)
(***************************************************************************)
EXTENDS MailboxStats, MailboxProofs

USE DEF queueVars, loopVars, controlVars, futureVars, envVars, restVars,
        dispatcherVars, Goto, ReadyEnabled, ProducerEnabled, Spawn, NewWorker,
        statsVars, runtimeVars, vars

-----------------------------------------------------------------------------
(* The invariant.                                                          *)

Event    == [kind : {"success", "failure", "terminal", "in_flight"}, n : Nat]
Snapshot == [processed : Nat, succeeded : Nat, failed : Nat, in_flight : Nat,
             terminal_failures : Nat]

\* The types, and a future is counted when its handler is done.
StatsTypeOK ==
    /\ statsCh \in Seq(Event) /\ snapshot \in Snapshot
    /\ counted \subseteq {t \in Tasks : worker[t].st = "done"}

\* The events of a kind among the first k of a sequence of them, and all of that kind.
OfKind(s, kind, k) == {i \in 1 .. k : s[i].kind = kind}
Among(s, kind, k)  == Cardinality(OfKind(s, kind, k))
Count(s, kind)     == Among(s, kind, Len(s))

\* However much of the channel is collected, no task is dead whose failure is not counted.
FailureFirst ==
    \A k \in 0 .. Len(statsCh) :
        snapshot.terminal_failures + Among(statsCh, "terminal", k)
            <= snapshot.failed + Among(statsCh, "failure", k)

\* The tasks whose handler has failed, counted and not retried.
FailedResults == {r.task : r \in {r \in ToSet(resultCh) : ~r.ok}}
FailedInHand  == IF pc = "handle" /\ ~hand.ok THEN {hand.task} ELSE {}
Doomed == dlq \cup {t \in counted : ~worker[t].ok} \cup FailedResults \cup FailedInHand

\* Until the process dies: the last gauge in the channel, or the one collected, is the
\* counter ...
GaugeExact ==
    \/ Gauges = {} /\ snapshot.in_flight = inFlight
    \/ \E i \in Gauges : statsCh[i].n = inFlight /\ \A j \in Gauges : j <= i

\* ... and what each kind of event counts, collected or not.
Terminals == snapshot.terminal_failures + Count(statsCh, "terminal")
Failures  == snapshot.failed + Count(statsCh, "failure")
Processed == snapshot.processed + Count(statsCh, "success") + Count(statsCh, "failure")

DeadCounted   == Terminals = Cardinality(dlq)
DoomedCounted == Cardinality(Doomed) <= Failures
CallsCounted  ==
    /\ IsFiniteSet(CallsMade)
    /\ Cardinality(CallsMade) = Processed + Cardinality(Unfinished)

Exact == GaugeExact /\ DeadCounted /\ DoomedCounted /\ CallsCounted /\ FailureFirst

\* The inductive invariant of the statistics, given that of the runtime.
StatsInv == StatsTypeOK /\ (crashes = 0 => Exact)

-----------------------------------------------------------------------------
(* Counting the events of a channel.                                       *)

\* The counts are numbers.
LEMMA CountTypes ==
    ASSUME NEW s \in Seq(Event), NEW kind
    PROVE  /\ Len(s) \in Nat /\ DOMAIN s = 1 .. Len(s)
           /\ \A k \in Nat : Among(s, kind, k) \in Nat /\ IsFiniteSet(OfKind(s, kind, k))
           /\ Among(s, kind, 0) = 0 /\ Count(s, kind) \in Nat
           /\ Count(s, kind) = Cardinality({i \in DOMAIN s : s[i].kind = kind})
<1>1. Len(s) \in Nat /\ DOMAIN s = 1 .. Len(s)
  BY LenProperties
<1>2. ASSUME NEW k \in Nat
      PROVE  Among(s, kind, k) \in Nat /\ IsFiniteSet(OfKind(s, kind, k))
  <2>1. IsFiniteSet(1 .. k)
    BY FS_Interval
  <2> QED
    BY <2>1, FS_Subset, FS_CardinalityType DEF Among, OfKind
<1>3. OfKind(s, kind, 0) = {}
  BY DEF OfKind
<1>4. Among(s, kind, 0) = 0
  BY <1>3, FS_EmptySet DEF Among
<1> QED
  BY <1>1, <1>2, <1>4 DEF Count, Among, OfKind

\* The number of events of a kind that one event is.
One(kind, e) == IF e.kind = kind THEN 1 ELSE 0

\* Sending an event leaves what is before it alone.
LEMMA EventSent ==
    ASSUME NEW s \in Seq(Event), NEW e \in Event, NEW kind
    PROVE  /\ Append(s, e) \in Seq(Event) /\ Len(Append(s, e)) = Len(s) + 1
           /\ \A k \in 0 .. Len(s) : Among(Append(s, e), kind, k) = Among(s, kind, k)
           /\ Count(Append(s, e), kind) = Count(s, kind) + One(kind, e)
<1> DEFINE r == Append(s, e)
<1>1. /\ r \in Seq(Event) /\ Len(r) = Len(s) + 1 /\ Len(s) \in Nat
      /\ DOMAIN s = 1 .. Len(s) /\ DOMAIN r = 1 .. Len(s) + 1
      /\ \A i \in DOMAIN s : r[i] = s[i]
      /\ r[Len(s) + 1] = e
  BY Appended
<1> HIDE DEF r
<1>2. ASSUME NEW k \in 0 .. Len(s) PROVE OfKind(r, kind, k) = OfKind(s, kind, k)
  BY <1>1 DEF OfKind
<1>3. Count(r, kind) = Count(s, kind) + One(kind, e)
  <2> DEFINE S == OfKind(s, kind, Len(s))
             T == OfKind(r, kind, Len(s) + 1)
  <2>1. IsFiniteSet(S) /\ Len(s) + 1 \notin S
    <3>1. IsFiniteSet(S)
      BY <1>1, CountTypes
    <3> QED
      BY <1>1, <3>1 DEF OfKind
  <2>2. T = IF e.kind = kind THEN S \cup {Len(s) + 1} ELSE S
    BY <1>1 DEF OfKind
  <2>3. Cardinality(T) = Cardinality(S) + One(kind, e)
    <3> HIDE DEF S, T
    <3>1. /\ Cardinality(S) \in Nat
          /\ Cardinality(S \cup {Len(s) + 1}) = Cardinality(S) + 1
      BY <2>1, FS_AddElement, FS_CardinalityType
    <3> QED
      BY <2>2, <3>1 DEF One
  <2> QED
    BY <1>1, <2>3 DEF Count, Among
<1> QED
  BY <1>1, <1>2, <1>3 DEF Among, r

\* Collecting the first event shifts what is after it.
LEMMA EventReceived ==
    ASSUME NEW s \in Seq(Event), s # <<>>, NEW kind
    PROVE  /\ Tail(s) \in Seq(Event) /\ Len(Tail(s)) = Len(s) - 1
           /\ Head(s) \in Event /\ Len(s) \in Nat
           /\ \A k \in 0 .. Len(s) - 1 :
                 Among(s, kind, k + 1) = Among(Tail(s), kind, k) + One(kind, Head(s))
           /\ Count(s, kind) = Count(Tail(s), kind) + One(kind, Head(s))
<1> DEFINE r == Tail(s)
<1>1. /\ Head(s) \in Event /\ Head(s) = s[1]
      /\ r \in Seq(Event) /\ Len(r) = Len(s) - 1 /\ Len(s) \in Nat \ {0}
      /\ DOMAIN r = 1 .. Len(s) - 1 /\ DOMAIN s = 1 .. Len(s)
      /\ \A i \in DOMAIN r : r[i] = s[i + 1]
  BY HeadTail
<1> HIDE DEF r
<1>2. ASSUME NEW k \in 0 .. Len(s) - 1
      PROVE  Among(s, kind, k + 1) = Among(r, kind, k) + One(kind, Head(s))
  <2> DEFINE S == OfKind(s, kind, k + 1)
             T == OfKind(r, kind, k)
             f == [i \in T |-> i + 1]
  <2>0. k \in Nat /\ k + 1 \in Nat
    BY <1>1
  <2>1. IsFiniteSet(S) /\ S \subseteq 1 .. k + 1
    <3>1. IsFiniteSet(S)
      BY <2>0, CountTypes
    <3> QED
      BY <3>1 DEF OfKind
  <2>2. IsFiniteSet(T) /\ T \subseteq 1 .. k
    <3>1. IsFiniteSet(T)
      BY <1>1, <2>0, CountTypes
    <3> QED
      BY <3>1 DEF OfKind
  <2>3. \A i \in 1 .. k : i \in T <=> i + 1 \in S
    BY <1>1 DEF OfKind
  <2>4. 1 \in S <=> Head(s).kind = kind
    BY <1>1 DEF OfKind
  <2> HIDE DEF S, T
  <2>5. f \in Bijection(T, S \ {1})
    <3>1. f \in [T -> S \ {1}]
      BY <2>2, <2>3
    <3>2. \A a, b \in T : f[a] = f[b] => a = b
      BY <2>2
    <3>3. \A j \in S \ {1} : j - 1 \in T /\ f[j - 1] = j
      BY <1>1, <2>1, <2>3
    <3>4. f \in Injection(T, S \ {1})
      BY <3>1, <3>2 DEF Injection, IsInjective
    <3>5. f \in Surjection(T, S \ {1})
      BY <3>1, <3>3 DEF Surjection
    <3> QED
      BY <3>4, <3>5 DEF Bijection
  <2>6. Cardinality(S \ {1}) = Cardinality(T) /\ Cardinality(T) \in Nat
    BY <2>2, <2>5, FS_Bijection, FS_CardinalityType DEF ExistsBijection
  <2>7. /\ Cardinality(S) \in Nat
        /\ Cardinality(S \ {1}) = IF 1 \in S THEN Cardinality(S) - 1 ELSE Cardinality(S)
    BY <2>1, FS_RemoveElement, FS_CardinalityType
  <2> QED
    BY <2>4, <2>6, <2>7 DEF One, Among, S, T
<1>3. Count(s, kind) = Count(r, kind) + One(kind, Head(s))
  <2>1. Len(s) - 1 \in 0 .. Len(s) - 1 /\ Len(s) - 1 + 1 = Len(s)
    BY <1>1
  <2> QED
    BY <1>1, <1>2, <2>1 DEF Count
<1> QED
  BY <1>1, <1>2, <1>3 DEF r

\* The observer's latest gauge is the counter.
LEMMA GaugeIsLatest ==
    ASSUME statsCh \in Seq(Event), GaugeExact
    PROVE  LatestGauge = inFlight
<1>1. DOMAIN statsCh \subseteq Nat
  BY CountTypes
<1>2. ASSUME NEW i \in Gauges, \A j \in Gauges : j <= i PROVE Max(Gauges) = i
  <2>1. \A j \in Gauges : j \in Nat
    BY <1>1 DEF Gauges
  <2> QED
    BY <1>2, <2>1 DEF Max
<1> QED
  BY <1>2 DEF GaugeExact, LatestGauge

\* A gauge that is sent is the latest; another event leaves the latest as it is.
LEMMA GaugeSent ==
    ASSUME statsCh \in Seq(Event), NEW e \in Event, statsCh' = Append(statsCh, e),
           snapshot' = snapshot,
           \/ e.kind = "in_flight" /\ e.n = inFlight'
           \/ e.kind # "in_flight" /\ inFlight' = inFlight /\ GaugeExact
    PROVE  GaugeExact'
<1>1. /\ Len(statsCh) \in Nat
      /\ DOMAIN statsCh = 1 .. Len(statsCh) /\ DOMAIN statsCh' = 1 .. Len(statsCh) + 1
      /\ \A i \in DOMAIN statsCh : statsCh'[i] = statsCh[i]
      /\ statsCh'[Len(statsCh) + 1] = e
  BY Appended
<1>2. CASE e.kind = "in_flight" /\ e.n = inFlight'
  <2>1. Len(statsCh) + 1 \in Gauges' /\ \A i \in Gauges' : i <= Len(statsCh) + 1
    BY <1>1, <1>2 DEF Gauges
  <2> QED
    BY <1>1, <1>2, <2>1 DEF GaugeExact
<1>3. CASE e.kind # "in_flight" /\ inFlight' = inFlight /\ GaugeExact
  <2>1. Gauges' = Gauges
    BY <1>1, <1>3 DEF Gauges
  <2>2. \A i \in Gauges : statsCh'[i] = statsCh[i]
    BY <1>1 DEF Gauges
  <2> QED
    BY <1>3, <2>1, <2>2 DEF GaugeExact
<1> QED
  BY <1>2, <1>3

\* Collecting an event moves the latest gauge, or makes it the collected one.
LEMMA GaugeReceived ==
    ASSUME StatsTypeOK, GaugeExact, Collect
    PROVE  GaugeExact'
<1>1. /\ Head(statsCh) \in Event /\ Head(statsCh) = statsCh[1]
      /\ Len(statsCh) \in Nat \ {0}
      /\ DOMAIN statsCh' = 1 .. Len(statsCh) - 1 /\ DOMAIN statsCh = 1 .. Len(statsCh)
      /\ \A i \in DOMAIN statsCh' : statsCh'[i] = statsCh[i + 1]
  BY HeadTail DEF Collect, StatsTypeOK
<1>2. \A i \in 1 .. Len(statsCh) - 1 : i \in Gauges' <=> i + 1 \in Gauges
  BY <1>1 DEF Gauges
<1>3. Gauges \subseteq 1 .. Len(statsCh) /\ Gauges' \subseteq 1 .. Len(statsCh) - 1
  BY <1>1 DEF Gauges
<1>4. inFlight' = inFlight
  BY DEF Collect, vars
<1>5. CASE Gauges = {}
  <2>1. Head(statsCh).kind # "in_flight"
    BY <1>1, <1>5 DEF Gauges
  <2>2. snapshot'.in_flight = snapshot.in_flight
    BY <1>1, <2>1 DEF Collect, Collected, Event, StatsTypeOK, Snapshot
  <2>3. Gauges' = {}
    BY <1>1, <1>2, <1>3, <1>5
  <2> QED
    BY <1>4, <1>5, <2>2, <2>3 DEF GaugeExact
<1>6. ASSUME NEW i \in Gauges, statsCh[i].n = inFlight, \A j \in Gauges : j <= i
      PROVE  GaugeExact'
  <2>1. CASE i = 1
    <3>1. Head(statsCh).kind = "in_flight" /\ Head(statsCh).n = inFlight
      BY <1>1, <1>6, <2>1 DEF Gauges
    <3>2. snapshot'.in_flight = inFlight
      BY <3>1 DEF Collect, Collected, StatsTypeOK, Snapshot
    <3>3. Gauges' = {}
      BY <1>1, <1>2, <1>3, <1>6, <2>1
    <3> QED
      BY <1>4, <3>2, <3>3 DEF GaugeExact
  <2>2. CASE i # 1
    <3>1. i - 1 \in Gauges' /\ statsCh'[i - 1].n = inFlight
      BY <1>1, <1>2, <1>3, <1>6, <2>2
    <3>2. \A j \in Gauges' : j <= i - 1
      BY <1>1, <1>2, <1>3, <1>6
    <3> QED
      BY <1>4, <3>1, <3>2 DEF GaugeExact
  <2> QED
    BY <2>1, <2>2
<1> QED
  BY <1>5, <1>6 DEF GaugeExact

\* What collecting an event does to the snapshot.
LEMMA EventCollected ==
    ASSUME NEW s \in Snapshot, NEW e \in Event
    PROVE  /\ Collected(s, e) \in Snapshot
           /\ Collected(s, e).processed = s.processed + One("success", e) + One("failure", e)
           /\ Collected(s, e).failed = s.failed + One("failure", e)
           /\ Collected(s, e).terminal_failures = s.terminal_failures + One("terminal", e)
<1>0. PICK p \in Nat, q \in Nat, f \in Nat, g \in Nat, d \in Nat :
          s = [processed |-> p, succeeded |-> q, failed |-> f, in_flight |-> g,
               terminal_failures |-> d]
  BY DEF Snapshot
<1>1. CASE e.kind = "success"
  <2>1. Collected(s, e) = [processed |-> p + 1, succeeded |-> q + 1, failed |-> f,
                           in_flight |-> g, terminal_failures |-> d]
    BY <1>0, <1>1 DEF Collected
  <2> QED
    BY <1>0, <1>1, <2>1 DEF Snapshot, One
<1>2. CASE e.kind = "failure"
  <2>1. Collected(s, e) = [processed |-> p + 1, succeeded |-> q, failed |-> f + 1,
                           in_flight |-> g, terminal_failures |-> d]
    BY <1>0, <1>2 DEF Collected
  <2> QED
    BY <1>0, <1>2, <2>1 DEF Snapshot, One
<1>3. CASE e.kind = "terminal"
  <2>1. Collected(s, e) = [processed |-> p, succeeded |-> q, failed |-> f,
                           in_flight |-> g, terminal_failures |-> d + 1]
    BY <1>0, <1>3 DEF Collected
  <2> QED
    BY <1>0, <1>3, <2>1 DEF Snapshot, One
<1>4. CASE e.kind = "in_flight"
  <2>1. Collected(s, e) = [processed |-> p, succeeded |-> q, failed |-> f,
                           in_flight |-> e.n, terminal_failures |-> d]
    BY <1>0, <1>4 DEF Collected
  <2>2. e.n \in Nat
    BY DEF Event
  <2> QED
    BY <1>0, <1>4, <2>1, <2>2 DEF Snapshot, One
<1> QED
  BY <1>1, <1>2, <1>3, <1>4 DEF Event

\* The collector moves an event from the channel to the snapshot, and no total changes.
LEMMA TotalsCollected ==
    ASSUME StatsTypeOK, Collect
    PROVE  /\ snapshot' \in Snapshot /\ statsCh' \in Seq(Event)
           /\ UNCHANGED <<Terminals, Failures, Processed>>
<1>1. PICK s \in Seq(Event), e \in Event :
          /\ s = statsCh /\ s # <<>> /\ statsCh' = Tail(s) /\ e = Head(s)
          /\ snapshot \in Snapshot /\ snapshot' = Collected(snapshot, e)
  BY EventReceived DEF StatsTypeOK, Collect
<1>2. /\ snapshot' \in Snapshot
      /\ snapshot'.processed = snapshot.processed + One("success", e) + One("failure", e)
      /\ snapshot'.failed = snapshot.failed + One("failure", e)
      /\ snapshot'.terminal_failures = snapshot.terminal_failures + One("terminal", e)
  BY <1>1, EventCollected
<1>3. Tail(s) \in Seq(Event)
  BY <1>1, EventReceived
<1>4. ASSUME NEW kind
      PROVE  /\ Count(s, kind) = Count(Tail(s), kind) + One(kind, e)
             /\ Count(Tail(s), kind) \in Nat /\ One(kind, e) \in Nat
  BY <1>1, <1>3, EventReceived, CountTypes DEF One
<1>5. snapshot.processed \in Nat /\ snapshot.failed \in Nat
      /\ snapshot.terminal_failures \in Nat
  BY <1>1 DEF Snapshot
<1>6. /\ Count(statsCh, "terminal") = Count(statsCh', "terminal") + One("terminal", e)
      /\ Count(statsCh, "failure") = Count(statsCh', "failure") + One("failure", e)
      /\ Count(statsCh, "success") = Count(statsCh', "success") + One("success", e)
      /\ Count(statsCh', "terminal") \in Nat /\ One("terminal", e) \in Nat
      /\ Count(statsCh', "failure") \in Nat /\ One("failure", e) \in Nat
      /\ Count(statsCh', "success") \in Nat /\ One("success", e) \in Nat
  BY <1>1, <1>4
<1>7. snapshot' \in Snapshot /\ statsCh' \in Seq(Event)
  BY <1>1, <1>2, <1>3
<1>8. /\ snapshot'.terminal_failures + Count(statsCh', "terminal")
            = snapshot.terminal_failures + Count(statsCh, "terminal")
      /\ snapshot'.failed + Count(statsCh', "failure")
            = snapshot.failed + Count(statsCh, "failure")
  BY <1>2, <1>5, <1>6
<1>9. snapshot'.processed + Count(statsCh', "success") + Count(statsCh', "failure")
         = snapshot.processed + Count(statsCh, "success") + Count(statsCh, "failure")
  BY <1>2, <1>5, <1>6
<1> QED
  BY <1>7, <1>8, <1>9 DEF Terminals, Failures, Processed

-----------------------------------------------------------------------------
(* The steps.                                                              *)

\* The steps that send nothing and that no statistic is about.
Unheard ==
    /\ UNCHANGED <<statsVars, dlq, calls, inFlight, crashes, resultCh>>
    /\ Spawned' = Spawned /\ FailedInHand' = FailedInHand
    /\ \A t \in Tasks : worker[t].st = "done" => worker'[t] = worker[t]

\* Every step is one of them, or sends an event, collects one, moves a counted result, or
\* restarts.
LEMMA StatsCases ==
    ASSUME IInv, [CountedNext]_runtimeVars
    PROVE  \/ Unheard \/ CountedResultFires \/ CountedDispatch \/ CountedHandleResult
           \/ Collect \/ CountedRestart
           \/ \E t \in Tasks : SendCall(t) \/ CountedSendResult(t)
<1>0. worker \in [Tasks -> Worker \cup {NoWorker}]
  BY DEF IInv, TypeOK
<1>1. CASE CountedDispatcher
  <2>1. CASE /\ \/ Recover \/ ControlPending \/ ControlFires \/ ProducerPending
                \/ ProducerFires \/ ResultPending \/ ReadyPending \/ ReadyFails
                \/ (\E t \in Tasks : PopTask(t)) \/ PopEmpty \/ PopFails
                \/ DispatchFails \/ DrainCheck
             /\ UNCHANGED statsVars
    <3>1. /\ UNCHANGED <<dlq, calls, inFlight, crashes, resultCh, worker>>
          /\ pc # "handle" /\ pc' # "handle"
      BY <2>1 DEF Recover, Try, RecoverInflight, ControlPending, ControlFires,
                  ProducerPending, ProducerFires, Push, ResultPending, ReadyPending,
                  ReadyFails, PopTask, Pop, PopEmpty, PopFails, DispatchFails, DrainCheck
    <3> QED
      BY <2>1, <3>1 DEF Unheard, Spawned, FailedInHand
  <2> QED
    BY <1>1, <2>1 DEF CountedDispatcher
<1>2. ASSUME NEW t \in Tasks, OtherWorkerStep(t), UNCHANGED statsVars PROVE Unheard
  <2>1. /\ UNCHANGED <<dlq, calls, inFlight, crashes, resultCh, pc, hand>>
        /\ worker[t].st = "running" /\ worker'[t].st # "none"
        /\ \A u \in Tasks \ {t} : worker'[u] = worker[u]
    BY <1>0, <1>2 DEF OtherWorkerStep, HandlerEnqueues, HandlerEnqueued, Complete,
                      TimeOut, Panic, Worker, NoWorker
  <2> QED
    BY <1>2, <2>1 DEF Unheard, Spawned, FailedInHand
<1>3. CASE OwnerStep /\ UNCHANGED statsVars
  <2>1. UNCHANGED <<dlq, calls, inFlight, crashes, resultCh, pc, hand, worker>>
    BY <1>3 DEF OwnerStep, ExternalEnqueue, SendCommand, DropControl
  <2> QED
    BY <1>3, <2>1 DEF Unheard, Spawned, FailedInHand
<1>4. CASE UNCHANGED runtimeVars
  BY <1>4 DEF Unheard, Spawned, FailedInHand
<1> QED
  BY <1>1, <1>2, <1>3, <1>4 DEF CountedNext

\* With its statistics the runtime is the runtime: the events change none of its steps.
LEMMA CountedIsRuntime == [CountedNext]_runtimeVars => [Next]_vars
BY DEF CountedNext, CountedDispatcher, CountedResultFires, CountedDispatch,
       CountedHandleResult, Collect, CountedRestart, SendCall, CountedSendResult,
       OwnerStep, OtherWorkerStep, Next, Dispatcher, WorkerStep, Environment

\* What is sent, and by whom: the events are well-formed and counted once.
LEMMA EventTypes ==
    /\ \A ok : Call(ok) \in Event
    /\ TerminalFailure \in Event /\ \A n \in Nat : InFlight(n) \in Event
BY DEF Call, TerminalFailure, InFlight, Event

\* A step preserves the types.
LEMMA StatsTypeInv ==
    ASSUME IInv, IInv', StatsTypeOK, [CountedNext]_runtimeVars
    PROVE  StatsTypeOK'
<1> USE DEF StatsTypeOK
<1>0. /\ worker \in [Tasks -> Worker \cup {NoWorker}] /\ inFlight' \in Nat
      /\ \A e \in Event : Append(statsCh, e) \in Seq(Event)
  BY Appended DEF IInv, TypeOK
<1>1. CASE Unheard
  BY <1>1 DEF Unheard
<1>2. CASE CountedResultFires
  <2>1. statsCh' \in Seq(Event)
    BY <1>0, <1>2, EventTypes DEF CountedResultFires, Send
  <2> QED
    BY <1>2, <2>1 DEF CountedResultFires, ResultFires
<1>3. CASE CountedDispatch
  <2>1. statsCh' \in Seq(Event)
    BY <1>0, <1>3, EventTypes DEF CountedDispatch, Send
  <2>2. hand.task \in Tasks /\ hand.task \notin Spawned
    BY <1>3, HandTask DEF CountedDispatch, Dispatch, IInv, OneExecution
  <2>3. \A t \in counted : worker'[t] = worker[t]
    BY <1>0, <1>3, <2>2 DEF CountedDispatch, Dispatch, Spawned
  <2> QED
    BY <1>3, <2>1, <2>3 DEF CountedDispatch
<1>4. CASE CountedHandleResult
  <2>1. statsCh' \in Seq(Event)
    BY <1>0, <1>4, EventTypes DEF CountedHandleResult, Send
  <2> QED
    BY <1>4, <2>1 DEF CountedHandleResult, HandleResult
<1>5. CASE Collect
  BY <1>5, TotalsCollected DEF Collect
<1>6. CASE CountedRestart
  <2>1. NoStats \in Snapshot
    BY DEF NoStats, Snapshot
  <2>2. <<>> \in Seq(Event)
    BY EmptySeq
  <2> QED
    BY <1>6, <2>1, <2>2 DEF CountedRestart
<1>7. ASSUME NEW t \in Tasks, SendCall(t) PROVE StatsTypeOK'
  <2>1. statsCh' \in Seq(Event)
    BY <1>0, <1>7, EventTypes DEF SendCall, Send
  <2> QED
    BY <1>7, <2>1 DEF SendCall
<1>8. ASSUME NEW t \in Tasks, CountedSendResult(t) PROVE StatsTypeOK'
  BY <1>0, <1>8 DEF CountedSendResult, SendResult
<1> QED
  BY <1>1, <1>2, <1>3, <1>4, <1>5, <1>6, <1>7, <1>8, StatsCases

\* The process goes on: no statistic survives a restart, and without one no crash is
\* counted.
LEMMA NoRestart ==
    ASSUME IInv, [CountedNext]_runtimeVars, crashes' = 0
    PROVE  crashes = 0 /\ ~CountedRestart
<1>1. crashes \in Nat
  BY MailboxAssumption DEF IInv, TypeOK
<1>2. ~CountedRestart
  BY <1>1 DEF CountedRestart, Restart
<1> QED
  BY <1>2, StatsCases DEF Unheard, CountedResultFires, ResultFires, CountedDispatch,
       Dispatch, CountedHandleResult, HandleResult, Collect, SendCall,
       CountedSendResult, SendResult

\* A step keeps the latest gauge at the counter.
LEMMA GaugeInv ==
    ASSUME IInv, IInv', StatsTypeOK, GaugeExact, [CountedNext]_runtimeVars, ~CountedRestart
    PROVE  GaugeExact'
<1>0. statsCh \in Seq(Event) /\ inFlight' \in Nat
  BY DEF IInv, TypeOK, StatsTypeOK
<1>1. CASE statsCh' = statsCh /\ snapshot' = snapshot /\ inFlight' = inFlight
  BY <1>1 DEF GaugeExact, Gauges
<1>2. CASE CountedResultFires \/ CountedDispatch
  <2>1. PICK e \in Event : e = InFlight(inFlight') /\ statsCh' = Append(statsCh, e)
    BY <1>0, <1>2, EventTypes DEF CountedResultFires, CountedDispatch, Send
  <2>2. e.kind = "in_flight" /\ e.n = inFlight' /\ snapshot' = snapshot
    BY <1>2, <2>1 DEF InFlight, CountedResultFires, CountedDispatch
  <2> QED
    BY <1>0, <2>1, <2>2, GaugeSent
<1>3. ASSUME NEW e \in Event, e.kind # "in_flight", statsCh' = Append(statsCh, e),
             snapshot' = snapshot, inFlight' = inFlight
      PROVE  GaugeExact'
  BY <1>0, <1>3, GaugeSent
<1>4. CASE CountedHandleResult
  <2>1. snapshot' = snapshot /\ inFlight' = inFlight
    BY <1>4 DEF CountedHandleResult, HandleResult
  <2>2. TerminalFailure \in Event /\ TerminalFailure.kind # "in_flight"
    BY EventTypes DEF TerminalFailure
  <2>3. statsCh' = statsCh \/ statsCh' = Append(statsCh, TerminalFailure)
    BY <1>4 DEF CountedHandleResult, Send
  <2> QED
    BY <1>1, <1>3, <2>1, <2>2, <2>3
<1>5. ASSUME NEW t \in Tasks, SendCall(t) PROVE GaugeExact'
  <2>1. PICK e \in Event : e = Call(worker[t].ok) /\ statsCh' = Append(statsCh, e)
    BY <1>5, EventTypes DEF SendCall, Send
  <2>2. e.kind # "in_flight" /\ snapshot' = snapshot /\ inFlight' = inFlight
    BY <1>5, <2>1 DEF Call, SendCall
  <2> QED
    BY <1>3, <2>1, <2>2
<1>6. CASE Collect
  BY <1>6, GaugeReceived
<1>7. CASE Unheard
  BY <1>1, <1>7 DEF Unheard
<1>8. ASSUME NEW t \in Tasks, CountedSendResult(t) PROVE GaugeExact'
  BY <1>1, <1>8 DEF CountedSendResult, SendResult
<1> QED
  BY <1>2, <1>4, <1>5, <1>6, <1>7, <1>8, StatsCases

\* The totals are numbers.
LEMMA TotalTypes ==
    ASSUME StatsTypeOK
    PROVE  Terminals \in Nat /\ Failures \in Nat /\ Processed \in Nat
<1>1. /\ snapshot.processed \in Nat /\ snapshot.failed \in Nat
      /\ snapshot.terminal_failures \in Nat
  BY DEF StatsTypeOK, Snapshot
<1>2. \A kind : Count(statsCh, kind) \in Nat
  BY CountTypes DEF StatsTypeOK
<1> QED
  BY <1>1, <1>2 DEF Terminals, Failures, Processed

\* An event adds one to the total of its kind.
LEMMA TotalsSent ==
    ASSUME StatsTypeOK, NEW e \in Event, Send(e), snapshot' = snapshot
    PROVE  /\ Terminals' = Terminals + One("terminal", e)
           /\ Failures' = Failures + One("failure", e)
           /\ Processed' = Processed + One("success", e) + One("failure", e)
<1>1. PICK s \in Seq(Event) : s = statsCh /\ statsCh' = Append(s, e)
  BY DEF StatsTypeOK, Send
<1>2. /\ snapshot.processed \in Nat /\ snapshot.failed \in Nat
      /\ snapshot.terminal_failures \in Nat
  BY DEF StatsTypeOK, Snapshot
<1>3. ASSUME NEW kind
      PROVE  /\ Count(Append(s, e), kind) = Count(s, kind) + One(kind, e)
             /\ Count(s, kind) \in Nat /\ One(kind, e) \in Nat
  BY EventSent, CountTypes DEF One
<1>4. /\ Count(statsCh', "terminal") = Count(statsCh, "terminal") + One("terminal", e)
      /\ Count(statsCh', "failure") = Count(statsCh, "failure") + One("failure", e)
      /\ Count(statsCh', "success") = Count(statsCh, "success") + One("success", e)
      /\ Count(statsCh, "terminal") \in Nat /\ One("terminal", e) \in Nat
      /\ Count(statsCh, "failure") \in Nat /\ One("failure", e) \in Nat
      /\ Count(statsCh, "success") \in Nat /\ One("success", e) \in Nat
  BY <1>1, <1>3
<1>5. Terminals' = Terminals + One("terminal", e)
  BY <1>2, <1>4 DEF Terminals
<1>6. Failures' = Failures + One("failure", e)
  BY <1>2, <1>4 DEF Failures
<1>7. Processed' = Processed + One("success", e) + One("failure", e)
  BY <1>2, <1>4 DEF Processed
<1> QED
  BY <1>5, <1>6, <1>7

\* A call counts one, and a failure if it is one.
LEMMA SendTotals ==
    ASSUME StatsTypeOK, NEW t \in Tasks, SendCall(t)
    PROVE  /\ UNCHANGED <<Terminals, dlq>>
           /\ Failures' = IF worker[t].ok THEN Failures ELSE Failures + 1
           /\ Processed' = Processed + 1
<1>0. Terminals \in Nat /\ Failures \in Nat /\ Processed \in Nat
  BY TotalTypes
<1>1. PICK e \in Event : e = Call(worker[t].ok) /\ Send(e) /\ snapshot' = snapshot
  BY EventTypes DEF SendCall
<1>2. /\ One("terminal", e) = 0
      /\ One("failure", e) = IF worker[t].ok THEN 0 ELSE 1
      /\ One("success", e) = IF worker[t].ok THEN 1 ELSE 0
  BY <1>1 DEF One, Call
<1>3. dlq' = dlq
  BY DEF SendCall
<1> QED
  BY <1>0, <1>1, <1>2, <1>3, TotalsSent

\* Which step adds to which total.
LEMMA TotalsStep ==
    ASSUME IInv, IInv', StatsTypeOK, [CountedNext]_runtimeVars, ~CountedRestart
    PROVE  \/ /\ UNCHANGED <<Terminals, Failures, Processed, dlq>>
              /\ \/ Unheard \/ Collect \/ CountedResultFires \/ CountedDispatch
                 \/ \E t \in Tasks : CountedSendResult(t)
           \/ /\ CountedHandleResult /\ UNCHANGED <<Failures, Processed>>
              /\ Terminals' = IF dlq' # dlq THEN Terminals + 1 ELSE Terminals
           \/ \E t \in Tasks :
                 /\ SendCall(t) /\ UNCHANGED <<Terminals, dlq>>
                 /\ Failures' = IF worker[t].ok THEN Failures ELSE Failures + 1
                 /\ Processed' = Processed + 1
<1>0. inFlight' \in Nat /\ Terminals \in Nat /\ Failures \in Nat /\ Processed \in Nat
  BY TotalTypes DEF IInv, TypeOK
<1>1. CASE Unheard \/ \E t \in Tasks : CountedSendResult(t)
  BY <1>1 DEF Unheard, CountedSendResult, SendResult, Terminals, Failures, Processed
<1>2. CASE Collect
  BY <1>2, TotalsCollected DEF Collect
<1>3. CASE CountedResultFires \/ CountedDispatch
  <2>1. PICK e \in Event : e = InFlight(inFlight') /\ Send(e) /\ snapshot' = snapshot
    BY <1>0, <1>3, EventTypes DEF CountedResultFires, CountedDispatch
  <2>2. One("terminal", e) = 0 /\ One("failure", e) = 0 /\ One("success", e) = 0
    BY <2>1 DEF One, InFlight
  <2>3. UNCHANGED <<Terminals, Failures, Processed>>
    BY <1>0, <2>1, <2>2, TotalsSent
  <2>4. dlq' = dlq
    BY <1>3 DEF CountedResultFires, ResultFires, CountedDispatch, Dispatch, Set
  <2> QED
    BY <1>3, <2>3, <2>4
<1>4. CASE CountedHandleResult
  <2>1. CASE dlq' # dlq
    <3>1. PICK e \in Event : e = TerminalFailure /\ Send(e) /\ snapshot' = snapshot
      BY <1>4, <2>1, EventTypes DEF CountedHandleResult
    <3>2. One("terminal", e) = 1 /\ One("failure", e) = 0 /\ One("success", e) = 0
      BY <3>1 DEF One, TerminalFailure
    <3> QED
      BY <1>0, <1>4, <2>1, <3>1, <3>2, TotalsSent
  <2>2. CASE dlq' = dlq
    BY <1>4, <2>2 DEF CountedHandleResult, Terminals, Failures, Processed
  <2> QED
    BY <2>1, <2>2
<1> QED
  BY <1>1, <1>2, <1>3, <1>4, SendTotals, StatsCases

-----------------------------------------------------------------------------
(* Dead and doomed tasks.                                                  *)

\* A result leaves the queue's dead letters alone, or adds the task that ran out of
\* retries, which was leased and so not among them.
LEMMA OneMoreDead ==
    ASSUME IInv, CountedHandleResult
    PROVE  \/ dlq' = dlq
           \/ /\ dlq' = dlq \cup {hand.task} /\ hand.task \in Tasks \ dlq
              /\ ~hand.ok
<1>1. HandleResult /\ hand.task \in Tasks /\ hand.task \in leased
  BY HandTask DEF CountedHandleResult, HandleResult, IInv, OneExecution
<1>2. hand.task \notin dlq
  BY <1>1 DEF IInv, OneFate
<1> QED
  BY <1>1, <1>2 DEF HandleResult, Try, ApplyResult, Ack, Push, Nack

\* Every dead letter has its terminal failure.
LEMMA DeadInv ==
    ASSUME IInv, IInv', StatsTypeOK, DeadCounted, [CountedNext]_runtimeVars,
           ~CountedRestart
    PROVE  DeadCounted'
<1>1. CASE UNCHANGED <<Terminals, dlq>>
  BY <1>1 DEF DeadCounted
<1>2. CASE /\ CountedHandleResult
           /\ Terminals' = IF dlq' # dlq THEN Terminals + 1 ELSE Terminals
  <2>1. IsFiniteSet(dlq)
    BY TaskQueueAssumption, FS_Subset DEF IInv, TypeOK, QueueTypeOK
  <2>2. CASE dlq' = dlq
    BY <1>2, <2>2 DEF DeadCounted
  <2>3. CASE dlq' = dlq \cup {hand.task} /\ hand.task \in Tasks \ dlq
    <3>1. Cardinality(dlq \cup {hand.task}) = Cardinality(dlq) + 1 /\ dlq' # dlq
      BY <2>1, <2>3, FS_AddElement
    <3> QED
      BY <1>2, <2>3, <3>1 DEF DeadCounted
  <2> QED
    BY <1>2, <2>2, <2>3, OneMoreDead
<1> QED
  BY <1>1, <1>2, TotalsStep

\* Receiving takes the first result out of the channel and into the hand.
LEMMA ReceivedOne ==
    ASSUME IInv, ResultFires
    PROVE  /\ \A r \in ToSet(resultCh) : r = hand' \/ r \in ToSet(resultCh')
           /\ hand' \in ToSet(resultCh) /\ ToSet(resultCh') \subseteq ToSet(resultCh)
<1>1. /\ resultCh \in Seq(Result) /\ resultCh # <<>>
      /\ hand' = Head(resultCh) /\ resultCh' = Tail(resultCh)
  BY DEF ResultFires, IInv, TypeOK
<1>2. /\ hand' = resultCh[1] /\ DOMAIN resultCh' = 1 .. Len(resultCh) - 1
      /\ DOMAIN resultCh = 1 .. Len(resultCh) /\ Len(resultCh) \in Nat \ {0}
      /\ \A i \in DOMAIN resultCh' : resultCh'[i] = resultCh[i + 1]
  BY <1>1, HeadTail
<1>3. ASSUME NEW i \in DOMAIN resultCh
      PROVE  resultCh[i] = hand' \/ resultCh[i] \in ToSet(resultCh')
  <2>1. CASE i = 1
    BY <1>2, <2>1
  <2>2. CASE i # 1
    <3>1. i - 1 \in DOMAIN resultCh' /\ resultCh'[i - 1] = resultCh[i]
      BY <1>2, <2>2
    <3> QED
      BY <3>1 DEF ToSet
  <2> QED
    BY <2>1, <2>2
<1>4. \A i \in DOMAIN resultCh' : i + 1 \in DOMAIN resultCh
  BY <1>2
<1>5. 1 \in DOMAIN resultCh
  BY <1>2
<1> QED
  BY <1>2, <1>3, <1>4, <1>5 DEF ToSet

\* Reporting adds a result to the channel.
LEMMA ReportedOne ==
    ASSUME IInv, NEW t \in Tasks, SendResult(t)
    PROVE  ToSet(resultCh') =
             ToSet(resultCh)
               \cup {[task |-> t, retries |-> worker[t].retries, ok |-> worker[t].ok]}
<1>1. PICK r \in Result :
          /\ r = [task |-> t, retries |-> worker[t].retries, ok |-> worker[t].ok]
          /\ resultCh' = Append(resultCh, r)
  BY DEF SendResult, IInv, TypeOK, Worker, NoWorker, Result
<1>2. /\ resultCh \in Seq(Result) /\ DOMAIN resultCh' = 1 .. Len(resultCh) + 1
      /\ Len(resultCh) \in Nat /\ DOMAIN resultCh = 1 .. Len(resultCh)
      /\ \A i \in DOMAIN resultCh : resultCh'[i] = resultCh[i]
      /\ resultCh'[Len(resultCh) + 1] = r
  BY <1>1, Appended DEF IInv, TypeOK
<1>3. DOMAIN resultCh' = DOMAIN resultCh \cup {Len(resultCh) + 1}
  BY <1>2
<1> QED
  BY <1>1, <1>2, <1>3 DEF ToSet

\* No task becomes doomed but by a failure that is counted with it.
LEMMA DoomedStep ==
    ASSUME IInv, StatsTypeOK, [CountedNext]_runtimeVars, ~CountedRestart
    PROVE  \/ Doomed' \subseteq Doomed
           \/ \E t \in Tasks : /\ SendCall(t) /\ ~worker[t].ok
                               /\ Doomed' \subseteq Doomed \cup {t}
<1> DEFINE FailedCalls == {t \in counted : ~worker[t].ok}
<1>0. /\ worker \in [Tasks -> Worker \cup {NoWorker}]
      /\ counted \subseteq {t \in Tasks : worker[t].st = "done"}
  BY DEF IInv, TypeOK, StatsTypeOK
<1>1. CASE Unheard
  <2>1. FailedCalls' = FailedCalls
    BY <1>0, <1>1 DEF Unheard
  <2> QED
    BY <1>1, <2>1 DEF Unheard, Doomed, FailedResults
<1>2. CASE CountedResultFires
  <2>1. ResultFires /\ UNCHANGED <<counted, worker, dlq>>
    BY <1>2 DEF CountedResultFires, ResultFires
  <2>2. FailedResults' \subseteq FailedResults /\ FailedInHand' \subseteq FailedResults
    BY <2>1, ReceivedOne DEF FailedResults, FailedInHand
  <2> QED
    BY <2>1, <2>2 DEF Doomed
<1>3. CASE CountedDispatch
  <2>1. hand.task \in Tasks /\ hand.task \notin Spawned
    BY <1>3, HandTask DEF CountedDispatch, Dispatch, IInv, OneExecution
  <2>2. /\ worker' = [worker EXCEPT ![hand.task] = NewWorker(hand.retries)]
        /\ UNCHANGED <<dlq, resultCh, counted>> /\ pc' = "check"
    BY <1>3 DEF CountedDispatch, Dispatch, Set
  <2>3. FailedCalls' \subseteq FailedCalls
    BY <1>0, <2>1, <2>2 DEF Spawned
  <2>4. FailedInHand' = {} /\ FailedResults' = FailedResults
    BY <2>2 DEF FailedInHand, FailedResults
  <2> QED
    BY <2>2, <2>3, <2>4 DEF Doomed
<1>4. CASE CountedHandleResult
  <2>1. UNCHANGED <<counted, worker, resultCh>> /\ pc = "handle" /\ pc' = "check"
    BY <1>4 DEF CountedHandleResult, HandleResult
  <2>2. dlq' \subseteq dlq \cup FailedInHand
    BY <1>4, <2>1, OneMoreDead DEF FailedInHand
  <2>3. FailedInHand' = {} /\ FailedResults' = FailedResults
    BY <2>1 DEF FailedInHand, FailedResults
  <2> QED
    BY <2>1, <2>2, <2>3 DEF Doomed
<1>5. CASE Collect
  BY <1>5 DEF Collect, vars, Doomed, FailedResults, FailedInHand
<1>6. ASSUME NEW t \in Tasks, SendCall(t)
      PROVE  /\ Doomed' \subseteq Doomed \cup {t}
             /\ worker[t].ok => Doomed' \subseteq Doomed
  <2>1. UNCHANGED <<vars, dlq, worker, resultCh, pc, hand>> /\ counted' = counted \cup {t}
    BY <1>6 DEF SendCall
  <2>2. FailedInHand' = FailedInHand /\ FailedResults' = FailedResults
    BY <2>1 DEF FailedInHand, FailedResults
  <2>3. FailedCalls' = IF worker[t].ok THEN FailedCalls ELSE FailedCalls \cup {t}
    BY <2>1
  <2> QED
    BY <2>1, <2>2, <2>3 DEF Doomed
<1>7. ASSUME NEW t \in Tasks, CountedSendResult(t) PROVE Doomed' \subseteq Doomed
  <2>1. /\ SendResult(t) /\ t \in counted /\ counted' = counted \ {t}
        /\ UNCHANGED <<dlq, pc, hand>>
    BY <1>7 DEF CountedSendResult, SendResult
  <2>2. FailedCalls' \subseteq FailedCalls
    BY <1>0, <2>1 DEF SendResult
  <2>3. FailedResults' \subseteq FailedResults \cup FailedCalls
    BY <2>1, ReportedOne DEF FailedResults
  <2>4. FailedInHand' = FailedInHand
    BY <2>1 DEF FailedInHand
  <2> QED
    BY <2>1, <2>2, <2>3, <2>4 DEF Doomed
<1> QED
  BY <1>1, <1>2, <1>3, <1>4, <1>5, <1>6, <1>7, StatsCases

\* A doomed task is a task.
LEMMA DoomedTypes ==
    ASSUME IInv, StatsTypeOK
    PROVE  /\ Doomed \subseteq Tasks /\ IsFiniteSet(Doomed) /\ Cardinality(Doomed) \in Nat
           /\ dlq \subseteq Doomed /\ Cardinality(dlq) <= Cardinality(Doomed)
<1>1. dlq \subseteq Tasks /\ counted \subseteq Tasks
  BY DEF IInv, TypeOK, QueueTypeOK, StatsTypeOK
<1>2. FailedInHand \subseteq Tasks
  BY HandTask DEF FailedInHand
<1>3. FailedResults \subseteq Tasks
  <2>1. resultCh \in Seq(Result)
    BY DEF IInv, TypeOK
  <2>2. \A i \in DOMAIN resultCh : resultCh[i] \in Result
    BY <2>1, LenProperties, ElementOfSeq
  <2>3. \A r \in Result : r.task \in Tasks
    BY DEF Result
  <2> QED
    BY <2>2, <2>3 DEF FailedResults, ToSet
<1>4. Doomed \subseteq Tasks /\ dlq \subseteq Doomed
  BY <1>1, <1>2, <1>3 DEF Doomed
<1>5. IsFiniteSet(Doomed)
  BY <1>4, TaskQueueAssumption, FS_Subset
<1> QED
  BY <1>4, <1>5, FS_Subset, FS_CardinalityType

\* The doomed tasks stay counted.
LEMMA DoomedInv ==
    ASSUME IInv, IInv', StatsTypeOK, StatsTypeOK', DoomedCounted,
           [CountedNext]_runtimeVars, ~CountedRestart
    PROVE  DoomedCounted'
<1>0. /\ IsFiniteSet(Doomed) /\ IsFiniteSet(Doomed') /\ Cardinality(Doomed) \in Nat
      /\ Cardinality(Doomed') \in Nat /\ Failures \in Nat
  <2>1. IsFiniteSet(Doomed) /\ Cardinality(Doomed) \in Nat
    BY DoomedTypes
  <2>2. Doomed \subseteq Tasks
    BY DoomedTypes
  <2>3. Doomed' \subseteq Tasks
    BY <2>2, DoomedStep
  <2>4. IsFiniteSet(Doomed') /\ Cardinality(Doomed') \in Nat
    BY <2>3, TaskQueueAssumption, FS_Subset, FS_CardinalityType
  <2> QED
    BY <2>1, <2>4, TotalTypes
<1>1. CASE Doomed' \subseteq Doomed
  <2>1. Cardinality(Doomed') <= Cardinality(Doomed)
    BY <1>0, <1>1, FS_Subset
  <2>2. Failures' \in {Failures, Failures + 1}
    BY TotalsStep
  <2> QED
    BY <1>0, <2>1, <2>2 DEF DoomedCounted
<1>2. ASSUME NEW t \in Tasks, SendCall(t), ~worker[t].ok, Doomed' \subseteq Doomed \cup {t}
      PROVE  DoomedCounted'
  <2>1. IsFiniteSet(Doomed \cup {t}) /\ Cardinality(Doomed \cup {t}) <= Cardinality(Doomed) + 1
    <3>1. CASE t \in Doomed
      <4>1. Doomed \cup {t} = Doomed
        BY <3>1
      <4>2. IsFiniteSet(Doomed \cup {t})
        BY <1>0, <4>1
      <4>3. Cardinality(Doomed \cup {t}) = Cardinality(Doomed)
        BY <4>1
      <4> QED
        BY <1>0, <4>2, <4>3
    <3>2. CASE t \notin Doomed
      <4>1. /\ IsFiniteSet(Doomed \cup {t})
            /\ Cardinality(Doomed \cup {t}) = Cardinality(Doomed) + 1
        BY <1>0, <3>2, FS_AddElement
      <4> QED
        BY <1>0, <4>1
    <3> QED
      BY <3>1, <3>2
  <2>2. Cardinality(Doomed') <= Cardinality(Doomed \cup {t})
    BY <1>2, <2>1, FS_Subset
  <2>3. Failures' = Failures + 1
    BY <1>2, SendTotals
  <2>4. Cardinality(Doomed \cup {t}) \in Nat
    BY <2>1, FS_CardinalityType
  <2> QED
    BY <1>0, <2>1, <2>2, <2>3, <2>4 DEF DoomedCounted
<1> QED
  BY <1>1, <1>2, DoomedStep

-----------------------------------------------------------------------------
(* Calls and finished futures.                                             *)

\* One call more.
LEMMA OneMoreCall ==
    ASSUME calls \in [Tasks -> Nat], NEW t \in Tasks,
           calls' = [calls EXCEPT ![t] = @ + 1]
    PROVE  CallsMade' = CallsMade \cup {<<t, calls[t] + 1>>}
           /\ <<t, calls[t] + 1>> \notin CallsMade
<1>1. \A p : p \in CallsMade <=> \E u \in Tasks : \E k \in 1 .. calls[u] : p = <<u, k>>
  BY DEF CallsMade
<1>2. \A p : p \in CallsMade' <=> \E u \in Tasks : \E k \in 1 .. calls'[u] : p = <<u, k>>
  BY DEF CallsMade
<1>3. /\ calls[t] \in Nat /\ calls'[t] = calls[t] + 1
      /\ \A u \in Tasks \ {t} : calls'[u] = calls[u]
  OBVIOUS
<1>4. /\ 1 .. (calls[t] + 1) = (1 .. calls[t]) \cup {calls[t] + 1}
      /\ calls[t] + 1 \notin 1 .. calls[t]
  BY <1>3
<1>5. ASSUME NEW p \in CallsMade' PROVE p \in CallsMade \/ p = <<t, calls[t] + 1>>
  <2>1. PICK u \in Tasks : \E k \in 1 .. calls'[u] : p = <<u, k>>
    BY <1>2, <1>5
  <2>2. CASE u = t
    BY <1>1, <1>3, <1>4, <2>1, <2>2
  <2>3. CASE u # t
    BY <1>1, <1>3, <2>1, <2>3
  <2> QED
    BY <2>2, <2>3
<1>6. ASSUME NEW p \in CallsMade PROVE p \in CallsMade'
  <2>1. PICK u \in Tasks : \E k \in 1 .. calls[u] : p = <<u, k>>
    BY <1>1, <1>6
  <2>2. 1 .. calls[u] \subseteq 1 .. calls'[u]
    BY <1>3, <1>4
  <2> QED
    BY <1>2, <2>1, <2>2
<1>7. <<t, calls[t] + 1>> \in CallsMade'
  BY <1>2, <1>3, <1>4
<1>8. <<t, calls[t] + 1>> \notin CallsMade
  <2>1. \A u, k : <<t, calls[t] + 1>> = <<u, k>> => u = t /\ k = calls[t] + 1
    OBVIOUS
  <2> QED
    BY <1>1, <1>4, <2>1
<1>9. CallsMade' \subseteq CallsMade \cup {<<t, calls[t] + 1>>}
  BY <1>5
<1>10. CallsMade \cup {<<t, calls[t] + 1>>} \subseteq CallsMade'
  BY <1>6, <1>7
<1> QED
  BY <1>8, <1>9, <1>10

\* A call begins when its future is spawned, and is over when the future counts it.
LEMMA CallsStep ==
    ASSUME IInv, StatsTypeOK, [CountedNext]_runtimeVars, ~CountedRestart
    PROVE  \/ /\ UNCHANGED <<CallsMade, Unfinished>>
              /\ ~CountedDispatch /\ \A t \in Tasks : ~SendCall(t)
           \/ /\ CountedDispatch
              /\ \E p, t : /\ p \notin CallsMade /\ CallsMade' = CallsMade \cup {p}
                           /\ t \notin Unfinished /\ Unfinished' = Unfinished \cup {t}
           \/ \E t \in Tasks : /\ SendCall(t) /\ UNCHANGED CallsMade
                               /\ t \in Unfinished /\ Unfinished' = Unfinished \ {t}
<1>0. /\ worker \in [Tasks -> Worker \cup {NoWorker}] /\ calls \in [Tasks -> Nat]
      /\ counted \subseteq {t \in Tasks : worker[t].st = "done"}
  BY DEF IInv, TypeOK, StatsTypeOK
<1>1. CASE CountedDispatch
  <2>1. hand.task \in Tasks /\ hand.task \notin Spawned
    BY <1>1, HandTask DEF CountedDispatch, Dispatch, IInv, OneExecution
  <2>2. /\ worker' = [worker EXCEPT ![hand.task] = NewWorker(hand.retries)]
        /\ calls' = [calls EXCEPT ![hand.task] = @ + 1]
        /\ counted' = counted
    BY <1>1 DEF CountedDispatch, Dispatch
  <2>3. Spawned' = Spawned \cup {hand.task}
    BY <1>0, <2>1, <2>2 DEF Spawned
  <2>4. hand.task \notin counted
    BY <1>0, <2>1 DEF Spawned
  <2>5. hand.task \notin Unfinished /\ Unfinished' = Unfinished \cup {hand.task}
    BY <2>1, <2>2, <2>3, <2>4 DEF Unfinished
  <2>6. /\ CallsMade' = CallsMade \cup {<<hand.task, calls[hand.task] + 1>>}
        /\ <<hand.task, calls[hand.task] + 1>> \notin CallsMade
    BY <1>0, <2>1, <2>2, OneMoreCall
  <2> QED
    BY <1>1, <2>5, <2>6
<1>2. ASSUME NEW t \in Tasks, SendCall(t)
      PROVE  UNCHANGED CallsMade /\ t \in Unfinished /\ Unfinished' = Unfinished \ {t}
  <2>1. UNCHANGED <<worker, calls>> /\ counted' = counted \cup {t}
    BY <1>2 DEF SendCall
  <2>2. t \in Spawned /\ t \notin counted
    BY <1>2 DEF SendCall, Spawned
  <2> QED
    BY <2>1, <2>2 DEF CallsMade, Unfinished, Spawned
<1>3. ASSUME Unheard \/ CountedResultFires \/ CountedHandleResult \/ Collect
      PROVE  UNCHANGED <<CallsMade, Unfinished>>
  <2>1. UNCHANGED <<calls, Spawned, counted>>
    BY <1>3 DEF Unheard, CountedResultFires, ResultFires, CountedHandleResult, HandleResult,
                Collect, vars, Spawned
  <2> QED
    BY <2>1 DEF CallsMade, Unfinished
<1>4. ASSUME NEW t \in Tasks, CountedSendResult(t)
      PROVE  UNCHANGED <<CallsMade, Unfinished>>
  <2>1. /\ t \in counted /\ counted' = counted \ {t} /\ calls' = calls
        /\ worker' = [worker EXCEPT ![t] = NoWorker]
    BY <1>4 DEF CountedSendResult, SendResult
  <2>2. Spawned' = Spawned \ {t}
    BY <1>0, <2>1 DEF Spawned, NoWorker
  <2> QED
    BY <2>1, <2>2 DEF CallsMade, Unfinished
<1> QED
  BY <1>1, <1>2, <1>3, <1>4, StatsCases

\* Every call stays counted, or on its way.
LEMMA CallsInv ==
    ASSUME IInv, StatsTypeOK, IInv', CallsCounted, [CountedNext]_runtimeVars,
           ~CountedRestart
    PROVE  CallsCounted'
<1>0. /\ Processed \in Nat /\ IsFiniteSet(Unfinished) /\ Cardinality(Unfinished) \in Nat
      /\ IsFiniteSet(CallsMade) /\ Cardinality(CallsMade) \in Nat
  <2>1. Unfinished \subseteq Tasks
    BY DEF Unfinished, Spawned
  <2>2. IsFiniteSet(Unfinished)
    BY <2>1, TaskQueueAssumption, FS_Subset
  <2>3. IsFiniteSet(CallsMade)
    BY DEF CallsCounted
  <2> QED
    BY <2>2, <2>3, TotalTypes, FS_CardinalityType
<1>1. CASE UNCHANGED <<CallsMade, Unfinished>> /\ UNCHANGED Processed
  BY <1>1 DEF CallsCounted
<1>2. ASSUME NEW p, NEW t, Processed' = Processed,
             p \notin CallsMade, CallsMade' = CallsMade \cup {p},
             t \notin Unfinished, Unfinished' = Unfinished \cup {t}
      PROVE  CallsCounted'
  <2>1. /\ IsFiniteSet(CallsMade \cup {p})
        /\ Cardinality(CallsMade \cup {p}) = Cardinality(CallsMade) + 1
    BY <1>0, <1>2, FS_AddElement
  <2>2. Cardinality(Unfinished \cup {t}) = Cardinality(Unfinished) + 1
    BY <1>0, <1>2, FS_AddElement
  <2>3. /\ IsFiniteSet(CallsMade')
        /\ Cardinality(CallsMade') = Cardinality(CallsMade) + 1
        /\ Cardinality(Unfinished') = Cardinality(Unfinished) + 1
    BY <1>2, <2>1, <2>2
  <2> QED
    BY <1>0, <1>2, <2>3 DEF CallsCounted
<1>3. ASSUME NEW t \in Tasks, SendCall(t), UNCHANGED CallsMade, t \in Unfinished,
             Unfinished' = Unfinished \ {t}
      PROVE  CallsCounted'
  <2>1. Cardinality(Unfinished \ {t}) = Cardinality(Unfinished) - 1
    BY <1>0, <1>3, FS_RemoveElement
  <2>2. /\ Cardinality(Unfinished') = Cardinality(Unfinished) - 1
        /\ CallsMade' = CallsMade
    BY <1>3, <2>1
  <2>3. Processed' = Processed + 1
    BY <1>3, SendTotals
  <2>4. IsFiniteSet(CallsMade') /\ Cardinality(CallsMade') = Cardinality(CallsMade)
    BY <1>0, <2>2
  <2> QED
    BY <1>0, <2>2, <2>3, <2>4 DEF CallsCounted
<1>4. CASE CountedDispatch
  <2>0. \A t \in Tasks : ~SendCall(t)
    BY <1>4 DEF CountedDispatch, Dispatch, SendCall, vars
  <2>1. Processed' = Processed
    BY <2>0, TotalsStep
  <2>2. \E p, t : /\ p \notin CallsMade /\ CallsMade' = CallsMade \cup {p}
                  /\ t \notin Unfinished /\ Unfinished' = Unfinished \cup {t}
    BY <1>4, <2>0, CallsStep
  <2> QED
    BY <1>2, <2>1, <2>2
<1>5. CASE ~CountedDispatch /\ \A t \in Tasks : ~SendCall(t)
  <2>1. Processed' = Processed
    BY <1>5, TotalsStep
  <2> QED
    BY <1>1, <1>5, <2>1, CallsStep
<1>6. ASSUME NEW t \in Tasks, SendCall(t) PROVE CallsCounted'
  <2>0. ~CountedDispatch
    BY <1>6 DEF CountedDispatch, Dispatch, SendCall, vars
  <2> QED
    BY <1>3, <1>6, <2>0, CallsStep
<1> QED
  BY <1>4, <1>5, <1>6

-----------------------------------------------------------------------------
(* No death before its failure.                                            *)

\* A step leaves the channel alone, sends an event, or has one collected.
LEMMA ChannelCases ==
    ASSUME IInv, IInv', StatsTypeOK, [CountedNext]_runtimeVars, ~CountedRestart
    PROVE  \/ statsCh' = statsCh /\ snapshot' = snapshot
           \/ \E e \in Event : statsCh' = Append(statsCh, e) /\ snapshot' = snapshot
           \/ Collect
<1>0. inFlight' \in Nat
  BY DEF IInv, TypeOK
<1>1. CASE Unheard
  BY <1>1 DEF Unheard
<1>2. CASE CountedResultFires \/ CountedDispatch
  BY <1>0, <1>2, EventTypes DEF CountedResultFires, CountedDispatch, Send
<1>3. CASE CountedHandleResult
  BY <1>3, EventTypes DEF CountedHandleResult, Send
<1>4. ASSUME NEW t \in Tasks, SendCall(t)
      PROVE  \E e \in Event : statsCh' = Append(statsCh, e) /\ snapshot' = snapshot
  BY <1>4, EventTypes DEF SendCall, Send
<1>5. ASSUME NEW t \in Tasks, CountedSendResult(t)
      PROVE  statsCh' = statsCh /\ snapshot' = snapshot
  BY <1>5 DEF CountedSendResult
<1> QED
  BY <1>1, <1>2, <1>3, <1>4, <1>5, StatsCases

\* A dead task is doomed, so what is sent never says more deaths than failures.
LEMMA FewerDead ==
    ASSUME IInv, IInv', StatsTypeOK, StatsTypeOK', DeadCounted', DoomedCounted',
           [CountedNext]_runtimeVars, ~CountedRestart
    PROVE  Terminals' <= Failures'
<1>1. Doomed' \subseteq Tasks
  BY DoomedTypes, DoomedStep
<1>2. dlq' \subseteq Doomed'
  BY DEF Doomed
<1>3. IsFiniteSet(Doomed') /\ IsFiniteSet(dlq')
  BY <1>1, <1>2, TaskQueueAssumption, FS_Subset
<1>4. Cardinality(dlq') <= Cardinality(Doomed')
  BY <1>2, <1>3, FS_Subset
<1>5. Cardinality(dlq') \in Nat /\ Cardinality(Doomed') \in Nat
  BY <1>3, FS_CardinalityType
<1>6. Failures' \in Nat
  BY TotalTypes, TotalsStep
<1> QED
  BY <1>4, <1>5, <1>6 DEF DeadCounted, DoomedCounted

\* And no prefix of the channel does.
LEMMA FailureFirstInv ==
    ASSUME IInv, IInv', StatsTypeOK, StatsTypeOK', FailureFirst, DeadCounted',
           DoomedCounted', [CountedNext]_runtimeVars, ~CountedRestart
    PROVE  FailureFirst'
<1>0. /\ snapshot \in Snapshot /\ statsCh \in Seq(Event)
      /\ snapshot.failed \in Nat /\ snapshot.terminal_failures \in Nat
  BY DEF StatsTypeOK, Snapshot
<1>1. CASE statsCh' = statsCh /\ snapshot' = snapshot
  BY <1>1 DEF FailureFirst
<1>2. ASSUME NEW e \in Event, statsCh' = Append(statsCh, e), snapshot' = snapshot
      PROVE  FailureFirst'
  <2> SUFFICES ASSUME NEW k \in 0 .. Len(statsCh')
               PROVE  snapshot.terminal_failures + Among(statsCh', "terminal", k)
                         <= snapshot.failed + Among(statsCh', "failure", k)
    BY <1>2 DEF FailureFirst
  <2>1. ASSUME NEW kind
        PROVE  /\ Len(statsCh') = Len(statsCh) + 1
               /\ \A j \in 0 .. Len(statsCh) :
                     Among(statsCh', kind, j) = Among(statsCh, kind, j)
    BY <1>0, <1>2, EventSent
  <2>2. Len(statsCh) \in Nat
    BY <1>0, LenProperties
  <2>3. CASE k \in 0 .. Len(statsCh)
    <3>1. /\ Among(statsCh', "terminal", k) = Among(statsCh, "terminal", k)
          /\ Among(statsCh', "failure", k) = Among(statsCh, "failure", k)
      BY <2>1, <2>3
    <3> QED
      BY <2>3, <3>1 DEF FailureFirst
  <2>4. CASE k = Len(statsCh')
    <3>1. /\ Among(statsCh', "terminal", k) = Count(statsCh', "terminal")
          /\ Among(statsCh', "failure", k) = Count(statsCh', "failure")
      BY <2>4 DEF Count
    <3>2. Terminals' <= Failures'
      BY FewerDead
    <3>3. /\ Terminals' = snapshot.terminal_failures + Count(statsCh', "terminal")
          /\ Failures' = snapshot.failed + Count(statsCh', "failure")
      BY <1>2 DEF Terminals, Failures
    <3> QED
      BY <3>1, <3>2, <3>3
  <2>5. k \in 0 .. Len(statsCh) \/ k = Len(statsCh')
    BY <2>1, <2>2
  <2> QED
    BY <2>3, <2>4, <2>5
<1>3. CASE Collect
  <2>1. PICK s \in Seq(Event), e \in Event :
            /\ s = statsCh /\ s # <<>> /\ statsCh' = Tail(s) /\ e = Head(s)
            /\ snapshot' = Collected(snapshot, e)
    BY <1>0, <1>3, EventReceived DEF Collect
  <2>2. /\ snapshot'.failed = snapshot.failed + One("failure", e)
        /\ snapshot'.terminal_failures = snapshot.terminal_failures + One("terminal", e)
    BY <1>0, <2>1, EventCollected
  <2> SUFFICES ASSUME NEW k \in 0 .. Len(statsCh')
               PROVE  snapshot'.terminal_failures + Among(statsCh', "terminal", k)
                         <= snapshot'.failed + Among(statsCh', "failure", k)
    BY DEF FailureFirst
  <2>3. ASSUME NEW kind
        PROVE  /\ Len(statsCh') = Len(statsCh) - 1 /\ Len(statsCh) \in Nat
               /\ \A j \in 0 .. Len(statsCh) - 1 :
                     Among(statsCh, kind, j + 1)
                       = Among(statsCh', kind, j) + One(kind, e)
               /\ \A j \in Nat : Among(statsCh', kind, j) \in Nat
               /\ One(kind, e) \in Nat
    <3>1. statsCh' \in Seq(Event)
      BY <2>1, EventReceived
    <3>2. \A j \in Nat : Among(statsCh', kind, j) \in Nat
      BY <3>1, CountTypes
    <3>3. /\ Len(statsCh') = Len(statsCh) - 1 /\ Len(statsCh) \in Nat
          /\ \A j \in 0 .. Len(statsCh) - 1 :
                Among(statsCh, kind, j + 1) = Among(statsCh', kind, j) + One(kind, e)
      BY <2>1, EventReceived
    <3> QED
      BY <3>2, <3>3 DEF One
  <2>4. k \in Nat /\ k \in 0 .. Len(statsCh) - 1 /\ k + 1 \in 0 .. Len(statsCh)
    BY <2>3
  <2>5. /\ Among(statsCh, "terminal", k + 1)
             = Among(statsCh', "terminal", k) + One("terminal", e)
        /\ Among(statsCh, "failure", k + 1)
             = Among(statsCh', "failure", k) + One("failure", e)
        /\ Among(statsCh', "terminal", k) \in Nat /\ One("terminal", e) \in Nat
        /\ Among(statsCh', "failure", k) \in Nat /\ One("failure", e) \in Nat
    BY <2>3, <2>4
  <2>6. snapshot.terminal_failures + Among(statsCh, "terminal", k + 1)
           <= snapshot.failed + Among(statsCh, "failure", k + 1)
    BY <2>4 DEF FailureFirst
  <2> QED
    BY <1>0, <2>2, <2>5, <2>6
<1> QED
  BY <1>1, <1>2, <1>3, ChannelCases

-----------------------------------------------------------------------------

\* Initially nothing is sent and nobody is dead.
LEMMA StatsInitInv == Init /\ StatsInit => StatsInv
<1> SUFFICES ASSUME Init, StatsInit PROVE StatsInv
  OBVIOUS
<1>0. /\ statsCh = <<>> /\ snapshot = NoStats /\ counted = {} /\ inFlight = 0
      /\ dlq = {} /\ calls = [t \in Tasks |-> 0] /\ worker = [t \in Tasks |-> NoWorker]
      /\ resultCh = <<>> /\ pc = "start"
  BY DEF Init, StatsInit, QueueInit
<1>1. statsCh \in Seq(Event) /\ Len(statsCh) = 0 /\ DOMAIN statsCh = {}
  BY <1>0, EmptySeq
<1>2. StatsTypeOK
  BY <1>0, <1>1 DEF StatsTypeOK, NoStats, Snapshot
<1>3. GaugeExact
  BY <1>0, <1>1 DEF GaugeExact, Gauges, NoStats
<1>4. ASSUME NEW kind PROVE Count(statsCh, kind) = 0 /\ Among(statsCh, kind, 0) = 0
  BY <1>1, CountTypes DEF Count
<1>5. Terminals = 0 /\ Failures = 0 /\ Processed = 0
  <2>1. /\ Count(statsCh, "terminal") = 0 /\ Count(statsCh, "failure") = 0
        /\ Count(statsCh, "success") = 0
    BY <1>4
  <2> QED
    BY <1>0, <2>1 DEF Terminals, Failures, Processed, NoStats
<1>6. DeadCounted
  BY <1>0, <1>5, FS_EmptySet DEF DeadCounted
<1>7. DoomedCounted
  <2>1. FailedResults = {} /\ FailedInHand = {}
    <3>1. ToSet(resultCh) = {}
      BY <1>0, EmptySeq DEF ToSet
    <3> QED
      BY <1>0, <3>1 DEF FailedResults, FailedInHand
  <2>2. Doomed = {}
    BY <1>0, <2>1 DEF Doomed
  <2>3. Cardinality(Doomed) = 0
    BY <2>2, FS_EmptySet
  <2> QED
    BY <1>5, <2>3 DEF DoomedCounted
<1>8. CallsCounted
  <2>1. CallsMade = {}
    BY <1>0 DEF CallsMade
  <2>2. Unfinished = {}
    BY <1>0 DEF Unfinished, Spawned, NoWorker
  <2> QED
    BY <1>5, <2>1, <2>2, FS_EmptySet DEF CallsCounted
<1>9. FailureFirst
  BY <1>0, <1>1, <1>4 DEF FailureFirst, NoStats
<1> QED
  BY <1>2, <1>3, <1>6, <1>7, <1>8, <1>9 DEF StatsInv, Exact

\* Every step preserves it.
LEMMA StatsInductive ==
    IInv /\ IInv' /\ StatsInv /\ [CountedNext]_runtimeVars => StatsInv'
<1> SUFFICES ASSUME IInv, IInv', StatsInv, [CountedNext]_runtimeVars
             PROVE  StatsInv'
  OBVIOUS
<1>1. StatsTypeOK /\ StatsTypeOK'
  BY StatsTypeInv DEF StatsInv
<1>2. ASSUME crashes' = 0 PROVE Exact'
  <2>1. crashes = 0 /\ ~CountedRestart
    BY <1>2, NoRestart
  <2>2. GaugeExact /\ DeadCounted /\ DoomedCounted /\ CallsCounted /\ FailureFirst
    BY <2>1 DEF StatsInv, Exact
  <2>3. GaugeExact'
    BY <1>1, <2>1, <2>2, GaugeInv
  <2>4. DeadCounted'
    BY <1>1, <2>1, <2>2, DeadInv
  <2>5. DoomedCounted'
    BY <1>1, <2>1, <2>2, DoomedInv
  <2>6. CallsCounted'
    BY <1>1, <2>1, <2>2, CallsInv
  <2>7. FailureFirst'
    BY <1>1, <2>1, <2>2, <2>4, <2>5, FailureFirstInv
  <2> QED
    BY <2>3, <2>4, <2>5, <2>6, <2>7 DEF Exact
<1> QED
  BY <1>1, <1>2 DEF StatsInv

\* The runtime with its statistics is the runtime: Mailbox's theorems are about it.
THEOREM StatisticsChangeNothing == CountedSpec => Spec
<1>1. Init /\ StatsInit => Init
  OBVIOUS
<1> QED
  BY <1>1, CountedIsRuntime, PTL DEF CountedSpec, Spec

\* So its invariant holds, and with it that of the statistics.
LEMMA StatsInvariance == CountedSpec => []StatsInv
<1>1. CountedSpec => []IInv
  BY StatisticsChangeNothing, Invariance, PTL
<1> QED
  BY <1>1, StatsInitInv, StatsInductive, PTL DEF CountedSpec

\* What is in the snapshot and on its way is what the properties say.
LEMMA StatsShown == IInv /\ StatsInv => StatsExact
<1> SUFFICES ASSUME IInv, StatsInv, crashes = 0
             PROVE  /\ LatestGauge = inFlight
                    /\ snapshot.terminal_failures + OnTheWay("terminal") = Cardinality(dlq)
                    /\ snapshot.processed + OnTheWay("success") + OnTheWay("failure")
                          = Cardinality(CallsMade) - Cardinality(Unfinished)
                    /\ snapshot.terminal_failures <= snapshot.failed
  BY DEF StatsExact
<1>0. /\ statsCh \in Seq(Event) /\ StatsTypeOK /\ Exact
      /\ snapshot.failed \in Nat /\ snapshot.terminal_failures \in Nat
  BY DEF StatsInv, StatsTypeOK, Snapshot
<1>1. ASSUME NEW kind PROVE OnTheWay(kind) = Count(statsCh, kind) /\ Among(statsCh, kind, 0) = 0
  BY <1>0, CountTypes DEF OnTheWay
<1>2. LatestGauge = inFlight
  BY <1>0, GaugeIsLatest DEF Exact
<1>3. snapshot.terminal_failures + OnTheWay("terminal") = Cardinality(dlq)
  BY <1>0, <1>1 DEF Exact, DeadCounted, Terminals
<1>4. Processed = snapshot.processed + OnTheWay("success") + OnTheWay("failure")
  BY <1>1 DEF Processed
<1>5. Unfinished \subseteq Tasks
  BY DEF Unfinished, Spawned
<1>6. Cardinality(Unfinished) \in Nat /\ Processed \in Nat
  BY <1>0, <1>5, TaskQueueAssumption, FS_Subset, FS_CardinalityType, TotalTypes
<1>7. Cardinality(CallsMade) = Processed + Cardinality(Unfinished)
  BY <1>0 DEF Exact, CallsCounted
<1>8. Processed = Cardinality(CallsMade) - Cardinality(Unfinished)
  BY <1>6, <1>7
<1>9. snapshot.terminal_failures <= snapshot.failed
  <2>1. Len(statsCh) \in Nat /\ 0 \in 0 .. Len(statsCh)
    BY <1>0, LenProperties
  <2>2. Among(statsCh, "terminal", 0) = 0 /\ Among(statsCh, "failure", 0) = 0
    BY <1>1
  <2> QED
    BY <1>0, <2>1, <2>2 DEF Exact, FailureFirst
<1> QED
  BY <1>2, <1>3, <1>4, <1>8, <1>9

\* The statistics are exact: whatever the capacity of their channel, the snapshot and
\* the events on their way make up the state of the runtime, and no snapshot shows a
\* death whose failure it does not show.
THEOREM StatisticsExact == CountedSpec => []StatsExact
<1>1. CountedSpec => []IInv
  BY StatisticsChangeNothing, Invariance, PTL
<1> QED
  BY <1>1, StatsInvariance, StatsShown, PTL
=============================================================================
