-------------------------- MODULE FjallRoundRobin --------------------------
(***************************************************************************)
(* FjallRoundRobinTaskQueue (backend/fjall_round_robin.rs).  It makes the  *)
(* same writes as FjallTaskQueue, in the same order and under one mutex,   *)
(* so this module extends FjallQueue.  What it adds is the rotation over   *)
(* tags, which lives in memory and is rebuilt from the queue keyspace when *)
(* the database is opened.                                                 *)
(***************************************************************************)
EXTENDS FjallQueue, SequencesExt

CONSTANT Tags    \* a smaller one is earlier in the order of strings

ASSUME RotationAssumption == Tags \subseteq Nat /\ IsFiniteSet(Tags)

VARIABLES
    tagOf,     \* the tag of each task's payload; it never changes
    active,    \* RotationState::active (present is the set of its elements)
    cursor,    \* RotationState::cursor, counted from 0
    passed,    \* history: the tags served since a tag began to wait
    hidden     \* history: ids whose push or recovery ended in an error

rotationVars  == <<active, cursor, passed, hidden>>
roundRobinVars == <<vars, tagOf, rotationVars>>

-----------------------------------------------------------------------------
(* The rotation.                                                           *)

TagsOf(ts) == {tagOf[t] : t \in ts}

Bucket(g) == {t \in Keys(Current, "queue") : tagOf[t] = g}

\* A tag waits when the rotation knows it and it has something to pop.
Waiting(g) == g \in ToSet(active) /\ Bucket(g) # {}

Ensure(g) == IF g \in ToSet(active) THEN active ELSE Append(active, g)

\* The tags in the order in which pop looks at them.
Lap == SubSeq(active, cursor + 1, Len(active)) \o SubSeq(active, 1, cursor)

\* Mutant: the cursor is not advanced past the tag that was served.
CursorAt(g) == (CHOOSE i \in DOMAIN active : active[i] = g) - 1

CursorPast(g) == (CHOOSE i \in DOMAIN active : active[i] = g) % Len(active)

\* A pop that found a row serves its tag.
Serves == op.name = "pop" /\ todo = <<>> /\ Current["tasks"][op.task] # Absent

PassedBy(gs) ==
    [g \in Tags |-> IF Waiting(g) /\ g \notin gs THEN passed[g] \cup gs ELSE {}]

-----------------------------------------------------------------------------
(* The operations: those of FjallQueue and what they do to the rotation.   *)

RotationInit ==
    /\ active = <<>> /\ cursor = 0
    /\ passed = [g \in Tags |-> {}] /\ hidden = {}

RoundRobinInit == Init /\ tagOf \in [Tasks -> Tags] /\ RotationInit

\* The first tag of the lap with anything queued, and its oldest task.
PopNext(t) ==
    /\ \E i \in DOMAIN Lap :
          /\ Lap[i] = tagOf[t]
          /\ \A j \in 1 .. (i - 1) : Bucket(Lap[j]) = {}
    /\ \A u \in Bucket(tagOf[t]) : t <= u
    /\ PopKey(t)

\* Operations that begin, and so leave the rotation alone.
RoundRobinBegin(t) ==
    /\ \/ PushNew(t) \/ PushRetry(t) \/ PopNext(t) \/ Ack(t) \/ Nack(t) \/ Set(t)
       \/ RecoverKey(t)
    /\ UNCHANGED rotationVars

\* Mutant: recovery does not bring the tag into the rotation.
WriteWithoutTag == Write /\ UNCHANGED rotationVars

\* Recovery makes sure of a task's tag right after its last write.
RoundRobinWrite ==
    /\ Write
    /\ active' = IF op.name = "recover" /\ Len(todo) = 1
                 THEN Ensure(tagOf[Head(todo).id]) ELSE active
    /\ UNCHANGED <<cursor, passed, hidden>>

\* A push makes sure of its tag, a pop advances the cursor, once they are done.
RoundRobinReturn ==
    /\ Return
    /\ active' = IF op.name = "push" THEN Ensure(tagOf[op.task]) ELSE active
    /\ cursor' = IF Serves THEN CursorPast(tagOf[op.task]) ELSE cursor
    /\ passed' = PassedBy(IF Serves THEN {tagOf[op.task]} ELSE {})
    /\ UNCHANGED hidden

\* An error leaves a push, or the recovery of a key, before it sees to the tag.
RoundRobinFail ==
    /\ Fail
    /\ hidden' = hidden \cup {w.id : w \in ToSet(todo)}
                        \cup (IF op.name = "push" THEN {op.task} ELSE {})
    /\ passed' = PassedBy({})
    /\ UNCHANGED <<active, cursor>>

\* active.sort()
Sorted(gs) ==
    CHOOSE s \in [1 .. Cardinality(gs) -> gs] : \A i, j \in DOMAIN s : i < j => s[i] < s[j]

\* rebuild_state: the tags of the queue keyspace, sorted; a tag whose tasks are
\* all in flight is not among them.
Reopen ==
    /\ Crash
    /\ active' = Sorted(TagsOf(Keys(Current', "queue")))
    /\ cursor' = 0 /\ passed' = [g \in Tags |-> {}] /\ hidden' = {}

RoundRobinNext ==
    /\ \/ \E t \in Tasks : RoundRobinBegin(t)
       \/ RecoverInflight /\ UNCHANGED rotationVars
       \/ RoundRobinWrite \/ RoundRobinReturn \/ RoundRobinFail \/ Reopen
    /\ UNCHANGED tagOf

RoundRobinSpec == RoundRobinInit /\ [][RoundRobinNext]_roundRobinVars

-----------------------------------------------------------------------------
(* What the rotation promises.                                             *)

\* pop looks at every queued task before it answers QueueEmpty: the tags of what
\* is queued are in the rotation, each of them once, and the cursor points into it,
\* except for the tag of an operation that ended in an error.
RotationCoversQueue ==
    /\ IsInjective(active) /\ (cursor = 0 \/ cursor < Len(active))
    /\ op = Idle => TagsOf(Keys(Current, "queue") \ hidden) \subseteq ToSet(active)

\* A busy tag does not starve another: while a tag waits each of the others is
\* served at most once.
NoTagOvertakesTwice ==
    [][ (Serves /\ held'[op.task] # Absent) =>
            \A g \in Tags : Waiting(g) => tagOf[op.task] \notin passed[g] ]_roundRobinVars

=============================================================================
