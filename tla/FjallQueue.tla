----------------------------- MODULE FjallQueue -----------------------------
(***************************************************************************)
(* FjallTaskQueue (backend/fjall.rs) at the level of its writes.  An       *)
(* operation holds the mutex, makes its writes to four keyspaces one after *)
(* the other and then calls persist(SyncAll); the writes are not a batch.  *)
(* The process may die between any two of them, a write may fail, and a    *)
(* power failure may lose what was not persisted.                          *)
(*                                                                         *)
(* The client is the mailbox dispatcher: it recovers before it pops,       *)
(* submits a task once, and settles, retries or rewrites only what it has  *)
(* popped.                                                                 *)
(***************************************************************************)
EXTENDS Integers, Sequences, FiniteSets

CONSTANTS
    Tasks,       \* ids; a smaller one was created earlier, as uuid v7 keys sort
    MaxRetries,
    MaxFaults,   \* how many crashes and failed operations a behaviour contains
    Faults       \* see FaultKinds

FaultKinds == {"cut",    \* a crash may come in the middle of an operation
               "power",  \* a crash may lose writes that are not persisted
               "io"}     \* a write or persist may return an error

ASSUME FjallAssumption ==
    /\ Tasks \subseteq Nat /\ IsFiniteSet(Tasks)
    /\ MaxRetries \in Nat /\ MaxFaults \in Nat /\ Faults \subseteq FaultKinds

VARIABLES
    versions,   \* the store as last persisted, then after each later write
    op, todo,   \* the operation under the mutex and the writes it still has to make
    ready,      \* recover_inflight has returned
    held,       \* the retries of each task popped by this process
    used,       \* history: ids that were submitted
    promised,   \* history: ids whose push returned Ok
    acking,     \* history: ids whose ack was called
    acked, buried,  \* history: ids whose ack, whose nack returned Ok
    cut,        \* history: ids whose pop was cut by a crash or an error
    faults

clientVars  == <<ready, held>>
historyVars == <<used, promised, acking, acked, buried, cut>>
vars == <<versions, op, todo, clientVars, historyVars, faults>>

-----------------------------------------------------------------------------
(* The store: four keyspaces.  A row's value is its retry counter; queue and *)
(* inflight hold the empty value.                                          *)

Absent == -1
Empty  == 0
Keyspaces == {"tasks", "queue", "inflight", "dlq"}
Values    == Absent .. MaxRetries
Store     == [Keyspaces -> [Tasks -> Values]]

Current == versions[Len(versions)]
Keys(s, ks) == {t \in Tasks : s[ks][t] # Absent}

Insert(ks, t, v) == [ks |-> ks, id |-> t, val |-> v]
Delete(ks, t)    == Insert(ks, t, Absent)

\* Mutant: the queue entry is written before the row.
PushQueueFirst(t, r) ==
    <<Insert("queue", t, Empty), Insert("tasks", t, r), Delete("inflight", t)>>

\* Mutant: a retry leaves its lease behind.
PushKeepsLease(t, r) == <<Insert("tasks", t, r), Insert("queue", t, Empty)>>

PushWrites(t, r) ==
    <<Insert("tasks", t, r), Insert("queue", t, Empty), Delete("inflight", t)>>

\* Mutant: the queue entry stays.
PopKeepsEntry(t) == <<Insert("inflight", t, Empty)>>

PopWrites(t) == <<Delete("queue", t), Insert("inflight", t, Empty)>>

AckWrites(t) == <<Delete("tasks", t), Delete("inflight", t)>>

\* Mutant: the row is removed before the dead letter is written.
NackRemovesFirst(t, r) ==
    <<Delete("tasks", t), Insert("dlq", t, r), Delete("inflight", t)>>

NackWrites(t, r) ==
    <<Insert("dlq", t, r), Delete("tasks", t), Delete("inflight", t)>>

SetWrites(t, r) == <<Insert("tasks", t, r)>>

\* Mutant: the lease is given up before the queue entry is written.
RecoverRemovesFirst(t) == <<Delete("inflight", t), Insert("queue", t, Empty)>>

RecoverWrites(t) == <<Insert("queue", t, Empty), Delete("inflight", t)>>

-----------------------------------------------------------------------------
(* The operations.                                                         *)

Idle == [name |-> "idle", task |-> 0, retries |-> 0, from |-> <<>>]

EmptyStore == [ks \in Keyspaces |-> [t \in Tasks |-> Absent]]

Init ==
    /\ versions = <<EmptyStore>>
    /\ op = Idle /\ todo = <<>>
    /\ ready = FALSE /\ held = [t \in Tasks |-> Absent]
    /\ used = {} /\ promised = {} /\ acking = {} /\ acked = {} /\ buried = {}
    /\ cut = {} /\ faults = 0

\* Take the mutex; `from` is the store the operation finds.
Begin(name, t, r, writes) ==
    /\ op = Idle
    /\ op' = [name |-> name, task |-> t, retries |-> r, from |-> Current]
    /\ todo' = writes
    /\ UNCHANGED <<versions, clientVars, promised, acked, buried, cut, faults>>

\* Also by a seeder that opens the queue before the runtime starts.
PushNew(t) ==
    /\ t \notin used
    /\ Begin("push", t, 0, PushWrites(t, 0))
    /\ used' = used \cup {t} /\ UNCHANGED acking

PushRetry(t) ==
    /\ held[t] # Absent /\ held[t] < MaxRetries
    /\ Begin("push", t, held[t] + 1, PushWrites(t, held[t] + 1))
    /\ UNCHANGED <<used, acking>>

PopKey(t) ==
    /\ ready /\ t \in Keys(Current, "queue")
    /\ Begin("pop", t, 0, PopWrites(t))
    /\ UNCHANGED <<used, acking>>

\* queue.first_key_value()
Pop(t) == PopKey(t) /\ \A u \in Keys(Current, "queue") : t <= u

Ack(t) ==
    /\ held[t] # Absent
    /\ Begin("ack", t, held[t], AckWrites(t))
    /\ acking' = acking \cup {t} /\ UNCHANGED used

Nack(t) ==
    /\ held[t] = MaxRetries
    /\ Begin("nack", t, held[t], NackWrites(t, held[t]))
    /\ UNCHANGED <<used, acking>>

Set(t) ==
    /\ held[t] # Absent
    /\ Begin("set", t, held[t], SetWrites(t, held[t]))
    /\ UNCHANGED <<used, acking>>

RecoverInflight ==
    /\ ~ready
    /\ Begin("recover", 0, 0, <<>>)
    /\ UNCHANGED <<used, acking>>

\* The loop of recover_inflight over the leased keys.
RecoverKey(t) ==
    /\ op.name = "recover" /\ todo = <<>> /\ t \in Keys(Current, "inflight")
    /\ todo' = RecoverWrites(t)
    /\ UNCHANGED <<versions, op, clientVars, historyVars, faults>>

\* One write; writing what is there already changes nothing.
Write ==
    /\ todo # <<>>
    /\ LET w   == Head(todo)
           new == [Current EXCEPT ![w.ks][w.id] = w.val]
       IN  versions' = IF new = Current THEN versions ELSE Append(versions, new)
    /\ todo' = Tail(todo)
    /\ UNCHANGED <<op, clientVars, historyVars, faults>>

\* Mutant: an ack is not persisted.
SyncedUnlessAck == op.name \notin {"set", "ack"}

\* set does not persist, and recover_inflight only what it has recovered.
Synced == op.name # "set" /\ (op.name = "recover" => Current # op.from)

\* The operation returns Ok -- or, a pop whose row is gone, TaskNotFound.
Return ==
    /\ op # Idle /\ todo = <<>>
    /\ op.name = "recover" => Keys(Current, "inflight") = {}
    /\ versions' = IF Synced THEN <<Current>> ELSE versions
    /\ op' = Idle /\ UNCHANGED todo
    /\ ready' = (ready \/ op.name = "recover")
    /\ held' = CASE op.name = "pop" -> [held EXCEPT ![op.task] = Current["tasks"][op.task]]
                 [] op.name \in {"push", "ack", "nack"} -> [held EXCEPT ![op.task] = Absent]
                 [] OTHER -> held
    /\ promised' = IF op.name = "push" THEN promised \cup {op.task} ELSE promised
    /\ acked' = IF op.name = "ack" THEN acked \cup {op.task} ELSE acked
    /\ buried' = IF op.name = "nack" THEN buried \cup {op.task} ELSE buried
    /\ UNCHANGED <<used, acking, cut, faults>>

Abort ==
    /\ op' = Idle /\ todo' = <<>>
    /\ cut' = IF op = Idle THEN cut ELSE cut \cup {<<op.name, op.task>>}
    /\ faults < MaxFaults /\ faults' = faults + 1
    /\ UNCHANGED <<used, promised, acking, acked, buried>>

\* A write or the persist returns an error: `?` leaves the operation with what
\* it has written, and the dispatcher logs it and forgets the task.
Fail ==
    /\ "io" \in Faults /\ op # Idle
    /\ Abort
    /\ ready' = (ready \/ op.name = "recover")
    /\ held' = [t \in Tasks |-> IF t = op.task THEN Absent ELSE held[t]]
    /\ UNCHANGED versions

\* The process dies, and a new one opens the database.
Crash ==
    /\ op = Idle \/ "cut" \in Faults
    /\ Abort
    /\ \E i \in DOMAIN versions :
          /\ i = Len(versions) \/ "power" \in Faults
          /\ versions' = SubSeq(versions, 1, i)
    /\ ready' = FALSE /\ held' = [t \in Tasks |-> Absent]

Next ==
    \/ \E t \in Tasks :
          \/ PushNew(t) \/ PushRetry(t) \/ Pop(t) \/ Ack(t) \/ Nack(t) \/ Set(t)
          \/ RecoverKey(t)
    \/ RecoverInflight \/ Write \/ Return \/ Fail \/ Crash

Spec == Init /\ [][Next]_vars

-----------------------------------------------------------------------------
(* What the queue promises.                                                *)

Reachable == Keys(Current, "queue") \cup Keys(Current, "inflight")

\* A task whose push returned Ok is never gone from the store, whatever crash
\* picks whichever version: it has its row or a dead letter, or its ack was called.
PromiseKept ==
    \A i \in DOMAIN versions :
        promised \subseteq Keys(versions[i], "tasks") \cup Keys(versions[i], "dlq") \cup acking

\* A settlement that returned Ok is final: no crash brings the row back, and the
\* dead letter of a nack stays.
NoResurrection ==
    \A i \in DOMAIN versions :
        /\ (acked \cup buried) \cap Keys(versions[i], "tasks") = {}
        /\ buried \subseteq Keys(versions[i], "dlq")

\* An id in queue or inflight without a row (pop answers TaskNotFound for it) is
\* what is left of a settlement, never of a push.
GhostsAreSettled ==
    op = Idle => Reachable \ Keys(Current, "tasks") \subseteq acking \cup Keys(Current, "dlq")

\* A popped task is leased to the one who popped it, and nobody can pop it too.
HeldExclusively ==
    op = Idle =>
        \A t \in Tasks : held[t] # Absent =>
            /\ t \in Keys(Current, "inflight") \ Keys(Current, "queue")
            /\ held[t] = Current["tasks"][t]

\* A task that was promised and is not settled can be popped or recovered,
\* unless a pop of it was cut.
OnlyCutPopsVanish ==
    op = Idle => \A t \in promised \cap Keys(Current, "tasks") :
                     t \in Reachable \/ <<"pop", t>> \in cut

\* What the documentation says of recovery: a task that was in flight when a
\* process crashed is queued again, so nothing promised is out of reach.
NothingVanishes == op = Idle => promised \cap Keys(Current, "tasks") \subseteq Reachable

\* An operation takes effect when it returns.
View == IF op = Idle THEN Current ELSE op.from

Contract == INSTANCE TaskQueue WITH
    queued <- Keys(View, "queue"), leased <- Keys(View, "inflight"),
    row <- View["tasks"], dlq <- Keys(View, "dlq")

\* Until an operation is cut, power failures included, the four keyspaces
\* implement the life cycle of the abstract queue.
ContractUntilCut ==
    Contract!QueueInit /\ [][cut' = {} => Contract!LifecycleNext]_(Contract!queueVars)

=============================================================================
