----------------------------- MODULE TaskQueue -----------------------------
(***************************************************************************)
(* The TaskQueue trait of capp-queue as its clients see it: a store of     *)
(* task rows, a set of queued ids, a set of leased ("in-flight") ids and a *)
(* dead-letter store.  Every operation below is one trait method, atomic   *)
(* as it is under the locks of InMemoryTaskQueue.  The order in which pop  *)
(* serves ids differs between the backends (arrival, key, tag rotation),   *)
(* so the contract leaves it open.                                         *)
(*                                                                         *)
(* LifecycleSpec is what a disciplined client of the queue makes of those  *)
(* operations: each task is submitted once, leased, and then acknowledged, *)
(* retried a bounded number of times, or buried in the dead-letter store.  *)
(* Mailbox.tla is shown to implement it.                                   *)
(***************************************************************************)
EXTENDS Integers, FiniteSets

CONSTANTS
    Tasks,        \* the task ids (TaskId::new never repeats one)
    MaxRetries    \* MailboxConfig::max_retries

ASSUME TaskQueueAssumption == IsFiniteSet(Tasks) /\ MaxRetries \in Nat

VARIABLES
    queued,   \* ids waiting to be popped
    leased,   \* ids popped and not yet settled (the in-flight set)
    row,      \* the `retries` field of the stored task, NoRow if none is stored
    dlq,      \* ids in the dead-letter store
    acked     \* history: ids acknowledged as done

queueVars == <<queued, leased, row, dlq, acked>>

NoRow == -1

Stored == {t \in Tasks : row[t] # NoRow}

QueueTypeOK ==
    /\ queued \subseteq Tasks
    /\ leased \subseteq Tasks
    /\ row \in [Tasks -> 0 .. MaxRetries \cup {NoRow}]
    /\ dlq \subseteq Tasks
    /\ acked \subseteq Tasks

-----------------------------------------------------------------------------
(* The operations of the trait.                                            *)

\* (Definitions marked "Mutant" are wrong on purpose: each stands in for the
\* definition after it to show that a property notices the difference.)

\* Mutant: a retry is queued again but its lease is kept.
PushKeepsLease(t, r) ==
    /\ queued' = queued \cup {t}
    /\ row' = [row EXCEPT ![t] = r]
    /\ UNCHANGED <<leased, dlq, acked>>

\* push: store the row, make the id poppable, give up its lease if it has one.
Push(t, r) ==
    /\ queued' = queued \cup {t}
    /\ leased' = leased \ {t}
    /\ row' = [row EXCEPT ![t] = r]
    /\ UNCHANGED <<dlq, acked>>

\* pop: move one queued id to the in-flight set.
Pop(t) ==
    /\ t \in queued
    /\ queued' = queued \ {t}
    /\ leased' = leased \cup {t}
    /\ UNCHANGED <<row, dlq, acked>>

\* ack: drop the row and the lease.
Ack(t) ==
    /\ row' = [row EXCEPT ![t] = NoRow]
    /\ leased' = leased \ {t}
    /\ acked' = acked \cup {t}
    /\ UNCHANGED <<queued, dlq>>

\* Mutant: a dead task is dropped instead of being kept for inspection.
NackDrops(t) ==
    /\ row' = [row EXCEPT ![t] = NoRow]
    /\ leased' = leased \ {t}
    /\ UNCHANGED <<queued, dlq, acked>>

\* nack: copy the task to the dead-letter store, drop the row and the lease.
Nack(t) ==
    /\ dlq' = dlq \cup {t}
    /\ row' = [row EXCEPT ![t] = NoRow]
    /\ leased' = leased \ {t}
    /\ UNCHANGED <<queued, acked>>

\* set: overwrite the row and nothing else.
Set(t, r) ==
    /\ row' = [row EXCEPT ![t] = r]
    /\ UNCHANGED <<queued, leased, dlq, acked>>

\* Mutant: the default method of the trait, which recovers nothing.
RecoverNothing == UNCHANGED queueVars

\* recover_inflight: every leased id becomes poppable again.
RecoverInflight ==
    /\ queued' = queued \cup leased
    /\ leased' = {}
    /\ UNCHANGED <<row, dlq, acked>>

-----------------------------------------------------------------------------
(* The life of a task under a disciplined client.                          *)

QueueInit ==
    /\ queued \in SUBSET Tasks
    /\ leased = {}
    /\ row = [t \in Tasks |-> IF t \in queued THEN 0 ELSE NoRow]
    /\ dlq = {}
    /\ acked = {}

\* A task enters the queue once.
Submit(t) == t \notin Stored \cup dlq \cup acked /\ Push(t, 0)

\* A leased task whose handler failed is queued again with one more retry ...
Retry(t) == t \in leased /\ row[t] < MaxRetries /\ Push(t, row[t] + 1)

\* ... unless it has used its retries up.
Bury(t) == t \in leased /\ row[t] = MaxRetries /\ Nack(t)

Finish(t) == t \in leased /\ Ack(t)

LifecycleNext ==
    \/ \E t \in Tasks : Submit(t) \/ Pop(t) \/ Retry(t) \/ Bury(t) \/ Finish(t)
    \/ RecoverInflight

LifecycleSpec == QueueInit /\ [][LifecycleNext]_queueVars

-----------------------------------------------------------------------------
(* What the life cycle guarantees.                                         *)

\* A task has exactly one fate: a task the queue knows is waiting, leased,
\* acknowledged or dead, never two of these at once, and it has a row exactly
\* while it is waiting or leased (so no lease or queue entry outlives its row).
OneFate ==
    /\ Stored = queued \cup leased
    /\ queued \cap leased = {}
    /\ dlq \cap acked = {}
    /\ Stored \cap (dlq \cup acked) = {}

\* Nothing a task went through is undone: a settled task stays settled, a known
\* task is never forgotten, and a stored retry counter never goes back, not even
\* through recovery.
NoRegress ==
    [][ /\ acked \subseteq acked' /\ dlq \subseteq dlq'
        /\ Stored \subseteq Stored' \cup dlq' \cup acked'
        /\ \A t \in Stored \cap Stored' : row'[t] >= row[t] ]_queueVars

=============================================================================
