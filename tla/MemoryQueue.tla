----------------------------- MODULE MemoryQueue -----------------------------
(***************************************************************************)
(* InMemoryTaskQueue (backend/memory.rs): the queue in four mutexes.       *)
(* Every operation takes the mutexes it needs one after the other, does    *)
(* its work when it has the last one and releases them all; Debug::fmt     *)
(* takes them in an order of its own.  A client blocks at the first mutex  *)
(* that another one holds.                                                 *)
(*                                                                         *)
(* The clients treat a task as the dispatcher of manager/mailbox.rs does:  *)
(* pop it, mark it in progress, and settle it according to its outcome.    *)
(* Any of them may also push a new task or format the queue.               *)
(***************************************************************************)
EXTENDS TaskRecord, SequencesExt

CONSTANTS
    Tasks,         \* the ids the clients push
    MaxRetries,    \* MailboxConfig::max_retries
    Clients,       \* the threads that share the queue
    MaxAbandons    \* how often a client is lost with a task in its hands

ASSUME MemoryAssumption ==
    /\ IsFiniteSet(Tasks) /\ IsFiniteSet(Clients)
    /\ MaxRetries \in Nat /\ MaxAbandons \in Nat

VARIABLES
    list, hashmap, inflight, dlq,   \* what the mutexes protect
    call,       \* the operation a client is in, and how many mutexes it has
    at,         \* where a client is between its operations
    copy,       \* the task a client has in its hands
    acked,      \* history: ids acknowledged as done
    abandons

storeVars  == <<list, hashmap, inflight, dlq, acked>>
memoryVars == <<storeVars, call, at, copy, abandons>>

NoRecord == [id |-> "none"]
NoCall   == [name |-> "none"]

Ids(map) == {t \in Tasks : map[t] # NoRecord}

MemoryInit ==
    /\ list = <<>> /\ inflight = {} /\ acked = {} /\ abandons = 0
    /\ hashmap = [t \in Tasks |-> NoRecord] /\ dlq = [t \in Tasks |-> NoRecord]
    /\ call = [c \in Clients |-> NoCall]
    /\ at = [c \in Clients |-> "idle"] /\ copy = [c \in Clients |-> NoRecord]

-----------------------------------------------------------------------------
(* The mutexes.                                                            *)

\* Mutant: ack takes inflight before hashmap.
OrderAckReversed ==
    [push |-> <<"list", "hashmap", "inflight">>, pop |-> <<"list", "hashmap", "inflight">>,
     ack |-> <<"inflight", "hashmap">>, nack |-> <<"dlq", "hashmap", "inflight">>,
     set |-> <<"hashmap">>, recover |-> <<"list", "inflight">>,
     fmt |-> <<"hashmap", "list", "inflight", "dlq">>]

Order ==
    [push |-> <<"list", "hashmap", "inflight">>, pop |-> <<"list", "hashmap", "inflight">>,
     ack |-> <<"hashmap", "inflight">>, nack |-> <<"dlq", "hashmap", "inflight">>,
     set |-> <<"hashmap">>, recover |-> <<"list", "inflight">>,
     fmt |-> <<"hashmap", "list", "inflight", "dlq">>]

Busy(c)  == call[c] # NoCall
Holds(c) == IF Busy(c) THEN {Order[call[c].name][i] : i \in 1 .. call[c].taken} ELSE {}
Wants(c) == Order[call[c].name][call[c].taken + 1]
Free(m)  == \A c \in Clients : m \notin Holds(c)
IsLast(c) == call[c].taken + 1 = Len(Order[call[c].name])

Take(c) ==
    /\ Busy(c) /\ Free(Wants(c)) /\ ~IsLast(c)
    /\ call' = [call EXCEPT ![c].taken = @ + 1]
    /\ UNCHANGED <<storeVars, at, copy, abandons>>

-----------------------------------------------------------------------------
(* The operations, under their mutexes.                                    *)

Moves(c, place, task) ==
    /\ at' = [at EXCEPT ![c] = place]
    /\ copy' = [copy EXCEPT ![c] = task]

\* Mutant: a retry is listed again but stays in flight.
PushKeepsLease(c) ==
    LET task == call[c].task
    IN  /\ hashmap' = [hashmap EXCEPT ![task.id] = task]
        /\ list' = Append(list, task.id)
        /\ UNCHANGED <<inflight, dlq, acked>> /\ Moves(c, "idle", NoRecord)

\* The id is listed whether it is there already or not.
Push(c) ==
    LET task == call[c].task
    IN  /\ hashmap' = [hashmap EXCEPT ![task.id] = task]
        /\ list' = Append(list, task.id)
        /\ inflight' = inflight \ {task.id}
        /\ UNCHANGED <<dlq, acked>> /\ Moves(c, "idle", NoRecord)

\* An id without a row is taken off the list and answered with TaskNotFound.
Pop(c) ==
    IF list = <<>> \/ hashmap[Head(list)] = NoRecord
    THEN /\ list' = (IF list = <<>> THEN list ELSE Tail(list))
         /\ UNCHANGED <<hashmap, inflight, dlq, acked>> /\ Moves(c, "idle", NoRecord)
    ELSE /\ list' = Tail(list)
         /\ inflight' = inflight \cup {Head(list)}
         /\ UNCHANGED <<hashmap, dlq, acked>> /\ Moves(c, "popped", hashmap[Head(list)])

Settle(c) ==
    LET id == call[c].task.id
    IN  /\ hashmap' = [hashmap EXCEPT ![id] = NoRecord]
        /\ inflight' = (IF hashmap[id] = NoRecord THEN inflight ELSE inflight \ {id})
        /\ UNCHANGED list /\ Moves(c, "idle", NoRecord)

Ack(c) ==
    /\ Settle(c) /\ UNCHANGED dlq
    /\ acked' = acked \cup ({call[c].task.id} \cap Ids(hashmap))

\* Mutant: the row is moved to the dead letters instead of the task that is passed.
NackMovesRow(c) ==
    /\ Settle(c) /\ UNCHANGED acked
    /\ dlq' = [dlq EXCEPT ![call[c].task.id] = hashmap[call[c].task.id]]

\* The dead letter is written before the row is looked for; nobody sees it earlier,
\* since the mutex is kept.
Nack(c) ==
    /\ Settle(c) /\ UNCHANGED acked
    /\ dlq' = [dlq EXCEPT ![call[c].task.id] = call[c].task]

Set(c) ==
    /\ hashmap' = [hashmap EXCEPT ![call[c].task.id] = call[c].task]
    /\ UNCHANGED <<list, inflight, dlq, acked>> /\ Moves(c, "running", call[c].task)

\* The order in which a hash map is drained is arbitrary.
RecoverInflight(c) ==
    /\ \E s \in SetToSeqs(inflight) : list' = list \o s
    /\ inflight' = {}
    /\ UNCHANGED <<hashmap, dlq, acked>> /\ Moves(c, "idle", NoRecord)

Format(c) == UNCHANGED storeVars /\ Moves(c, "idle", NoRecord)

Finish(c) ==
    /\ Busy(c) /\ Free(Wants(c)) /\ IsLast(c)
    /\ call' = [call EXCEPT ![c] = NoCall]
    /\ CASE call[c].name = "push" -> Push(c)
         [] call[c].name = "pop"  -> Pop(c)
         [] call[c].name = "ack"  -> Ack(c)
         [] call[c].name = "nack" -> Nack(c)
         [] call[c].name = "set"  -> Set(c)
         [] call[c].name = "recover" -> RecoverInflight(c)
         [] call[c].name = "fmt"  -> Format(c)
    /\ UNCHANGED abandons

-----------------------------------------------------------------------------
(* The clients.                                                            *)

Calls(c, name, task) ==
    /\ ~Busy(c)
    /\ call' = [call EXCEPT ![c] = [name |-> name, task |-> task, taken |-> 0]]
    /\ UNCHANGED <<storeVars, at, copy, abandons>>

InHand == {call[c].task.id : c \in {c \in Clients : Busy(c)}}

\* A recovery belongs to a start, when nobody has a task and nobody pops.
Recovering == \E c \in Clients : Busy(c) /\ call[c].name = "recover"
Quiet == \A c \in Clients :
            at[c] = "idle" /\ (Busy(c) => call[c].name \in {"push", "fmt"})

PushNew(c, t) ==
    /\ at[c] = "idle" /\ t \notin Ids(hashmap) \cup Ids(dlq) \cup acked \cup InHand
    /\ Calls(c, "push", NewTask(t))

Idles(c) ==
    /\ at[c] = "idle"
    /\ \/ Calls(c, "fmt", NoRecord)
       \/ ~Recovering /\ Calls(c, "pop", NoRecord)
       \/ Quiet /\ Calls(c, "recover", NoRecord)

Starts(c) == at[c] = "popped" /\ Calls(c, "set", SetInProgress(copy[c]))

\* handle_worker_result: the outcome of the handler decides.
Succeeds(c) == at[c] = "running" /\ Calls(c, "ack", SetSucceed(copy[c]))

Fails(c) ==
    /\ at[c] = "running"
    /\ LET task == SetRetry(copy[c])
       IN  IF task.retries <= MaxRetries THEN Calls(c, "push", task)
                                         ELSE Calls(c, "nack", SetDlq(task))

\* The client is lost with its task: between two operations, since an operation
\* contains no await.
Abandon(c) ==
    /\ at[c] # "idle" /\ ~Busy(c) /\ abandons < MaxAbandons
    /\ abandons' = abandons + 1
    /\ Moves(c, "idle", NoRecord)
    /\ UNCHANGED <<storeVars, call>>

MemoryNext ==
    \E c \in Clients :
        \/ \E t \in Tasks : PushNew(c, t)
        \/ Idles(c) \/ Starts(c) \/ Succeeds(c) \/ Fails(c)
        \/ Take(c) \/ Finish(c) \/ Abandon(c)

-----------------------------------------------------------------------------

\* Through four mutexes and any interleaving the queue is the contract's: what the
\* clients make of it is the life cycle of TaskQueue.
Retries == [t \in Tasks |-> IF t \in Ids(hashmap) THEN hashmap[t].retries ELSE -1]

Contract == INSTANCE TaskQueue WITH
    queued <- ToSet(list), leased <- inflight, row <- Retries, dlq <- Ids(dlq)

MemoryLifecycle == Contract!LifecycleSpec

\* Operations never wait for each other in a circle: of any clients that operate, one
\* waits for none of the others.  Whatever circle there is, and with fmt there are some,
\* contains a client that formats the queue.
Operating == {c \in Clients : Busy(c) /\ call[c].name # "fmt"}

OnlyFormattingBlocks ==
    \A S \in SUBSET Operating : S # {} =>
        \E c \in S : \A d \in S : Wants(c) \notin Holds(d)

\* Where a task is and what its record says agree: an id is listed once, and with its
\* row; the row of a running task is the copy of the one client that runs it; a row
\* has never been settled, and a dead letter says how it died.
RecordsTellFate ==
    /\ IsInjective(list) /\ ToSet(list) \cup inflight \subseteq Ids(hashmap)
    /\ \A c \in Clients : at[c] = "running" =>
            /\ copy[c].id \in inflight /\ hashmap[copy[c].id] = copy[c]
    /\ \A t \in Ids(hashmap) :
            /\ hashmap[t].status \in {"Queued", "InProgress", "Failed"}
            /\ hashmap[t].error <=> hashmap[t].retries > 0
    /\ \A t \in Ids(dlq) :
            /\ dlq[t].status = "DeadLetter" /\ dlq[t].finished
            /\ dlq[t].retries = MaxRetries + 1

=============================================================================
