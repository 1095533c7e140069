-------------------------- MODULE FjallQueueProofs --------------------------
(***************************************************************************)
(* Theorems about FjallTaskQueue, for every finite set of tasks, every     *)
(* limit on retries, any number of crashes and any selection of faults.    *)
(*                                                                         *)
(* A crash may bring any version of the store back, so what is claimed of  *)
(* the store is claimed of every version (Sound).  It is inductive once    *)
(* the invariant knows, of the operation under the mutex, what it found    *)
(* (Begun) and which of its writes it has made (Progress), and of a task   *)
(* in the client's hand, that the operation found it leased (HeldLeased).  *)
(***************************************************************************)
EXTENDS FjallQueue, SequenceTheorems, TLAPS

\* Frame tuples are expanded everywhere.
USE DEF vars, clientVars, historyVars

-----------------------------------------------------------------------------
(* The strengthening.                                                      *)

OpNames == {"idle", "push", "pop", "ack", "nack", "set", "recover"}

FjallTypeOK ==
    /\ versions \in Seq(Store) /\ versions # <<>>
    /\ op.name \in OpNames /\ op = [name |-> op.name, task |-> op.task,
                                    retries |-> op.retries, from |-> op.from]
    /\ op.name = "idle" => op = Idle /\ todo = <<>>
    /\ op.name # "idle" => op.from \in Store
    /\ op.name \notin {"idle", "recover"} => op.task \in Tasks
    /\ ready \in BOOLEAN /\ held \in [Tasks -> Values]
    /\ used \subseteq Tasks /\ promised \subseteq used /\ acking \subseteq used
    /\ acked \subseteq used /\ buried \subseteq used
    /\ faults \in 0 .. MaxFaults

Has(s, ks, t) == s[ks][t] # Absent

\* What every version of the store holds of a task, when this process and the ones
\* before it did what the histories say.
Sound(s, t) ==
    /\ t \notin used => \A ks \in Keyspaces : ~Has(s, ks, t)
    /\ t \in promised => Has(s, "tasks", t) \/ Has(s, "dlq", t) \/ t \in acking
    /\ t \in acked \cup buried => ~Has(s, "tasks", t)
    /\ t \in buried => Has(s, "dlq", t)
    /\ Has(s, "queue", t) \/ Has(s, "inflight", t) =>
          Has(s, "tasks", t) \/ Has(s, "dlq", t) \/ t \in acking
    /\ t \in promised /\ Has(s, "tasks", t) =>
          \/ Has(s, "queue", t) \/ Has(s, "inflight", t)
          \/ <<"pop", t>> \in cut \/ (op.name = "pop" /\ op.task = t)

EveryVersionSound == \A i \in DOMAIN versions : \A t \in Tasks : Sound(versions[i], t)

\* A task in hand is leased, and carries the retries of its row.
HeldLeased ==
    /\ \A t \in Tasks : held[t] # Absent =>
          /\ Has(View, "inflight", t) /\ ~Has(View, "queue", t)
          /\ held[t] = View["tasks"][t]
    /\ ~ready => \A t \in Tasks : held[t] = Absent

\* What an operation found when it took the mutex.
FoundLeased ==
    /\ op.retries \in 0 .. MaxRetries /\ op.from["tasks"][op.task] = op.retries
    /\ held[op.task] = op.retries

FoundNew ==
    /\ op.retries = 0 /\ op.task \notin promised \cup acked \cup buried
    /\ \A ks \in Keyspaces : ~Has(op.from, ks, op.task)

FoundFailed ==
    /\ op.retries \in 1 .. MaxRetries /\ op.from["tasks"][op.task] = op.retries - 1
    /\ Has(op.from, "inflight", op.task) /\ op.task \notin acked \cup buried

FoundQueued ==
    /\ ready /\ Has(op.from, "queue", op.task)
    /\ Has(op.from, "tasks", op.task) \/ Has(op.from, "dlq", op.task) \/ op.task \in acking

Begun ==
    /\ op.name \notin {"idle", "recover"} => op.task \in used
    /\ op.name = "push" => FoundNew \/ FoundFailed
    /\ op.name = "pop" => FoundQueued
    /\ op.name \in {"ack", "nack", "set"} => FoundLeased
    /\ op.name = "ack" => op.task \in acking
    /\ op.name = "nack" => op.retries = MaxRetries
    /\ op.name = "recover" => ~ready

\* The writes that are left, and what has become of the four keyspaces.
Left(writes, tasks, queue, inflight, dlq) ==
    /\ todo = writes
    /\ Current["tasks"] = tasks /\ Current["queue"] = queue
    /\ Current["inflight"] = inflight /\ Current["dlq"] = dlq

Old(ks)    == op.from[ks]
New(ks, v) == [op.from[ks] EXCEPT ![op.task] = v]

PushProgress ==
    LET t == op.task   r == op.retries IN
    \/ Left(PushWrites(t, r), Old("tasks"), Old("queue"), Old("inflight"), Old("dlq"))
    \/ Left(<<Insert("queue", t, Empty), Delete("inflight", t)>>,
            New("tasks", r), Old("queue"), Old("inflight"), Old("dlq"))
    \/ Left(<<Delete("inflight", t)>>,
            New("tasks", r), New("queue", Empty), Old("inflight"), Old("dlq"))
    \/ Left(<<>>, New("tasks", r), New("queue", Empty), New("inflight", Absent), Old("dlq"))

PopProgress ==
    LET t == op.task IN
    \/ Left(PopWrites(t), Old("tasks"), Old("queue"), Old("inflight"), Old("dlq"))
    \/ Left(<<Insert("inflight", t, Empty)>>,
            Old("tasks"), New("queue", Absent), Old("inflight"), Old("dlq"))
    \/ Left(<<>>, Old("tasks"), New("queue", Absent), New("inflight", Empty), Old("dlq"))

AckProgress ==
    LET t == op.task IN
    \/ Left(AckWrites(t), Old("tasks"), Old("queue"), Old("inflight"), Old("dlq"))
    \/ Left(<<Delete("inflight", t)>>,
            New("tasks", Absent), Old("queue"), Old("inflight"), Old("dlq"))
    \/ Left(<<>>, New("tasks", Absent), Old("queue"), New("inflight", Absent), Old("dlq"))

NackProgress ==
    LET t == op.task   r == op.retries IN
    \/ Left(NackWrites(t, r), Old("tasks"), Old("queue"), Old("inflight"), Old("dlq"))
    \/ Left(<<Delete("tasks", t), Delete("inflight", t)>>,
            Old("tasks"), Old("queue"), Old("inflight"), New("dlq", r))
    \/ Left(<<Delete("inflight", t)>>,
            New("tasks", Absent), Old("queue"), Old("inflight"), New("dlq", r))
    \/ Left(<<>>, New("tasks", Absent), Old("queue"), New("inflight", Absent), New("dlq", r))

\* The client rewrites a task it holds, so the row keeps its retries.
SetProgress ==
    /\ todo \in {SetWrites(op.task, op.retries), <<>>}
    /\ Left(todo, Old("tasks"), Old("queue"), Old("inflight"), Old("dlq"))

\* Between two keys, and around the first write for one.
RecoverTodo ==
    \/ todo = <<>>
    \/ \E t \in Tasks : todo = RecoverWrites(t) /\ Has(Current, "inflight", t)
    \/ \E t \in Tasks : todo = <<Delete("inflight", t)>> /\ Has(Current, "queue", t)

RecoverProgress ==
    /\ RecoverTodo
    /\ Current["tasks"] = Old("tasks") /\ Current["dlq"] = Old("dlq")
    /\ \A t \in Tasks :
          /\ Current["queue"][t] \in {Old("queue")[t], Empty}
          /\ Current["inflight"][t] \in {Old("inflight")[t], Absent}
          /\ Has(op.from, "queue", t) => Has(Current, "queue", t)
          /\ Has(op.from, "inflight", t) => Has(Current, "queue", t) \/ Has(Current, "inflight", t)
          /\ Has(Current, "queue", t) => Has(op.from, "queue", t) \/ Has(op.from, "inflight", t)

Progress ==
    /\ op.name = "push" => PushProgress
    /\ op.name = "pop" => PopProgress
    /\ op.name = "ack" => AckProgress
    /\ op.name = "nack" => NackProgress
    /\ op.name = "set" => SetProgress
    /\ op.name = "recover" => RecoverProgress

\* As long as no operation was cut, nothing waits to be persisted but its writes.
NothingPending ==
    cut = {} => /\ op.name \in {"idle", "set"} => Len(versions) = 1
                /\ op.name = "recover" => Len(versions) = 1 \/ Current # op.from

\* The inductive invariant.
IInv == FjallTypeOK /\ EveryVersionSound /\ HeldLeased /\ Begun /\ Progress /\ NothingPending

-----------------------------------------------------------------------------
(* The store and its versions.                                             *)

\* The current version is one of the versions.
LEMMA CurrentVersion ==
    ASSUME FjallTypeOK
    PROVE  /\ Len(versions) \in Nat \ {0} /\ DOMAIN versions = 1 .. Len(versions)
           /\ Len(versions) \in DOMAIN versions /\ Current \in Store
           /\ \A i \in DOMAIN versions : versions[i] \in Store
<1>1. versions \in Seq(Store) /\ versions # <<>>
  BY DEF FjallTypeOK
<1>2. Len(versions) \in Nat \ {0} /\ DOMAIN versions = 1 .. Len(versions)
  BY <1>1, EmptySeq, LenProperties
<1>3. \A i \in DOMAIN versions : versions[i] \in Store
  BY <1>1, <1>2, ElementOfSeq
<1> QED
  BY <1>2, <1>3 DEF Current

\* One write changes one cell of one keyspace.
LEMMA OneCell ==
    ASSUME NEW s \in Store, NEW ks \in Keyspaces, NEW t \in Tasks, NEW v \in Values
    PROVE  /\ [s EXCEPT ![ks][t] = v] \in Store
           /\ [s EXCEPT ![ks][t] = v][ks] = [s[ks] EXCEPT ![t] = v]
           /\ \A k \in Keyspaces \ {ks} : [s EXCEPT ![ks][t] = v][k] = s[k]
  BY DEF Store

\* What a write does to the store.
LEMMA WriteEffect ==
    ASSUME FjallTypeOK, Write, NEW ks \in Keyspaces, NEW t \in Tasks, NEW v \in Values,
           Head(todo) = Insert(ks, t, v)
    PROVE  /\ versions' \in Seq(Store) /\ versions' # <<>> /\ Current' \in Store
           /\ Current'[ks] = [Current[ks] EXCEPT ![t] = v]
           /\ \A k \in Keyspaces \ {ks} : Current'[k] = Current[k]
           /\ \A i \in DOMAIN versions' :
                 versions'[i] = Current' \/ \E j \in DOMAIN versions : versions'[i] = versions[j]
           /\ IF Current' = Current THEN versions' = versions
              ELSE Len(versions') = Len(versions) + 1
<1> DEFINE n == [Current EXCEPT ![ks][t] = v]
<1>1. versions' = IF n = Current THEN versions ELSE Append(versions, n)
  <2> DEFINE w == Head(todo)
  <2>1. w.ks = ks /\ w.id = t /\ w.val = v
    BY DEF Insert
  <2>2. [Current EXCEPT ![w.ks][w.id] = w.val] = n
    BY <2>1
  <2>3. versions' = IF [Current EXCEPT ![w.ks][w.id] = w.val] = Current THEN versions
                    ELSE Append(versions, [Current EXCEPT ![w.ks][w.id] = w.val])
    BY DEF Write
  <2> QED
    BY <2>2, <2>3
<1>2. /\ n \in Store /\ n[ks] = [Current[ks] EXCEPT ![t] = v]
      /\ \A k \in Keyspaces \ {ks} : n[k] = Current[k]
  BY CurrentVersion, OneCell
<1> HIDE DEF n
<1>3. CASE n = Current
  BY <1>1, <1>2, <1>3, CurrentVersion DEF Current, FjallTypeOK
<1>4. CASE n # Current
  <2>1. /\ versions' \in Seq(Store) /\ Len(versions') = Len(versions) + 1
        /\ \A i \in 1 .. Len(versions) : versions'[i] = versions[i]
        /\ versions'[Len(versions) + 1] = n
    BY <1>1, <1>2, <1>4, AppendProperties DEF FjallTypeOK
  <2>2. DOMAIN versions' = 1 .. Len(versions) + 1 /\ Len(versions) \in Nat \ {0}
        /\ DOMAIN versions = 1 .. Len(versions)
    BY <2>1, CurrentVersion, LenProperties
  <2>3. Current' = n
    BY <2>1 DEF Current
  <2>4. versions' # <<>>
    BY <2>1, <2>2, EmptySeq
  <2> QED
    BY <1>2, <1>4, <2>1, <2>2, <2>3, <2>4
<1> QED
  BY <1>3, <1>4

\* The first of the writes that are left, and the others.
LEMMA Writes ==
    /\ \A a, b, c : /\ Head(<<a, b, c>>) = a /\ Tail(<<a, b, c>>) = <<b, c>>
                    /\ <<a, b, c>> # <<>>
    /\ \A a, b : Head(<<a, b>>) = a /\ Tail(<<a, b>>) = <<b>> /\ <<a, b>> # <<>>
    /\ \A a : Head(<<a>>) = a /\ Tail(<<a>>) = <<>> /\ <<a>> # <<>>
  OBVIOUS

\* The versions after a write: the new one, if it is new, and the old ones.
Grown ==
    /\ versions' \in Seq(Store) /\ versions' # <<>> /\ Current' \in Store
    /\ \A i \in DOMAIN versions' :
          versions'[i] = Current' \/ \E j \in DOMAIN versions : versions'[i] = versions[j]
    /\ Current' = Current => versions' = versions

\* Of all tasks, only that of a write sees anything new.
Wrote(ks, t, v) ==
    /\ Current'[ks] = [Current[ks] EXCEPT ![t] = v] /\ Current'[ks][t] = v
    /\ \A k \in Keyspaces \ {ks} : Current'[k] = Current[k]
    /\ Grown /\ todo' = Tail(todo) /\ UNCHANGED <<op, clientVars, historyVars, faults>>
    /\ \A u \in Tasks \ {t} : Sound(Current, u) => Sound(Current, u)'

\* A write changes one cell.
LEMMA WriteCell ==
    ASSUME FjallTypeOK, Write, NEW ks \in Keyspaces, NEW t \in Tasks, NEW v \in Values,
           Head(todo) = Insert(ks, t, v)
    PROVE  Wrote(ks, t, v)
<1>1. Current \in Store
  BY CurrentVersion
<1>2. /\ Current'[ks] = [Current[ks] EXCEPT ![t] = v]
      /\ \A k \in Keyspaces \ {ks} : Current'[k] = Current[k]
      /\ Grown
  BY WriteEffect DEF Grown
<1>3. Current'[ks][t] = v /\ \A u \in Tasks \ {t} : Current'[ks][u] = Current[ks][u]
  BY <1>1, <1>2 DEF Store
<1>4. todo' = Tail(todo) /\ UNCHANGED <<op, clientVars, historyVars, faults>>
  BY DEF Write
<1>5. ASSUME NEW u \in Tasks \ {t}, Sound(Current, u) PROVE Sound(Current, u)'
  <2>1. \A k \in Keyspaces : Current'[k][u] = Current[k][u]
    BY <1>2, <1>3
  <2> QED
    BY <1>4, <1>5, <2>1 DEF Sound, Has, Keyspaces
<1> QED
  BY <1>2, <1>3, <1>4, <1>5 DEF Wrote

\* The values that operations write.
LEMMA WrittenValues ==
    /\ {Empty, Absent} \subseteq Values /\ Empty # Absent
    /\ \A r \in 0 .. MaxRetries : r \in Values /\ r # Absent
  BY FjallAssumption DEF Values, Absent, Empty

\* push writes the row before the queue entry, and the queue entry before the lease goes.
LEMMA WritePush ==
    ASSUME FjallTypeOK, Begun, op.name = "push", PushProgress, Write,
           \A t \in Tasks : Sound(Current, t)
    PROVE  PushProgress' /\ Grown /\ \A t \in Tasks : Sound(Current, t)'
<1> DEFINE t == op.task   r == op.retries
<1>1. /\ t \in Tasks /\ t \in used /\ op.from \in Store /\ Sound(Current, t)
      /\ r \in Values /\ r # Absent
  BY FjallAssumption, WrittenValues DEF FjallTypeOK, Begun, FoundNew, FoundFailed
<1>2. /\ t \notin acked \cup buried
      /\ t \in promised => Has(op.from, "inflight", t)
  BY DEF Begun, FoundNew, FoundFailed
<1>3. CASE Left(PushWrites(t, r),
              Old("tasks"), Old("queue"), Old("inflight"), Old("dlq"))
  <2>1. Head(todo) = Insert("tasks", t, r) /\ Tail(todo) = <<Insert("queue", t, Empty), Delete("inflight", t)>>
    BY <1>3, Writes DEF Left, PushWrites
  <2>2. Wrote("tasks", t, r)
    BY <1>1, <2>1, WriteCell, WrittenValues DEF Keyspaces
  <2>3. Sound(Current, t)'
    BY <1>1, <1>2, <1>3, <2>2, WrittenValues DEF Wrote, Sound, Has, Keyspaces, Left, Old, New, Store
  <2>4. Left(<<Insert("queue", t, Empty), Delete("inflight", t)>>,
             New("tasks", r), Old("queue"), Old("inflight"), Old("dlq"))'
    BY <1>3, <2>1, <2>2 DEF Wrote, Left, Old, New, Keyspaces, Insert, Delete
  <2> QED
    BY <2>2, <2>3, <2>4 DEF Wrote, PushProgress
<1>4. CASE Left(<<Insert("queue", t, Empty), Delete("inflight", t)>>,
              New("tasks", r), Old("queue"), Old("inflight"), Old("dlq"))
  <2>1. Head(todo) = Insert("queue", t, Empty) /\ Tail(todo) = <<Delete("inflight", t)>>
    BY <1>4, Writes DEF Left
  <2>2. Wrote("queue", t, Empty)
    BY <1>1, <2>1, WriteCell, WrittenValues DEF Keyspaces
  <2>3. Sound(Current, t)'
    BY <1>1, <1>2, <1>4, <2>2, WrittenValues DEF Wrote, Sound, Has, Keyspaces, Left, Old, New, Store
  <2>4. Left(<<Delete("inflight", t)>>,
             New("tasks", r), New("queue", Empty), Old("inflight"), Old("dlq"))'
    BY <1>4, <2>1, <2>2 DEF Wrote, Left, Old, New, Keyspaces, Insert, Delete
  <2> QED
    BY <2>2, <2>3, <2>4 DEF Wrote, PushProgress
<1>5. CASE Left(<<Delete("inflight", t)>>,
              New("tasks", r), New("queue", Empty), Old("inflight"), Old("dlq"))
  <2>1. Head(todo) = Delete("inflight", t) /\ Tail(todo) = <<>>
    BY <1>5, Writes DEF Left
  <2>2. Wrote("inflight", t, Absent)
    BY <1>1, <2>1, WriteCell, WrittenValues DEF Keyspaces, Delete
  <2>3. Sound(Current, t)'
    BY <1>1, <1>2, <1>5, <2>2, WrittenValues DEF Wrote, Sound, Has, Keyspaces, Left, Old, New, Store
  <2>4. Left(<<>>,
             New("tasks", r), New("queue", Empty), New("inflight", Absent), Old("dlq"))'
    BY <1>5, <2>1, <2>2 DEF Wrote, Left, Old, New, Keyspaces, Insert, Delete
  <2> QED
    BY <2>2, <2>3, <2>4 DEF Wrote, PushProgress
<1>6. todo # <<>>
  BY DEF Write
<1> QED
  BY <1>3, <1>4, <1>5, <1>6 DEF PushProgress, Left

\* Between its writes pop holds a task that is neither queued nor leased.
LEMMA WritePop ==
    ASSUME FjallTypeOK, Begun, op.name = "pop", PopProgress, Write,
           \A t \in Tasks : Sound(Current, t)
    PROVE  PopProgress' /\ Grown /\ \A t \in Tasks : Sound(Current, t)'
<1> DEFINE t == op.task   r == op.retries
<1>1. /\ t \in Tasks /\ t \in used /\ op.from \in Store /\ Sound(Current, t)
  BY FjallAssumption, WrittenValues DEF FjallTypeOK, Begun
<1>2. Has(op.from, "tasks", t) \/ Has(op.from, "dlq", t) \/ t \in acking
  BY DEF Begun, FoundQueued
<1>3. CASE Left(PopWrites(t),
              Old("tasks"), Old("queue"), Old("inflight"), Old("dlq"))
  <2>1. Head(todo) = Delete("queue", t) /\ Tail(todo) = <<Insert("inflight", t, Empty)>>
    BY <1>3, Writes DEF Left, PopWrites
  <2>2. Wrote("queue", t, Absent)
    BY <1>1, <2>1, WriteCell, WrittenValues DEF Keyspaces, Delete
  <2>3. Sound(Current, t)'
    BY <1>1, <1>2, <1>3, <2>2, WrittenValues DEF Wrote, Sound, Has, Keyspaces, Left, Old, New, Store
  <2>4. Left(<<Insert("inflight", t, Empty)>>,
             Old("tasks"), New("queue", Absent), Old("inflight"), Old("dlq"))'
    BY <1>3, <2>1, <2>2 DEF Wrote, Left, Old, New, Keyspaces, Insert, Delete
  <2> QED
    BY <2>2, <2>3, <2>4 DEF Wrote, PopProgress
<1>4. CASE Left(<<Insert("inflight", t, Empty)>>,
              Old("tasks"), New("queue", Absent), Old("inflight"), Old("dlq"))
  <2>1. Head(todo) = Insert("inflight", t, Empty) /\ Tail(todo) = <<>>
    BY <1>4, Writes DEF Left
  <2>2. Wrote("inflight", t, Empty)
    BY <1>1, <2>1, WriteCell, WrittenValues DEF Keyspaces
  <2>3. Sound(Current, t)'
    BY <1>1, <1>2, <1>4, <2>2, WrittenValues DEF Wrote, Sound, Has, Keyspaces, Left, Old, New, Store
  <2>4. Left(<<>>,
             Old("tasks"), New("queue", Absent), New("inflight", Empty), Old("dlq"))'
    BY <1>4, <2>1, <2>2 DEF Wrote, Left, Old, New, Keyspaces, Insert, Delete
  <2> QED
    BY <2>2, <2>3, <2>4 DEF Wrote, PopProgress
<1>5. todo # <<>>
  BY DEF Write
<1> QED
  BY <1>3, <1>4, <1>5 DEF PopProgress, Left

\* The row that ack removes is one whose ack was called.
LEMMA WriteAck ==
    ASSUME FjallTypeOK, Begun, op.name = "ack", AckProgress, Write,
           \A t \in Tasks : Sound(Current, t)
    PROVE  AckProgress' /\ Grown /\ \A t \in Tasks : Sound(Current, t)'
<1> DEFINE t == op.task   r == op.retries
<1>1. /\ t \in Tasks /\ t \in used /\ op.from \in Store /\ Sound(Current, t)
      /\ r \in Values /\ r # Absent
  BY FjallAssumption, WrittenValues DEF FjallTypeOK, Begun, FoundLeased
<1>2. t \in acking
  BY DEF Begun
<1>3. CASE Left(AckWrites(t),
              Old("tasks"), Old("queue"), Old("inflight"), Old("dlq"))
  <2>1. Head(todo) = Delete("tasks", t) /\ Tail(todo) = <<Delete("inflight", t)>>
    BY <1>3, Writes DEF Left, AckWrites
  <2>2. Wrote("tasks", t, Absent)
    BY <1>1, <2>1, WriteCell, WrittenValues DEF Keyspaces, Delete
  <2>3. Sound(Current, t)'
    BY <1>1, <1>2, <1>3, <2>2, WrittenValues DEF Wrote, Sound, Has, Keyspaces, Left, Old, New, Store
  <2>4. Left(<<Delete("inflight", t)>>,
             New("tasks", Absent), Old("queue"), Old("inflight"), Old("dlq"))'
    BY <1>3, <2>1, <2>2 DEF Wrote, Left, Old, New, Keyspaces, Insert, Delete
  <2> QED
    BY <2>2, <2>3, <2>4 DEF Wrote, AckProgress
<1>4. CASE Left(<<Delete("inflight", t)>>,
              New("tasks", Absent), Old("queue"), Old("inflight"), Old("dlq"))
  <2>1. Head(todo) = Delete("inflight", t) /\ Tail(todo) = <<>>
    BY <1>4, Writes DEF Left
  <2>2. Wrote("inflight", t, Absent)
    BY <1>1, <2>1, WriteCell, WrittenValues DEF Keyspaces, Delete
  <2>3. Sound(Current, t)'
    BY <1>1, <1>2, <1>4, <2>2, WrittenValues DEF Wrote, Sound, Has, Keyspaces, Left, Old, New, Store
  <2>4. Left(<<>>,
             New("tasks", Absent), Old("queue"), New("inflight", Absent), Old("dlq"))'
    BY <1>4, <2>1, <2>2 DEF Wrote, Left, Old, New, Keyspaces, Insert, Delete
  <2> QED
    BY <2>2, <2>3, <2>4 DEF Wrote, AckProgress
<1>5. todo # <<>>
  BY DEF Write
<1> QED
  BY <1>3, <1>4, <1>5 DEF AckProgress, Left

\* The row that nack removes has its dead letter.
LEMMA WriteNack ==
    ASSUME FjallTypeOK, Begun, op.name = "nack", NackProgress, Write,
           \A t \in Tasks : Sound(Current, t)
    PROVE  NackProgress' /\ Grown /\ \A t \in Tasks : Sound(Current, t)'
<1> DEFINE t == op.task   r == op.retries
<1>1. /\ t \in Tasks /\ t \in used /\ op.from \in Store /\ Sound(Current, t)
      /\ r \in Values /\ r # Absent
  BY FjallAssumption, WrittenValues DEF FjallTypeOK, Begun, FoundLeased
<1>2. Has(op.from, "tasks", t)
  BY WrittenValues DEF Begun, FoundLeased, Has
<1>3. CASE Left(NackWrites(t, r),
              Old("tasks"), Old("queue"), Old("inflight"), Old("dlq"))
  <2>1. Head(todo) = Insert("dlq", t, r) /\ Tail(todo) = <<Delete("tasks", t), Delete("inflight", t)>>
    BY <1>3, Writes DEF Left, NackWrites
  <2>2. Wrote("dlq", t, r)
    BY <1>1, <2>1, WriteCell, WrittenValues DEF Keyspaces
  <2>3. Sound(Current, t)'
    BY <1>1, <1>2, <1>3, <2>2, WrittenValues DEF Wrote, Sound, Has, Keyspaces, Left, Old, New, Store
  <2>4. Left(<<Delete("tasks", t), Delete("inflight", t)>>,
             Old("tasks"), Old("queue"), Old("inflight"), New("dlq", r))'
    BY <1>3, <2>1, <2>2 DEF Wrote, Left, Old, New, Keyspaces, Insert, Delete
  <2> QED
    BY <2>2, <2>3, <2>4 DEF Wrote, NackProgress
<1>4. CASE Left(<<Delete("tasks", t), Delete("inflight", t)>>,
              Old("tasks"), Old("queue"), Old("inflight"), New("dlq", r))
  <2>1. Head(todo) = Delete("tasks", t) /\ Tail(todo) = <<Delete("inflight", t)>>
    BY <1>4, Writes DEF Left
  <2>2. Wrote("tasks", t, Absent)
    BY <1>1, <2>1, WriteCell, WrittenValues DEF Keyspaces, Delete
  <2>3. Sound(Current, t)'
    BY <1>1, <1>2, <1>4, <2>2, WrittenValues DEF Wrote, Sound, Has, Keyspaces, Left, Old, New, Store
  <2>4. Left(<<Delete("inflight", t)>>,
             New("tasks", Absent), Old("queue"), Old("inflight"), New("dlq", r))'
    BY <1>4, <2>1, <2>2 DEF Wrote, Left, Old, New, Keyspaces, Insert, Delete
  <2> QED
    BY <2>2, <2>3, <2>4 DEF Wrote, NackProgress
<1>5. CASE Left(<<Delete("inflight", t)>>,
              New("tasks", Absent), Old("queue"), Old("inflight"), New("dlq", r))
  <2>1. Head(todo) = Delete("inflight", t) /\ Tail(todo) = <<>>
    BY <1>5, Writes DEF Left
  <2>2. Wrote("inflight", t, Absent)
    BY <1>1, <2>1, WriteCell, WrittenValues DEF Keyspaces, Delete
  <2>3. Sound(Current, t)'
    BY <1>1, <1>2, <1>5, <2>2, WrittenValues DEF Wrote, Sound, Has, Keyspaces, Left, Old, New, Store
  <2>4. Left(<<>>,
             New("tasks", Absent), Old("queue"), New("inflight", Absent), New("dlq", r))'
    BY <1>5, <2>1, <2>2 DEF Wrote, Left, Old, New, Keyspaces, Insert, Delete
  <2> QED
    BY <2>2, <2>3, <2>4 DEF Wrote, NackProgress
<1>6. todo # <<>>
  BY DEF Write
<1> QED
  BY <1>3, <1>4, <1>5, <1>6 DEF NackProgress, Left

\* set writes the row that is there.
LEMMA WriteSet ==
    ASSUME FjallTypeOK, Begun, op.name = "set", SetProgress, Write
    PROVE  SetProgress' /\ versions' = versions
<1> DEFINE t == op.task   r == op.retries
<1>1. /\ t \in Tasks /\ r \in Values /\ Current \in Store
      /\ todo = SetWrites(t, r) /\ Current["tasks"][t] = r
  BY CurrentVersion, WrittenValues
     DEF FjallTypeOK, Begun, FoundLeased, SetProgress, Left, Old, Write
<1>2. Head(todo) = Insert("tasks", t, r) /\ Tail(todo) = <<>>
  BY <1>1, Writes DEF SetWrites
<1>3. Wrote("tasks", t, r)
  BY <1>1, <1>2, WriteCell DEF Keyspaces
<1>4. \A k \in Keyspaces : Current'[k] = Current[k]
  BY <1>1, <1>3 DEF Wrote, Store, Keyspaces
<1>5. Current' = Current
  BY <1>1, <1>3, <1>4 DEF Wrote, Grown, Store
<1>6. versions' = versions
  BY <1>3, <1>5 DEF Wrote, Grown
<1> QED
  BY <1>2, <1>3, <1>4, <1>6 DEF Wrote, SetProgress, Left, Old, Keyspaces

\* recover_inflight queues a task before it gives the lease up, and never writes
\* back what it found.
LEMMA WriteRecover ==
    ASSUME FjallTypeOK, Begun, op.name = "recover", RecoverProgress, Write,
           \A t \in Tasks : Sound(Current, t)
    PROVE  /\ RecoverProgress' /\ Grown /\ \A t \in Tasks : Sound(Current, t)'
           /\ Current' # Current => Current' # op.from
<1>1. op.from \in Store /\ Current \in Store /\ todo # <<>>
  BY CurrentVersion DEF FjallTypeOK, Write
<1>2. ASSUME NEW t \in Tasks, todo = RecoverWrites(t), Has(Current, "inflight", t)
      PROVE  /\ RecoverProgress' /\ Grown /\ \A u \in Tasks : Sound(Current, u)'
             /\ Current' # Current => Current' # op.from
  <2>1. Head(todo) = Insert("queue", t, Empty) /\ Tail(todo) = <<Delete("inflight", t)>>
    BY <1>2, Writes DEF RecoverWrites
  <2>2. Wrote("queue", t, Empty)
    BY <2>1, WriteCell, WrittenValues DEF Keyspaces
  <2>3. Sound(Current, t)'
    BY <1>2, <2>2, WrittenValues DEF Wrote, Sound, Has, Keyspaces
  <2>4. RecoverTodo' /\ Has(Current, "queue", t)'
    BY <2>1, <2>2, WrittenValues DEF Wrote, RecoverTodo, Has
  <2>5. /\ Current'["tasks"] = Old("tasks") /\ Current'["dlq"] = Old("dlq")
        /\ Current'["inflight"] = Current["inflight"]
        /\ \A u \in Tasks \ {t} : Current'["queue"][u] = Current["queue"][u]
    BY <1>1, <2>2 DEF Wrote, RecoverProgress, Keyspaces, Store
  <2>6. RecoverProgress'
    BY <1>2, <2>2, <2>4, <2>5, WrittenValues DEF Wrote, RecoverProgress, Has, Old
  <2>7. ASSUME Current' # Current PROVE Current' # op.from
    <3>1. Current["queue"][t] # Empty
      <4>1. SUFFICES ASSUME Current["queue"][t] = Empty PROVE Current' = Current
        BY <2>7
      <4>2. \A k \in Keyspaces : Current'[k] = Current[k]
        BY <1>1, <2>2, <4>1 DEF Wrote, Store, Keyspaces
      <4> QED
        BY <1>1, <2>2, <4>2 DEF Wrote, Grown, Store
    <3> QED
      BY <3>1, <2>2 DEF Wrote, RecoverProgress, Old
  <2> QED
    BY <2>2, <2>3, <2>6, <2>7 DEF Wrote
<1>3. ASSUME NEW t \in Tasks, todo = <<Delete("inflight", t)>>, Has(Current, "queue", t)
      PROVE  /\ RecoverProgress' /\ Grown /\ \A u \in Tasks : Sound(Current, u)'
             /\ Current' # Current => Current' # op.from
  <2>1. Head(todo) = Delete("inflight", t) /\ Tail(todo) = <<>>
    BY <1>3, Writes
  <2>2. Wrote("inflight", t, Absent)
    BY <2>1, WriteCell, WrittenValues DEF Keyspaces, Delete
  <2>3. Sound(Current, t)'
    BY <1>3, <2>2, WrittenValues DEF Wrote, Sound, Has, Keyspaces
  <2>4. RecoverTodo'
    BY <2>1, <2>2 DEF Wrote, RecoverTodo
  <2>5. /\ Current'["tasks"] = Old("tasks") /\ Current'["dlq"] = Old("dlq")
        /\ Current'["queue"] = Current["queue"]
        /\ \A u \in Tasks \ {t} : Current'["inflight"][u] = Current["inflight"][u]
    BY <1>1, <2>2 DEF Wrote, RecoverProgress, Keyspaces, Store
  <2>6. RecoverProgress'
    BY <1>3, <2>2, <2>4, <2>5, WrittenValues DEF Wrote, RecoverProgress, Has, Old
  <2>7. ASSUME Current' # Current PROVE Current' # op.from
    <3>1. Current["inflight"][t] # Absent
      <4>1. SUFFICES ASSUME Current["inflight"][t] = Absent PROVE Current' = Current
        BY <2>7
      <4>2. \A k \in Keyspaces : Current'[k] = Current[k]
        BY <1>1, <2>2, <4>1 DEF Wrote, Store, Keyspaces
      <4> QED
        BY <1>1, <2>2, <4>2 DEF Wrote, Grown, Store
    <3> QED
      BY <3>1, <2>2 DEF Wrote, RecoverProgress, Old
  <2> QED
    BY <2>2, <2>3, <2>6, <2>7 DEF Wrote
<1> QED
  BY <1>1, <1>2, <1>3 DEF RecoverProgress, RecoverTodo

-----------------------------------------------------------------------------
(* Every action preserves the invariant.                                   *)

\* An operation is under way exactly when it has another name than Idle.
LEMMA NotIdle ==
    ASSUME FjallTypeOK
    PROVE  op = Idle <=> op.name = "idle"
  BY DEF FjallTypeOK, Idle

\* A write.
LEMMA WriteInv == ASSUME IInv, Write PROVE IInv'
<1> USE DEF IInv
<1>1. todo # <<>> /\ UNCHANGED <<op, clientVars, historyVars, faults>>
  BY DEF Write
<1>2. op.name \in OpNames \ {"idle"} /\ op # Idle
  BY <1>1, NotIdle DEF FjallTypeOK
<1>3. \A t \in Tasks : Sound(Current, t)
  BY CurrentVersion DEF EveryVersionSound, Current
<1>4. Progress' /\ Grown /\ (op.name # "set" => \A t \in Tasks : Sound(Current, t)')
      /\ (op.name = "set" => versions' = versions)
      /\ (op.name = "recover" /\ Current' # Current => Current' # op.from)
  <2>1. CASE op.name = "push"
    BY <1>1, <1>3, <2>1, WritePush DEF Progress
  <2>2. CASE op.name = "pop"
    BY <1>1, <1>3, <2>2, WritePop DEF Progress
  <2>3. CASE op.name = "ack"
    BY <1>1, <1>3, <2>3, WriteAck DEF Progress
  <2>4. CASE op.name = "nack"
    BY <1>1, <1>3, <2>4, WriteNack DEF Progress
  <2>5. CASE op.name = "set"
    <3>1. SetProgress' /\ versions' = versions
      BY <2>5, WriteSet DEF Progress
    <3>2. Grown
      BY <3>1, CurrentVersion DEF Grown, FjallTypeOK, Current
    <3> QED
      BY <1>1, <2>5, <3>1, <3>2 DEF Progress
  <2>6. CASE op.name = "recover"
    BY <1>1, <1>3, <2>6, WriteRecover DEF Progress
  <2> QED
    BY <1>2, <2>1, <2>2, <2>3, <2>4, <2>5, <2>6 DEF OpNames
<1>5. FjallTypeOK'
  BY <1>1, <1>2, <1>4 DEF Grown, FjallTypeOK
<1>6. EveryVersionSound'
  <2>1. CASE op.name = "set"
    <3> SUFFICES ASSUME NEW i \in DOMAIN versions, NEW t \in Tasks PROVE Sound(versions[i], t)'
      BY <1>4, <2>1 DEF EveryVersionSound
    <3>1. Sound(versions[i], t) /\ versions' = versions
      BY <1>4, <2>1 DEF EveryVersionSound
    <3> QED
      BY <1>1, <3>1 DEF Sound, Has
  <2>2. CASE op.name # "set"
    <3> SUFFICES ASSUME NEW i \in DOMAIN versions', NEW t \in Tasks PROVE Sound(versions[i], t)'
      BY DEF EveryVersionSound
    <3>1. CASE versions'[i] = Current'
      BY <1>4, <2>2, <3>1 DEF Sound, Has
    <3>2. ASSUME NEW j \in DOMAIN versions, versions'[i] = versions[j] PROVE Sound(versions[i], t)'
      BY <1>1, <3>2 DEF EveryVersionSound, Sound, Has
    <3> QED
      BY <1>4, <3>1, <3>2 DEF Grown
  <2> QED
    BY <2>1, <2>2
<1>7. HeldLeased'
  BY <1>1, <1>2 DEF HeldLeased, View, Has
<1>8. Begun'
  BY <1>1 DEF Begun, FoundNew, FoundFailed, FoundQueued, FoundLeased, Has
<1>9. NothingPending'
  BY <1>1, <1>2, <1>4 DEF NothingPending, Grown
<1> QED
  BY <1>4, <1>5, <1>6, <1>7, <1>8, <1>9

\* Taking the mutex.
LEMMA BeginFrame ==
    ASSUME IInv, NEW name \in OpNames \ {"idle"}, NEW t, NEW r, NEW writes,
           Begin(name, t, r, writes), name # "recover" => t \in Tasks,
           used \subseteq used', used' \subseteq Tasks,
           acking \subseteq acking', acking' \subseteq used'
    PROVE  /\ FjallTypeOK' /\ EveryVersionSound' /\ HeldLeased' /\ NothingPending'
           /\ op.name = "idle" /\ View = Current /\ Current \in Store
           /\ Current' = Current /\ todo' = writes
           /\ op'.name = name /\ op'.task = t /\ op'.retries = r /\ op'.from = Current
           /\ UNCHANGED <<clientVars, promised, acked, buried>>
<1> USE DEF IInv
<1>1. /\ op = Idle /\ todo' = writes /\ UNCHANGED <<versions, clientVars, promised, acked, buried, cut, faults>>
      /\ op' = [name |-> name, task |-> t, retries |-> r, from |-> Current]
  BY DEF Begin
<1>2. op.name = "idle" /\ View = Current
  BY <1>1, NotIdle DEF View
<1>3. Current \in Store /\ Current' = Current
  BY <1>1, CurrentVersion DEF Current
<1>4. op'.name = name /\ op'.task = t /\ op'.retries = r /\ op'.from = Current /\ op' # Idle
  BY <1>1 DEF Idle
<1>5. FjallTypeOK'
  BY <1>1, <1>3, <1>4 DEF FjallTypeOK
<1>6. EveryVersionSound'
  <2> SUFFICES ASSUME NEW i \in DOMAIN versions, NEW u \in Tasks PROVE Sound(versions[i], u)'
    BY <1>1 DEF EveryVersionSound
  <2>1. Sound(versions[i], u)
    BY DEF EveryVersionSound
  <2>2. op.name # "pop" /\ UNCHANGED <<versions, promised, acked, buried, cut>>
    BY <1>1, <1>2
  <2> QED
    BY <2>1, <2>2 DEF Sound, Has
<1>7. HeldLeased'
  <2>1. View' = View
    BY <1>2, <1>4 DEF View
  <2> QED
    BY <1>1, <2>1 DEF HeldLeased, Has
<1>8. NothingPending'
  BY <1>1, <1>2, <1>4 DEF NothingPending
<1> QED
  BY <1>1, <1>2, <1>3, <1>4, <1>5, <1>6, <1>7, <1>8

\* What HeldLeased says of a task that the client settles, retries or rewrites.
LEMMA InHand ==
    ASSUME IInv, op.name = "idle", View = Current, NEW t \in Tasks, held[t] # Absent
    PROVE  /\ held[t] \in 0 .. MaxRetries /\ Current["tasks"][t] = held[t]
           /\ Has(Current, "tasks", t) /\ Has(Current, "inflight", t)
           /\ t \in used /\ t \notin acked \cup buried
<1>1. /\ held[t] \in Values /\ Current["tasks"][t] = held[t]
      /\ Has(Current, "tasks", t) /\ Has(Current, "inflight", t)
  BY DEF IInv, FjallTypeOK, HeldLeased, Has
<1>2. Sound(Current, t)
  BY CurrentVersion DEF IInv, EveryVersionSound, Current
<1>3. held[t] \in 0 .. MaxRetries
  BY <1>1, FjallAssumption DEF Values, Absent
<1> QED
  BY <1>1, <1>2, <1>3 DEF Sound, Keyspaces

\* An operation begins.
LEMMA BeginInv ==
    ASSUME IInv, NEW t \in Tasks,
           PushNew(t) \/ PushRetry(t) \/ PopKey(t) \/ Ack(t) \/ Nack(t) \/ Set(t)
    PROVE  IInv'
<1>0. used \subseteq Tasks /\ acking \subseteq used
  BY DEF IInv, FjallTypeOK
<1>1. CASE PushNew(t)
  <2>1. Begin("push", t, 0, PushWrites(t, 0)) /\ t \notin used /\ used' = used \cup {t}
        /\ acking' = acking
    BY <1>1 DEF PushNew
  <2>2. /\ FjallTypeOK' /\ EveryVersionSound' /\ HeldLeased' /\ NothingPending'
        /\ Current \in Store /\ Current' = Current /\ todo' = PushWrites(t, 0)
        /\ op'.name = "push" /\ op'.task = t /\ op'.retries = 0 /\ op'.from = Current
        /\ UNCHANGED <<clientVars, promised, acked, buried>>
    BY <1>0, <2>1, BeginFrame DEF OpNames
  <2>3. Sound(Current, t)
    BY CurrentVersion DEF IInv, EveryVersionSound, Current
  <2>4. FoundNew'
    BY <2>1, <2>2, <2>3 DEF FoundNew, Sound, Has, IInv, FjallTypeOK
  <2>5. Begun' /\ Progress'
    BY <2>1, <2>2, <2>4 DEF Begun, Progress, PushProgress, Left, Old
  <2> QED
    BY <2>2, <2>5 DEF IInv
<1>2. CASE PushRetry(t)
  <2> DEFINE r == held[t] + 1
  <2>1. Begin("push", t, r, PushWrites(t, r)) /\ UNCHANGED <<used, acking>>
        /\ held[t] # Absent /\ held[t] < MaxRetries
    BY <1>2 DEF PushRetry
  <2> HIDE DEF r
  <2>2. /\ FjallTypeOK' /\ EveryVersionSound' /\ HeldLeased' /\ NothingPending'
        /\ op.name = "idle" /\ View = Current
        /\ Current \in Store /\ Current' = Current /\ todo' = PushWrites(t, r)
        /\ op'.name = "push" /\ op'.task = t /\ op'.retries = r /\ op'.from = Current
        /\ UNCHANGED <<clientVars, promised, acked, buried>>
    BY <1>0, <2>1, BeginFrame DEF OpNames
  <2>3. /\ held[t] \in 0 .. MaxRetries /\ Current["tasks"][t] = held[t]
        /\ Has(Current, "inflight", t) /\ t \in used /\ t \notin acked \cup buried
    BY <2>1, <2>2, InHand
  <2>4. r \in 1 .. MaxRetries /\ Current["tasks"][t] = r - 1
    BY <2>1, <2>3, FjallAssumption DEF r
  <2>5. FoundFailed'
    BY <2>2, <2>3, <2>4 DEF FoundFailed, Has
  <2>6. Begun' /\ Progress'
    BY <2>1, <2>2, <2>3, <2>5 DEF Begun, Progress, PushProgress, Left, Old
  <2> QED
    BY <2>2, <2>6 DEF IInv
<1>3. CASE PopKey(t)
  <2>1. Begin("pop", t, 0, PopWrites(t)) /\ UNCHANGED <<used, acking>>
        /\ ready /\ t \in Keys(Current, "queue")
    BY <1>3 DEF PopKey
  <2>2. /\ FjallTypeOK' /\ EveryVersionSound' /\ HeldLeased' /\ NothingPending'
        /\ Current \in Store /\ Current' = Current /\ todo' = PopWrites(t)
        /\ op'.name = "pop" /\ op'.task = t /\ op'.from = Current
        /\ UNCHANGED <<clientVars, promised, acked, buried>>
    BY <1>0, <2>1, BeginFrame DEF OpNames
  <2>3. Sound(Current, t) /\ Has(Current, "queue", t)
    BY <2>1, CurrentVersion DEF IInv, EveryVersionSound, Current, Keys, Has
  <2>4. FoundQueued' /\ t \in used
    BY <2>1, <2>2, <2>3 DEF FoundQueued, Sound, Has, Keyspaces
  <2>5. Begun' /\ Progress'
    BY <2>1, <2>2, <2>4 DEF Begun, Progress, PopProgress, Left, Old
  <2> QED
    BY <2>2, <2>5 DEF IInv
<1>4. CASE Ack(t)
  <2>1. Begin("ack", t, held[t], AckWrites(t)) /\ UNCHANGED used
        /\ held[t] # Absent /\ acking' = acking \cup {t}
    BY <1>4 DEF Ack
  <2>2. op.name = "idle" /\ View = Current
    BY <2>1, NotIdle DEF IInv, Begin, View
  <2>3. /\ held[t] \in 0 .. MaxRetries /\ Current["tasks"][t] = held[t] /\ t \in used
    BY <2>1, <2>2, InHand
  <2>4. /\ FjallTypeOK' /\ EveryVersionSound' /\ HeldLeased' /\ NothingPending'
        /\ Current \in Store /\ Current' = Current /\ todo' = AckWrites(t)
        /\ op'.name = "ack" /\ op'.task = t /\ op'.retries = held[t] /\ op'.from = Current
        /\ UNCHANGED <<clientVars, promised, acked, buried>>
    BY <1>0, <2>1, <2>3, BeginFrame DEF OpNames
  <2>5. FoundLeased'
    BY <2>3, <2>4 DEF FoundLeased
  <2>6. Begun' /\ Progress'
    BY <2>1, <2>3, <2>4, <2>5 DEF Begun, Progress, AckProgress, Left, Old
  <2> QED
    BY <2>4, <2>6 DEF IInv
<1>5. CASE Nack(t)
  <2>1. Begin("nack", t, held[t], NackWrites(t, held[t])) /\ UNCHANGED <<used, acking>>
        /\ held[t] = MaxRetries /\ held[t] # Absent
    BY <1>5, FjallAssumption DEF Nack, Absent
  <2>2. /\ FjallTypeOK' /\ EveryVersionSound' /\ HeldLeased' /\ NothingPending'
        /\ op.name = "idle" /\ View = Current
        /\ Current \in Store /\ Current' = Current /\ todo' = NackWrites(t, held[t])
        /\ op'.name = "nack" /\ op'.task = t /\ op'.retries = held[t] /\ op'.from = Current
        /\ UNCHANGED <<clientVars, promised, acked, buried>>
    BY <1>0, <2>1, BeginFrame DEF OpNames
  <2>3. /\ held[t] \in 0 .. MaxRetries /\ Current["tasks"][t] = held[t] /\ t \in used
    BY <2>1, <2>2, InHand
  <2>4. FoundLeased'
    BY <2>2, <2>3 DEF FoundLeased
  <2>5. Begun' /\ Progress'
    BY <2>1, <2>2, <2>3, <2>4 DEF Begun, Progress, NackProgress, Left, Old
  <2> QED
    BY <2>2, <2>5 DEF IInv
<1>6. CASE Set(t)
  <2>1. Begin("set", t, held[t], SetWrites(t, held[t])) /\ UNCHANGED <<used, acking>>
        /\ held[t] # Absent
    BY <1>6 DEF Set
  <2>2. /\ FjallTypeOK' /\ EveryVersionSound' /\ HeldLeased' /\ NothingPending'
        /\ op.name = "idle" /\ View = Current
        /\ Current \in Store /\ Current' = Current /\ todo' = SetWrites(t, held[t])
        /\ op'.name = "set" /\ op'.task = t /\ op'.retries = held[t] /\ op'.from = Current
        /\ UNCHANGED <<clientVars, promised, acked, buried>>
    BY <1>0, <2>1, BeginFrame DEF OpNames
  <2>3. /\ held[t] \in 0 .. MaxRetries /\ Current["tasks"][t] = held[t] /\ t \in used
    BY <2>1, <2>2, InHand
  <2>4. FoundLeased'
    BY <2>2, <2>3 DEF FoundLeased
  <2>5. Begun' /\ Progress'
    BY <2>1, <2>2, <2>3, <2>4 DEF Begun, Progress, SetProgress, Left, Old
  <2> QED
    BY <2>2, <2>5 DEF IInv
<1> QED
  BY <1>1, <1>2, <1>3, <1>4, <1>5, <1>6

\* Recovery begins, and goes on to the next key.
LEMMA RecoverInv ==
    ASSUME IInv, RecoverInflight \/ \E t \in Tasks : RecoverKey(t)
    PROVE  IInv'
<1>1. CASE RecoverInflight
  <2>1. Begin("recover", 0, 0, <<>>) /\ UNCHANGED <<used, acking>> /\ ~ready
    BY <1>1 DEF RecoverInflight
  <2>2. /\ FjallTypeOK' /\ EveryVersionSound' /\ HeldLeased' /\ NothingPending'
        /\ Current \in Store /\ Current' = Current /\ todo' = <<>>
        /\ op'.name = "recover" /\ op'.from = Current
        /\ UNCHANGED <<clientVars, promised, acked, buried>>
    BY <2>1, BeginFrame DEF OpNames, IInv, FjallTypeOK
  <2>3. RecoverProgress'
    BY <2>2 DEF RecoverProgress, RecoverTodo, Old, Has
  <2>4. Begun' /\ Progress'
    BY <2>1, <2>2, <2>3 DEF Begun, Progress
  <2> QED
    BY <2>2, <2>4 DEF IInv
<1>2. ASSUME NEW t \in Tasks, RecoverKey(t) PROVE IInv'
  <2>1. /\ op.name = "recover" /\ Has(Current, "inflight", t) /\ todo' = RecoverWrites(t)
        /\ UNCHANGED <<versions, op, clientVars, historyVars, faults>>
    BY <1>2 DEF RecoverKey, Keys, Has
  <2>2. Current' = Current
    BY <2>1 DEF Current
  <2>3. RecoverProgress'
    BY <2>1, <2>2 DEF IInv, Progress, RecoverProgress, RecoverTodo, Old, Has
  <2>4. FjallTypeOK'
    BY <2>1 DEF IInv, FjallTypeOK, Idle
  <2>5. EveryVersionSound'
    BY <2>1 DEF IInv, EveryVersionSound, Sound, Has
  <2>6. HeldLeased' /\ NothingPending'
    BY <2>1, <2>2 DEF IInv, HeldLeased, View, Has, NothingPending
  <2>7. Begun' /\ Progress'
    BY <2>1, <2>3 DEF IInv, Begun, Progress
  <2> QED
    BY <2>4, <2>5, <2>6, <2>7 DEF IInv
<1> QED
  BY <1>1, <1>2

\* What an operation that has made its writes has made of the store.
LEMMA AllWritten ==
    ASSUME Progress, todo = <<>>
    PROVE  /\ op.name = "push" =>
                 Left(<<>>, New("tasks", op.retries), New("queue", Empty),
                      New("inflight", Absent), Old("dlq"))
           /\ op.name = "pop" =>
                 Left(<<>>, Old("tasks"), New("queue", Absent), New("inflight", Empty), Old("dlq"))
           /\ op.name = "ack" =>
                 Left(<<>>, New("tasks", Absent), Old("queue"), New("inflight", Absent), Old("dlq"))
           /\ op.name = "nack" =>
                 Left(<<>>, New("tasks", Absent), Old("queue"), New("inflight", Absent),
                      New("dlq", op.retries))
           /\ op.name = "set" =>
                 Left(<<>>, Old("tasks"), Old("queue"), Old("inflight"), Old("dlq"))
  BY Writes DEF Progress, PushProgress, PopProgress, AckProgress, NackProgress, SetProgress,
                Left, PushWrites, PopWrites, AckWrites, NackWrites

\* An operation writes of its own task only.
LEMMA OthersUntouched ==
    ASSUME FjallTypeOK, Progress, op.name \notin {"idle", "recover"}
    PROVE  \A ks \in Keyspaces : \A u \in Tasks \ {op.task} : Current[ks][u] = op.from[ks][u]
<1>1. op.from \in [Keyspaces -> [Tasks -> Values]]
  BY DEF FjallTypeOK, Store
<1>2. \A ks \in Keyspaces : Current[ks] = Old(ks) \/ \E v : Current[ks] = New(ks, v)
  <2>1. CASE op.name = "push"
    BY <2>1 DEF Progress, PushProgress, Left, Keyspaces
  <2>2. CASE op.name = "pop"
    BY <2>2 DEF Progress, PopProgress, Left, Keyspaces
  <2>3. CASE op.name = "ack"
    BY <2>3 DEF Progress, AckProgress, Left, Keyspaces
  <2>4. CASE op.name = "nack"
    BY <2>4 DEF Progress, NackProgress, Left, Keyspaces
  <2>5. CASE op.name = "set"
    BY <2>5 DEF Progress, SetProgress, Left, Keyspaces
  <2> QED
    BY <2>1, <2>2, <2>3, <2>4, <2>5 DEF FjallTypeOK, OpNames
<1>3. ASSUME NEW ks \in Keyspaces, NEW u \in Tasks \ {op.task} PROVE Current[ks][u] = op.from[ks][u]
  <2>1. CASE Current[ks] = Old(ks)
    BY <2>1 DEF Old
  <2>2. ASSUME NEW v, Current[ks] = New(ks, v) PROVE Current[ks][u] = op.from[ks][u]
    <3>1. op.from[ks] \in [Tasks -> Values]
      BY <1>1
    <3> QED
      BY <2>2, <3>1 DEF New
  <2> QED
    BY <1>2, <2>1, <2>2
<1> QED
  BY <1>3

\* An operation returns.
LEMMA ReturnInv == ASSUME IInv, Return PROVE IInv'
<1> DEFINE t == op.task
<1> USE DEF IInv
<1>1. /\ todo = <<>> /\ todo' = <<>> /\ op' = Idle /\ op # Idle /\ op.name \in OpNames \ {"idle"}
      /\ UNCHANGED <<used, acking, cut, faults>>
  BY NotIdle DEF Return, FjallTypeOK
<1>2. Current \in Store /\ op.from \in Store /\ \A u \in Tasks : Sound(Current, u)
  BY <1>1, CurrentVersion DEF FjallTypeOK, EveryVersionSound, Current
<1>3. versions' = <<Current>> \/ (versions' = versions /\ ~Synced)
  BY DEF Return
<1>4. Current' = Current /\ versions' \in Seq(Store) /\ versions' # <<>>
      /\ \A i \in DOMAIN versions' :
            versions'[i] = Current \/ (~Synced /\ \E j \in DOMAIN versions : versions'[i] = versions[j])
  <2>1. CASE versions' = <<Current>>
    BY <1>2, <2>1 DEF Current
  <2>2. CASE versions' = versions /\ ~Synced
    BY <2>2 DEF Current, FjallTypeOK
  <2> QED
    BY <1>3, <2>1, <2>2
<1>5. op'.name = "idle" /\ View' = Current
  BY <1>1, <1>4 DEF Idle, View
<1>6. /\ op.name = "pop" => held' = [held EXCEPT ![t] = Current["tasks"][t]]
      /\ op.name \in {"push", "ack", "nack"} => held' = [held EXCEPT ![t] = Absent]
      /\ op.name \in {"set", "recover"} => held' = held
      /\ promised' = IF op.name = "push" THEN promised \cup {t} ELSE promised
      /\ acked' = IF op.name = "ack" THEN acked \cup {t} ELSE acked
      /\ buried' = IF op.name = "nack" THEN buried \cup {t} ELSE buried
      /\ ready' = (ready \/ op.name = "recover")
  BY DEF Return
<1>7. op.name # "recover" => t \in Tasks /\ t \in used
  BY <1>1 DEF FjallTypeOK, Begun
<1>8. FjallTypeOK'
  <2>1. held' \in [Tasks -> Values]
    <3>1. op.name = "pop" => Current["tasks"][t] \in Values
      BY <1>2, <1>7 DEF Store, Keyspaces
    <3> QED
      BY <1>1, <1>6, <3>1, WrittenValues DEF FjallTypeOK, OpNames
  <2>2. promised' \subseteq used' /\ acked' \subseteq used' /\ buried' \subseteq used'
    BY <1>1, <1>6, <1>7 DEF FjallTypeOK
  <2>3. ready' \in BOOLEAN
    BY <1>6 DEF FjallTypeOK
  <2> QED
    BY <1>1, <1>4, <2>1, <2>2, <2>3 DEF FjallTypeOK, Idle, OpNames
<1>9. \A u \in Tasks : Sound(Current, u)'
  <2> SUFFICES ASSUME NEW u \in Tasks PROVE Sound(Current, u)'
    OBVIOUS
  <2>1. Sound(Current, u)
    BY <1>2
  <2>2. CASE op.name = "push" /\ u = t
    <3>1. Has(Current, "tasks", u) /\ Has(Current, "queue", u) /\ u \notin acked \cup buried
      BY <1>1, <1>2, <2>2, AllWritten, WrittenValues, FjallAssumption
         DEF Left, New, Begun, FoundNew, FoundFailed, Has, Store, Keyspaces
    <3> QED
      BY <1>1, <1>4, <1>5, <1>6, <1>7, <2>1, <2>2, <3>1 DEF Sound, Has
  <2>3. CASE op.name = "pop" /\ u = t
    <3>1. Has(Current, "inflight", u)
      BY <1>1, <1>2, <2>3, AllWritten, WrittenValues DEF Left, New, Has, Store, Keyspaces
    <3> QED
      BY <1>1, <1>4, <1>5, <1>6, <2>1, <2>3, <3>1 DEF Sound, Has
  <2>4. CASE op.name = "ack" /\ u = t
    <3>1. ~Has(Current, "tasks", u)
      BY <1>1, <1>2, <2>4, AllWritten, WrittenValues DEF Left, New, Has, Store, Keyspaces
    <3> QED
      BY <1>1, <1>4, <1>5, <1>6, <1>7, <2>1, <2>4, <3>1 DEF Sound, Has
  <2>5. CASE op.name = "nack" /\ u = t
    <3>1. ~Has(Current, "tasks", u) /\ Has(Current, "dlq", u)
      BY <1>1, <1>2, <2>5, AllWritten, WrittenValues
         DEF Left, New, Has, Store, Keyspaces, Begun, FoundLeased
    <3> QED
      BY <1>1, <1>4, <1>5, <1>6, <1>7, <2>1, <2>5, <3>1 DEF Sound, Has
  <2>6. CASE op.name \in {"set", "recover"} \/ u # t
    BY <1>1, <1>4, <1>5, <1>6, <2>1, <2>6 DEF Sound, Has
  <2> QED
    BY <1>1, <2>2, <2>3, <2>4, <2>5, <2>6 DEF OpNames
<1>10. EveryVersionSound'
  <2> SUFFICES ASSUME NEW i \in DOMAIN versions', NEW u \in Tasks PROVE Sound(versions[i], u)'
    BY DEF EveryVersionSound
  <2>1. CASE versions'[i] = Current
    BY <1>4, <1>9, <2>1 DEF Sound, Has
  <2>2. ASSUME ~Synced, NEW j \in DOMAIN versions, versions'[i] = versions[j]
        PROVE  Sound(versions[i], u)'
    <3>1. op.name \in {"set", "recover"} /\ Sound(versions[j], u)
      BY <2>2 DEF Synced, EveryVersionSound
    <3> QED
      BY <1>1, <1>6, <2>2, <3>1 DEF Sound, Has
  <2> QED
    BY <1>4, <2>1, <2>2
<1>11. HeldLeased'
  <2>1. CASE op.name = "recover"
    BY <1>5, <1>6, <2>1 DEF HeldLeased, Begun, Has
  <2>2. CASE op.name # "recover"
    <3>1. \A u \in Tasks \ {t} : held'[u] = held[u]
      BY <1>1, <1>6, <2>2 DEF FjallTypeOK, OpNames
    <3>2. \A ks \in Keyspaces : \A u \in Tasks \ {t} : Current[ks][u] = View[ks][u]
      BY <1>1, <2>2, OthersUntouched DEF View
    <3>3. \A u \in Tasks \ {t} : held'[u] # Absent =>
             /\ Has(Current, "inflight", u) /\ ~Has(Current, "queue", u)
             /\ held'[u] = Current["tasks"][u]
      BY <1>5, <3>1, <3>2 DEF HeldLeased, Has, Keyspaces
    <3>4. held'[t] # Absent =>
             /\ Has(Current, "inflight", t) /\ ~Has(Current, "queue", t)
             /\ held'[t] = Current["tasks"][t]
      <4>1. CASE op.name = "pop"
        <5>1. Current["inflight"][t] = Empty /\ Current["queue"][t] = Absent
          BY <1>1, <1>2, <1>7, <4>1, AllWritten DEF Left, New, Store, Keyspaces
        <5>2. held'[t] = Current["tasks"][t]
          BY <1>6, <1>7, <4>1 DEF FjallTypeOK
        <5> QED
          BY <1>5, <5>1, <5>2, WrittenValues DEF Has
      <4>2. CASE op.name = "set"
        <5>1. held'[t] = held[t] /\ View = op.from
          BY <1>1, <1>6, <4>2 DEF View
        <5>2. \A ks \in Keyspaces : Current[ks] = View[ks]
          BY <1>1, <5>1, <4>2, AllWritten DEF Left, Old, Keyspaces
        <5>3. /\ held[t] # Absent => /\ Has(Current, "inflight", t) /\ ~Has(Current, "queue", t)
                                     /\ held[t] = Current["tasks"][t]
          BY <1>7, <4>2, <5>2 DEF HeldLeased, Has, Keyspaces
        <5> QED
          BY <1>5, <5>1, <5>3 DEF Has
      <4>3. CASE op.name \in {"push", "ack", "nack"}
        BY <1>6, <1>7, <4>3 DEF FjallTypeOK
      <4> QED
        BY <1>1, <2>2, <4>1, <4>2, <4>3 DEF OpNames
    <3>5. ~ready' => \A u \in Tasks : held'[u] = Absent
      <4>1. CASE op.name = "pop"
        BY <1>6, <4>1 DEF Begun, FoundQueued
      <4>2. CASE op.name # "pop"
        BY <1>1, <1>6, <1>7, <2>2, <3>1, <4>2 DEF HeldLeased, FjallTypeOK, OpNames
      <4> QED
        BY <4>1, <4>2
    <3>6. \A u \in Tasks : held'[u] # Absent =>
             /\ Has(Current, "inflight", u) /\ ~Has(Current, "queue", u)
             /\ held'[u] = Current["tasks"][u]
      BY <3>3, <3>4
    <3> QED
      BY <1>5, <3>5, <3>6 DEF HeldLeased, Has
  <2> QED
    BY <2>1, <2>2
<1>12. NothingPending'
  <2>1. cut = {} => Len(versions') = 1
    <3>1. CASE versions' = <<Current>>
      BY <3>1
    <3>2. CASE versions' = versions /\ ~Synced
      BY <3>2 DEF Synced, NothingPending
    <3> QED
      BY <1>3, <3>1, <3>2
  <2> QED
    BY <1>1, <1>5, <2>1 DEF NothingPending
<1>13. Begun' /\ Progress'
  BY <1>5 DEF Begun, Progress
<1> QED
  BY <1>8, <1>10, <1>11, <1>12, <1>13

\* A write or the persist fails.
LEMMA FailInv == ASSUME IInv, Fail PROVE IInv'
<1> DEFINE t == op.task
<1> USE DEF IInv
<1>1. /\ op # Idle /\ op' = Idle /\ todo' = <<>> /\ cut' = cut \cup {<<op.name, t>>}
      /\ ready' = (ready \/ op.name = "recover") /\ faults < MaxFaults /\ faults' = faults + 1
      /\ held' = [u \in Tasks |-> IF u = t THEN Absent ELSE held[u]]
      /\ UNCHANGED <<versions, used, promised, acking, acked, buried>>
  BY DEF Fail, Abort
<1>2. op.name \in OpNames \ {"idle"} /\ op'.name = "idle" /\ Current' = Current /\ View' = Current
      /\ View = op.from
  BY <1>1, NotIdle DEF FjallTypeOK, Idle, View, Current
<1>3. FjallTypeOK'
  <2>1. held' \in [Tasks -> Values] /\ faults' \in 0 .. MaxFaults
    BY <1>1, WrittenValues, FjallAssumption DEF FjallTypeOK
  <2> QED
    BY <1>1, <2>1 DEF FjallTypeOK, Idle, OpNames
<1>4. EveryVersionSound'
  <2> SUFFICES ASSUME NEW i \in DOMAIN versions, NEW u \in Tasks PROVE Sound(versions[i], u)'
    BY <1>1 DEF EveryVersionSound
  <2>1. Sound(versions[i], u)
    BY DEF EveryVersionSound
  <2>2. op.name = "pop" /\ t = u => <<"pop", u>> \in cut'
    BY <1>1
  <2> QED
    BY <1>1, <2>1, <2>2 DEF Sound, Has
<1>5. HeldLeased'
  <2>1. CASE op.name = "recover"
    <3>1. \A u \in Tasks : held'[u] = Absent
      BY <1>1, <2>1 DEF HeldLeased, Begun
    <3> QED
      BY <3>1 DEF HeldLeased
  <2>2. CASE op.name # "recover"
    <3>1. \A ks \in Keyspaces : \A u \in Tasks \ {t} : Current[ks][u] = View[ks][u]
      BY <1>2, <2>2, OthersUntouched
    <3>2. \A u \in Tasks : held'[u] # Absent => u # t /\ held'[u] = held[u]
      BY <1>1
    <3>3. \A u \in Tasks : held'[u] # Absent =>
             /\ Has(Current, "inflight", u) /\ ~Has(Current, "queue", u)
             /\ held'[u] = Current["tasks"][u]
      BY <3>1, <3>2 DEF HeldLeased, Has, Keyspaces
    <3>4. ~ready' => \A u \in Tasks : held'[u] = Absent
      BY <1>1, <2>2, <3>2 DEF HeldLeased
    <3> QED
      BY <1>2, <3>3, <3>4 DEF HeldLeased, Has
  <2> QED
    BY <2>1, <2>2
<1>6. Begun' /\ Progress' /\ NothingPending'
  BY <1>1, <1>2 DEF Begun, Progress, NothingPending
<1> QED
  BY <1>3, <1>4, <1>5, <1>6

\* A prefix of a list of stores.
LEMMA Prefix ==
    ASSUME FjallTypeOK, NEW i \in DOMAIN versions
    PROVE  /\ SubSeq(versions, 1, i) \in Seq(Store) /\ SubSeq(versions, 1, i) # <<>>
           /\ Len(SubSeq(versions, 1, i)) = i /\ DOMAIN SubSeq(versions, 1, i) = 1 .. i
           /\ \A j \in 1 .. i : j \in DOMAIN versions /\ SubSeq(versions, 1, i)[j] = versions[j]
<1>1. /\ Len(versions) \in Nat /\ DOMAIN versions = 1 .. Len(versions)
      /\ \A j \in DOMAIN versions : versions[j] \in Store
  BY CurrentVersion
<1>2. i \in Nat \ {0} /\ i <= Len(versions) /\ \A j \in 1 .. i : j \in DOMAIN versions /\ versions[j] \in Store
  BY <1>1
<1>3. /\ SubSeq(versions, 1, i) \in Seq(Store) /\ Len(SubSeq(versions, 1, i)) = i
      /\ \A j \in 1 .. i : SubSeq(versions, 1, i)[j] = versions[j]
  <2>1. /\ SubSeq(versions, 1, i) \in Seq(Store)
        /\ Len(SubSeq(versions, 1, i)) = IF 1 <= i THEN i - 1 + 1 ELSE 0
        /\ \A j \in 1 .. i - 1 + 1 : SubSeq(versions, 1, i)[j] = versions[1 + j - 1]
    BY <1>2, SubSeqProperties
  <2> QED
    BY <1>2, <2>1
<1> QED
  BY <1>2, <1>3, LenProperties, EmptySeq

\* The process dies, with some of the versions behind the last.
LEMMA CrashInv == ASSUME IInv, Crash PROVE IInv'
<1> DEFINE t == op.task
<1> USE DEF IInv
<1>1. PICK i \in DOMAIN versions : versions' = SubSeq(versions, 1, i)
  BY DEF Crash
<1>2. /\ op' = Idle /\ todo' = <<>> /\ cut' = IF op = Idle THEN cut ELSE cut \cup {<<op.name, t>>}
      /\ ready' = FALSE /\ faults < MaxFaults /\ faults' = faults + 1
      /\ held' = [u \in Tasks |-> Absent]
      /\ UNCHANGED <<used, promised, acking, acked, buried>>
  BY DEF Crash, Abort
<1>3. op'.name = "idle"
  BY <1>2 DEF Idle
<1>4. /\ versions' \in Seq(Store) /\ versions' # <<>> /\ Len(versions') = i
      /\ \A j \in DOMAIN versions' : j \in DOMAIN versions /\ versions'[j] = versions[j]
  BY <1>1, Prefix
<1>5. FjallTypeOK'
  <2>1. held' \in [Tasks -> Values] /\ faults' \in 0 .. MaxFaults
    BY <1>2, WrittenValues, FjallAssumption DEF FjallTypeOK
  <2> QED
    BY <1>2, <1>4, <2>1 DEF FjallTypeOK, Idle, OpNames
<1>6. EveryVersionSound'
  <2> SUFFICES ASSUME NEW j \in DOMAIN versions', NEW u \in Tasks PROVE Sound(versions[j], u)'
    BY DEF EveryVersionSound
  <2>1. Sound(versions[j], u) /\ versions'[j] = versions[j]
    BY <1>4 DEF EveryVersionSound
  <2>2. op.name = "pop" /\ t = u => <<"pop", u>> \in cut'
    BY <1>2, NotIdle
  <2> QED
    BY <1>2, <2>1, <2>2 DEF Sound, Has
<1>7. HeldLeased'
  BY <1>2 DEF HeldLeased
<1>8. NothingPending'
  <2> SUFFICES ASSUME cut' = {} PROVE Len(versions') = 1
    BY <1>3 DEF NothingPending
  <2>1. cut = {} /\ op.name = "idle"
    BY <1>2, NotIdle
  <2>2. Len(versions) = 1 /\ DOMAIN versions = 1 .. Len(versions)
    BY <2>1, CurrentVersion DEF NothingPending
  <2> QED
    BY <1>4, <2>2
<1>9. Begun' /\ Progress'
  BY <1>3 DEF Begun, Progress
<1> QED
  BY <1>5, <1>6, <1>7, <1>8, <1>9

\* The store is empty when it is opened first.
LEMMA InitInv == Init => IInv
<1> SUFFICES ASSUME Init PROVE IInv
  OBVIOUS
<1>1. /\ versions = <<EmptyStore>> /\ op = Idle /\ todo = <<>> /\ ready = FALSE
      /\ held = [t \in Tasks |-> Absent] /\ faults = 0
      /\ used = {} /\ promised = {} /\ acking = {} /\ acked = {} /\ buried = {}
  BY DEF Init
<1>2. EmptyStore \in Store
  BY WrittenValues DEF EmptyStore, Store
<1>3. FjallTypeOK
  <2>1. held \in [Tasks -> Values] /\ faults \in 0 .. MaxFaults
    BY <1>1, WrittenValues, FjallAssumption
  <2>2. versions \in Seq(Store) /\ versions # <<>>
    BY <1>1, <1>2
  <2> QED
    BY <1>1, <2>1, <2>2 DEF FjallTypeOK, Idle, OpNames
<1>4. EveryVersionSound
  <2> SUFFICES ASSUME NEW i \in DOMAIN versions, NEW t \in Tasks PROVE Sound(versions[i], t)
    BY DEF EveryVersionSound
  <2>1. versions[i] = EmptyStore
    BY <1>1
  <2>2. \A ks \in Keyspaces : ~Has(EmptyStore, ks, t)
    BY DEF EmptyStore, Has
  <2> QED
    BY <1>1, <2>1, <2>2 DEF Sound, Keyspaces
<1>5. HeldLeased
  BY <1>1 DEF HeldLeased
<1>6. Begun /\ Progress /\ NothingPending
  BY <1>1 DEF Begun, Progress, NothingPending, Idle
<1> QED
  BY <1>3, <1>4, <1>5, <1>6 DEF IInv

\* The steps that both Fjall backends take: the order in which the tasks are popped
\* matters to none of the promises.
FjallStep ==
    \/ \E t \in Tasks :
          PushNew(t) \/ PushRetry(t) \/ PopKey(t) \/ Ack(t) \/ Nack(t) \/ Set(t)
    \/ RecoverInflight \/ \E t \in Tasks : RecoverKey(t)
    \/ Write \/ Return \/ Fail \/ Crash

\* FjallTaskQueue pops the oldest task.
LEMMA NextIsStep == Next => FjallStep
  BY DEF Next, FjallStep, Pop

\* No step breaks the invariant.
LEMMA Inductive == IInv /\ [FjallStep]_vars => IInv'
<1> SUFFICES ASSUME IInv, [FjallStep]_vars PROVE IInv'
  OBVIOUS
<1>1. CASE \E t \in Tasks : PushNew(t) \/ PushRetry(t) \/ PopKey(t) \/ Ack(t) \/ Nack(t) \/ Set(t)
  BY <1>1, BeginInv
<1>2. CASE RecoverInflight \/ \E t \in Tasks : RecoverKey(t)
  BY <1>2, RecoverInv
<1>3. CASE Write
  BY <1>3, WriteInv
<1>4. CASE Return
  BY <1>4, ReturnInv
<1>5. CASE Fail
  BY <1>5, FailInv
<1>6. CASE Crash
  BY <1>6, CrashInv
<1>7. CASE UNCHANGED vars
  BY <1>7 DEF IInv, FjallTypeOK, EveryVersionSound, Sound, HeldLeased, Begun, FoundNew,
              FoundFailed, FoundQueued, FoundLeased, Progress, PushProgress, PopProgress,
              AckProgress, NackProgress, SetProgress, RecoverProgress, RecoverTodo, Left, Old,
              New, NothingPending, Has, View, Current, Idle
<1> QED
  BY <1>1, <1>2, <1>3, <1>4, <1>5, <1>6, <1>7 DEF FjallStep

\* The invariant holds throughout.
THEOREM Invariance == Spec => []IInv
<1>1. IInv /\ [Next]_vars => IInv'
  BY Inductive, NextIsStep
<1> QED
  BY <1>1, InitInv, PTL DEF Spec

-----------------------------------------------------------------------------
(* What the queue promises.                                                *)

\* What holds of the store between two operations.
LEMMA CurrentSound ==
    ASSUME IInv, op = Idle
    PROVE  /\ View = Current /\ op.name = "idle"
           /\ \A t \in Tasks : Sound(Current, t)
  BY CurrentVersion, NotIdle DEF IInv, EveryVersionSound, View, Current

\* What the invariant says of each promise.
LEMMA InvariantPromises ==
    IInv => PromiseKept /\ NoResurrection /\ GhostsAreSettled /\ HeldExclusively
            /\ OnlyCutPopsVanish
<1>1. IInv => PromiseKept
  <2> SUFFICES ASSUME IInv, NEW i \in DOMAIN versions, NEW t \in promised
               PROVE  t \in Keys(versions[i], "tasks") \cup Keys(versions[i], "dlq") \cup acking
    BY DEF PromiseKept
  <2>1. t \in Tasks /\ Sound(versions[i], t)
    BY DEF IInv, FjallTypeOK, EveryVersionSound
  <2> QED
    BY <2>1 DEF Sound, Has, Keys
<1>2. IInv => NoResurrection
  <2> SUFFICES ASSUME IInv, NEW i \in DOMAIN versions
               PROVE  /\ (acked \cup buried) \cap Keys(versions[i], "tasks") = {}
                      /\ buried \subseteq Keys(versions[i], "dlq")
    BY DEF NoResurrection
  <2>1. \A t \in Tasks : Sound(versions[i], t)
    BY DEF IInv, EveryVersionSound
  <2>2. buried \subseteq Tasks
    BY DEF IInv, FjallTypeOK
  <2> QED
    BY <2>1, <2>2 DEF Sound, Has, Keys
<1>3. IInv => GhostsAreSettled
  <2> SUFFICES ASSUME IInv, op = Idle
               PROVE  Reachable \ Keys(Current, "tasks") \subseteq acking \cup Keys(Current, "dlq")
    BY DEF GhostsAreSettled
  <2> QED
    BY CurrentSound DEF Sound, Has, Keys, Reachable
<1>4. IInv => HeldExclusively
  <2> SUFFICES ASSUME IInv, op = Idle, NEW t \in Tasks, held[t] # Absent
               PROVE  /\ t \in Keys(Current, "inflight") \ Keys(Current, "queue")
                      /\ held[t] = Current["tasks"][t]
    BY DEF HeldExclusively
  <2> QED
    BY CurrentSound DEF IInv, HeldLeased, Has, Keys
<1>5. IInv => OnlyCutPopsVanish
  <2> SUFFICES ASSUME IInv, op = Idle, NEW t \in promised \cap Keys(Current, "tasks")
               PROVE  t \in Reachable \/ <<"pop", t>> \in cut
    BY DEF OnlyCutPopsVanish
  <2>1. t \in Tasks /\ Sound(Current, t) /\ op.name = "idle"
    BY CurrentSound DEF Keys
  <2> QED
    BY <2>1 DEF Sound, Has, Keys, Reachable
<1> QED
  BY <1>1, <1>2, <1>3, <1>4, <1>5

\* A pushed task is never gone from the store without an ack, whatever crash
\* picks whichever version of it (push, FjallTaskQueue).
THEOREM PromisesKept == Spec => []PromiseKept
  BY InvariantPromises, Invariance, PTL

\* No crash takes back an ack or a nack that returned (SyncAll in ack and nack).
THEOREM SettledForGood == Spec => []NoResurrection
  BY InvariantPromises, Invariance, PTL

\* An id without a row that is still queued or leased is what is left of a
\* settlement (TaskNotFound in pop).
THEOREM GhostsExplained == Spec => []GhostsAreSettled
  BY InvariantPromises, Invariance, PTL

\* A popped task is leased and nobody else can pop it (pop's two writes).
THEOREM LeaseExclusive == Spec => []HeldExclusively
  BY InvariantPromises, Invariance, PTL

\* Only a pop that was cut between its writes puts a task out of reach.
THEOREM OnlyPopLoses == Spec => []OnlyCutPopsVanish
  BY InvariantPromises, Invariance, PTL

-----------------------------------------------------------------------------
(* Step by step, the four keyspaces implement the life cycle of TaskQueue. *)

\* The keys of a keyspace after a write to it.
LEMMA KeysWritten ==
    ASSUME NEW s \in Store, NEW n \in Store, NEW ks \in Keyspaces, NEW t \in Tasks, NEW v \in Values,
           n[ks] = [s[ks] EXCEPT ![t] = v]
    PROVE  Keys(n, ks) = IF v = Absent THEN Keys(s, ks) \ {t} ELSE Keys(s, ks) \cup {t}
<1>1. s[ks] \in [Tasks -> Values]
  BY DEF Store
<1>2. n[ks][t] = v /\ \A u \in Tasks \ {t} : n[ks][u] = s[ks][u]
  BY <1>1
<1> QED
  BY <1>2 DEF Keys

\* The abstract state follows from the view.
LEMMA SameView ==
    ASSUME View' = View, acked' = acked
    PROVE  UNCHANGED Contract!queueVars
  BY DEF Contract!queueVars, Keys

\* The return of an operation is its step in the abstract queue.
LEMMA ReturnContract ==
    ASSUME IInv, Return
    PROVE  Contract!LifecycleNext \/ UNCHANGED Contract!queueVars
<1> DEFINE t == op.task   r == op.retries   from == op.from
<1>1. /\ todo = <<>> /\ op' = Idle /\ op # Idle /\ op.name \in OpNames \ {"idle"}
      /\ from \in Store /\ Current \in Store /\ View = from
      /\ op.name # "recover" => t \in Tasks
  BY NotIdle, CurrentVersion DEF Return, IInv, FjallTypeOK, View
<1>2. View' = Current
  <2>1. versions' = <<Current>> \/ versions' = versions
    BY DEF Return
  <2>2. Current' = Current
    BY <2>1 DEF Current
  <2> QED
    BY <1>1, <2>2 DEF View
<1>3. acked' = IF op.name = "ack" THEN acked \cup {t} ELSE acked
  BY DEF Return
<1>4. Progress
  BY DEF IInv
<1>5. CASE op.name = "push"
  <2>1. Left(<<>>, New("tasks", r), New("queue", Empty), New("inflight", Absent), Old("dlq"))
    BY <1>1, <1>4, <1>5, AllWritten
  <2>2. r \in 0 .. MaxRetries
    BY <1>5, FjallAssumption DEF IInv, Begun, FoundNew, FoundFailed
  <2>3. /\ Keys(Current, "queue") = Keys(from, "queue") \cup {t}
        /\ Keys(Current, "inflight") = Keys(from, "inflight") \ {t}
        /\ Keys(Current, "dlq") = Keys(from, "dlq")
        /\ Current["tasks"] = [from["tasks"] EXCEPT ![t] = r]
    <3>1. Keys(Current, "queue") = Keys(from, "queue") \cup {t}
      BY <1>1, <1>5, <2>1, KeysWritten, WrittenValues DEF Left, New, Keyspaces
    <3>2. Keys(Current, "inflight") = Keys(from, "inflight") \ {t}
      BY <1>1, <1>5, <2>1, KeysWritten, WrittenValues DEF Left, New, Keyspaces
    <3> QED
      BY <2>1, <3>1, <3>2 DEF Left, New, Old, Keys
  <2>4. Contract!Push(t, r)
    BY <1>1, <1>2, <1>3, <1>5, <2>3 DEF Contract!Push
  <2>5. CASE FoundNew
    <3>1. t \notin Keys(from, "dlq") \cup acked /\ from["tasks"][t] = Absent /\ r = 0
      BY <2>5 DEF FoundNew, Has, Keys, Keyspaces
    <3>2. Contract!Submit(t)
      BY <1>1, <2>4, <3>1 DEF Contract!Submit, Contract!Stored, Contract!NoRow, Absent
    <3> QED
      BY <1>1, <1>5, <3>2 DEF Contract!LifecycleNext
  <2>6. CASE FoundFailed
    <3>1. t \in Keys(from, "inflight") /\ from["tasks"][t] = r - 1 /\ r \in 1 .. MaxRetries
      BY <1>1, <1>5, <2>6 DEF FoundFailed, Has, Keys
    <3>2. from["tasks"][t] < MaxRetries /\ from["tasks"][t] + 1 = r
      BY <3>1, FjallAssumption
    <3>3. Contract!Retry(t)
      BY <1>1, <2>4, <3>1, <3>2 DEF Contract!Retry
    <3> QED
      BY <1>1, <1>5, <3>3 DEF Contract!LifecycleNext
  <2> QED
    BY <1>5, <2>5, <2>6 DEF IInv, Begun
<1>6. CASE op.name = "pop"
  <2>1. Left(<<>>, Old("tasks"), New("queue", Absent), New("inflight", Empty), Old("dlq"))
    BY <1>1, <1>4, <1>6, AllWritten
  <2>2. Keys(Current, "queue") = Keys(from, "queue") \ {t}
    BY <1>1, <1>6, <2>1, KeysWritten, WrittenValues DEF Left, New, Keyspaces
  <2>3. Keys(Current, "inflight") = Keys(from, "inflight") \cup {t}
    BY <1>1, <1>6, <2>1, KeysWritten, WrittenValues DEF Left, New, Keyspaces
  <2>4. Current["tasks"] = from["tasks"] /\ Keys(Current, "dlq") = Keys(from, "dlq")
    BY <2>1 DEF Left, Old, Keys
  <2>5. t \in Keys(from, "queue")
    BY <1>1, <1>6 DEF IInv, Begun, FoundQueued, Has, Keys
  <2>6. Contract!Pop(t)
    BY <1>1, <1>2, <1>3, <1>6, <2>2, <2>3, <2>4, <2>5 DEF Contract!Pop
  <2> QED
    BY <1>1, <1>6, <2>6 DEF Contract!LifecycleNext
<1>7. CASE op.name = "ack"
  <2>1. Left(<<>>, New("tasks", Absent), Old("queue"), New("inflight", Absent), Old("dlq"))
    BY <1>1, <1>4, <1>7, AllWritten
  <2>2. Keys(Current, "inflight") = Keys(from, "inflight") \ {t}
    BY <1>1, <1>7, <2>1, KeysWritten, WrittenValues DEF Left, New, Keyspaces
  <2>3. /\ Current["tasks"] = [from["tasks"] EXCEPT ![t] = Absent]
        /\ Keys(Current, "queue") = Keys(from, "queue") /\ Keys(Current, "dlq") = Keys(from, "dlq")
    BY <2>1 DEF Left, Old, New, Keys
  <2>4. t \in Keys(from, "inflight")
    BY <1>1, <1>7, WrittenValues DEF IInv, Begun, FoundLeased, HeldLeased, Has, Keys
  <2>5. Contract!Finish(t)
    BY <1>1, <1>2, <1>3, <1>7, <2>2, <2>3, <2>4
       DEF Contract!Finish, Contract!Ack, Contract!NoRow, Absent
  <2> QED
    BY <1>1, <1>7, <2>5 DEF Contract!LifecycleNext
<1>8. CASE op.name = "nack"
  <2>1. Left(<<>>, New("tasks", Absent), Old("queue"), New("inflight", Absent), New("dlq", r))
    BY <1>1, <1>4, <1>8, AllWritten
  <2>2. FoundLeased /\ r = MaxRetries /\ r \in 0 .. MaxRetries
    BY <1>8 DEF IInv, Begun, FoundLeased
  <2>3. Keys(Current, "inflight") = Keys(from, "inflight") \ {t}
    BY <1>1, <1>8, <2>1, KeysWritten, WrittenValues DEF Left, New, Keyspaces
  <2>4. Keys(Current, "dlq") = Keys(from, "dlq") \cup {t}
    BY <1>1, <1>8, <2>1, <2>2, KeysWritten, WrittenValues DEF Left, New, Keyspaces
  <2>5. /\ Current["tasks"] = [from["tasks"] EXCEPT ![t] = Absent]
        /\ Keys(Current, "queue") = Keys(from, "queue")
    BY <2>1 DEF Left, Old, New, Keys
  <2>6. t \in Keys(from, "inflight") /\ from["tasks"][t] = MaxRetries
    BY <1>1, <1>8, <2>2, WrittenValues DEF IInv, FoundLeased, HeldLeased, Has, Keys
  <2>7. Contract!Bury(t)
    BY <1>1, <1>2, <1>3, <1>8, <2>3, <2>4, <2>5, <2>6
       DEF Contract!Bury, Contract!Nack, Contract!NoRow, Absent
  <2> QED
    BY <1>1, <1>8, <2>7 DEF Contract!LifecycleNext
<1>9. CASE op.name = "set"
  <2>1. Left(<<>>, Old("tasks"), Old("queue"), Old("inflight"), Old("dlq"))
    BY <1>1, <1>4, <1>9, AllWritten
  <2> QED
    BY <1>1, <1>2, <1>3, <1>9, <2>1 DEF Left, Old, Contract!queueVars, Keys
<1>10. CASE op.name = "recover"
  <2>1. Keys(Current, "inflight") = {} /\ RecoverProgress
    BY <1>4, <1>10 DEF Return, Progress
  <2>2. Keys(Current, "queue") = Keys(from, "queue") \cup Keys(from, "inflight")
    BY <2>1 DEF RecoverProgress, Has, Keys
  <2>3. Current["tasks"] = from["tasks"] /\ Keys(Current, "dlq") = Keys(from, "dlq")
    BY <2>1 DEF RecoverProgress, Old, Keys
  <2>4. Contract!RecoverInflight
    BY <1>1, <1>2, <1>3, <1>10, <2>1, <2>2, <2>3 DEF Contract!RecoverInflight
  <2> QED
    BY <2>4 DEF Contract!LifecycleNext
<1> QED
  BY <1>1, <1>5, <1>6, <1>7, <1>8, <1>9, <1>10 DEF OpNames

\* A crash between two operations loses nothing, unless one was cut before.
LEMMA CrashContract ==
    ASSUME IInv, Crash, cut' = {}
    PROVE  View' = View /\ acked' = acked
<1>1. PICK i \in DOMAIN versions : versions' = SubSeq(versions, 1, i)
  BY DEF Crash
<1>2. op = Idle /\ op' = Idle /\ cut = {} /\ acked' = acked
  BY DEF Crash, Abort
<1>3. Len(versions) = 1 /\ DOMAIN versions = 1 .. Len(versions)
  BY <1>2, CurrentVersion, NotIdle DEF IInv, NothingPending
<1>4. i = 1 /\ Len(versions') = 1 /\ versions'[1] = versions[1]
  BY <1>1, <1>3, Prefix DEF IInv
<1> QED
  BY <1>2, <1>3, <1>4 DEF View, Current

\* Every step is a step of the life cycle, or changes nothing it sees.
LEMMA StepContract ==
    ASSUME IInv, [FjallStep]_vars, cut' = {}
    PROVE  Contract!LifecycleNext \/ UNCHANGED Contract!queueVars
<1>1. ASSUME NEW name, NEW t, NEW r, NEW writes, name # "idle", Begin(name, t, r, writes)
      PROVE  View' = View /\ acked' = acked
  BY <1>1 DEF Begin, View, Idle, Current
<1>2. CASE \E t \in Tasks : PushNew(t) \/ PushRetry(t) \/ PopKey(t) \/ Ack(t) \/ Nack(t) \/ Set(t)
  <2> PICK t \in Tasks : PushNew(t) \/ PushRetry(t) \/ PopKey(t) \/ Ack(t) \/ Nack(t) \/ Set(t)
    BY <1>2
  <2>1. \/ Begin("push", t, 0, PushWrites(t, 0))
        \/ Begin("push", t, held[t] + 1, PushWrites(t, held[t] + 1))
        \/ Begin("pop", t, 0, PopWrites(t)) \/ Begin("ack", t, held[t], AckWrites(t))
        \/ Begin("nack", t, held[t], NackWrites(t, held[t]))
        \/ Begin("set", t, held[t], SetWrites(t, held[t]))
    BY DEF PushNew, PushRetry, PopKey, Ack, Nack, Set
  <2> QED
    BY <1>1, <2>1, SameView
<1>3. CASE RecoverInflight
  BY <1>1, <1>3, SameView DEF RecoverInflight
<1>4. CASE (\E t \in Tasks : RecoverKey(t)) \/ Write
  <2>1. op' = op /\ acked' = acked /\ op.name # "idle"
    BY <1>4 DEF RecoverKey, Write, IInv, FjallTypeOK
  <2> QED
    BY <2>1, SameView, NotIdle DEF View, IInv
<1>5. CASE Return
  BY <1>5, ReturnContract
<1>6. CASE Fail
  BY <1>6 DEF Fail, Abort
<1>7. CASE Crash
  BY <1>7, CrashContract, SameView
<1>8. CASE UNCHANGED vars
  BY <1>8, SameView DEF View, Current
<1> QED
  BY <1>2, <1>3, <1>4, <1>5, <1>6, <1>7, <1>8 DEF FjallStep

\* A new database is an empty queue.
LEMMA InitContract == Init => Contract!QueueInit
<1> SUFFICES ASSUME Init PROVE Contract!QueueInit
  OBVIOUS
<1>1. View = EmptyStore /\ acked = {}
  BY DEF Init, View, Current
<1>2. Keys(View, "queue") = {} /\ Keys(View, "inflight") = {} /\ Keys(View, "dlq") = {}
      /\ View["tasks"] = [t \in Tasks |-> Absent]
  BY <1>1 DEF Keys, EmptyStore, Keyspaces
<1> QED
  BY <1>1, <1>2 DEF Contract!QueueInit, Contract!NoRow, Absent

\* Until an operation is cut, the keyspaces keep the contract of the TaskQueue
\* trait, power failures between operations included.
THEOREM ImplementsContract == Spec => ContractUntilCut
<1>1. Init => Contract!QueueInit
  BY InitContract
<1>2. IInv /\ [Next]_vars => [cut' = {} => Contract!LifecycleNext]_(Contract!queueVars)
  BY StepContract, NextIsStep
<1> QED
  BY <1>1, <1>2, Invariance, PTL DEF Spec, ContractUntilCut

=============================================================================
