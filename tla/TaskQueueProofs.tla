--------------------------- MODULE TaskQueueProofs ---------------------------
(***************************************************************************)
(* What the life cycle of a task guarantees, for every finite set of tasks *)
(* and every limit on retries.  Whatever implements LifecycleSpec has it.  *)
(***************************************************************************)
EXTENDS TaskQueue, TLAPS

\* The inductive invariant: without the types nothing is known of `row`.
Fated == QueueTypeOK /\ OneFate

\* Initially the queue holds its seeds and nothing else.
LEMMA FatedInit == ASSUME QueueInit PROVE Fated
<1> USE TaskQueueAssumption DEF QueueInit, NoRow
<1>1. QueueTypeOK
  BY DEF QueueTypeOK
<1>2. Stored = queued
  BY DEF Stored
<1> QED
  BY <1>1, <1>2 DEF Fated, OneFate

\* What a write of one row does to the set of stored tasks.
LEMMA StoredWrite ==
    ASSUME QueueTypeOK, NEW t \in Tasks, NEW r \in 0 .. MaxRetries \cup {NoRow},
           row' = [row EXCEPT ![t] = r]
    PROVE  /\ row' \in [Tasks -> 0 .. MaxRetries \cup {NoRow}]
           /\ row'[t] = r /\ \A u \in Tasks \ {t} : row'[u] = row[u]
           /\ Stored' = IF r = NoRow THEN Stored \ {t} ELSE Stored \cup {t}
<1>1. /\ row' \in [Tasks -> 0 .. MaxRetries \cup {NoRow}]
      /\ row'[t] = r /\ \A u \in Tasks \ {t} : row'[u] = row[u]
  BY DEF QueueTypeOK
<1> QED
  BY <1>1 DEF Stored

\* A step of the life cycle preserves the invariant and undoes nothing.
LEMMA FatedStep ==
    ASSUME Fated, [LifecycleNext]_queueVars
    PROVE  /\ Fated'
           /\ acked \subseteq acked' /\ dlq \subseteq dlq'
           /\ Stored \subseteq Stored' \cup dlq' \cup acked'
           /\ \A t \in Stored \cap Stored' : row'[t] >= row[t]
<1> USE TaskQueueAssumption DEF Fated, NoRow
<1> DEFINE Kept == /\ acked \subseteq acked' /\ dlq \subseteq dlq'
                   /\ Stored \subseteq Stored' \cup dlq' \cup acked'
                   /\ \A t \in Stored \cap Stored' : row'[t] >= row[t]
<1>0. \A t \in Stored : t \in Tasks /\ row[t] \in 0 .. MaxRetries
  BY DEF Stored, QueueTypeOK
<1>1. ASSUME NEW t \in Tasks, Submit(t) PROVE Fated' /\ Kept
  <2>1. 0 \in 0 .. MaxRetries \cup {NoRow} /\ 0 # NoRow /\ row' = [row EXCEPT ![t] = 0]
    BY <1>1 DEF Submit, Push
  <2>2. /\ row' \in [Tasks -> 0 .. MaxRetries \cup {NoRow}] /\ Stored' = Stored \cup {t}
        /\ \A u \in Tasks \ {t} : row'[u] = row[u]
    BY <2>1, StoredWrite
  <2>3. t \notin Stored \cup dlq \cup acked /\ UNCHANGED <<dlq, acked>>
        /\ queued' = queued \cup {t} /\ leased' = leased \ {t}
    BY <1>1 DEF Submit, Push
  <2> QED
    BY <1>0, <2>2, <2>3 DEF QueueTypeOK, OneFate
<1>2. ASSUME NEW t \in Tasks, Pop(t) PROVE Fated' /\ Kept
  <2>1. Stored' = Stored /\ UNCHANGED <<row, dlq, acked>> /\ t \in queued
        /\ queued' = queued \ {t} /\ leased' = leased \cup {t}
    BY <1>2 DEF Pop, Stored
  <2> QED
    BY <1>0, <2>1 DEF QueueTypeOK, OneFate
<1>3. ASSUME NEW t \in Tasks, Retry(t) PROVE Fated' /\ Kept
  <2>1. t \in leased /\ t \in Stored /\ row[t] \in 0 .. MaxRetries /\ row[t] < MaxRetries
    BY <1>0, <1>3 DEF Retry, OneFate
  <2>2. row[t] + 1 \in 0 .. MaxRetries \cup {NoRow} /\ row[t] + 1 # NoRow
        /\ row' = [row EXCEPT ![t] = row[t] + 1]
    BY <1>3, <2>1 DEF Retry, Push
  <2>3. /\ row' \in [Tasks -> 0 .. MaxRetries \cup {NoRow}] /\ Stored' = Stored \cup {t}
        /\ row'[t] = row[t] + 1 /\ \A u \in Tasks \ {t} : row'[u] = row[u]
    BY <2>2, StoredWrite
  <2>4. UNCHANGED <<dlq, acked>> /\ queued' = queued \cup {t} /\ leased' = leased \ {t}
    BY <1>3 DEF Retry, Push
  <2>5. Fated'
    BY <2>1, <2>3, <2>4 DEF QueueTypeOK, OneFate
  <2> QED
    BY <1>0, <2>1, <2>3, <2>4, <2>5
<1>4. ASSUME NEW t \in Tasks, Bury(t) PROVE Fated' /\ Kept
  <2>1. row' = [row EXCEPT ![t] = NoRow] /\ t \in leased /\ dlq' = dlq \cup {t}
        /\ leased' = leased \ {t} /\ UNCHANGED <<queued, acked>>
    BY <1>4 DEF Bury, Nack
  <2>2. /\ row' \in [Tasks -> 0 .. MaxRetries \cup {NoRow}] /\ Stored' = Stored \ {t}
        /\ \A u \in Tasks \ {t} : row'[u] = row[u]
    BY <2>1, StoredWrite
  <2> QED
    BY <1>0, <2>1, <2>2 DEF QueueTypeOK, OneFate
<1>5. ASSUME NEW t \in Tasks, Finish(t) PROVE Fated' /\ Kept
  <2>1. row' = [row EXCEPT ![t] = NoRow] /\ t \in leased /\ acked' = acked \cup {t}
        /\ leased' = leased \ {t} /\ UNCHANGED <<queued, dlq>>
    BY <1>5 DEF Finish, Ack
  <2>2. /\ row' \in [Tasks -> 0 .. MaxRetries \cup {NoRow}] /\ Stored' = Stored \ {t}
        /\ \A u \in Tasks \ {t} : row'[u] = row[u]
    BY <2>1, StoredWrite
  <2> QED
    BY <1>0, <2>1, <2>2 DEF QueueTypeOK, OneFate
<1>6. ASSUME RecoverInflight PROVE Fated' /\ Kept
  <2>1. Stored' = Stored /\ UNCHANGED <<row, dlq, acked>>
        /\ queued' = queued \cup leased /\ leased' = {}
    BY <1>6 DEF RecoverInflight, Stored
  <2> QED
    BY <1>0, <2>1 DEF QueueTypeOK, OneFate
<1>7. ASSUME UNCHANGED queueVars PROVE Fated' /\ Kept
  BY <1>0, <1>7 DEF queueVars, QueueTypeOK, OneFate, Stored
<1> QED
  BY <1>1, <1>2, <1>3, <1>4, <1>5, <1>6, <1>7 DEF LifecycleNext

\* A task whose client follows the life cycle is waiting, leased, acknowledged or
\* dead, never two of these, and has a row exactly while it waits or is leased.
THEOREM FateIsUnique == LifecycleSpec => []OneFate
<1>1. QueueInit => Fated
  BY FatedInit
<1>2. Fated /\ [LifecycleNext]_queueVars => Fated'
  BY FatedStep
<1>3. Fated => OneFate
  BY DEF Fated
<1> QED
  BY <1>1, <1>2, <1>3, PTL DEF LifecycleSpec

\* Settled tasks stay settled, known tasks are never forgotten, and recovery gives
\* nobody back the retries it has used.
THEOREM NothingUndone == LifecycleSpec => NoRegress
<1>1. QueueInit => Fated
  BY FatedInit
<1>2. Fated /\ [LifecycleNext]_queueVars => Fated'
  BY FatedStep
<1>3. Fated /\ [LifecycleNext]_queueVars =>
        [ /\ acked \subseteq acked' /\ dlq \subseteq dlq'
          /\ Stored \subseteq Stored' \cup dlq' \cup acked'
          /\ \A t \in Stored \cap Stored' : row'[t] >= row[t] ]_queueVars
  BY FatedStep
<1> QED
  BY <1>1, <1>2, <1>3, PTL DEF LifecycleSpec, NoRegress

=============================================================================
