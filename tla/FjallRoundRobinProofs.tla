----------------------- MODULE FjallRoundRobinProofs ------------------------
(***************************************************************************)
(* Theorems about FjallRoundRobinTaskQueue, for every finite set of tasks  *)
(* and of tags, any number of crashes and any selection of faults.         *)
(*                                                                         *)
(* Its writes are those of FjallTaskQueue, so it keeps what FjallQueue     *)
(* promises (FjallQueueProofs, whose invariant does not depend on which    *)
(* task a pop takes).  About the rotation the invariant knows why a queued *)
(* task may not be in it yet (QueueCovered), that the tag of a pop under   *)
(* way is the first of the lap with anything queued (PopServesFirst), and  *)
(* that a tag which was served while another one waited comes after it in  *)
(* the lap (PassedBehind).                                                 *)
(***************************************************************************)
EXTENDS FjallRoundRobin, FjallQueueProofs, FiniteSetTheorems

\* Frame tuples are expanded everywhere.
USE DEF vars, clientVars, historyVars, roundRobinVars, rotationVars

-----------------------------------------------------------------------------
(* The strengthening.                                                      *)

RotationTypeOK ==
    /\ tagOf \in [Tasks -> Tags]
    /\ active \in Seq(Tags) /\ IsInjective(active)
    /\ cursor \in Nat /\ (cursor = 0 \/ cursor < Len(active))
    /\ passed \in [Tags -> SUBSET Tags]

\* A queued task whose tag the rotation does not know is hidden, or about to be seen
\* to by the push or the recovery that queued it.
QueueCovered ==
    \A t \in Tasks : Has(Current, "queue", t) =>
        \/ t \in hidden \/ tagOf[t] \in ToSet(active)
        \/ op.name = "push" /\ op.task = t
        \/ op.name = "recover" /\ todo = <<Delete("inflight", t)>>

\* The order of the lap, on the places of `active`.
Sooner(i, j) == IF i > cursor THEN j <= cursor \/ i < j ELSE j <= cursor /\ i < j

\* Nothing is queued for the tags that a pop has looked at in vain.
FirstServed(g) ==
    \E k \in DOMAIN active :
        /\ active[k] = g
        /\ \A i \in DOMAIN active : Sooner(i, k) => Bucket(active[i]) = {}

PopServesFirst == op.name = "pop" => FirstServed(tagOf[op.task])

Behind(g, h) == \E i, j \in DOMAIN active : active[i] = g /\ active[j] = h /\ Sooner(i, j)

PassedBehind == \A g \in Tags : \A h \in passed[g] : Behind(g, h)

\* The inductive invariant, together with that of the queue.
RotationInv == RotationTypeOK /\ QueueCovered /\ PopServesFirst /\ PassedBehind

-----------------------------------------------------------------------------
(* Data.                                                                   *)

\* The domain of the rotation and its elements.
LEMMA ActivePlaces ==
    ASSUME RotationTypeOK
    PROVE  /\ Len(active) \in Nat /\ DOMAIN active = 1 .. Len(active)
           /\ \A i \in DOMAIN active : active[i] \in Tags /\ active[i] \in ToSet(active)
           /\ \A g \in ToSet(active) : \E i \in DOMAIN active : active[i] = g
           /\ \A i, j \in DOMAIN active : active[i] = active[j] => i = j
<1>1. active \in Seq(Tags)
  BY DEF RotationTypeOK
<1>2. Len(active) \in Nat /\ DOMAIN active = 1 .. Len(active)
  BY <1>1, LenProperties
<1>3. \A i \in DOMAIN active : active[i] \in Tags
  BY <1>1, <1>2, ElementOfSeq
<1>4. \A i, j \in DOMAIN active : active[i] = active[j] => i = j
  BY DEF RotationTypeOK, IsInjective
<1> QED
  BY <1>2, <1>3, <1>4 DEF ToSet

\* Where each place of the lap is in the rotation.
LEMMA LapPlaces ==
    ASSUME RotationTypeOK
    PROVE  /\ DOMAIN Lap = 1 .. Len(active)
           /\ \A i \in 1 .. Len(active) :
                 Lap[i] = IF i <= Len(active) - cursor THEN active[cursor + i]
                          ELSE active[i - (Len(active) - cursor)]
<1> DEFINE n == Len(active)
           a == SubSeq(active, cursor + 1, n)
           b == SubSeq(active, 1, cursor)
<1>1. active \in Seq(Tags) /\ n \in Nat /\ cursor \in Nat /\ cursor <= n
  BY ActivePlaces DEF RotationTypeOK
<1>2. /\ a \in Seq(Tags) /\ Len(a) = n - cursor
      /\ \A i \in 1 .. n - cursor : a[i] = active[cursor + i]
  BY <1>1
<1>3. /\ b \in Seq(Tags) /\ Len(b) = cursor
      /\ \A i \in 1 .. cursor : b[i] = active[i]
  BY <1>1
<1> HIDE DEF a, b
<1>4. /\ a \o b \in Seq(Tags) /\ Len(a \o b) = n
      /\ \A i \in 1 .. n - cursor : (a \o b)[i] = a[i]
      /\ \A i \in 1 .. cursor : (a \o b)[n - cursor + i] = b[i]
  <2>1. /\ a \o b \in Seq(Tags) /\ Len(a \o b) = Len(a) + Len(b)
        /\ \A i \in 1 .. Len(a) + Len(b) :
              (a \o b)[i] = IF i <= Len(a) THEN a[i] ELSE b[i - Len(a)]
    BY <1>2, <1>3, ConcatProperties
  <2>2. Len(a) = n - cursor /\ Len(b) = cursor /\ n \in Nat /\ cursor \in Nat /\ cursor <= n
    BY <1>1, <1>2, <1>3
  <2>3. ASSUME NEW i \in 1 .. n - cursor PROVE (a \o b)[i] = a[i]
    BY <2>1, <2>2
  <2>4. ASSUME NEW i \in 1 .. cursor PROVE (a \o b)[n - cursor + i] = b[i]
    <3> DEFINE k == n - cursor + i
    <3>1. k \in 1 .. Len(a) + Len(b) /\ ~(k <= Len(a)) /\ k - Len(a) = i
      BY <2>2
    <3> HIDE DEF k
    <3>2. (a \o b)[k] = b[k - Len(a)]
      BY <2>1, <3>1
    <3> QED
      BY <3>1, <3>2 DEF k
  <2> QED
    BY <2>1, <2>2, <2>3, <2>4
<1>5. Lap = a \o b
  BY DEF Lap, a, b
<1>6. ASSUME NEW i \in 1 .. n, i > n - cursor
      PROVE  (a \o b)[i] = active[i - (n - cursor)]
  <2>1. i - (n - cursor) \in 1 .. cursor
    BY <1>1, <1>6
  <2> QED
    BY <1>1, <1>3, <1>4, <2>1
<1>7. ASSUME NEW i \in 1 .. n, i <= n - cursor
      PROVE  (a \o b)[i] = active[cursor + i]
  BY <1>1, <1>2, <1>4, <1>7
<1>8. DOMAIN (a \o b) = 1 .. n
  BY <1>1, <1>4, LenProperties
<1> QED
  BY <1>1, <1>5, <1>6, <1>7, <1>8

\* A pop serves the first tag of the lap with anything queued.
LEMMA LapFirst ==
    ASSUME RotationTypeOK, NEW t \in Tasks, PopNext(t)
    PROVE  FirstServed(tagOf[t])
<1> DEFINE n == Len(active)
<1>1. PICK p \in DOMAIN Lap :
          Lap[p] = tagOf[t] /\ \A j \in 1 .. (p - 1) : Bucket(Lap[j]) = {}
  BY DEF PopNext
<1>2. n \in Nat /\ cursor \in Nat /\ cursor <= n /\ DOMAIN active = 1 .. n
  BY ActivePlaces DEF RotationTypeOK
<1>3. DOMAIN Lap = 1 .. n
  BY LapPlaces
<1> DEFINE k == IF p <= n - cursor THEN cursor + p ELSE p - (n - cursor)
<1>4. k \in 1 .. n /\ active[k] = Lap[p]
  BY <1>2, <1>3, LapPlaces
<1>5. ASSUME NEW i \in 1 .. n, Sooner(i, k)
      PROVE  Bucket(active[i]) = {}
  <2> DEFINE q == IF i > cursor THEN i - cursor ELSE i + (n - cursor)
  <2>1. q \in 1 .. (p - 1)
    BY <1>2, <1>3, <1>5 DEF Sooner
  <2>2. q \in 1 .. n /\ Lap[q] = active[i]
    <3>1. q \in 1 .. n
      BY <1>2, <1>3, <2>1
    <3>2. Lap[q] = IF q <= n - cursor THEN active[cursor + q] ELSE active[q - (n - cursor)]
      BY <3>1, LapPlaces
    <3>3. CASE i > cursor
      <4>1. q <= n - cursor /\ cursor + q = i
        BY <1>2, <3>3
      <4> QED
        BY <3>1, <3>2, <4>1
    <3>4. CASE ~(i > cursor)
      <4>1. ~(q <= n - cursor) /\ q - (n - cursor) = i
        BY <1>2, <3>4
      <4> QED
        BY <3>1, <3>2, <4>1
    <3> QED
      BY <3>3, <3>4
  <2> QED
    BY <1>1, <2>1, <2>2
<1> QED
  BY <1>1, <1>2, <1>4, <1>5 DEF FirstServed

\* A tag that waits is not behind in the lap when a pop serves another one.
LEMMA ServedNotOvertaken ==
    ASSUME RotationTypeOK, NEW h, FirstServed(h), NEW g, Waiting(g)
    PROVE  ~Behind(g, h) /\ (g # h => Behind(h, g))
<1>1. PICK k \in DOMAIN active :
          active[k] = h /\ \A i \in DOMAIN active : Sooner(i, k) => Bucket(active[i]) = {}
  BY DEF FirstServed
<1>2. PICK m \in DOMAIN active : active[m] = g
  BY ActivePlaces DEF Waiting
<1>3. ~Sooner(m, k)
  BY <1>1, <1>2 DEF Waiting
<1>4. \A i \in DOMAIN active : (active[i] = g => i = m) /\ (active[i] = h => i = k)
  BY <1>1, <1>2, ActivePlaces
<1>5. m # k => Sooner(k, m)
  BY <1>3, ActivePlaces DEF Sooner, RotationTypeOK
<1> QED
  BY <1>1, <1>2, <1>3, <1>4, <1>5 DEF Behind

\* The cursor moves past the tag that was served, and wraps around.
LEMMA CursorMoves ==
    ASSUME RotationTypeOK, NEW k \in DOMAIN active
    PROVE  CursorPast(active[k]) = IF k = Len(active) THEN 0 ELSE k
<1>1. /\ Len(active) \in Nat /\ DOMAIN active = 1 .. Len(active)
      /\ \A i \in DOMAIN active : active[i] = active[k] => i = k
  BY ActivePlaces
<1>2. (CHOOSE i \in DOMAIN active : active[i] = active[k]) = k
  BY <1>1
<1>3. CursorPast(active[k]) = k % Len(active)
  BY <1>2 DEF CursorPast
<1>4. k = Len(active) => k % Len(active) = 0
  BY <1>1
<1>5. k < Len(active) => k % Len(active) = k
  BY <1>1
<1> QED
  BY <1>1, <1>3, <1>4, <1>5

\* After a tag was served it is the last of the lap; the others keep their order.
LEMMA LapTurns ==
    ASSUME RotationTypeOK, NEW h, FirstServed(h), active' = active, cursor' = CursorPast(h),
           NEW g, Waiting(g), g # h
    PROVE  Behind(g, h)' /\ \A x : Behind(g, x) => Behind(g, x)'
<1>1. PICK k \in DOMAIN active : active[k] = h
  BY DEF FirstServed
<1>2. cursor' = IF k = Len(active) THEN 0 ELSE k
  BY <1>1, CursorMoves
<1>3. /\ Len(active) \in Nat /\ DOMAIN active = 1 .. Len(active) /\ cursor \in Nat
      /\ \A i, j \in DOMAIN active : active[i] = active[j] => i = j
  BY ActivePlaces DEF RotationTypeOK
<1>4. PICK a \in DOMAIN active, b \in DOMAIN active : active[a] = h /\ active[b] = g /\ Sooner(a, b)
  BY ServedNotOvertaken DEF Behind
<1>5. a = k
  BY <1>1, <1>3, <1>4
<1>6. Sooner(b, k)'
  BY <1>2, <1>3, <1>4, <1>5 DEF Sooner
<1>7. ASSUME NEW c \in DOMAIN active, Sooner(b, c) PROVE Sooner(b, c)'
  BY <1>2, <1>3, <1>4, <1>5, <1>7 DEF Sooner
<1>8. \A i \in DOMAIN active : active[i] = g => i = b
  BY <1>3, <1>4
<1> QED
  BY <1>1, <1>4, <1>6, <1>7, <1>8 DEF Behind

\* A tag that comes into the rotation comes in at the end of the list.
LEMMA TagEnsured ==
    ASSUME RotationTypeOK, NEW g \in Tags, active' = Ensure(g), UNCHANGED <<cursor, tagOf>>,
           passed' \in [Tags -> SUBSET Tags]
    PROVE  /\ RotationTypeOK'
           /\ ToSet(active') = ToSet(active) \cup {g}
           /\ \A a, b : Behind(a, b) => Behind(a, b)'
<1>1. CASE g \in ToSet(active)
  BY <1>1 DEF Ensure, RotationTypeOK, IsInjective, Behind, Sooner, ToSet
<1>2. CASE g \notin ToSet(active)
  <2> DEFINE n == Len(active)
  <2>1. /\ n \in Nat /\ DOMAIN active = 1 .. n /\ active \in Seq(Tags)
        /\ \A i, j \in DOMAIN active : active[i] = active[j] => i = j
        /\ \A i \in DOMAIN active : active[i] # g
    BY <1>2, ActivePlaces DEF RotationTypeOK
  <2>2. active' = Append(active, g)
    BY <1>2 DEF Ensure
  <2>3. /\ active' \in Seq(Tags) /\ Len(active') = n + 1 /\ DOMAIN active' = 1 .. n + 1
        /\ \A i \in 1 .. n : active'[i] = active[i]
        /\ active'[n + 1] = g
    BY <2>1, <2>2, AppendProperties, LenProperties
  <2>4. IsInjective(active)'
    <3> SUFFICES ASSUME NEW i \in 1 .. n + 1, NEW j \in 1 .. n + 1, active'[i] = active'[j]
                 PROVE  i = j
      BY <2>3 DEF IsInjective
    <3>1. CASE i \in 1 .. n /\ j \in 1 .. n
      BY <2>1, <2>3, <3>1
    <3>2. CASE i = n + 1 /\ j \in 1 .. n
      BY <2>1, <2>3, <3>2
    <3>3. CASE j = n + 1 /\ i \in 1 .. n
      BY <2>1, <2>3, <3>3
    <3> QED
      BY <2>1, <3>1, <3>2, <3>3
  <2>5. ToSet(active') = ToSet(active) \cup {g}
    <3>1. ASSUME NEW x \in ToSet(active') PROVE x \in ToSet(active) \cup {g}
      <4>1. PICK i \in 1 .. n + 1 : x = active'[i]
        BY <2>3, <3>1 DEF ToSet
      <4> QED
        BY <2>1, <2>3, <4>1 DEF ToSet
    <3>2. ASSUME NEW x \in ToSet(active) \cup {g} PROVE x \in ToSet(active')
      <4>1. PICK i \in 1 .. n + 1 : x = active'[i]
        <5>1. CASE x = g
          BY <2>1, <2>3, <5>1
        <5>2. CASE x \in ToSet(active)
          <6>1. PICK i \in 1 .. n : x = active[i]
            BY <2>1, <5>2 DEF ToSet
          <6> QED
            BY <2>1, <2>3, <6>1
        <5> QED
          BY <3>2, <5>1, <5>2
      <4> QED
        BY <2>3, <4>1 DEF ToSet
    <3> QED
      BY <3>1, <3>2
  <2>6. \A a, b : Behind(a, b) => Behind(a, b)'
    BY <2>1, <2>3 DEF Behind, Sooner
  <2>7. cursor' \in Nat /\ (cursor' = 0 \/ cursor' < Len(active'))
    BY <2>1, <2>3 DEF RotationTypeOK
  <2> QED
    BY <2>3, <2>4, <2>5, <2>6, <2>7 DEF RotationTypeOK
<1> QED
  BY <1>1, <1>2

-----------------------------------------------------------------------------
(* Sorting.                                                                *)

NatLess == {p \in Nat \X Nat : p[1] < p[2]}

\* A set of numbers has a least one: this stands in for induction, since the
\* library's induction theorems take an operator.
LEMMA LeastNumber ==
    ASSUME NEW ns \in SUBSET Nat, ns # {}
    PROVE  \E n \in ns : \A m \in ns : n <= m
<1>1. IsWellFoundedOn(OpToRel(<, Nat), Nat)
  BY NatLessThanWellFounded
<1>2. IsWellFoundedOn(NatLess, Nat)
  BY <1>1 DEF NatLess, OpToRel
<1>3. PICK n \in ns : \A m \in ns : ~(<<m, n>> \in NatLess)
  BY <1>2, WFMin
<1>4. \A a, b \in Nat : a < b => <<a, b>> \in NatLess
  BY DEF NatLess
<1>5. ASSUME NEW m \in ns PROVE n <= m
  <2>1. ~(m < n)
    BY <1>3, <1>4
  <2> QED
    BY <2>1
<1> QED
  BY <1>5

\* The increasing enumerations of a set.
Increasing(gs) ==
    {s \in [1 .. Cardinality(gs) -> gs] : \A i, j \in DOMAIN s : i < j => s[i] < s[j]}

\* With one below all others, they are those of the others with it in front.
LEMMA InFront ==
    ASSUME NEW gs \in SUBSET Nat, IsFiniteSet(gs), NEW m \in gs, \A g \in gs : m <= g,
           Increasing(gs \ {m}) # {}
    PROVE  Increasing(gs) # {}
<1> DEFINE hs == gs \ {m}
           n == Cardinality(hs)
<1>1. n \in Nat /\ Cardinality(gs) = n + 1
  <2>1. IsFiniteSet(hs) /\ n = Cardinality(gs) - 1
    BY FS_RemoveElement
  <2>2. n \in Nat /\ Cardinality(gs) \in Nat
    BY <2>1, FS_CardinalityType
  <2> QED
    BY <2>1, <2>2
<1>2. PICK s \in [1 .. n -> hs] : \A i, j \in 1 .. n : i < j => s[i] < s[j]
  BY DEF Increasing
<1> DEFINE r == [i \in 1 .. n + 1 |-> IF i = 1 THEN m ELSE s[i - 1]]
<1> HIDE DEF n
<1>3. \A i \in 2 .. n + 1 : i - 1 \in 1 .. n /\ r[i] = s[i - 1] /\ r[i] \in hs
  BY <1>1, <1>2
<1>4. r[1] = m
  BY <1>1
<1>5. r \in [1 .. n + 1 -> gs]
  BY <1>1, <1>2
<1>6. ASSUME NEW i \in 1 .. n + 1, NEW j \in 1 .. n + 1, i < j PROVE r[i] < r[j]
  <2>1. j \in 2 .. n + 1
    BY <1>1, <1>6
  <2>2. CASE i = 1
    <3>1. r[j] \in gs /\ r[j] # m
      BY <1>3, <2>1
    <3>2. m <= r[j] /\ m \in Nat /\ r[j] \in Nat
      BY <3>1
    <3> QED
      BY <1>4, <2>2, <3>1, <3>2
  <2>3. CASE i \in 2 .. n + 1
    <3>1. s[i - 1] < s[j - 1]
      BY <1>1, <1>2, <1>3, <1>6, <2>1, <2>3
    <3> QED
      BY <1>3, <2>1, <2>3, <3>1
  <2> QED
    BY <1>1, <2>2, <2>3
<1> HIDE DEF r
<1>7. r \in Increasing(gs)
  BY <1>1, <1>5, <1>6 DEF Increasing
<1> QED
  BY <1>7

\* Every finite set of numbers can be enumerated in increasing order: there is no
\* least size of one that cannot.
LEMMA CanBeSorted ==
    ASSUME NEW fs \in SUBSET Nat, IsFiniteSet(fs)
    PROVE  Increasing(fs) # {}
<1> DEFINE Unsorted(gs) == IsFiniteSet(gs) /\ Increasing(gs) = {}
           sizes == {n \in Nat : \E gs \in SUBSET Nat : Unsorted(gs) /\ Cardinality(gs) = n}
<1>1. SUFFICES ASSUME sizes # {} PROVE FALSE
  BY FS_CardinalityType
<1>2. PICK n \in sizes : \A k \in sizes : n <= k
  BY <1>1, LeastNumber
<1>3. PICK gs \in SUBSET Nat : Unsorted(gs) /\ Cardinality(gs) = n
  OBVIOUS
<1>4. gs # {}
  <2>1. SUFFICES ASSUME gs = {} PROVE FALSE
    OBVIOUS
  <2>2. [i \in 1 .. 0 |-> 0] \in Increasing({})
    BY FS_EmptySet DEF Increasing
  <2> QED
    BY <1>3, <2>1, <2>2
<1>5. PICK m \in gs : \A g \in gs : m <= g
  BY <1>3, <1>4, LeastNumber
<1>6. IsFiniteSet(gs \ {m}) /\ Cardinality(gs \ {m}) = n - 1 /\ n - 1 \in Nat
  <2>1. IsFiniteSet(gs \ {m}) /\ Cardinality(gs \ {m}) = n - 1
    BY <1>3, FS_RemoveElement
  <2>2. Cardinality(gs \ {m}) \in Nat
    BY <2>1, FS_CardinalityType
  <2> QED
    BY <2>1, <2>2
<1>7. Increasing(gs \ {m}) # {}
  <2>1. n - 1 \notin sizes
    BY <1>2, <1>6
  <2> QED
    BY <1>3, <1>6, <2>1
<1> QED
  BY <1>3, <1>5, <1>7, InFront

\* What active.sort() makes of the tags: each of them once.
LEMMA SortedTags ==
    ASSUME NEW gs \in SUBSET Tags
    PROVE  /\ Sorted(gs) \in Seq(Tags) /\ IsInjective(Sorted(gs)) /\ ToSet(Sorted(gs)) = gs
<1> DEFINE n == Cardinality(gs)
           s == Sorted(gs)
<1>1. gs \in SUBSET Nat /\ IsFiniteSet(gs) /\ n \in Nat
  BY RotationAssumption, FS_Subset, FS_CardinalityType
<1>2. s \in [1 .. n -> gs] /\ \A i, j \in DOMAIN s : i < j => s[i] < s[j]
  <2>1. \E r \in [1 .. n -> gs] : \A i, j \in DOMAIN r : i < j => r[i] < r[j]
    BY <1>1, CanBeSorted DEF Increasing
  <2> QED
    BY <2>1 DEF Sorted
<1> HIDE DEF s
<1>3. ASSUME NEW i \in 1 .. n, NEW j \in 1 .. n, s[i] = s[j] PROVE i = j
  <2>1. s[i] \in Nat /\ s[j] \in Nat
    BY <1>1, <1>2
  <2>2. ~(i < j) /\ ~(j < i)
    BY <1>2, <1>3, <2>1
  <2> QED
    BY <2>2
<1>4. s \in Injection(1 .. n, gs)
  BY <1>2, <1>3 DEF Injection, IsInjective
<1>5. Cardinality(1 .. n) = n
  BY <1>1, FS_Interval
<1>6. s \in Surjection(1 .. n, gs)
  BY <1>1, <1>4, <1>5, FS_Injection
<1>7. ToSet(s) = gs
  BY <1>2, <1>6 DEF ToSet, Surjection
<1>8. s \in Seq(Tags)
  <2>1. s \in [1 .. n -> Tags]
    BY <1>2
  <2> QED
    BY <1>1, <2>1, SeqDef
<1> QED
  BY <1>4, <1>7, <1>8 DEF s, Injection

-----------------------------------------------------------------------------
(* What the writes do to the queue keyspace.                               *)

\* OthersUntouched, after a step.
LEMMA OthersUntouchedAfter ==
    (FjallTypeOK /\ Progress /\ op.name \notin {"idle", "recover"})' =>
        (\A ks \in Keyspaces : \A u \in Tasks \ {op.task} : Current[ks][u] = op.from[ks][u])'
<1>1. FjallTypeOK /\ Progress /\ op.name \notin {"idle", "recover"} =>
        \A ks \in Keyspaces : \A u \in Tasks \ {op.task} : Current[ks][u] = op.from[ks][u]
  BY OthersUntouched
<1> QED
  BY <1>1, PTL

\* A pop only takes from the queue, a push adds its task, and the others leave it.
LEMMA QueueWritten ==
    ASSUME IInv, IInv', Write, op.name # "recover"
    PROVE  /\ \A u \in Tasks : Has(Current, "queue", u)' =>
                 Has(Current, "queue", u) \/ (op.name = "push" /\ u = op.task)
           /\ op' = op /\ op.name # "idle"
<1>1. op' = op /\ todo # <<>> /\ op.name \in OpNames \ {"idle"} /\ op.task \in Tasks
  BY DEF Write, IInv, FjallTypeOK
<1>2. \A u \in Tasks \ {op.task} : Current'["queue"][u] = Current["queue"][u]
  <2>1. \A u \in Tasks \ {op.task} : Current["queue"][u] = op.from["queue"][u]
    BY <1>1, OthersUntouched DEF IInv, Keyspaces
  <2>2. \A u \in Tasks \ {op.task} : Current'["queue"][u] = op.from["queue"][u]
    BY <1>1, OthersUntouchedAfter DEF IInv, Keyspaces
  <2> QED
    BY <2>1, <2>2
<1>3. ASSUME op.name # "push", Current'["queue"][op.task] # Absent
      PROVE  Has(Current, "queue", op.task)
  <2>1. CASE op.name = "pop"
    <3>1. CASE todo = PopWrites(op.task)
      <4>1. Head(todo) = Insert("queue", op.task, Absent)
        BY <3>1, Writes DEF PopWrites, Delete
      <4>2. Wrote("queue", op.task, Absent)
        BY <1>1, <4>1, WriteCell, WrittenValues DEF IInv, Keyspaces
      <4> QED
        BY <1>3, <4>2 DEF Wrote, Has
    <3>2. CASE todo = <<Insert("inflight", op.task, Empty)>>
      <4>1. Wrote("inflight", op.task, Empty)
        BY <1>1, <3>2, Writes, WriteCell, WrittenValues DEF IInv, Keyspaces
      <4> QED
        BY <1>3, <4>1 DEF Wrote, Has, Keyspaces
    <3> QED
      BY <1>1, <2>1, <3>1, <3>2 DEF IInv, Progress, PopProgress, Left
  <2>2. CASE op.name \in {"ack", "nack", "set"}
    <3>1. Current["queue"] = op.from["queue"]
      BY <2>2 DEF IInv, Progress, AckProgress, NackProgress, SetProgress, Left, Old
    <3>2. Current'["queue"] = op.from["queue"]
      BY <1>1, <2>2 DEF IInv, Progress, AckProgress, NackProgress, SetProgress, Left, Old
    <3> QED
      BY <1>3, <3>1, <3>2 DEF Has
  <2> QED
    BY <1>1, <1>3, <2>1, <2>2 DEF OpNames
<1>4. ASSUME NEW u \in Tasks, Has(Current, "queue", u)'
      PROVE  Has(Current, "queue", u) \/ (op.name = "push" /\ u = op.task)
  <2>1. CASE u = op.task
    BY <1>3, <1>4, <2>1 DEF Has
  <2>2. CASE u # op.task
    BY <1>2, <1>4, <2>2 DEF Has
  <2> QED
    BY <2>1, <2>2
<1> QED
  BY <1>1, <1>4

\* The two writes of a recovery: the task is queued, then its lease goes.
LEMMA QueueRecovered ==
    ASSUME IInv, Write, op.name = "recover"
    PROVE  \E t \in Tasks :
              \/ /\ Len(todo) = 2 /\ todo' = <<Delete("inflight", t)>>
                 /\ \A u \in Tasks \ {t} : Current'["queue"][u] = Current["queue"][u]
              \/ /\ todo = <<Delete("inflight", t)>> /\ todo' = <<>>
                 /\ Current'["queue"] = Current["queue"]
<1>1. /\ todo # <<>> /\ todo' = Tail(todo) /\ FjallTypeOK /\ Current \in Store
      /\ {Empty, Absent} \subseteq Values
  BY CurrentVersion, WrittenValues DEF Write, IInv
<1>2. PICK t \in Tasks : todo = RecoverWrites(t) \/ todo = <<Delete("inflight", t)>>
  BY <1>1 DEF IInv, Progress, RecoverProgress, RecoverTodo
<1>3. CASE todo = RecoverWrites(t)
  <2>1. Head(todo) = Insert("queue", t, Empty) /\ todo' = <<Delete("inflight", t)>> /\ Len(todo) = 2
    BY <1>1, <1>3, Writes DEF RecoverWrites
  <2>2. Wrote("queue", t, Empty)
    BY <1>1, <2>1, WriteCell DEF Keyspaces
  <2>3. \A u \in Tasks \ {t} : Current'["queue"][u] = Current["queue"][u]
    BY <1>1, <2>2 DEF Wrote, Store, Keyspaces
  <2> QED
    BY <2>1, <2>3
<1>4. CASE todo = <<Delete("inflight", t)>>
  <2>1. Head(todo) = Insert("inflight", t, Absent) /\ todo' = <<>>
    BY <1>1, <1>4, Writes DEF Delete
  <2>2. Wrote("inflight", t, Absent)
    BY <1>1, <2>1, WriteCell DEF Keyspaces
  <2> QED
    BY <1>4, <2>1, <2>2 DEF Wrote, Keyspaces
<1> QED
  BY <1>2, <1>3, <1>4

-----------------------------------------------------------------------------
(* Every action preserves the invariant of the rotation.                   *)

\* An empty rotation, or one that was rebuilt.
LEMMA RotationInitInv == RoundRobinInit => RotationInv
<1> SUFFICES ASSUME RoundRobinInit PROVE RotationInv
  OBVIOUS
<1>1. /\ tagOf \in [Tasks -> Tags] /\ active = <<>> /\ cursor = 0
      /\ passed = [g \in Tags |-> {}] /\ versions = <<EmptyStore>> /\ op.name = "idle"
  BY DEF RoundRobinInit, RotationInit, Init, Idle
<1>2. RotationTypeOK
  BY <1>1 DEF RotationTypeOK, IsInjective
<1>3. QueueCovered
  BY <1>1 DEF QueueCovered, Has, Current, EmptyStore, Keyspaces
<1>4. PopServesFirst /\ PassedBehind
  BY <1>1 DEF PopServesFirst, PassedBehind
<1> QED
  BY <1>2, <1>3, <1>4 DEF RotationInv

\* As long as queue and rotation stay as they are, so does what they promise.
LEMMA RotationFrame ==
    ASSUME RotationInv, Current' = Current, UNCHANGED <<tagOf, rotationVars>>
    PROVE  /\ RotationTypeOK' /\ PassedBehind'
           /\ \A g : FirstServed(g) => FirstServed(g)'
           /\ ToSet(active') = ToSet(active)
  BY DEF RotationInv, RotationTypeOK, PassedBehind, Behind, Sooner, FirstServed, Bucket, Keys,
         IsInjective, ToSet

\* An operation begins; a pop with the tag whose turn it is.
LEMMA RotationBegins ==
    ASSUME IInv, RotationInv, UNCHANGED <<tagOf, rotationVars>>,
           RecoverInflight \/ \E t \in Tasks : RoundRobinBegin(t)
    PROVE  RotationInv'
<1>1. CASE \E t \in Tasks : RecoverKey(t)
  <2>1. op.name = "recover" /\ todo = <<>> /\ op' = op /\ Current' = Current
    BY <1>1 DEF RecoverKey, Current
  <2>2. QueueCovered'
    BY <2>1, RotationFrame DEF RotationInv, QueueCovered, Has
  <2>3. PopServesFirst'
    BY <2>1 DEF PopServesFirst
  <2> QED
    BY <2>1, <2>2, <2>3, RotationFrame DEF RotationInv
<1>2. CASE RecoverInflight \/ \E t \in Tasks : RoundRobinBegin(t) /\ ~RecoverKey(t)
  <2>1. \/ \E name \in OpNames : name # "pop" /\ \E t, r, writes : Begin(name, t, r, writes)
        \/ \E t \in Tasks : PopNext(t) /\ Begin("pop", t, 0, PopWrites(t))
    <3>1. CASE RecoverInflight
      BY <3>1 DEF RecoverInflight, OpNames
    <3>2. CASE \E t \in Tasks : RoundRobinBegin(t) /\ ~RecoverKey(t)
      <4> PICK t \in Tasks : RoundRobinBegin(t) /\ ~RecoverKey(t)
        BY <3>2
      <4>1. \/ Begin("push", t, 0, PushWrites(t, 0))
            \/ Begin("push", t, held[t] + 1, PushWrites(t, held[t] + 1))
            \/ PopNext(t) /\ Begin("pop", t, 0, PopWrites(t))
            \/ Begin("ack", t, held[t], AckWrites(t))
            \/ Begin("nack", t, held[t], NackWrites(t, held[t]))
            \/ Begin("set", t, held[t], SetWrites(t, held[t]))
        BY DEF RoundRobinBegin, PushNew, PushRetry, PopNext, PopKey, Ack, Nack, Set
      <4> QED
        BY <4>1 DEF OpNames
    <3> QED
      BY <1>2, <3>1, <3>2
  <2>2. op.name = "idle" /\ Current' = Current
    BY <2>1 DEF Begin, Idle, Current
  <2>3. QueueCovered'
    BY <2>2, RotationFrame DEF RotationInv, QueueCovered, Has
  <2>4. PopServesFirst'
    <3>1. CASE \E name \in OpNames : name # "pop" /\ \E t, r, writes : Begin(name, t, r, writes)
      BY <3>1 DEF Begin, PopServesFirst
    <3>2. CASE \E t \in Tasks : PopNext(t) /\ Begin("pop", t, 0, PopWrites(t))
      <4> PICK t \in Tasks : PopNext(t) /\ Begin("pop", t, 0, PopWrites(t))
        BY <3>2
      <4>1. FirstServed(tagOf[t])
        BY LapFirst DEF RotationInv
      <4>2. \A g : FirstServed(g) => FirstServed(g)'
        BY <2>2, RotationFrame
      <4>3. op'.task = t /\ tagOf' = tagOf
        BY DEF Begin
      <4> QED
        BY <4>1, <4>2, <4>3 DEF PopServesFirst
    <3> QED
      BY <2>1, <3>1, <3>2
  <2> QED
    BY <2>2, <2>3, <2>4, RotationFrame DEF RotationInv
<1> QED
  BY <1>1, <1>2

\* A write; the second write of a recovery brings the tag into the rotation.
LEMMA RotationWrites ==
    ASSUME IInv, IInv', RotationInv, RoundRobinWrite, UNCHANGED tagOf
    PROVE  RotationInv'
<1>1. /\ Write /\ op' = op /\ UNCHANGED <<cursor, passed, hidden>>
      /\ RotationTypeOK /\ passed \in [Tags -> SUBSET Tags]
  BY DEF RoundRobinWrite, Write, RotationInv, RotationTypeOK
<1>2. CASE op.name # "recover"
  <2>1. active' = active
    BY <1>2 DEF RoundRobinWrite
  <2>2. \A u \in Tasks : Has(Current, "queue", u)' =>
           Has(Current, "queue", u) \/ (op.name = "push" /\ u = op.task)
    BY <1>1, <1>2, QueueWritten
  <2>3. RotationTypeOK' /\ PassedBehind'
    BY <1>1, <2>1 DEF RotationInv, RotationTypeOK, PassedBehind, Behind, Sooner, IsInjective
  <2>4. QueueCovered'
    BY <1>1, <1>2, <2>1, <2>2 DEF RotationInv, QueueCovered, ToSet
  <2>5. PopServesFirst'
    <3>1. SUFFICES ASSUME op.name = "pop" PROVE FirstServed(tagOf[op.task])'
      BY <1>1 DEF PopServesFirst
    <3>2. \A g : Bucket(g) = {} => Bucket(g)' = {}
      BY <2>2, <3>1 DEF Bucket, Keys, Has
    <3>3. FirstServed(tagOf[op.task])
      BY <3>1 DEF RotationInv, PopServesFirst
    <3> QED
      BY <1>1, <2>1, <3>2, <3>3 DEF FirstServed, Sooner
  <2> QED
    BY <2>3, <2>4, <2>5 DEF RotationInv
<1>3. CASE op.name = "recover"
  <2>1. PICK t \in Tasks :
           \/ /\ Len(todo) = 2 /\ todo' = <<Delete("inflight", t)>>
              /\ \A u \in Tasks \ {t} : Current'["queue"][u] = Current["queue"][u]
           \/ /\ todo = <<Delete("inflight", t)>> /\ todo' = <<>>
              /\ Current'["queue"] = Current["queue"]
    BY <1>1, <1>3, QueueRecovered
  <2>2. PopServesFirst'
    BY <1>1, <1>3 DEF PopServesFirst
  <2>3. CASE /\ Len(todo) = 2 /\ todo' = <<Delete("inflight", t)>>
             /\ \A u \in Tasks \ {t} : Current'["queue"][u] = Current["queue"][u]
    <3>1. active' = active
      BY <2>3 DEF RoundRobinWrite
    <3>2. RotationTypeOK' /\ PassedBehind'
      BY <1>1, <3>1 DEF RotationInv, RotationTypeOK, PassedBehind, Behind, Sooner, IsInjective
    <3>3. \A u : todo # <<Delete("inflight", u)>>
      BY <2>3
    <3>4. QueueCovered'
      BY <1>1, <1>3, <2>3, <3>1, <3>3 DEF RotationInv, QueueCovered, ToSet, Has
    <3> QED
      BY <2>2, <3>2, <3>4 DEF RotationInv
  <2>4. CASE /\ todo = <<Delete("inflight", t)>> /\ todo' = <<>>
             /\ Current'["queue"] = Current["queue"]
    <3>1. Len(todo) = 1 /\ Head(todo).id = t /\ tagOf[t] \in Tags
      BY <1>1, <2>4 DEF RotationTypeOK, Delete, Insert
    <3>2. active' = Ensure(tagOf[t])
      BY <1>3, <3>1 DEF RoundRobinWrite
    <3>3. /\ RotationTypeOK' /\ ToSet(active') = ToSet(active) \cup {tagOf[t]}
          /\ \A a, b : Behind(a, b) => Behind(a, b)'
      BY <1>1, <3>1, <3>2, TagEnsured
    <3>4. PassedBehind'
      BY <1>1, <3>3 DEF RotationInv, PassedBehind
    <3>5. QueueCovered'
      <4> SUFFICES ASSUME NEW u \in Tasks, Current'["queue"][u] # Absent
                   PROVE  u \in hidden' \/ tagOf'[u] \in ToSet(active')
        BY DEF QueueCovered, Has
      <4>1. u \in hidden \/ tagOf[u] \in ToSet(active) \/ todo = <<Delete("inflight", u)>>
        BY <1>3, <2>4 DEF RotationInv, QueueCovered, Has
      <4>2. todo = <<Delete("inflight", u)>> => u = t
        BY <2>4 DEF Delete, Insert
      <4> QED
        BY <1>1, <3>3, <4>1, <4>2
    <3> QED
      BY <2>2, <3>3, <3>4, <3>5 DEF RotationInv
  <2> QED
    BY <2>1, <2>3, <2>4
<1> QED
  BY <1>2, <1>3

\* Whoever waits: a tag that is served while it waits is served after it.
LEMMA PassedReturns ==
    ASSUME IInv, RotationInv, RoundRobinReturn, UNCHANGED tagOf
    PROVE  RotationTypeOK' /\ PassedBehind'
<1> DEFINE h == tagOf[op.task]
           gs == IF Serves THEN {h} ELSE {}
<1>1. RotationTypeOK /\ PassedBehind /\ PopServesFirst
  BY DEF RotationInv
<1>2. passed' = [g \in Tags |-> IF Waiting(g) /\ g \notin gs THEN passed[g] \cup gs ELSE {}]
  BY DEF RoundRobinReturn, PassedBy
<1>3. CASE Serves
  <2>1. op.name = "pop" /\ op.name # "push" /\ FirstServed(h)
    BY <1>1, <1>3 DEF Serves, PopServesFirst
  <2>2. active' = active /\ cursor' = CursorPast(h)
    BY <1>3, <2>1 DEF RoundRobinReturn
  <2>3. PICK k \in DOMAIN active : active[k] = h
    BY <2>1 DEF FirstServed
  <2>4. /\ Len(active) \in Nat /\ DOMAIN active = 1 .. Len(active) /\ h \in Tags
        /\ cursor' = IF k = Len(active) THEN 0 ELSE k
    BY <1>1, <2>2, <2>3, ActivePlaces, CursorMoves
  <2>5. passed' \in [Tags -> SUBSET Tags]
    BY <1>1, <1>2, <2>4 DEF RotationTypeOK
  <2>6. RotationTypeOK'
    <3>1. cursor' \in Nat /\ (cursor' = 0 \/ cursor' < Len(active'))
      BY <2>2, <2>3, <2>4
    <3>2. tagOf' \in [Tasks -> Tags] /\ active' \in Seq(Tags) /\ IsInjective(active')
      BY <1>1, <2>2 DEF RotationTypeOK
    <3> QED
      BY <2>5, <3>1, <3>2 DEF RotationTypeOK
  <2>7. ASSUME NEW g \in Tags, NEW x \in passed'[g] PROVE Behind(g, x)'
    <3>1. Waiting(g) /\ g # h /\ (x \in passed[g] \/ x = h)
      BY <1>2, <1>3, <2>7
    <3>2. x \in passed[g] => Behind(g, x)
      BY <1>1 DEF PassedBehind
    <3> QED
      BY <1>1, <2>1, <2>2, <3>1, <3>2, LapTurns
  <2> QED
    BY <2>6, <2>7 DEF PassedBehind
<1>4. CASE ~Serves
  <2>1. cursor' = cursor /\ passed' \in [Tags -> SUBSET Tags]
        /\ \A g \in Tags : passed'[g] \subseteq passed[g]
    BY <1>1, <1>2, <1>4 DEF RoundRobinReturn, RotationTypeOK
  <2>2. CASE op.name = "push"
    <3>1. op.task \in Tasks /\ h \in Tags /\ active' = Ensure(h)
      BY <1>1, <2>2 DEF RoundRobinReturn, RotationTypeOK, IInv, FjallTypeOK
    <3>2. RotationTypeOK' /\ \A a, b : Behind(a, b) => Behind(a, b)'
      BY <1>1, <2>1, <3>1, TagEnsured
    <3> QED
      BY <1>1, <2>1, <3>2 DEF PassedBehind
  <2>3. CASE op.name # "push"
    <3>1. active' = active
      BY <2>3 DEF RoundRobinReturn
    <3> QED
      BY <1>1, <2>1, <3>1 DEF RotationTypeOK, IsInjective, PassedBehind, Behind, Sooner
  <2> QED
    BY <2>2, <2>3
<1> QED
  BY <1>3, <1>4

\* An operation returns: a push brings its tag into the rotation, a pop moves the cursor.
LEMMA RotationReturns ==
    ASSUME IInv, RotationInv, RoundRobinReturn, UNCHANGED tagOf
    PROVE  RotationInv'
<1>1. /\ op' = Idle /\ todo = <<>> /\ hidden' = hidden /\ op'.name = "idle"
      /\ op.name = "push" => op.task \in Tasks
  BY DEF RoundRobinReturn, Return, Idle, IInv, FjallTypeOK
<1>2. Current' = Current
  BY DEF RoundRobinReturn, Return, Current
<1>3. ToSet(active') = IF op.name = "push" THEN ToSet(active) \cup {tagOf[op.task]}
                       ELSE ToSet(active)
  <2>1. CASE op.name = "push"
    <3>1. active' = Ensure(tagOf[op.task]) /\ cursor' = cursor /\ tagOf[op.task] \in Tags
      BY <1>1, <2>1 DEF RoundRobinReturn, Serves, RotationInv, RotationTypeOK
    <3>2. passed' \in [Tags -> SUBSET Tags]
      BY PassedReturns DEF RotationTypeOK
    <3> QED
      BY <2>1, <3>1, <3>2, TagEnsured DEF RotationInv
  <2>2. CASE op.name # "push"
    BY <2>2 DEF RoundRobinReturn, ToSet
  <2> QED
    BY <2>1, <2>2
<1>4. QueueCovered'
  <2> SUFFICES ASSUME NEW t \in Tasks, Current'["queue"][t] # Absent
               PROVE  t \in hidden' \/ tagOf'[t] \in ToSet(active')
    BY DEF QueueCovered, Has
  <2>1. t \in hidden \/ tagOf[t] \in ToSet(active) \/ (op.name = "push" /\ op.task = t)
    BY <1>1, <1>2 DEF RotationInv, QueueCovered, Has
  <2> QED
    BY <1>1, <1>3, <2>1
<1> QED
  BY <1>1, <1>4, PassedReturns DEF RotationInv, PopServesFirst

\* An operation ends in an error: what it has queued behind the rotation's back is hidden.
LEMMA RotationFails ==
    ASSUME IInv, RotationInv, RoundRobinFail, UNCHANGED tagOf
    PROVE  RotationInv'
<1>1. /\ op'.name = "idle" /\ Current' = Current /\ UNCHANGED <<active, cursor>>
      /\ hidden' = hidden \cup {w.id : w \in ToSet(todo)}
                          \cup (IF op.name = "push" THEN {op.task} ELSE {})
  BY DEF RoundRobinFail, Fail, Abort, Idle, Current
<1>2. passed' \in [Tags -> SUBSET Tags] /\ \A g \in Tags : passed'[g] \subseteq passed[g]
  BY DEF RoundRobinFail, PassedBy, RotationInv, RotationTypeOK
<1>3. RotationTypeOK' /\ PassedBehind'
  BY <1>1, <1>2 DEF RotationInv, RotationTypeOK, IsInjective, PassedBehind, Behind, Sooner
<1>4. \A t \in Tasks : todo = <<Delete("inflight", t)>> => t \in {w.id : w \in ToSet(todo)}
  <2> SUFFICES ASSUME NEW t \in Tasks, todo = <<Delete("inflight", t)>>
               PROVE  t \in {w.id : w \in ToSet(todo)}
    OBVIOUS
  <2>1. 1 \in DOMAIN todo /\ todo[1].id = t
    BY DEF Delete, Insert
  <2> QED
    BY <2>1 DEF ToSet
<1>5. QueueCovered'
  BY <1>1, <1>4 DEF RotationInv, QueueCovered, Has, ToSet
<1> QED
  BY <1>1, <1>3, <1>5 DEF RotationInv, PopServesFirst

\* The rotation that is rebuilt when the database is opened covers the queue.
LEMMA RotationReopens ==
    ASSUME RotationInv, Reopen, UNCHANGED tagOf
    PROVE  RotationInv'
<1>1. /\ op'.name = "idle" /\ cursor' = 0 /\ passed' = [g \in Tags |-> {}]
      /\ tagOf' \in [Tasks -> Tags]
  BY DEF Reopen, Crash, Abort, Idle, RotationInv, RotationTypeOK
<1> DEFINE queued == Keys(Current', "queue")
           gs == TagsOf(queued)
<1>2. queued \subseteq Tasks /\ gs = {tagOf[t] : t \in queued}
  BY DEF Keys, TagsOf
<1>3. active' = Sorted(gs) /\ gs \in SUBSET Tags
  BY <1>2 DEF Reopen, RotationInv, RotationTypeOK
<1>4. active' \in Seq(Tags) /\ IsInjective(active') /\ ToSet(active') = gs
  BY <1>3, SortedTags
<1>5. QueueCovered'
  <2> SUFFICES ASSUME NEW t \in Tasks, Current'["queue"][t] # Absent
               PROVE  tagOf'[t] \in ToSet(active')
    BY DEF QueueCovered, Has
  <2> QED
    BY <1>2, <1>4 DEF Keys
<1> QED
  BY <1>1, <1>4, <1>5 DEF RotationInv, RotationTypeOK, PopServesFirst, PassedBehind

-----------------------------------------------------------------------------
(* What the queue and its rotation promise.                                *)

\* The writes are those of the queue without tags.
LEMMA RoundRobinIsFjall ==
    /\ RoundRobinInit => Init
    /\ [RoundRobinNext]_roundRobinVars => [FjallStep]_vars
<1>1. RoundRobinInit => Init
  BY DEF RoundRobinInit
<1>2. ASSUME RoundRobinNext PROVE FjallStep
  BY <1>2 DEF RoundRobinNext, RoundRobinBegin, PopNext, RoundRobinWrite, RoundRobinReturn,
              RoundRobinFail, Reopen, FjallStep
<1> QED
  BY <1>1, <1>2

\* No step breaks the two invariants.
LEMMA RotationInductive ==
    IInv /\ RotationInv /\ [RoundRobinNext]_roundRobinVars => IInv' /\ RotationInv'
<1> SUFFICES ASSUME IInv, RotationInv, [RoundRobinNext]_roundRobinVars PROVE IInv' /\ RotationInv'
  OBVIOUS
<1>1. IInv'
  BY RoundRobinIsFjall, Inductive
<1>2. CASE RoundRobinNext
  <2>1. UNCHANGED tagOf
    BY <1>2 DEF RoundRobinNext
  <2>2. CASE \/ \E t \in Tasks : RoundRobinBegin(t)
             \/ RecoverInflight /\ UNCHANGED rotationVars
    BY <1>1, <2>1, <2>2, RotationBegins DEF RoundRobinBegin
  <2>3. CASE RoundRobinWrite
    BY <1>1, <2>1, <2>3, RotationWrites
  <2>4. CASE RoundRobinReturn
    BY <1>1, <2>1, <2>4, RotationReturns
  <2>5. CASE RoundRobinFail
    BY <1>1, <2>1, <2>5, RotationFails
  <2>6. CASE Reopen
    BY <1>1, <2>1, <2>6, RotationReopens
  <2> QED
    BY <1>1, <1>2, <2>2, <2>3, <2>4, <2>5, <2>6 DEF RoundRobinNext
<1>3. CASE UNCHANGED roundRobinVars
  <2>1. Current' = Current /\ op' = op /\ todo' = todo /\ UNCHANGED <<tagOf, rotationVars>>
    BY <1>3 DEF Current
  <2>2. QueueCovered' /\ PopServesFirst'
    BY <2>1, RotationFrame DEF RotationInv, QueueCovered, PopServesFirst, Has
  <2> QED
    BY <1>1, <2>1, <2>2, RotationFrame DEF RotationInv
<1> QED
  BY <1>2, <1>3

\* Both invariants hold throughout.
THEOREM RotationInvariance == RoundRobinSpec => [](IInv /\ RotationInv)
<1>1. RoundRobinInit => IInv /\ RotationInv
  BY RoundRobinIsFjall, InitInv, RotationInitInv
<1> QED
  BY <1>1, RotationInductive, PTL DEF RoundRobinSpec

\* The keyspaces of the round-robin backend keep every promise of those of the other
\* one, whichever tag a pop serves: pushes are kept, settlements are final, what is
\* popped is leased, and only a pop that was cut puts a task out of reach.
THEOREM RoundRobinKeepsPromises ==
    RoundRobinSpec => [](PromiseKept /\ NoResurrection /\ GhostsAreSettled
                         /\ HeldExclusively /\ OnlyCutPopsVanish)
<1>1. IInv => PromiseKept /\ NoResurrection /\ GhostsAreSettled /\ HeldExclusively
              /\ OnlyCutPopsVanish
  BY InvariantPromises
<1> QED
  BY <1>1, RotationInvariance, PTL

\* Until an operation is cut it implements the contract of the TaskQueue trait, too.
THEOREM RoundRobinImplementsContract == RoundRobinSpec => ContractUntilCut
<1>1. RoundRobinInit => Contract!QueueInit
  BY RoundRobinIsFjall, InitContract
<1>2. IInv /\ [RoundRobinNext]_roundRobinVars =>
          [cut' = {} => Contract!LifecycleNext]_(Contract!queueVars)
  BY RoundRobinIsFjall, StepContract
<1> QED
  BY <1>1, <1>2, RotationInvariance, PTL DEF RoundRobinSpec, ContractUntilCut

\* A pop looks at every queued task before it answers QueueEmpty: what is queued is in
\* the rotation (ensure, rebuild_state), unless a failed push or recovery queued it.
THEOREM RotationCovers == RoundRobinSpec => []RotationCoversQueue
<1>1. IInv /\ RotationInv => RotationCoversQueue
  <2> SUFFICES ASSUME IInv, RotationInv PROVE RotationCoversQueue
    OBVIOUS
  <2>1. IsInjective(active) /\ (cursor = 0 \/ cursor < Len(active))
    BY DEF RotationInv, RotationTypeOK
  <2>2. ASSUME op = Idle, NEW t \in Keys(Current, "queue") \ hidden
        PROVE  tagOf[t] \in ToSet(active)
    BY <2>2 DEF RotationInv, QueueCovered, Has, Keys, Idle
  <2> QED
    BY <2>1, <2>2 DEF RotationCoversQueue, TagsOf
<1> QED
  BY <1>1, RotationInvariance, PTL

\* A pop never serves a tag twice while another one waits (the cursor of pop).
THEOREM NoTagStarves == RoundRobinSpec => NoTagOvertakesTwice
<1>1. ASSUME IInv, RotationInv, Serves, NEW g \in Tags, Waiting(g)
      PROVE  tagOf[op.task] \notin passed[g]
  <2>1. RotationTypeOK /\ FirstServed(tagOf[op.task])
    BY <1>1 DEF RotationInv, PopServesFirst, Serves
  <2> QED
    BY <1>1, <2>1, ServedNotOvertaken DEF RotationInv, PassedBehind
<1>2. IInv /\ RotationInv =>
          [ (Serves /\ held'[op.task] # Absent) =>
               \A g \in Tags : Waiting(g) => tagOf[op.task] \notin passed[g] ]_roundRobinVars
  BY <1>1
<1> QED
  BY <1>2, RotationInvariance, PTL DEF NoTagOvertakesTwice

=============================================================================
