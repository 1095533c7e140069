-------------------------- MODULE ComponentsProofs --------------------------
(***************************************************************************)
(* Theorems about the smaller parts: the test site, the fetches and the    *)
(* proxies of a client, the links of a page, the in-memory queue, and the  *)
(* keys of the round-robin queue, for every value of their constants.      *)
(* Each part that moves has an inductive invariant of its own; since only  *)
(* one part moves at a time, a behaviour of Components is one of each.     *)
(***************************************************************************)
EXTENDS Components, FiniteSetTheorems, SequenceTheorems, TLAPS

-----------------------------------------------------------------------------
(* The test site.  Per path, a request is counted in per_path before it is *)
(* in the log, and in the log before it is answered; what is on its way    *)
(* from one to the next is what the connections are at.                    *)

Counts == [SitePaths -> Nat]

Places ==
    {Closed, Idle} \cup {Counted(p) : p \in SitePaths} \cup {Logged(p) : p \in SitePaths}
    \cup {Copied(log, before, back) :
            log \in Counts, before \in Counts, back \in {Closed, Idle}}

SiteTypeOK ==
    /\ perPath \in Counts /\ requestLog \in Counts /\ answered \in Counts
    /\ conn \in [Conns -> Places]
    /\ taken \in [log : Counts, paths : Counts, before : Counts]

\* The connections whose request has got this far.
IsAt(place, st, p) == place.st = st /\ place.path = p
AreAt(st, p) == {c \in Conns : IsAt(conn[c], st, p)}

\* A request that is logged or answered has been counted, and those that still have to
\* be are on a connection of their own.
CountedFirst ==
    \A p \in SitePaths :
        /\ answered[p] + Cardinality(AreAt("logged", p)) <= requestLog[p]
        /\ requestLog[p] + Cardinality(AreAt("counted", p)) <= perPath[p]

\* A copy of the log is no newer than the log.
CopiesTrail ==
    \A c \in Conns : conn[c].st = "copied" =>
        \A p \in SitePaths : /\ conn[c].before[p] <= conn[c].log[p]
                             /\ conn[c].log[p] <= requestLog[p]

SiteInv == SiteTypeOK /\ CountedFirst /\ CopiesTrail /\ SnapshotConsistent

-----------------------------------------------------------------------------
(* The fetches of a client.                                                *)

\* A client that works has its two timeouts, a fetch has a client, and one that is
\* still trying has not passed its limit.
FetchInv ==
    /\ client \notin {NoClient, Panicked} => config.kind # "missing" /\ HasTimeouts
    /\ fetch # NoFetch =>
          /\ client \notin {NoClient, Panicked}
          /\ fetch.at \in Nat /\ fetch.limit \in Nat
          /\ fetch = [st |-> fetch.st, at |-> fetch.at, limit |-> fetch.limit]
          /\ fetch.st = "trying" => fetch.at <= fetch.limit
    /\ FetchEndsInTime

-----------------------------------------------------------------------------
(* The in-memory queue.                                                    *)

Record == [id : Tasks, status : Statuses, retries : 0 .. MaxRetries + 1,
           started : BOOLEAN, finished : BOOLEAN, error : BOOLEAN]

Rows == [Tasks -> Record \cup {NoRecord}]

CallNames == {"push", "pop", "ack", "nack", "set", "recover", "fmt"}

MemoryTypeOK ==
    /\ list \in Seq(Tasks) /\ hashmap \in Rows /\ dlq \in Rows
    /\ inflight \subseteq Tasks /\ acked \subseteq Tasks
    /\ at \in [Clients -> {"idle", "popped", "running"}]
    /\ copy \in [Clients -> Record \cup {NoRecord}]
    /\ call \in [Clients -> {NoCall} \cup
                    [name : CallNames, task : Record \cup {NoRecord}, taken : Nat]]
    /\ \A c \in Clients : Busy(c) => call[c].taken < Len(Order[call[c].name])

\* A task is listed, in flight, acknowledged or dead, and never two of these.
TasksApart ==
    /\ IsInjective(list) /\ ToSet(list) \cup inflight = Ids(hashmap)
    /\ ToSet(list) \cap inflight = {} /\ Ids(dlq) \cap acked = {}
    /\ Ids(hashmap) \cap (Ids(dlq) \cup acked) = {}

\* A row is of its id and says that it is not settled; a dead letter how it died.
RowsTell ==
    /\ \A t \in Ids(hashmap) :
          /\ hashmap[t].id = t /\ hashmap[t].retries <= MaxRetries
          /\ hashmap[t].status \in {"Queued", "InProgress", "Failed"}
          /\ hashmap[t].error <=> hashmap[t].retries > 0
    /\ \A t \in Ids(dlq) :
          /\ dlq[t].status = "DeadLetter" /\ dlq[t].finished
          /\ dlq[t].retries = MaxRetries + 1

\* A client between pop and settlement is the only one with its task, and its copy is
\* the stored row.
CopiesHeld ==
    /\ \A c \in Clients : at[c] # "idle" =>
          /\ copy[c] \in Record /\ copy[c].id \in inflight
          /\ hashmap[copy[c].id] = copy[c]
    /\ \A c, d \in Clients :
          at[c] # "idle" /\ at[d] # "idle" /\ copy[c].id = copy[d].id => c = d

\* The call a client is in is one its place allows; what it pushes anew is in no store.
PushesNew(c) == at[c] = "idle" /\ Busy(c) /\ call[c].name = "push"

CallsFit ==
    /\ \A c \in Clients : Busy(c) =>
        \/ at[c] = "idle" /\ call[c].name \in {"push", "pop", "recover", "fmt"}
        \/ at[c] = "popped" /\ call[c].name = "set" /\ call[c].task = SetInProgress(copy[c])
        \/ /\ at[c] = "running"
           /\ \/ call[c].name = "ack"
                 /\ call[c].task = SetSucceed(copy[c])
              \/ call[c].name = "push" /\ copy[c].retries < MaxRetries
                 /\ call[c].task = SetRetry(copy[c])
              \/ call[c].name = "nack" /\ copy[c].retries = MaxRetries
                 /\ call[c].task = SetDlq(SetRetry(copy[c]))
    /\ \A c \in Clients : PushesNew(c) =>
          \E t \in Tasks : call[c].task = NewTask(t)
                           /\ t \notin Ids(hashmap) \cup Ids(dlq) \cup acked
    /\ \A c, d \in Clients :
          PushesNew(c) /\ PushesNew(d) /\ call[c].task.id = call[d].task.id => c = d

\* A recovery runs while nobody has a task or pops one.
RecoveryAlone ==
    Recovering => \A c \in Clients :
        at[c] = "idle" /\ (Busy(c) => call[c].name \in {"push", "fmt", "recover"})

MemoryInv ==
    MemoryTypeOK /\ TasksApart /\ RowsTell /\ CopiesHeld /\ CallsFit /\ RecoveryAlone


-----------------------------------------------------------------------------
(* Proofs about the test site.                                             *)

\* What a connection is at tells its path.
LEMMA PlacesDiffer ==
    /\ \A p, q : /\ Counted(p).st = "counted" /\ Counted(p).path = p
                 /\ Logged(p).st = "logged" /\ Logged(p).path = p
                 /\ (Counted(p) = Counted(q) => p = q) /\ (Logged(p) = Logged(q) => p = q)
                 /\ Counted(p) # Logged(q)
                 /\ Counted(p) \notin {Closed, Idle} /\ Logged(p) \notin {Closed, Idle}
    /\ \A log, before, back, p :
          /\ Copied(log, before, back) \notin {Counted(p), Logged(p), Closed, Idle}
          /\ Copied(log, before, back).st = "copied"
          /\ Copied(log, before, back).log = log
          /\ Copied(log, before, back).before = before
          /\ Copied(log, before, back).back = back
    /\ Closed # Idle /\ Closed.st = "closed" /\ Idle.st = "idle"
BY DEF Counted, Logged, Copied, Closed, Idle

\* A place is one of the five, and its first field says which.
LEMMA PlaceOf ==
    ASSUME NEW place \in Places
    PROVE  /\ place.st = "counted" => place = Counted(place.path) /\ place.path \in SitePaths
           /\ place.st = "logged" => place = Logged(place.path) /\ place.path \in SitePaths
           /\ place.st = "copied" =>
                 /\ place = Copied(place.log, place.before, place.back)
                 /\ place.log \in Counts /\ place.before \in Counts
                 /\ place.back \in {Closed, Idle}
BY DEF Places, Counted, Logged, Copied, Closed, Idle

\* The step of one connection moves the numbers of its two places by one.
LEMMA OneMoves ==
    ASSUME NEW c \in Conns, \A d \in Conns \ {c} : conn'[d] = conn[d],
           NEW CONSTANT st, NEW CONSTANT p
    PROVE  /\ Cardinality(AreAt(st, p)) \in Nat
           /\ IsAt(conn[c], st, p) /\ ~IsAt(conn'[c], st, p) =>
                 Cardinality(AreAt(st, p))' = Cardinality(AreAt(st, p)) - 1
           /\ ~IsAt(conn[c], st, p) /\ IsAt(conn'[c], st, p) =>
                 Cardinality(AreAt(st, p))' = Cardinality(AreAt(st, p)) + 1
           /\ (IsAt(conn[c], st, p) <=> IsAt(conn'[c], st, p)) =>
                 Cardinality(AreAt(st, p))' = Cardinality(AreAt(st, p))
<1>1. IsFiniteSet(AreAt(st, p)) /\ Cardinality(AreAt(st, p)) \in Nat
  BY SiteAssumption, FS_Subset, FS_CardinalityType DEF AreAt
<1>2. CASE IsAt(conn[c], st, p) /\ ~IsAt(conn'[c], st, p)
  <2>1. AreAt(st, p)' = AreAt(st, p) \ {c} /\ c \in AreAt(st, p)
    BY <1>2 DEF AreAt, IsAt
  <2> QED
    BY <1>1, <1>2, <2>1, FS_RemoveElement
<1>3. CASE ~IsAt(conn[c], st, p) /\ IsAt(conn'[c], st, p)
  <2>1. AreAt(st, p)' = AreAt(st, p) \cup {c} /\ c \notin AreAt(st, p)
    BY <1>3 DEF AreAt, IsAt
  <2> QED
    BY <1>1, <1>3, <2>1, FS_AddElement
<1>4. CASE IsAt(conn[c], st, p) <=> IsAt(conn'[c], st, p)
  <2>1. AreAt(st, p)' = AreAt(st, p)
    BY <1>4 DEF AreAt, IsAt
  <2> QED
    BY <1>1, <1>4, <2>1
<1> QED
  BY <1>2, <1>3, <1>4

\* A step of the site preserves its invariant.
LEMMA SiteStep == ASSUME SiteInv, [SiteNext]_siteVars PROVE SiteInv'
<1> USE DEF SiteInv
<1>0. /\ perPath \in Counts /\ requestLog \in Counts /\ answered \in Counts
      /\ conn \in [Conns -> Places]
      /\ taken \in [log : Counts, paths : Counts, before : Counts]
  BY DEF SiteTypeOK
<1>1. ASSUME UNCHANGED <<perPath, requestLog, conn, answered, taken>> PROVE SiteInv'
  BY <1>1 DEF SiteTypeOK, CountedFirst, AreAt, CopiesTrail, SnapshotConsistent
<1> DEFINE Numbers(p) ==
      /\ answered[p] + Cardinality(AreAt("logged", p)) <= requestLog[p]
      /\ requestLog[p] + Cardinality(AreAt("counted", p)) <= perPath[p]
<1>2. ASSUME NEW c \in Conns, NEW p \in SitePaths, Request(c, p) PROVE SiteInv'
  <2>1. /\ conn' = [conn EXCEPT ![c] = Counted(p)] /\ conn[c] \in {Idle, Closed}
        /\ perPath' = [perPath EXCEPT ![p] = @ + 1]
        /\ UNCHANGED <<requestLog, answered, taken>>
    BY <1>2 DEF Request
  <2>2. /\ \A d \in Conns \ {c} : conn'[d] = conn[d]
        /\ conn'[c] = Counted(p)
        /\ \A st, q : st \in {"counted", "logged"} => ~IsAt(conn[c], st, q)
    BY <1>0, <2>1, PlacesDiffer DEF IsAt
  <2>3. SiteTypeOK'
    <3>1. perPath' \in Counts
      BY <1>0, <2>1 DEF Counts
    <3>2. Counted(p) \in Places
      BY DEF Places
    <3> QED
      BY <1>0, <2>1, <3>1, <3>2 DEF SiteTypeOK
  <2>4. ASSUME NEW q \in SitePaths PROVE Numbers(q)'
    <3>1. /\ ~IsAt(conn'[c], "logged", q)
          /\ IsAt(conn'[c], "counted", q) <=> q = p
      BY <2>2, PlacesDiffer DEF IsAt
    <3>2. Cardinality(AreAt("logged", q))' = Cardinality(AreAt("logged", q))
      BY <2>2, <3>1, OneMoves
    <3>3. Cardinality(AreAt("counted", q))' =
             (IF q = p THEN Cardinality(AreAt("counted", q)) + 1
                       ELSE Cardinality(AreAt("counted", q)))
          /\ Cardinality(AreAt("counted", q)) \in Nat
      BY <2>2, <3>1, OneMoves
    <3>4. perPath'[q] = (IF q = p THEN perPath[q] + 1 ELSE perPath[q])
      BY <1>0, <2>1 DEF Counts
    <3>5. perPath[q] \in Nat /\ requestLog[q] \in Nat
      BY <1>0 DEF Counts
    <3> QED
      BY <2>1, <3>2, <3>3, <3>4, <3>5 DEF CountedFirst
  <2>5. CopiesTrail'
    BY <2>1, <2>2, PlacesDiffer DEF CopiesTrail
  <2> QED
    BY <2>1, <2>3, <2>4, <2>5 DEF CountedFirst, SnapshotConsistent
<1>3. ASSUME NEW c \in Conns, Log(c) PROVE SiteInv'
  <2> DEFINE p == conn[c].path
  <2>1. p \in SitePaths /\ conn[c] = Counted(p)
    BY <1>0, <1>3, PlaceOf DEF Log
  <2>2. /\ conn' = [conn EXCEPT ![c] = Logged(p)]
        /\ requestLog' = [requestLog EXCEPT ![p] = @ + 1]
        /\ UNCHANGED <<perPath, answered, taken>>
    BY <1>3 DEF Log
  <2>3. PICK u \in SitePaths : u = p
    BY <2>1
  <2> HIDE DEF p
  <2>4. \A d \in Conns \ {c} : conn'[d] = conn[d]
    BY <1>0, <2>2
  <2>5. conn[c] = Counted(u) /\ conn'[c] = Logged(u)
    BY <1>0, <2>1, <2>2, <2>3
  <2>6. SiteTypeOK'
    <3>1. requestLog' \in Counts
      BY <1>0, <2>1, <2>2 DEF Counts
    <3>2. Logged(p) \in Places
      BY <2>1 DEF Places
    <3> QED
      BY <1>0, <2>2, <3>1, <3>2 DEF SiteTypeOK
  <2>7. \A q \in SitePaths :
           requestLog'[q] = (IF q = u THEN requestLog[q] + 1 ELSE requestLog[q])
    BY <1>0, <2>2, <2>3 DEF Counts
  <2>8. \A q \in SitePaths : requestLog[q] \in Nat /\ perPath[q] \in Nat
                             /\ answered[q] \in Nat
    BY <1>0 DEF Counts
  <2>9. ASSUME NEW q \in SitePaths PROVE Numbers(q)'
    <3>1. /\ ~IsAt(conn[c], "logged", q) /\ ~IsAt(conn'[c], "counted", q)
          /\ IsAt(conn[c], "counted", q) <=> q = u
          /\ IsAt(conn'[c], "logged", q) <=> q = u
      BY <2>5, PlacesDiffer DEF IsAt
    <3>2. Cardinality(AreAt("logged", q))' =
             (IF q = u THEN Cardinality(AreAt("logged", q)) + 1
                       ELSE Cardinality(AreAt("logged", q)))
          /\ Cardinality(AreAt("logged", q)) \in Nat
      BY <2>4, <3>1, OneMoves
    <3>3. Cardinality(AreAt("counted", q))' =
             (IF q = u THEN Cardinality(AreAt("counted", q)) - 1
                       ELSE Cardinality(AreAt("counted", q)))
          /\ Cardinality(AreAt("counted", q)) \in Nat
      BY <2>4, <3>1, OneMoves
    <3> QED
      BY <2>2, <2>7, <2>8, <3>2, <3>3 DEF CountedFirst
  <2>10. CopiesTrail'
    <3> SUFFICES ASSUME NEW d \in Conns, conn'[d].st = "copied", NEW q \in SitePaths
                 PROVE  /\ conn'[d].before[q] <= conn'[d].log[q]
                        /\ conn'[d].log[q] <= requestLog'[q]
      BY DEF CopiesTrail
    <3>1. d # c /\ conn'[d] = conn[d]
      BY <2>4, <2>5, PlacesDiffer
    <3>2. conn[d].before[q] <= conn[d].log[q] /\ conn[d].log[q] <= requestLog[q]
      BY <3>1 DEF CopiesTrail
    <3>3. conn[d].log[q] \in Nat
      BY <1>0, <3>1, PlaceOf DEF Counts
    <3> QED
      BY <2>7, <2>8, <3>1, <3>2, <3>3
  <2> QED
    BY <2>2, <2>6, <2>9, <2>10 DEF CountedFirst, SnapshotConsistent
<1>4. ASSUME NEW c \in Conns, Answer(c) PROVE SiteInv'
  <2> DEFINE p == conn[c].path
  <2>1. p \in SitePaths /\ conn[c] = Logged(p)
    BY <1>0, <1>4, PlaceOf DEF Answer
  <2>2. /\ conn' = [conn EXCEPT ![c] = Idle]
        /\ answered' = [answered EXCEPT ![p] = @ + 1]
        /\ UNCHANGED <<perPath, requestLog, taken>>
    BY <1>4 DEF Answer
  <2>3. PICK u \in SitePaths : u = p
    BY <2>1
  <2> HIDE DEF p
  <2>4. /\ \A d \in Conns \ {c} : conn'[d] = conn[d]
        /\ conn[c] = Logged(u) /\ conn'[c] = Idle
    BY <1>0, <2>1, <2>2, <2>3
  <2>5. SiteTypeOK'
    <3>1. answered' \in Counts
      BY <1>0, <2>1, <2>2 DEF Counts
    <3>2. Idle \in Places
      BY DEF Places
    <3> QED
      BY <1>0, <2>2, <3>1, <3>2 DEF SiteTypeOK
  <2>6. \A q \in SitePaths :
           answered'[q] = (IF q = u THEN answered[q] + 1 ELSE answered[q])
    BY <1>0, <2>2, <2>3 DEF Counts
  <2>7. \A q \in SitePaths : requestLog[q] \in Nat /\ perPath[q] \in Nat
                             /\ answered[q] \in Nat
    BY <1>0 DEF Counts
  <2>8. ASSUME NEW q \in SitePaths PROVE Numbers(q)'
    <3>1. /\ ~IsAt(conn[c], "counted", q) /\ ~IsAt(conn'[c], "counted", q)
          /\ ~IsAt(conn'[c], "logged", q) /\ (IsAt(conn[c], "logged", q) <=> q = u)
      BY <2>4, PlacesDiffer DEF IsAt
    <3>2. Cardinality(AreAt("logged", q))' =
             (IF q = u THEN Cardinality(AreAt("logged", q)) - 1
                       ELSE Cardinality(AreAt("logged", q)))
          /\ Cardinality(AreAt("logged", q)) \in Nat
      BY <2>4, <3>1, OneMoves
    <3>3. Cardinality(AreAt("counted", q))' = Cardinality(AreAt("counted", q))
      BY <2>4, <3>1, OneMoves
    <3> QED
      BY <2>2, <2>6, <2>7, <3>2, <3>3 DEF CountedFirst
  <2>9. CopiesTrail'
    BY <2>2, <2>4, PlacesDiffer DEF CopiesTrail
  <2> QED
    BY <2>2, <2>5, <2>8, <2>9 DEF CountedFirst, SnapshotConsistent
<1>5. ASSUME NEW c \in Conns, \A d \in Conns \ {c} : conn'[d] = conn[d],
             conn'[c].st \notin {"counted", "logged"},
             UNCHANGED <<perPath, requestLog, answered>>
      PROVE  CountedFirst'
  <2> SUFFICES ASSUME NEW q \in SitePaths PROVE Numbers(q)'
    BY DEF CountedFirst
  <2>1. requestLog[q] \in Nat /\ perPath[q] \in Nat /\ answered[q] \in Nat
    BY <1>0 DEF Counts
  <2>2. ASSUME NEW CONSTANT st, st \in {"counted", "logged"}
        PROVE  /\ Cardinality(AreAt(st, q)) \in Nat /\ Cardinality(AreAt(st, q))' \in Int
               /\ Cardinality(AreAt(st, q))' <= Cardinality(AreAt(st, q))
    <3>1. ~IsAt(conn'[c], st, q)
      BY <1>5, <2>2 DEF IsAt
    <3> QED
      BY <1>5, <3>1, OneMoves
  <2>3. /\ Cardinality(AreAt("logged", q)) \in Nat
        /\ Cardinality(AreAt("logged", q))' \in Int
        /\ Cardinality(AreAt("logged", q))' <= Cardinality(AreAt("logged", q))
    BY <2>2
  <2>4. /\ Cardinality(AreAt("counted", q)) \in Nat
        /\ Cardinality(AreAt("counted", q))' \in Int
        /\ Cardinality(AreAt("counted", q))' <= Cardinality(AreAt("counted", q))
    BY <2>2
  <2> QED
    BY <1>5, <2>1, <2>3, <2>4 DEF CountedFirst
<1>6. ASSUME NEW c \in Conns, CopyLog(c) PROVE SiteInv'
  <2> DEFINE back == IF conn[c] = Closed THEN Closed ELSE Idle
             here == Copied(requestLog, answered, back)
  <2>1. /\ conn' = [conn EXCEPT ![c] = here]
        /\ UNCHANGED <<perPath, requestLog, answered, taken>>
    BY <1>6 DEF CopyLog
  <2>2. here \in Places
    BY <1>0 DEF Places
  <2> HIDE DEF here, back
  <2>3. conn'[c] = here /\ \A d \in Conns \ {c} : conn'[d] = conn[d]
    BY <1>0, <2>1
  <2>4. here.st = "copied" /\ here.log = requestLog /\ here.before = answered
    BY PlacesDiffer DEF here
  <2>5. \A q \in SitePaths : answered[q] <= requestLog[q] /\ requestLog[q] \in Nat
    <3> SUFFICES ASSUME NEW q \in SitePaths
                 PROVE  answered[q] <= requestLog[q] /\ requestLog[q] \in Nat
      OBVIOUS
    <3>1. Cardinality(AreAt("logged", q)) \in Nat
      BY SiteAssumption, FS_Subset, FS_CardinalityType DEF AreAt
    <3> QED
      BY <1>0, <3>1 DEF CountedFirst, Counts
  <2>6. CopiesTrail'
    BY <2>1, <2>3, <2>4, <2>5 DEF CopiesTrail
  <2>7. CountedFirst'
    BY <1>5, <2>1, <2>3, <2>4
  <2> QED
    BY <1>0, <2>1, <2>2, <2>6, <2>7 DEF SiteTypeOK, SnapshotConsistent
<1>7. ASSUME NEW c \in Conns, CopyPaths(c) PROVE SiteInv'
  <2>1. /\ conn' = [conn EXCEPT ![c] = conn[c].back]
        /\ taken' = [log |-> conn[c].log, paths |-> perPath, before |-> conn[c].before]
        /\ UNCHANGED <<perPath, requestLog, answered>> /\ conn[c].st = "copied"
    BY <1>7 DEF CopyPaths
  <2>2. /\ conn[c].back \in {Closed, Idle}
        /\ conn[c].log \in Counts /\ conn[c].before \in Counts
    BY <1>0, <2>1, PlaceOf
  <2>3. conn'[c] \in {Closed, Idle} /\ \A d \in Conns \ {c} : conn'[d] = conn[d]
    BY <1>0, <2>1, <2>2
  <2>4. SiteTypeOK'
    BY <1>0, <2>1, <2>2 DEF SiteTypeOK, Places
  <2>5. CopiesTrail'
    BY <2>1, <2>3, PlacesDiffer DEF CopiesTrail
  <2>6. CountedFirst'
    BY <1>5, <2>1, <2>3, PlacesDiffer
  <2>7. SnapshotConsistent'
    <3> SUFFICES ASSUME NEW q \in SitePaths
                 PROVE  conn[c].before[q] <= conn[c].log[q] /\ conn[c].log[q] <= perPath[q]
      BY <2>1 DEF SnapshotConsistent
    <3>1. conn[c].before[q] <= conn[c].log[q] /\ conn[c].log[q] <= requestLog[q]
      BY <2>1 DEF CopiesTrail
    <3>2. Cardinality(AreAt("counted", q)) \in Nat
      BY SiteAssumption, FS_Subset, FS_CardinalityType DEF AreAt
    <3>3. conn[c].log[q] \in Nat /\ requestLog[q] \in Nat /\ perPath[q] \in Nat
      BY <1>0, <2>2 DEF Counts
    <3> QED
      BY <3>1, <3>2, <3>3 DEF CountedFirst
  <2> QED
    BY <2>4, <2>5, <2>6, <2>7
<1>8. ASSUME NEW c \in Conns, Disconnect(c) PROVE SiteInv'
  <2>1. /\ conn' = [conn EXCEPT ![c] = Closed]
        /\ UNCHANGED <<perPath, requestLog, answered, taken>>
    BY <1>8 DEF Disconnect
  <2>2. conn'[c] = Closed /\ \A d \in Conns \ {c} : conn'[d] = conn[d]
    BY <1>0, <2>1
  <2>3. SiteTypeOK'
    BY <1>0, <2>1 DEF SiteTypeOK, Places
  <2>4. CopiesTrail' /\ CountedFirst'
    BY <1>5, <2>1, <2>2, PlacesDiffer DEF CopiesTrail
  <2> QED
    BY <2>1, <2>3, <2>4 DEF SnapshotConsistent
<1> QED
  BY <1>1, <1>2, <1>3, <1>4, <1>6, <1>7, <1>8 DEF SiteNext, Shutdown, siteVars

\* A snapshot of the statistics, however it is torn, counts every request it has
\* logged and every one that was answered before it began.
THEOREM SnapshotsConsistent == PartsSpec => []SnapshotConsistent
<1>1. PartsInit => SiteInv
  <2> SUFFICES ASSUME SiteInit PROVE SiteInv
    BY DEF PartsInit
  <2>1. \A st, p : st \in {"counted", "logged"} => AreAt(st, p) = {}
    BY PlacesDiffer DEF SiteInit, AreAt, IsAt
  <2>2. NoRequests \in Counts /\ \A p \in SitePaths : NoRequests[p] = 0
    BY DEF NoRequests, Counts
  <2>3. SiteTypeOK
    BY <2>2 DEF SiteInit, SiteTypeOK, Places
  <2>4. CountedFirst
    BY <2>1, <2>2, FS_EmptySet DEF SiteInit, CountedFirst
  <2>5. CopiesTrail /\ SnapshotConsistent
    BY <2>2, PlacesDiffer DEF SiteInit, CopiesTrail, SnapshotConsistent
  <2> QED
    BY <2>3, <2>4, <2>5 DEF SiteInv
<1>2. SiteInv /\ [PartsNext]_partVars => SiteInv'
  BY SiteStep DEF PartsNext, partVars, siteVars
<1>3. SiteInv => SnapshotConsistent
  BY DEF SiteInv
<1> QED
  BY <1>1, <1>2, <1>3, PTL DEF PartsSpec


-----------------------------------------------------------------------------
(* Proofs about the fetches of a client.                                   *)

\* A step of the client preserves the invariant of its fetch.
LEMMA FetchStep == ASSUME FetchInv, [ProxyNext]_proxyVars PROVE FetchInv'
<1> USE ProxyAssumption DEF FetchInv, FetchEndsInTime
<1> DEFINE timeout == Field(Http, "timeout").value
<1>1. CASE UNCHANGED <<config, client, fetch>>
  BY <1>1 DEF HasTimeouts, Http
<1>2. CASE LoadConfig
  BY <1>2 DEF LoadConfig
<1>3. CASE BuildClient
  <2>1. fetch = NoFetch /\ fetch' = NoFetch /\ UNCHANGED config /\ config.kind # "missing"
    BY <1>3 DEF BuildClient
  <2>2. client' \notin {NoClient, Panicked} => HasTimeouts
    BY <1>3 DEF BuildClient
  <2> QED
    BY <2>1, <2>2 DEF HasTimeouts, Http
<1>4. CASE StartFetch
  <2>1. PICK limit \in Limits : fetch' = [st |-> "trying", at |-> 0, limit |-> limit]
    BY <1>4 DEF StartFetch
  <2>2. UNCHANGED <<config, client>> /\ client \notin {NoClient, Panicked}
    BY <1>4 DEF StartFetch
  <2>3. timeout \in Nat
    BY <2>2 DEF HasTimeouts, IsSeconds
  <2>4. HasTimeouts' /\ timeout' = timeout
    BY <2>2 DEF HasTimeouts, Http
  <2> QED
    BY <2>1, <2>2, <2>3, <2>4
<1>5. CASE FetchAnswered \/ FetchFails
  <2>1. /\ UNCHANGED <<config, client>> /\ fetch.st = "trying" /\ fetch # NoFetch
    <3>1. UNCHANGED <<config, client>> /\ fetch.st = "trying"
      BY <1>5 DEF FetchAnswered, FetchFails
    <3> QED
      BY <3>1 DEF NoFetch
  <2>2. /\ client \notin {NoClient, Panicked} /\ fetch.at \in Nat /\ fetch.limit \in Nat
        /\ fetch = [st |-> fetch.st, at |-> fetch.at, limit |-> fetch.limit]
        /\ fetch.at <= fetch.limit
    BY <2>1
  <2>3. timeout \in Nat
    BY <2>2 DEF HasTimeouts, IsSeconds
  <2>4. HasTimeouts' /\ timeout' = timeout /\ AttemptTime = 0 .. timeout
    BY <2>1, <2>2 DEF HasTimeouts, Http, AttemptTime
  <2> HIDE DEF timeout
  <2>5. CASE FetchAnswered
    <3>1. PICK d \in 0 .. timeout :
             fetch' = [fetch EXCEPT !.st = "answered", !.at = fetch.at + d]
      BY <2>4, <2>5 DEF FetchAnswered
    <3>2. fetch' = [st |-> "answered", at |-> fetch.at + d, limit |-> fetch.limit]
      BY <2>2, <3>1
    <3>3. fetch.at + d \in Nat /\ fetch.at + d <= fetch.limit + timeout
      BY <2>2, <2>3
    <3> QED
      BY <2>1, <2>2, <2>4, <3>2, <3>3 DEF timeout, NoFetch
  <2>6. CASE FetchFails
    <3>0. MaxPause \in Nat
      BY ProxyAssumption DEF MaxPause
    <3>1. PICK d \in 0 .. timeout, pause \in 1 .. MaxPause :
             fetch' = IF fetch.at + d + pause <= fetch.limit
                      THEN [fetch EXCEPT !.at = fetch.at + d + pause]
                      ELSE [fetch EXCEPT !.at = fetch.at + d, !.st = "failed"]
      BY <2>4, <2>6 DEF FetchFails
    <3>2. CASE fetch.at + d + pause <= fetch.limit
      <4>1. fetch' = [st |-> "trying", at |-> fetch.at + d + pause,
                      limit |-> fetch.limit]
        BY <2>1, <2>2, <3>1, <3>2
      <4>2. fetch.at + d + pause \in Nat /\ fetch.limit <= fetch.limit + timeout
        BY <2>2, <2>3
      <4>3. fetch.at + d + pause <= fetch.limit + timeout
        BY <2>2, <2>3, <3>2, <4>2
      <4> QED
        BY <2>1, <2>2, <2>4, <3>2, <4>1, <4>2, <4>3 DEF timeout, NoFetch
    <3>3. CASE fetch.at + d + pause > fetch.limit
      <4>1. fetch' = [st |-> "failed", at |-> fetch.at + d, limit |-> fetch.limit]
        <5>1. ~(fetch.at + d + pause <= fetch.limit)
          BY <2>2, <2>3, <3>3
        <5>2. fetch' = [fetch EXCEPT !.at = fetch.at + d, !.st = "failed"]
          BY <3>1, <5>1
        <5> QED
          BY <2>2, <5>2
      <4>2. fetch.at + d \in Nat /\ fetch.at + d <= fetch.limit + timeout
            /\ fetch.at + d + MaxPause > fetch.limit
        BY <2>2, <2>3, <3>0, <3>3
      <4> QED
        BY <2>1, <2>2, <2>4, <4>1, <4>2 DEF timeout, NoFetch
    <3> QED
      BY <2>2, <2>3, <3>2, <3>3
  <2> QED
    BY <1>5, <2>5, <2>6
<1> QED
  BY <1>1, <1>2, <1>3, <1>4, <1>5 DEF ProxyNext, GetProxy, proxyVars

\* Whatever its attempts meet, a fetch ends at most one timeout after its limit, and it
\* gives up no earlier than the longest pause before.
THEOREM FetchesEnd == PartsSpec => []FetchEndsInTime
<1>1. PartsInit => FetchInv
  BY DEF PartsInit, ProxyInit, FetchInv, FetchEndsInTime
<1>2. FetchInv /\ [PartsNext]_partVars => FetchInv'
  BY FetchStep DEF PartsNext, partVars, proxyVars
<1>3. FetchInv => FetchEndsInTime
  BY DEF FetchInv
<1> QED
  BY <1>1, <1>2, <1>3, PTL DEF PartsSpec

-----------------------------------------------------------------------------
(* The proxies of a client.  What a configuration names is expanded to a   *)
(* sequence; an address occurs in it as often as it is named, and what was *)
(* handed out is whole rounds of that sequence and a beginning of it.      *)

NatLess == {p \in Nat \X Nat : p[1] < p[2]}

\* A set of numbers has a least one: this stands in for induction, since the
\* library's induction theorems take an operator.
LEMMA LeastNumber ==
    ASSUME NEW ns \in SUBSET Nat, ns # {}
    PROVE  \E n \in ns : \A m \in ns : n <= m
<1>1. IsWellFoundedOn(OpToRel(<, Nat), Nat)
  BY NatLessThanWellFounded
<1>2. IsWellFoundedOn(NatLess, Nat)
  BY <1>1 DEF NatLess, OpToRel
<1>3. PICK n \in ns : \A m \in ns : ~(<<m, n>> \in NatLess)
  BY <1>2, WFMin
<1>4. \A a, b \in Nat : a < b => <<a, b>> \in NatLess
  BY DEF NatLess
<1>5. ASSUME NEW m \in ns PROVE n <= m
  <2>1. ~(m < n)
    BY <1>3, <1>4
  <2> QED
    BY <2>1
<1> QED
  BY <1>5

\* What holds at 0 and goes on from each number to the next holds at n.
LEMMA CountsUp ==
    ASSUME NEW n \in Nat, NEW good \in SUBSET (0 .. n), 0 \in good,
           \A k \in 0 .. n - 1 : k \in good => k + 1 \in good
    PROVE  n \in good
<1> DEFINE bad == (0 .. n) \ good
<1>1. SUFFICES ASSUME n \notin good PROVE FALSE
  OBVIOUS
<1>2. PICK k \in bad : \A j \in bad : k <= j
  <2>1. bad \in SUBSET Nat /\ bad # {}
    BY <1>1
  <2> HIDE DEF bad
  <2> QED
    BY <2>1, LeastNumber
<1>3. k - 1 \in 0 .. n - 1 /\ k - 1 \notin bad /\ (k - 1) + 1 = k
  BY <1>2
<1> QED
  BY <1>3

-----------------------------------------------------------------------------
(* Occurrences in a sequence.                                              *)

Occurrences(s, a) == {i \in DOMAIN s : s[i] = a}
Occurs(s, a)      == Cardinality(Occurrences(s, a))

\* They are counted by a number, which is zero of what does not occur.
LEMMA OccursTypes ==
    ASSUME NEW S, NEW s \in Seq(S), NEW a
    PROVE  /\ IsFiniteSet(Occurrences(s, a)) /\ Occurs(s, a) \in Nat
           /\ Occurs(s, a) = 0 <=> a \notin ToSet(s)
<1>1. DOMAIN s = 1 .. Len(s) /\ Len(s) \in Nat
  BY LenProperties
<1>2. IsFiniteSet(1 .. Len(s))
  BY <1>1, FS_Interval
<1>3. IsFiniteSet(Occurrences(s, a))
  BY <1>1, <1>2, FS_Subset DEF Occurrences
<1>4. Occurs(s, a) \in Nat /\ (Occurs(s, a) = 0 <=> Occurrences(s, a) = {})
  BY <1>3, FS_CardinalityType, FS_EmptySet DEF Occurs
<1> QED
  BY <1>3, <1>4 DEF Occurrences, ToSet

\* Those in a concatenation are those in its parts.
LEMMA OccursInBoth ==
    ASSUME NEW S, NEW s \in Seq(S), NEW t \in Seq(S), NEW a
    PROVE  s \o t \in Seq(S) /\ Occurs(s \o t, a) = Occurs(s, a) + Occurs(t, a)
<1> DEFINE m == Len(s)
           n == Len(t)
           A == Occurrences(s, a)
           B == Occurrences(t, a)
           C == {i + m : i \in B}
           f == [i \in B |-> i + m]
<1>1. /\ s \o t \in Seq(S) /\ m \in Nat /\ n \in Nat
      /\ DOMAIN s = 1 .. m /\ DOMAIN t = 1 .. n /\ DOMAIN (s \o t) = 1 .. m + n
      /\ \A i \in 1 .. m + n : (s \o t)[i] = IF i <= m THEN s[i] ELSE t[i - m]
  <2>1. s \o t \in Seq(S) /\ Len(s \o t) = m + n /\ m \in Nat /\ n \in Nat
    BY ConcatProperties, LenProperties
  <2>2. DOMAIN s = 1 .. m /\ DOMAIN t = 1 .. n /\ DOMAIN (s \o t) = 1 .. m + n
    BY <2>1, LenProperties
  <2>3. \A i \in 1 .. m + n : (s \o t)[i] = IF i <= m THEN s[i] ELSE t[i - m]
    BY <2>1, ConcatProperties
  <2> QED
    BY <2>1, <2>2, <2>3
<1>2. IsFiniteSet(A) /\ IsFiniteSet(B)
  BY OccursTypes
<1>3. A \subseteq 1 .. m /\ B \subseteq 1 .. n
  BY <1>1 DEF Occurrences
<1>4. Occurrences(s \o t, a) = A \cup C
  <2>1. ASSUME NEW i \in Occurrences(s \o t, a) PROVE i \in A \cup C
    <3>1. i \in 1 .. m + n /\ (s \o t)[i] = a
      BY <1>1 DEF Occurrences
    <3>2. CASE i <= m
      BY <1>1, <3>1, <3>2 DEF Occurrences
    <3>3. CASE ~(i <= m)
      <4>1. i - m \in B /\ i = (i - m) + m
        BY <1>1, <3>1, <3>3 DEF Occurrences
      <4> QED
        BY <4>1
    <3> QED
      BY <3>2, <3>3
  <2>2. ASSUME NEW i \in A PROVE i \in Occurrences(s \o t, a)
    BY <1>1 DEF Occurrences
  <2>3. ASSUME NEW i \in B PROVE i + m \in Occurrences(s \o t, a)
    BY <1>1 DEF Occurrences
  <2> QED
    BY <2>1, <2>2, <2>3
<1> HIDE DEF A, B
<1>5. A \cap C = {}
  BY <1>1, <1>3
<1>6. f \in Bijection(B, C)
  <2>1. f \in Injection(B, C)
    BY <1>1, <1>3 DEF Injection, IsInjective
  <2>2. f \in Surjection(B, C)
    BY DEF Surjection
  <2> QED
    BY <2>1, <2>2 DEF Bijection
<1>7. IsFiniteSet(C) /\ Cardinality(C) = Cardinality(B)
  BY <1>2, <1>6, FS_Bijection DEF ExistsBijection
<1>8. Cardinality(A \cup C) = Cardinality(A) + Cardinality(C)
  <2> HIDE DEF C
  <2>1. Cardinality(A \cap C) = 0
    BY <1>5, FS_EmptySet
  <2>2. Cardinality(A \cup C) = Cardinality(A) + Cardinality(C) - Cardinality(A \cap C)
    BY <1>2, <1>7, FS_Union
  <2>3. Cardinality(A) \in Nat /\ Cardinality(C) \in Nat
    BY <1>2, <1>7, FS_CardinalityType
  <2> QED
    BY <2>1, <2>2, <2>3
<1> QED
  BY <1>1, <1>4, <1>7, <1>8 DEF Occurs, A, B

\* One occurrence of one thing, and none in nothing.
LEMMA OccursAlone ==
    ASSUME NEW S, NEW e \in S, NEW a
    PROVE  /\ <<e>> \in Seq(S) /\ Occurs(<<e>>, a) = IF a = e THEN 1 ELSE 0
           /\ <<>> \in Seq(S) /\ Occurs(<<>>, a) = 0
<1>1. <<e>> \in Seq(S) /\ DOMAIN <<e>> = {1} /\ <<e>>[1] = e
  OBVIOUS
<1>2. <<>> \in Seq(S) /\ DOMAIN <<>> = {}
  BY EmptySeq
<1>3. Occurrences(<<e>>, a) = IF a = e THEN {1} ELSE {}
  BY <1>1 DEF Occurrences
<1>4. Occurrences(<<>>, a) = {}
  BY <1>2 DEF Occurrences
<1>5. Cardinality({1}) = 1 /\ Cardinality({}) = 0
  BY FS_Singleton, FS_EmptySet
<1> QED
  BY <1>1, <1>2, <1>3, <1>4, <1>5 DEF Occurs

-----------------------------------------------------------------------------
(* Flattening.                                                             *)

\* What FlattenSeq calls flatten, for the first n of the sequences.
IsFlattening(f, n, seqs) ==
    f = [i \in 1 .. n |-> IF i = 1 THEN seqs[i] ELSE f[i - 1] \o seqs[i]]

\* There is one, ...
LEMMA FlatteningExists ==
    ASSUME NEW n \in Nat, NEW seqs
    PROVE  \E f : IsFlattening(f, n, seqs)
<1> DEFINE Bad == {m \in Nat : ~\E f : IsFlattening(f, m, seqs)}
<1> SUFFICES ASSUME Bad # {} PROVE FALSE
  OBVIOUS
<1>1. PICK m \in Bad : \A k \in Bad : m <= k
  BY LeastNumber
<1>2. m \in Nat /\ ~\E f : IsFlattening(f, m, seqs)
  OBVIOUS
<1>3. CASE m = 0
  <2> DEFINE g == [i \in 1 .. 0 |-> IF i = 1 THEN seqs[i] ELSE <<>> \o seqs[i]]
  <2>1. IsFlattening(g, 0, seqs)
    BY DEF IsFlattening
  <2> QED
    BY <1>2, <1>3, <2>1
<1>4. CASE m # 0
  <2>1. m - 1 \in Nat /\ ~(m <= m - 1)
    BY <1>2, <1>4
  <2>2. m - 1 \notin Bad
    BY <1>1, <2>1
  <2>3. PICK f : IsFlattening(f, m - 1, seqs)
    BY <2>1, <2>2
  <2> DEFINE g == [i \in 1 .. m |-> IF i = m THEN (IF i = 1 THEN seqs[i]
                                                   ELSE f[i - 1] \o seqs[i])
                                    ELSE f[i]]
  <2>4. \A i \in 1 .. m - 1 : f[i] = IF i = 1 THEN seqs[i] ELSE f[i - 1] \o seqs[i]
    BY <2>3 DEF IsFlattening
  <2>5. \A i \in 1 .. m : i # 1 => i - 1 \in 1 .. m /\ g[i - 1] = f[i - 1]
    BY <1>2
  <2>6. \A i \in 1 .. m : g[i] = IF i = 1 THEN seqs[i] ELSE g[i - 1] \o seqs[i]
    <3> SUFFICES ASSUME NEW i \in 1 .. m
                 PROVE  g[i] = IF i = 1 THEN seqs[i] ELSE g[i - 1] \o seqs[i]
      OBVIOUS
    <3>1. CASE i = m
      BY <2>5, <3>1
    <3>2. CASE i # m
      <4>1. i \in 1 .. m - 1
        BY <1>2, <3>2
      <4>2. g[i] = f[i]
        BY <3>2
      <4> QED
        BY <2>4, <2>5, <4>1, <4>2
    <3> QED
      BY <3>1, <3>2
  <2>7. IsFlattening(g, m, seqs)
    <3> DEFINE h == [i \in 1 .. m |-> IF i = 1 THEN seqs[i] ELSE g[i - 1] \o seqs[i]]
    <3>1. DOMAIN g = 1 .. m /\ DOMAIN h = 1 .. m
      OBVIOUS
    <3>2. \A i \in 1 .. m : g[i] = h[i]
      BY <2>6
    <3>3. g = h
      <4>1. g = [i \in 1 .. m |-> g[i]] /\ h = [i \in 1 .. m |-> h[i]]
        OBVIOUS
      <4> HIDE DEF g, h
      <4> QED
        BY <3>2, <4>1
    <3> QED
      BY <3>3 DEF IsFlattening
  <2> QED
    BY <1>2, <2>7
<1> QED
  BY <1>3, <1>4

\* ... and FlattenSeq takes it to the end.
LEMMA FlattenSeqIs ==
    ASSUME NEW S, NEW seqs \in Seq(S)
    PROVE  \/ Len(seqs) = 0 /\ FlattenSeq(seqs) = seqs
           \/ \E f : IsFlattening(f, Len(seqs), seqs) /\ FlattenSeq(seqs) = f[Len(seqs)]
<1>1. Len(seqs) \in Nat
  BY LenProperties
<1>2. CASE Len(seqs) = 0
  BY <1>2 DEF FlattenSeq
<1>3. CASE Len(seqs) # 0
  <2> DEFINE f == CHOOSE f : f = [i \in 1 .. Len(seqs) |->
                                    IF i = 1 THEN seqs[i] ELSE f[i - 1] \o seqs[i]]
  <2>1. IsFlattening(f, Len(seqs), seqs)
    BY <1>1, FlatteningExists DEF IsFlattening
  <2>2. FlattenSeq(seqs) = f[Len(seqs)]
    BY <1>3 DEF FlattenSeq
  <2> QED
    BY <2>1, <2>2
<1> QED
  BY <1>2, <1>3

\* The first k of the sets that a is in.
InFirst(names, k, a) == {i \in 1 .. k : a \in names[i]}

LEMMA OneMoreName ==
    ASSUME NEW names, NEW a, NEW k \in Nat
    PROVE  /\ Cardinality(InFirst(names, 0, a)) = 0
           /\ Cardinality(InFirst(names, k, a)) \in Nat
           /\ Cardinality(InFirst(names, k + 1, a))
                = Cardinality(InFirst(names, k, a)) + IF a \in names[k + 1] THEN 1 ELSE 0
<1> DEFINE A == InFirst(names, k, a)
           B == InFirst(names, k + 1, a)
<1>1. InFirst(names, 0, a) = {}
  BY DEF InFirst
<1>2. A \subseteq 1 .. k /\ k + 1 \notin A
  BY DEF InFirst
<1>3. IsFiniteSet(A) /\ Cardinality(A) \in Nat
  <2> HIDE DEF A
  <2>1. IsFiniteSet(1 .. k)
    BY FS_Interval
  <2>2. IsFiniteSet(A)
    BY <1>2, <2>1, FS_Subset
  <2> QED
    BY <2>2, FS_CardinalityType
<1>4. B = IF a \in names[k + 1] THEN A \cup {k + 1} ELSE A
  BY DEF InFirst
<1> HIDE DEF A, B
<1>5. Cardinality(A \cup {k + 1}) = Cardinality(A) + 1
  BY <1>2, <1>3, FS_AddElement
<1>6. Cardinality(B) = Cardinality(A) + IF a \in names[k + 1] THEN 1 ELSE 0
  BY <1>3, <1>4, <1>5
<1> QED
  BY <1>1, <1>3, <1>6, FS_EmptySet DEF A, B

\* Each of the first n sequences holds what it is to hold, once.
EachOnce(seqs, n, names) ==
    \A i \in 1 .. n : \A a : Occurs(seqs[i], a) = IF a \in names[i] THEN 1 ELSE 0

\* In the flattening of sequences that hold each of their elements once, a thing occurs
\* as often as there are sequences that it is in.
LEMMA Flattened ==
    ASSUME NEW S, NEW n \in Nat, NEW seqs \in [1 .. n -> Seq(S)], NEW names,
           EachOnce(seqs, n, names)
    PROVE  /\ FlattenSeq(seqs) \in Seq(S)
           /\ \A a : Occurs(FlattenSeq(seqs), a) = Cardinality(InFirst(names, n, a))
<1>0. \A i \in 1 .. n : \A a : Occurs(seqs[i], a) = IF a \in names[i] THEN 1 ELSE 0
  BY DEF EachOnce
<1>1. seqs \in Seq(Seq(S)) /\ Len(seqs) = n
  OBVIOUS
<1>2. CASE n = 0
  <2>1. FlattenSeq(seqs) = <<>> /\ seqs = <<>>
    BY <1>1, <1>2, EmptySeq DEF FlattenSeq
  <2>2. \A a : Occurs(<<>>, a) = 0
    <3>1. ASSUME NEW a PROVE Occurrences(<<>>, a) = {}
      BY EmptySeq DEF Occurrences
    <3> QED
      BY <3>1, FS_EmptySet DEF Occurs
  <2> QED
    BY <1>2, <2>1, <2>2, OneMoreName, EmptySeq
<1>3. CASE n # 0
  <2>1. PICK f : IsFlattening(f, n, seqs) /\ FlattenSeq(seqs) = f[n]
    BY <1>1, <1>3, FlattenSeqIs
  <2> DEFINE Good(k) == /\ f[k] \in Seq(S)
                        /\ \A a : Occurs(f[k], a) = Cardinality(InFirst(names, k, a))
             Bad == {k \in 1 .. n : ~Good(k)}
  <2>2. \A k \in 1 .. n : f[k] = IF k = 1 THEN seqs[k] ELSE f[k - 1] \o seqs[k]
    BY <2>1 DEF IsFlattening
  <2>3. Good(1)
    <3>1. f[1] = seqs[1] /\ 1 \in 1 .. n
      BY <1>3, <2>2
    <3>2. \A a : Occurs(f[1], a) = IF a \in names[1] THEN 1 ELSE 0
      BY <1>0, <3>1
    <3>3. ASSUME NEW a
          PROVE  Cardinality(InFirst(names, 1, a)) = IF a \in names[1] THEN 1 ELSE 0
      <4>1. /\ Cardinality(InFirst(names, 0, a)) = 0
            /\ Cardinality(InFirst(names, 0 + 1, a))
                = Cardinality(InFirst(names, 0, a)) + IF a \in names[0 + 1] THEN 1 ELSE 0
        BY OneMoreName
      <4>2. 0 + 1 = 1
        OBVIOUS
      <4> QED
        BY <4>1, <4>2
    <3> QED
      BY <3>1, <3>2, <3>3
  <2>4. ASSUME NEW k \in 2 .. n, Good(k - 1) PROVE Good(k)
    <3>0. k \in 1 .. n /\ k # 1
      OBVIOUS
    <3>1. f[k] = f[k - 1] \o seqs[k] /\ seqs[k] \in Seq(S) /\ f[k - 1] \in Seq(S)
      <4>1. f[k] = f[k - 1] \o seqs[k]
        BY <2>2, <3>0
      <4>2. seqs[k] \in Seq(S)
        BY <3>0
      <4>3. f[k - 1] \in Seq(S)
        BY <2>4
      <4> QED
        BY <4>1, <4>2, <4>3
    <3>2. ASSUME NEW a PROVE Occurs(f[k], a) = Cardinality(InFirst(names, k, a))
      <4>1. Occurs(f[k], a) = Occurs(f[k - 1], a) + Occurs(seqs[k], a)
        BY <3>1, OccursInBoth
      <4>2. Occurs(seqs[k], a) = IF a \in names[k] THEN 1 ELSE 0
        BY <1>0, <3>0
      <4>3. Occurs(f[k - 1], a) = Cardinality(InFirst(names, k - 1, a))
        BY <2>4
      <4>4. Cardinality(InFirst(names, k, a))
              = Cardinality(InFirst(names, k - 1, a)) + IF a \in names[k] THEN 1 ELSE 0
        <5>1. PICK j \in Nat : j = k - 1 /\ j + 1 = k
          OBVIOUS
        <5>2. Cardinality(InFirst(names, j + 1, a))
                = Cardinality(InFirst(names, j, a)) + IF a \in names[j + 1] THEN 1 ELSE 0
          BY OneMoreName
        <5> QED
          BY <5>1, <5>2
      <4> QED
        BY <4>1, <4>2, <4>3, <4>4
    <3>3. f[k] \in Seq(S)
      BY <3>1, OccursInBoth
    <3> QED
      BY <3>2, <3>3
  <2>5. Bad = {}
    <3> SUFFICES ASSUME Bad # {} PROVE FALSE
      OBVIOUS
    <3> HIDE DEF Good
    <3>1. Bad \subseteq Nat
      OBVIOUS
    <3>2. PICK k \in Bad : \A j \in Bad : k <= j
      BY <3>1, LeastNumber
    <3>3. k \in 1 .. n /\ ~Good(k)
      OBVIOUS
    <3>4. k # 1
      BY <2>3, <3>3
    <3>5. k \in 2 .. n /\ k - 1 \in 1 .. n /\ ~(k <= k - 1)
      BY <3>3, <3>4
    <3>6. Good(k - 1)
      BY <3>2, <3>5
    <3> QED
      BY <2>4, <3>3, <3>5, <3>6
  <2>6. Good(n)
    <3> HIDE DEF Good
    <3>1. n \in 1 .. n
      BY <1>3
    <3> QED
      BY <2>5, <3>1
  <2> QED
    BY <2>1, <2>6
<1> QED
  BY <1>2, <1>3

-----------------------------------------------------------------------------
(* The proxies of a configuration.                                         *)

\* A URI is one with one port or two.
UriTyped(v) ==
    v.kind = "string" => v.value.ports \in Seq(Nat) /\ Len(v.value.ports) \in {1, 2}

\* Two ports of a host are two addresses, and no address is the lack of a proxy.
LEMMA AddressesDiffer ==
    /\ \A h, p, q : At(h, p) = At(h, q) => p = q
    /\ \A h, p : At(h, p) # Direct
<1>1. \A p, q : <<p>> = <<q>> => p = q
  OBVIOUS
<1>2. \A p : <<p>> # <<>>
  OBVIOUS
<1>3. \A h, p : At(h, p).ports = <<p>>
  BY DEF At
<1>4. Direct.ports = <<>>
  BY DEF Direct
<1> QED
  BY <1>1, <1>2, <1>3, <1>4

\* A value is expanded into what it names, each address once.
LEMMA ExpandedOnce ==
    ASSUME NEW v, UriTyped(v), NEW S, Named(v) \subseteq S
    PROVE  /\ ExpandValue(v) \in Seq(S)
           /\ \A a : Occurs(ExpandValue(v), a) = IF a \in Named(v) THEN 1 ELSE 0
           /\ Direct \notin Named(v)
<1> DEFINE uri   == v.value
           ports == {p \in 0 .. MaxPort : Len(uri.ports) = 2 /\ uri.ports[2] <= MaxPort
                                           /\ uri.ports[1] <= p /\ p <= uri.ports[2]}
<1>1. CASE v.kind # "string"
  <2>1. ExpandValue(v) = <<>> /\ Named(v) = {}
    BY <1>1 DEF ExpandValue, Named
  <2>2. <<>> \in Seq(S) /\ \A a : Occurs(<<>>, a) = 0
    <3>1. ASSUME NEW a PROVE Occurrences(<<>>, a) = {}
      BY EmptySeq DEF Occurrences
    <3> QED
      BY <3>1, EmptySeq, FS_EmptySet DEF Occurs
  <2> QED
    BY <2>1, <2>2
<1>2. CASE v.kind = "string"
  <2>0. /\ ExpandValue(v) = Expand(uri)
        /\ Named(v) = IF ports = {} THEN {uri} ELSE {At(uri.host, p) : p \in ports}
        /\ uri.ports \in Seq(Nat) /\ Len(uri.ports) \in {1, 2} /\ MaxPort \in Nat
    BY <1>2, ProxyAssumption DEF ExpandValue, Named, UriTyped
  <2>1. CASE Len(uri.ports) = 2 /\ uri.ports[1] <= uri.ports[2] /\ uri.ports[2] <= MaxPort
    <3> DEFINE first == uri.ports[1]
               last  == uri.ports[2]
               n     == last - first + 1
               h     == uri.host
    <3>1. first \in Nat /\ last \in Nat /\ first <= last /\ last <= MaxPort
      BY <2>0, <2>1
    <3>2. Expand(uri) = [i \in 1 .. n |-> At(h, first + i - 1)]
      BY <2>1 DEF Expand
    <3>3. ports = first .. last
      BY <2>0, <2>1, <3>1
    <3> HIDE DEF first, last, ports, uri, h
    <3>4. Named(v) = {At(h, p) : p \in first .. last}
      <4>1. first \in ports
        BY <3>1, <3>3
      <4> QED
        BY <2>0, <3>3, <4>1 DEF h
    <3>5. \A i \in 1 .. n : first + i - 1 \in first .. last
      BY <3>1
    <3>6. Expand(uri) \in Seq(S)
      <4>1. \A i \in 1 .. n : At(h, first + i - 1) \in S
        BY <3>4, <3>5
      <4>2. n \in Nat
        BY <3>1
      <4> QED
        BY <3>2, <4>1, <4>2
    <3>7. ASSUME NEW p \in first .. last PROVE Occurs(Expand(uri), At(h, p)) = 1
      <4> DEFINE s == [i \in 1 .. n |-> At(h, first + i - 1)]
      <4>1. \A i \in 1 .. n : s[i] = At(h, p) <=> i = p - first + 1
        <5> SUFFICES ASSUME NEW i \in 1 .. n
                     PROVE  s[i] = At(h, p) <=> i = p - first + 1
          OBVIOUS
        <5>1. s[i] = At(h, first + i - 1)
          OBVIOUS
        <5>2. At(h, first + i - 1) = At(h, p) <=> first + i - 1 = p
          BY AddressesDiffer
        <5> QED
          BY <3>1, <5>1, <5>2
      <4>2. p - first + 1 \in 1 .. n
        BY <3>1
      <4>3. DOMAIN s = 1 .. n
        OBVIOUS
      <4> HIDE DEF s, n
      <4>4. Occurrences(s, At(h, p)) = {p - first + 1}
        BY <4>1, <4>2, <4>3 DEF Occurrences
      <4>5. Cardinality({p - first + 1}) = 1
        BY FS_Singleton
      <4> QED
        BY <3>2, <4>4, <4>5 DEF Occurs, s, n
    <3>8. ASSUME NEW a, a \notin Named(v) PROVE Occurs(Expand(uri), a) = 0
      <4>1. \A i \in 1 .. n : At(h, first + i - 1) # a
        BY <3>4, <3>5, <3>8
      <4>2. Occurrences(Expand(uri), a) = {}
        BY <3>2, <4>1 DEF Occurrences
      <4> QED
        BY <4>2, FS_EmptySet DEF Occurs
    <3> QED
      BY <2>0, <3>4, <3>6, <3>7, <3>8, AddressesDiffer
  <2>2. CASE ~(Len(uri.ports) = 2 /\ uri.ports[1] <= uri.ports[2] /\ uri.ports[2] <= MaxPort)
    <3>1. Expand(uri) = <<uri>>
      BY <2>2 DEF Expand
    <3>2. ports = {}
      BY <2>0, <2>2
    <3>3. Named(v) = {uri} /\ uri \in S
      BY <2>0, <3>2
    <3>4. uri # Direct
      <4> HIDE DEF uri, ports
      <4>1. Len(uri.ports) # 0
        BY <2>0
      <4>2. Len(<<>>) = 0
        OBVIOUS
      <4>3. Direct.ports = <<>>
        BY DEF Direct
      <4> QED
        BY <4>1, <4>2, <4>3
    <3> HIDE DEF uri, ports
    <3>5. /\ <<uri>> \in Seq(S)
          /\ \A a : Occurs(<<uri>>, a) = IF a = uri THEN 1 ELSE 0
      BY <3>3, OccursAlone
    <3> QED
      BY <2>0, <3>1, <3>3, <3>4, <3>5
  <2> QED
    BY <2>1, <2>2
<1> QED
  BY <1>1, <1>2

\* The list of proxies: every address that is named, as often as it is named.
LEMMA ProxiesNamed ==
    ASSUME config \in Configs
    PROVE  /\ Proxies.uris \in Seq(Addresses)
           /\ \A a \in Addresses : /\ Occurs(Proxies.uris, a) = TimesNamed(a)
                                   /\ a \in ToSet(Proxies.uris)
           /\ Direct \notin Addresses
<1> DEFINE vs == Values(Section)
           n  == Len(vs)
           names == [i \in 1 .. n |-> Named(vs[i])]
           seqs  == [i \in 1 .. n |-> ExpandValue(vs[i])]
<1>1. vs \in Seq(ToSet(vs)) /\ \A v \in ToSet(vs) : UriTyped(v)
  BY ConfigAssumption DEF UriTyped, Section
<1>2. n \in Nat /\ DOMAIN vs = 1 .. n /\ \A i \in 1 .. n : vs[i] \in ToSet(vs)
  <2>1. n \in Nat /\ DOMAIN vs = 1 .. n
    BY <1>1, LenProperties
  <2> QED
    BY <2>1 DEF ToSet
<1>3. CASE ~Enabled(Section)
  <2>1. Proxies.uris = <<>> /\ Addresses = {}
    BY <1>3 DEF Proxies, ProxyConfig, NoProxies, Addresses
  <2> QED
    BY <2>1, EmptySeq
<1>4. CASE Enabled(Section)
  <2>1. Proxies.uris = FlattenSeq([i \in DOMAIN vs |-> ExpandValue(vs[i])])
    BY <1>4 DEF Proxies, ProxyConfig
  <2>2. Proxies.uris = FlattenSeq(seqs)
    BY <1>2, <2>1
  <2>3. Addresses = UNION {Named(v) : v \in ToSet(vs)}
    BY <1>4 DEF Addresses
  <2>4. \A v \in ToSet(vs) : Named(v) \subseteq Addresses
    BY <2>3
  <2> HIDE DEF vs
  <2>5. ASSUME NEW i \in 1 .. n
        PROVE  /\ ExpandValue(vs[i]) \in Seq(Addresses)
               /\ \A a : Occurs(ExpandValue(vs[i]), a) = IF a \in Named(vs[i]) THEN 1 ELSE 0
               /\ Direct \notin Named(vs[i])
    BY <1>1, <1>2, <2>4, ExpandedOnce
  <2>6. /\ seqs \in [1 .. n -> Seq(Addresses)]
        /\ \A i \in 1 .. n : \A a : Occurs(seqs[i], a) = IF a \in names[i] THEN 1 ELSE 0
    BY <2>5
  <2>7. /\ FlattenSeq(seqs) \in Seq(Addresses)
        /\ \A a : Occurs(FlattenSeq(seqs), a) = Cardinality(InFirst(names, n, a))
    <3> HIDE DEF seqs, names, n
    <3>1. PICK S, m, ss, ns : S = Addresses /\ m = n /\ ss = seqs /\ ns = names
      OBVIOUS
    <3>2. /\ m \in Nat /\ ss \in [1 .. m -> Seq(S)]
          /\ EachOnce(ss, m, ns)
      BY <1>2, <2>6, <3>1 DEF EachOnce
    <3>3. /\ FlattenSeq(ss) \in Seq(S)
          /\ \A a : Occurs(FlattenSeq(ss), a) = Cardinality(InFirst(ns, m, a))
      BY <3>2, Flattened
    <3> QED
      BY <3>1, <3>3
  <2>8. ASSUME NEW a PROVE InFirst(names, n, a) = {i \in DOMAIN vs : a \in Named(vs[i])}
    BY <1>2 DEF InFirst
  <2>9. \A a : Occurs(Proxies.uris, a) = TimesNamed(a)
    BY <2>2, <2>7, <2>8 DEF TimesNamed, vs
  <2>10. ASSUME NEW a \in Addresses PROVE a \in ToSet(Proxies.uris) /\ a # Direct
    <3>1. PICK i \in 1 .. n : a \in Named(vs[i])
      BY <1>2, <2>3 DEF ToSet
    <3>2. i \in InFirst(names, n, a)
      BY <3>1 DEF InFirst
    <3>3. IsFiniteSet(InFirst(names, n, a))
      <4>1. IsFiniteSet(1 .. n) /\ InFirst(names, n, a) \subseteq 1 .. n
        BY <1>2, FS_Interval DEF InFirst
      <4> QED
        BY <4>1, FS_Subset
    <3>4. Cardinality(InFirst(names, n, a)) # 0
      BY <3>2, <3>3, FS_EmptySet
    <3>5. Occurs(Proxies.uris, a) # 0
      BY <2>2, <2>7, <3>4
    <3> QED
      BY <2>2, <2>5, <2>7, <3>1, <3>5, OccursTypes
  <2> QED
    BY <2>2, <2>7, <2>9, <2>10
<1> QED
  BY <1>3, <1>4

\* The occurrences in a sequence that is appended to.
LEMMA OccursAppended ==
    ASSUME NEW S, NEW s \in Seq(S), NEW e \in S, NEW a
    PROVE  Occurs(Append(s, e), a) = Occurs(s, a) + IF a = e THEN 1 ELSE 0
<1>1. Append(s, e) = s \o <<e>>
  OBVIOUS
<1>2. <<e>> \in Seq(S) /\ Occurs(<<e>>, a) = IF a = e THEN 1 ELSE 0
  BY OccursAlone
<1>3. PICK t : t = <<e>>
  OBVIOUS
<1>4. t \in Seq(S)
  BY <1>2, <1>3
<1>5. Occurs(s \o t, a) = Occurs(s, a) + Occurs(t, a)
  BY <1>4, OccursInBoth
<1> QED
  BY <1>1, <1>2, <1>3, <1>5

-----------------------------------------------------------------------------
(* The turns.                                                              *)

\* The positions up to k at which a is in a sequence.
Singles(s)      == [i \in DOMAIN s |-> {s[i]}]
UpTo(s, k, a)   == Cardinality(InFirst(Singles(s), k, a))

\* They are counted one by one, up to all that there are.
LEMMA UpToTypes ==
    ASSUME NEW S, NEW s \in Seq(S), NEW a
    PROVE  /\ Len(s) \in Nat /\ UpTo(s, 0, a) = 0 /\ UpTo(s, Len(s), a) = Occurs(s, a)
           /\ \A k \in 0 .. Len(s) - 1 :
                 UpTo(s, k + 1, a) = UpTo(s, k, a) + IF a = s[k + 1] THEN 1 ELSE 0
           /\ \A k \in 0 .. Len(s) : UpTo(s, k, a) \in Nat /\ UpTo(s, k, a) <= Occurs(s, a)
<1>1. Len(s) \in Nat /\ DOMAIN s = 1 .. Len(s)
  BY LenProperties
<1>2. InFirst(Singles(s), Len(s), a) = Occurrences(s, a)
  BY <1>1 DEF InFirst, Singles, Occurrences
<1>3. UpTo(s, Len(s), a) = Occurs(s, a)
  BY <1>2 DEF UpTo, Occurs
<1>4. ASSUME NEW k \in 0 .. Len(s) - 1
      PROVE  UpTo(s, k + 1, a) = UpTo(s, k, a) + IF a = s[k + 1] THEN 1 ELSE 0
  <2>1. k \in Nat /\ k + 1 \in DOMAIN s
    BY <1>1
  <2>2. a \in Singles(s)[k + 1] <=> a = s[k + 1]
    BY <2>1 DEF Singles
  <2>3. Cardinality(InFirst(Singles(s), k + 1, a))
          = Cardinality(InFirst(Singles(s), k, a))
              + IF a \in Singles(s)[k + 1] THEN 1 ELSE 0
    BY <2>1, OneMoreName
  <2> QED
    BY <2>2, <2>3 DEF UpTo
<1>5. ASSUME NEW k \in 0 .. Len(s)
      PROVE  UpTo(s, k, a) \in Nat /\ UpTo(s, k, a) <= Occurs(s, a)
  <2>1. InFirst(Singles(s), k, a) \subseteq Occurrences(s, a)
    BY <1>1 DEF InFirst, Singles, Occurrences
  <2>2. IsFiniteSet(Occurrences(s, a))
    BY OccursTypes
  <2>3. /\ IsFiniteSet(InFirst(Singles(s), k, a))
        /\ Cardinality(InFirst(Singles(s), k, a)) <= Cardinality(Occurrences(s, a))
    BY <2>1, <2>2, FS_Subset
  <2> QED
    BY <2>3, FS_CardinalityType DEF UpTo, Occurs
<1>6. UpTo(s, 0, a) = 0
  BY OneMoreName DEF UpTo
<1> QED
  BY <1>1, <1>3, <1>4, <1>5, <1>6

\* After some whole rounds, this one has come to turn.
InTurn ==
    \E rounds \in 0 .. Len(given) :
        \A a \in Addresses :
            Occurs(given, a) = rounds * Occurs(Proxies.uris, a) + UpTo(Proxies.uris, turn, a)

\* The inductive invariant of the proxies.
ProxyInv ==
    /\ config = Missing \/ config \in Configs
    /\ config = Missing => given = <<>> /\ turn = 0 /\ client = NoClient
    /\ config \in Configs =>
          /\ given \in Seq(Addresses)
          /\ turn = 0 \/ turn \in 1 .. Len(Proxies.uris) - 1
          /\ client = Direct => Proxies.uris = <<>>
          /\ InTurn

\* No file is taken for a missing one.
LEMMA LoadedOrMissing ==
    Missing.kind = "missing" /\ \A file \in Configs : file.kind # "missing"
BY ConfigAssumption DEF Missing

\* The proxy in turn is handed out, and counted.
LEMMA TurnTaken ==
    ASSUME ProxyInv, GetProxy
    PROVE  /\ given' \in Seq(Addresses)
           /\ turn' = 0 \/ turn' \in 1 .. Len(Proxies.uris) - 1
           /\ InTurn'
<1>0. config \in Configs /\ config' = config /\ Proxies.uris # <<>>
  BY LoadedOrMissing DEF ProxyInv, GetProxy
<1>1. Proxies.uris \in Seq(Addresses)
  BY <1>0, ProxiesNamed
<1>2. PICK A, s : A = Addresses /\ s = Proxies.uris /\ s \in Seq(A)
  BY <1>1
<1>3. Addresses' = A /\ Proxies.uris' = s /\ s # <<>>
  BY <1>0, <1>2 DEF Addresses, Proxies, Section
<1>4. PICK L \in Nat \ {0}, k \in Nat : L = Len(s) /\ k = turn /\ k \in 0 .. L - 1
  <2>1. Len(s) \in Nat \ {0}
    BY <1>3, EmptySeq, LenProperties
  <2>2. turn \in 0 .. Len(s) - 1
    BY <1>0, <1>2, <2>1 DEF ProxyInv
  <2> QED
    BY <2>1, <2>2
<1>5. PICK e \in A : e = s[k + 1] /\ given' = Append(given, e)
  <2>1. k + 1 \in 1 .. Len(s)
    BY <1>4
  <2>2. s[k + 1] \in A
    BY <1>2, <2>1, ElementOfSeq
  <2> QED
    BY <1>2, <1>4, <2>2 DEF GetProxy
<1>6. PICK g \in Seq(A) : g = given
  BY <1>0, <1>2 DEF ProxyInv
<1>7. given' \in Seq(A) /\ Len(given') = Len(g) + 1 /\ Len(g) \in Nat
  BY <1>5, <1>6, AppendProperties, LenProperties
<1>8. ASSUME NEW a \in A
      PROVE  /\ Occurs(given', a) = Occurs(g, a) + IF a = e THEN 1 ELSE 0
             /\ Occurs(g, a) \in Nat
  <2>1. Occurs(Append(g, e), a) = Occurs(g, a) + IF a = e THEN 1 ELSE 0
    BY OccursAppended
  <2>2. Occurs(g, a) \in Nat
    BY OccursTypes
  <2> QED
    BY <1>5, <1>6, <2>1, <2>2
<1>9. turn' = IF k + 1 = L THEN 0 ELSE k + 1
  <2>1. turn' = (k + 1) % L
    BY <1>2, <1>4 DEF GetProxy, NextTurn
  <2> QED
    BY <1>4, <2>1
<1>10. PICK rounds \in 0 .. Len(g) :
          \A a \in A : Occurs(g, a) = rounds * Occurs(s, a) + UpTo(s, k, a)
  BY <1>0, <1>2, <1>4, <1>6 DEF ProxyInv, InTurn
<1>11. ASSUME NEW a \in A
       PROVE  /\ UpTo(s, k + 1, a) = UpTo(s, k, a) + IF a = e THEN 1 ELSE 0
              /\ UpTo(s, L, a) = Occurs(s, a) /\ UpTo(s, 0, a) = 0
              /\ UpTo(s, k, a) \in Nat /\ UpTo(s, k + 1, a) \in Nat
              /\ Occurs(s, a) \in Nat
  <2>1. k + 1 \in 0 .. Len(s) /\ k \in 0 .. Len(s) /\ k \in 0 .. Len(s) - 1
    BY <1>4
  <2> QED
    BY <1>2, <1>4, <1>5, <2>1, UpToTypes, OccursTypes
<1>12. ASSUME NEW a \in A PROVE Occurs(given', a) = rounds * Occurs(s, a) + UpTo(s, k + 1, a)
  <2>1. PICK m \in Nat, p \in Nat : m = Occurs(s, a) /\ p = rounds * m
    BY <1>10, <1>11
  <2>2. Occurs(g, a) = p + UpTo(s, k, a) /\ rounds * Occurs(s, a) = p
    BY <1>10, <2>1
  <2>3. PICK u \in Nat, w \in {0, 1} :
           u = UpTo(s, k, a) /\ w = IF a = e THEN 1 ELSE 0
    BY <1>11
  <2>4. UpTo(s, k + 1, a) = u + w /\ Occurs(given', a) = p + u + w
    BY <1>8, <1>11, <2>2, <2>3
  <2> QED
    BY <2>2, <2>4
<1>13. InTurn'
  <2>1. CASE k + 1 = L
    <3>1. rounds + 1 \in 0 .. Len(given') /\ turn' = 0
      BY <1>7, <1>9, <1>10, <2>1
    <3>2. ASSUME NEW a \in A
          PROVE  Occurs(given', a) = (rounds + 1) * Occurs(s, a) + UpTo(s, 0, a)
      <4>1. Occurs(given', a) = rounds * Occurs(s, a) + Occurs(s, a)
        BY <1>11, <1>12, <2>1
      <4>2. (rounds + 1) * Occurs(s, a) = rounds * Occurs(s, a) + Occurs(s, a)
        BY <1>10, <1>11
      <4>3. (rounds + 1) * Occurs(s, a) \in Nat
        BY <1>10, <1>11
      <4> QED
        BY <1>11, <4>1, <4>2, <4>3
    <3> QED
      BY <1>3, <3>1, <3>2 DEF InTurn
  <2>2. CASE k + 1 # L
    <3>1. rounds \in 0 .. Len(given') /\ turn' = k + 1
      BY <1>7, <1>9, <1>10, <2>2
    <3> QED
      BY <1>3, <1>12, <3>1 DEF InTurn
  <2> QED
    BY <2>1, <2>2
<1> QED
  BY <1>2, <1>3, <1>4, <1>7, <1>9, <1>13

\* The proxies are addresses.
LEMMA ProxiesTyped == config \in Configs => Proxies.uris \in Seq(Addresses)
BY ProxiesNamed

\* A step of the client preserves the invariant of its proxies.
LEMMA ProxyStep == ASSUME ProxyInv, [ProxyNext]_proxyVars PROVE ProxyInv'
<1> USE LoadedOrMissing
<1>1. CASE UNCHANGED <<config, turn, given, client>>
  BY <1>1 DEF ProxyInv, InTurn, Addresses, Proxies, Section
<1>2. CASE LoadConfig
  <2>1. /\ config = Missing /\ given = <<>> /\ turn = 0 /\ client = NoClient
        /\ config' \in Configs /\ given' = <<>> /\ turn' = 0 /\ client' = NoClient
    BY <1>2 DEF LoadConfig, ProxyInv
  <2>2. client' # Direct
    BY <2>1 DEF NoClient, Direct
  <2>3. given' \in Seq(Addresses') /\ Len(given') = 0
    BY <2>1, EmptySeq
  <2>4. Proxies.uris' \in Seq(Addresses')
    <3>1. (config \in Configs => Proxies.uris \in Seq(Addresses))'
      BY ProxiesTyped, PTL
    <3> QED
      BY <2>1, <3>1
  <2>5. PICK s, A : s = Proxies.uris' /\ A = Addresses' /\ s \in Seq(A)
    BY <2>4
  <2>6. ASSUME NEW a \in A
        PROVE  Occurs(<<>>, a) = 0 * Occurs(s, a) + UpTo(s, 0, a)
    <3>1. Occurrences(<<>>, a) = {}
      BY DEF Occurrences
    <3>2. Occurs(<<>>, a) = 0
      BY <3>1, FS_EmptySet DEF Occurs
    <3>3. UpTo(s, 0, a) = 0 /\ Occurs(s, a) \in Nat
      BY <2>5, UpToTypes, OccursTypes
    <3> QED
      BY <3>2, <3>3
  <2>7. InTurn'
    BY <2>1, <2>3, <2>5, <2>6 DEF InTurn
  <2> QED
    BY <2>1, <2>2, <2>3, <2>7 DEF ProxyInv
<1>3. CASE GetProxy
  <2>1. config \in Configs /\ UNCHANGED <<config, client>>
    BY <1>3 DEF GetProxy, ProxyInv
  <2>2. Proxies' = Proxies
    BY <2>1 DEF Proxies, Section
  <2>3. Addresses' = Addresses
    BY <2>1 DEF Addresses, Section
  <2> QED
    BY <1>3, <2>1, <2>2, <2>3, TurnTaken DEF ProxyInv
<1>4. CASE BuildClient
  <2>1. config \in Configs /\ UNCHANGED <<config, turn, given>>
    BY <1>4 DEF BuildClient, ProxyInv
  <2>2. Proxies' = Proxies
    BY <2>1 DEF Proxies, Section
  <2>3. Addresses' = Addresses
    BY <2>1 DEF Addresses, Section
  <2>4. InTurn'
    BY <2>1, <2>2, <2>3 DEF ProxyInv, InTurn
  <2>5. client' = Direct => Proxies.uris = <<>>
    <3>1. Proxies.uris \in Seq(Addresses) /\ Direct \notin Addresses
      BY <2>1, ProxiesNamed
    <3>2. ToSet(Proxies.uris) \subseteq Addresses
      BY <3>1, LenProperties, ElementOfSeq DEF ToSet
    <3>3. Panicked # Direct
      BY DEF Panicked, Direct
    <3> QED
      BY <1>4, <3>1, <3>2, <3>3 DEF BuildClient
  <2> QED
    BY <2>1, <2>2, <2>3, <2>4, <2>5 DEF ProxyInv
<1> QED
  BY <1>1, <1>2, <1>3, <1>4
  DEF ProxyNext, StartFetch, FetchAnswered, FetchFails, proxyVars

\* What the invariant says of the proxies that are handed out.
LEMMA TurnsUsed == ASSUME ProxyInv PROVE EveryProxyUsed
<1> SUFFICES ASSUME config.kind # "missing"
             PROVE  /\ \E rounds \in 0 .. Len(given) :
                          \A a \in Addresses : /\ Uses(a) >= rounds * TimesNamed(a)
                                               /\ Uses(a) <= (rounds + 1) * TimesNamed(a)
                    /\ ToSet(given) \subseteq Addresses
                    /\ client = Direct => Addresses = {}
  BY DEF EveryProxyUsed
<1>1. config \in Configs
  BY LoadedOrMissing DEF ProxyInv
<1>2. /\ Proxies.uris \in Seq(Addresses)
      /\ \A a \in Addresses : /\ Occurs(Proxies.uris, a) = TimesNamed(a)
                              /\ a \in ToSet(Proxies.uris)
  BY <1>1, ProxiesNamed
<1>3. given \in Seq(Addresses)
  BY <1>1 DEF ProxyInv
<1>4. PICK s, A : s = Proxies.uris /\ A = Addresses /\ s \in Seq(A)
  BY <1>2
<1>5. PICK rounds \in 0 .. Len(given) :
         \A a \in A : Occurs(given, a) = rounds * Occurs(s, a) + UpTo(s, turn, a)
  BY <1>1, <1>4 DEF ProxyInv, InTurn
<1>6. PICK k : k = turn /\ (k = 0 \/ k \in 1 .. Len(s) - 1)
  BY <1>1, <1>4 DEF ProxyInv
<1>7. k \in 0 .. Len(s) /\ rounds \in Nat
  <2>1. Len(s) \in Nat /\ Len(given) \in Nat
    BY <1>3, <1>4, LenProperties
  <2> QED
    BY <1>5, <1>6, <2>1
<1>8. ASSUME NEW a \in A
      PROVE  /\ Uses(a) >= rounds * TimesNamed(a)
             /\ Uses(a) <= (rounds + 1) * TimesNamed(a)
  <2>1. /\ UpTo(s, k, a) \in Nat /\ UpTo(s, k, a) <= Occurs(s, a)
        /\ Occurs(s, a) \in Nat /\ Occurs(s, a) = TimesNamed(a)
    BY <1>2, <1>4, <1>7, UpToTypes, OccursTypes
  <2>2. PICK m \in Nat, p \in Nat, u \in Nat :
           /\ m = TimesNamed(a) /\ p = rounds * m /\ u = UpTo(s, k, a) /\ u <= m
    BY <1>7, <2>1
  <2>3. Uses(a) = p + u
    <3>1. Uses(a) = Occurs(given, a)
      BY DEF Uses, Occurs, Occurrences
    <3>2. rounds * Occurs(s, a) = p
      BY <2>1, <2>2
    <3> QED
      BY <1>5, <1>6, <2>2, <3>1, <3>2
  <2>4. (rounds + 1) * m = p + m
    BY <1>7, <2>2
  <2>5. Uses(a) >= p /\ Uses(a) <= p + m
    BY <2>2, <2>3
  <2> QED
    BY <2>2, <2>4, <2>5
<1>9. ToSet(given) \subseteq Addresses
  BY <1>3, LenProperties, ElementOfSeq DEF ToSet
<1>10. client = Direct => Addresses = {}
  <2>1. ToSet(<<>>) = {}
    BY DEF ToSet
  <2> QED
    BY <1>1, <1>2, <2>1 DEF ProxyInv
<1> QED
  BY <1>4, <1>5, <1>8, <1>9, <1>10

\* Every address takes its turn as often as it is named, in every round, and none that is
\* named is dropped.
THEOREM ProxiesTakeTurns == PartsSpec => []EveryProxyUsed
<1>1. PartsInit => ProxyInv
  BY LoadedOrMissing DEF PartsInit, ProxyInit, ProxyInv, Missing
<1>2. ProxyInv /\ [PartsNext]_partVars => ProxyInv'
  BY ProxyStep DEF PartsNext, partVars, proxyVars
<1>3. ProxyInv => EveryProxyUsed
  BY TurnsUsed
<1> QED
  BY <1>1, <1>2, <1>3, PTL DEF PartsSpec

-----------------------------------------------------------------------------
(* The links of a page.  A list that went through a chain, and a          *)
(* category, is what the page has at some positions, in order; every       *)
(* operator that makes such a list is a fold, and is first unfolded.       *)

-----------------------------------------------------------------------------
(* Folds: what FoldLeft does with a sequence, step by step.                *)

\* Some numbers have a least one.
LEMMA MinIs ==
    ASSUME NEW ns \in SUBSET Nat, ns # {}
    PROVE  Min(ns) \in ns /\ \A m \in ns : Min(ns) <= m
<1>1. \E n \in ns : \A m \in ns : n <= m
  BY LeastNumber
<1>2. \E n \in ns : \A m \in ns : n =< m
  BY <1>1
<1> QED
  BY <1>2 DEF Min

\* If they are bounded, they have a greatest one.
LEMMA MaxIs ==
    ASSUME NEW n \in Nat, NEW ns \in SUBSET (1 .. n), ns # {}
    PROVE  Max(ns) \in ns /\ \A m \in ns : m <= Max(ns)
<1> DEFINE below == {n - m : m \in ns}
<1>1. below \in SUBSET Nat /\ below # {}
  <2>1. \A m \in ns : n - m \in Nat
    OBVIOUS
  <2>2. below \subseteq Nat
    BY <2>1
  <2>3. PICK m \in ns : TRUE
    OBVIOUS
  <2>4. n - m \in below
    BY <2>3
  <2> QED
    BY <2>2, <2>4
<1>2. PICK b \in below : \A c \in below : b <= c
  BY <1>1, LeastNumber
<1>3. PICK x \in ns : b = n - x
  BY <1>2
<1>4. ASSUME NEW y \in ns PROVE x >= y
  <2>1. n - y \in below
    OBVIOUS
  <2>2. b <= n - y
    BY <1>2, <2>1
  <2> QED
    BY <1>3, <2>2
<1>5. \E z \in ns : \A y \in ns : z >= y
  BY <1>4
<1>6. Max(ns) \in ns /\ \A y \in ns : Max(ns) >= y
  BY <1>5 DEF Max
<1> QED
  BY <1>6

\* The first numbers, without the greatest of them.
LEMMA MaxOfFirst ==
    ASSUME NEW k \in Nat
    PROVE  Max(1 .. k + 1) = k + 1 /\ (1 .. k + 1) \ {k + 1} = 1 .. k /\ 1 .. k + 1 # {}
<1>1. 1 .. k + 1 \in SUBSET (1 .. k + 1) /\ k + 1 \in 1 .. k + 1 /\ k + 1 \in Nat
  OBVIOUS
<1>2. Max(1 .. k + 1) \in 1 .. k + 1 /\ \A m \in 1 .. k + 1 : m <= Max(1 .. k + 1)
  BY <1>1, MaxIs
<1>3. Max(1 .. k + 1) = k + 1
  BY <1>1, <1>2
<1>4. (1 .. k + 1) \ {k + 1} = 1 .. k
  OBVIOUS
<1> QED
  BY <1>1, <1>3, <1>4

\* The function that a fold is the last value of, for a fold over at most k places.
Folds(f, k, B, base, F) ==
    /\ f \in [SUBSET (1 .. k) -> B]
    /\ \A is \in SUBSET (1 .. k) :
          f[is] = IF is = {} THEN base ELSE F[Max(is)][f[is \ {Max(is)}]]

\* There is one: the CHOOSE in a fold's definition chooses something.
LEMMA FoldExists ==
    ASSUME NEW n \in Nat, NEW B, NEW base \in B, NEW F \in [1 .. n -> [B -> B]]
    PROVE  \E f : Folds(f, n, B, base, F)
<1> DEFINE none == {k \in 0 .. n : ~\E f : Folds(f, k, B, base, F)}
<1>1. SUFFICES ASSUME ~\E f : Folds(f, n, B, base, F) PROVE FALSE
  OBVIOUS
<1>2. n \in none /\ none \in SUBSET Nat
  BY <1>1
<1>3. PICK k \in none : \A j \in none : k <= j
  <2> HIDE DEF none
  <2> QED
    BY <1>2, LeastNumber
<1>4. k \in 0 .. n /\ k \in Nat /\ ~\E f : Folds(f, k, B, base, F)
  OBVIOUS
<1>5. CASE k = 0
  <2> DEFINE f == [is \in SUBSET (1 .. k) |-> base]
  <2>1. \A is \in SUBSET (1 .. k) : is = {}
    BY <1>5
  <2>2. Folds(f, k, B, base, F)
    BY <2>1 DEF Folds
  <2> QED
    BY <1>4, <2>2
<1>6. CASE k # 0
  <2> DEFINE j == k - 1
  <2>1. j \in 0 .. n /\ j < k /\ k \in 1 .. n /\ 1 .. j = (1 .. k) \ {k}
    BY <1>4, <1>6
  <2>2. j \notin none
    BY <1>3, <2>1
  <2>3. PICK f : Folds(f, j, B, base, F)
    BY <2>1, <2>2
  <2> DEFINE g == [is \in SUBSET (1 .. k) |->
                      IF k \in is THEN F[k][f[is \ {k}]] ELSE f[is]]
  <2> HIDE DEF j, none
  <2>4. F[k] \in [B -> B]
    BY <2>1
  <2>5. ASSUME NEW is \in SUBSET (1 .. k), k \in is
        PROVE  /\ g[is] \in B /\ is # {}
               /\ g[is] = F[Max(is)][g[is \ {Max(is)}]]
    <3>1. is \ {k} \in SUBSET (1 .. j) /\ is \ {k} \in SUBSET (1 .. k)
      BY <2>1
    <3>2. Max(is) = k
      <4>1. Max(is) \in is /\ k <= Max(is)
        <5>1. is # {} /\ k \in is /\ k \in Nat
          BY <1>4, <2>5
        <5> QED
          BY <5>1, MaxIs
      <4>2. Max(is) \in 1 .. k
        BY <4>1
      <4> QED
        BY <1>4, <4>1, <4>2
    <3>3. g[is] = F[k][f[is \ {k}]] /\ g[is \ {k}] = f[is \ {k}]
      BY <2>5, <3>1
    <3>4. f[is \ {k}] \in B
      BY <2>3, <3>1 DEF Folds
    <3> QED
      BY <2>4, <2>5, <3>2, <3>3, <3>4
  <2>6. ASSUME NEW is \in SUBSET (1 .. k), k \notin is
        PROVE  /\ g[is] \in B
               /\ g[is] = IF is = {} THEN base ELSE F[Max(is)][g[is \ {Max(is)}]]
    <3>1. is \in SUBSET (1 .. j) /\ g[is] = f[is]
      BY <2>1, <2>6
    <3>2. f[is] \in B /\ f[is] = IF is = {} THEN base ELSE F[Max(is)][f[is \ {Max(is)}]]
      BY <2>3, <3>1 DEF Folds
    <3>3. g[is \ {Max(is)}] = f[is \ {Max(is)}]
      BY <2>6
    <3> QED
      BY <3>1, <3>2, <3>3
  <2>7. Folds(g, k, B, base, F)
    <3> HIDE DEF g
    <3>1. \A is \in SUBSET (1 .. k) :
             /\ g[is] \in B
             /\ g[is] = IF is = {} THEN base ELSE F[Max(is)][g[is \ {Max(is)}]]
      BY <2>5, <2>6
    <3>2. g \in [SUBSET (1 .. k) -> B]
      <4>1. g = [is \in SUBSET (1 .. k) |-> g[is]]
        BY DEF g
      <4> QED
        BY <3>1, <4>1
    <3> QED
      BY <3>1, <3>2 DEF Folds
  <2> QED
    BY <1>4, <2>7
<1> QED
  BY <1>5, <1>6


\* Among, step by step.
LEMMA AmongUnfolds ==
    ASSUME NEW U, NEW s \in Seq(U), NEW kept
    PROVE  \E h : /\ h[0] = <<>> /\ h[Len(s)] = Among(s, kept)
                  /\ \A k \in 0 .. Len(s) - 1 :
                        h[k + 1] = IF s[k + 1] \in kept
                                      THEN Append(h[k], s[k + 1])
                                      ELSE h[k]
<1> DEFINE n == Len(s)
           F == [i \in 1 .. n |->
                   [out \in Seq(U) |-> IF s[i] \in kept THEN Append(out, s[i]) ELSE out]]
           Step(f) == [is \in SUBSET DOMAIN s |->
                          IF is = {} THEN <<>>
                          ELSE IF s[Max(is)] \in kept
                               THEN Append(f[is \ {Max(is)}], s[Max(is)])
                               ELSE f[is \ {Max(is)}]]
           g == CHOOSE f : f = Step(f)
           h == [k \in 0 .. n |-> g[1 .. k]]
<1>1. n \in Nat /\ DOMAIN s = 1 .. n
  BY LenProperties
<1>2. F \in [1 .. n -> [Seq(U) -> Seq(U)]]
  BY <1>1, ElementOfSeq, AppendProperties
<1>3. PICK f : Folds(f, n, Seq(U), <<>>, F)
  BY <1>1, <1>2, EmptySeq, FoldExists
<1>4. f = Step(f)
  <2>1. ASSUME NEW is \in SUBSET (1 .. n)
        PROVE  f[is] = IF is = {} THEN <<>>
                       ELSE IF s[Max(is)] \in kept
                            THEN Append(f[is \ {Max(is)}], s[Max(is)])
                            ELSE f[is \ {Max(is)}]
    <3>1. CASE is = {}
      BY <1>3, <3>1 DEF Folds
    <3>2. CASE is # {}
      <4>1. Max(is) \in 1 .. n
        BY <1>1, <3>2, MaxIs
      <4>2. f[is \ {Max(is)}] \in Seq(U) /\ f[is] = F[Max(is)][f[is \ {Max(is)}]]
        BY <1>3, <3>2 DEF Folds
      <4> QED
        BY <3>2, <4>1, <4>2
    <3> QED
      BY <3>1, <3>2
  <2>2. f \in [SUBSET (1 .. n) -> Seq(U)]
    BY <1>3 DEF Folds
  <2>3. Step(f) = [is \in SUBSET (1 .. n) |-> f[is]]
    BY <1>1, <2>1
  <2> HIDE DEF Step
  <2> QED
    BY <2>2, <2>3
<1>5. Among(s, kept) = g[DOMAIN s]
  BY DEF Among, FoldLeft, MapThenFoldSet
<1>6. g = Step(g)
  <2> HIDE DEF Step
  <2> QED
    BY <1>4
<1> HIDE DEF g, F
<1>7. g[{}] = <<>>
  BY <1>6
<1>8. ASSUME NEW k \in 0 .. n - 1
      PROVE  g[1 .. k + 1] = IF s[k + 1] \in kept
                                THEN Append(g[1 .. k], s[k + 1])
                                ELSE g[1 .. k]
  <2>1. /\ 1 .. k + 1 \in SUBSET DOMAIN s /\ 1 .. k + 1 # {}
        /\ Max(1 .. k + 1) = k + 1 /\ (1 .. k + 1) \ {k + 1} = 1 .. k
    <3>1. k \in Nat /\ 1 .. k + 1 \subseteq 1 .. n
      BY <1>1
    <3> QED
      BY <1>1, <3>1, MaxOfFirst
  <2> QED
    BY <1>6, <2>1
<1>9. 1 .. 0 = {} /\ 0 \in 0 .. n /\ n \in 0 .. n
      /\ \A k \in 0 .. n - 1 : k \in 0 .. n /\ k + 1 \in 0 .. n
  BY <1>1
<1>10. h[0] = <<>> /\ h[n] = Among(s, kept)
  BY <1>1, <1>5, <1>7, <1>9
<1>11. \A k \in 0 .. n - 1 :
         h[k + 1] = IF s[k + 1] \in kept THEN Append(h[k], s[k + 1]) ELSE h[k]
  BY <1>8, <1>9
<1> QED
  BY <1>10, <1>11

\* Deduplicate, step by step.
LEMMA DeduplicateUnfolds ==
    ASSUME NEW U, NEW s \in Seq(U)
    PROVE  \E h : /\ h[0] = <<>> /\ h[Len(s)] = Deduplicate(s)
                  /\ \A k \in 0 .. Len(s) - 1 :
                        h[k + 1] = IF s[k + 1] \in ToSet(h[k])
                                      THEN h[k]
                                      ELSE Append(h[k], s[k + 1])
<1> DEFINE n == Len(s)
           F == [i \in 1 .. n |-> [out \in Seq(U) |->
                   IF s[i] \in ToSet(out) THEN out ELSE Append(out, s[i])]]
           Step(f) == [is \in SUBSET DOMAIN s |->
                          IF is = {} THEN <<>>
                          ELSE IF s[Max(is)] \in ToSet(f[is \ {Max(is)}])
                                  THEN f[is \ {Max(is)}]
                                  ELSE Append(f[is \ {Max(is)}], s[Max(is)])]
           g == CHOOSE f : f = Step(f)
           h == [k \in 0 .. n |-> g[1 .. k]]
<1>1. n \in Nat /\ DOMAIN s = 1 .. n
  BY LenProperties
<1>2. F \in [1 .. n -> [Seq(U) -> Seq(U)]] /\ <<>> \in Seq(U)
  BY <1>1, EmptySeq, ElementOfSeq, AppendProperties
<1>3. PICK f : Folds(f, n, Seq(U), <<>>, F)
  BY <1>1, <1>2, FoldExists
<1>4. f = Step(f)
  <2>1. ASSUME NEW is \in SUBSET (1 .. n)
        PROVE  f[is] = IF is = {} THEN <<>>
                       ELSE IF s[Max(is)] \in ToSet(f[is \ {Max(is)}])
                               THEN f[is \ {Max(is)}]
                               ELSE Append(f[is \ {Max(is)}], s[Max(is)])
    <3>1. CASE is = {}
      BY <1>3, <3>1 DEF Folds
    <3>2. CASE is # {}
      <4>1. Max(is) \in 1 .. n
        BY <1>1, <3>2, MaxIs
      <4>2. f[is \ {Max(is)}] \in Seq(U) /\ f[is] = F[Max(is)][f[is \ {Max(is)}]]
        BY <1>3, <3>2 DEF Folds
      <4> QED
        BY <3>2, <4>1, <4>2
    <3> QED
      BY <3>1, <3>2
  <2>2. f \in [SUBSET (1 .. n) -> Seq(U)]
    BY <1>3 DEF Folds
  <2>3. Step(f) = [is \in SUBSET (1 .. n) |-> f[is]]
    BY <1>1, <2>1
  <2> HIDE DEF Step
  <2> QED
    BY <2>2, <2>3
<1>5. Deduplicate(s) = g[DOMAIN s]
  BY DEF Deduplicate, FoldLeft, MapThenFoldSet
<1>6. g = Step(g)
  <2> HIDE DEF Step
  <2> QED
    BY <1>4
<1> HIDE DEF g, F
<1>7. g[{}] = <<>>
  BY <1>6
<1>8. ASSUME NEW k \in 0 .. n - 1
      PROVE  g[1 .. k + 1] = IF s[k + 1] \in ToSet(g[1 .. k])
                                THEN g[1 .. k]
                                ELSE Append(g[1 .. k], s[k + 1])
  <2>1. /\ 1 .. k + 1 \in SUBSET DOMAIN s /\ 1 .. k + 1 # {}
        /\ Max(1 .. k + 1) = k + 1 /\ (1 .. k + 1) \ {k + 1} = 1 .. k
    <3>1. k \in Nat /\ 1 .. k + 1 \subseteq 1 .. n
      BY <1>1
    <3> QED
      BY <1>1, <3>1, MaxOfFirst
  <2> QED
    BY <1>6, <2>1
<1>9. 1 .. 0 = {} /\ 0 \in 0 .. n /\ n \in 0 .. n
      /\ \A k \in 0 .. n - 1 : k \in 0 .. n /\ k + 1 \in 0 .. n
  BY <1>1
<1>10. h[0] = <<>> /\ h[n] = Deduplicate(s)
  BY <1>1, <1>5, <1>7, <1>9
<1>11. \A k \in 0 .. n - 1 :
         h[k + 1] = IF s[k + 1] \in ToSet(h[k]) THEN h[k] ELSE Append(h[k], s[k + 1])
  BY <1>8, <1>9
<1> QED
  BY <1>10, <1>11

\* Rules, step by step.
LEMMA RulesUnfold ==
    ASSUME NEW R, NEW rules \in Seq(R), rules = RegexRules
    PROVE  \E h : /\ h[0] = <<>> /\ h[Len(rules)] = Rules
                  /\ \A k \in 0 .. Len(rules) - 1 :
                        h[k + 1] = AddRegexRule(h[k], rules[k + 1])
<1> DEFINE n == Len(rules)
           F == [i \in 1 .. n |-> [out \in Seq(R) |->
                   AddRegexRule(out, rules[i])]]
           Step(f) == [is \in SUBSET DOMAIN rules |->
                          IF is = {} THEN <<>>
                          ELSE AddRegexRule(f[is \ {Max(is)}], rules[Max(is)])]
           g == CHOOSE f : f = Step(f)
           h == [k \in 0 .. n |-> g[1 .. k]]
<1>1. n \in Nat /\ DOMAIN rules = 1 .. n
  BY LenProperties
<1>2. F \in [1 .. n -> [Seq(R) -> Seq(R)]] /\ <<>> \in Seq(R)
  BY <1>1, EmptySeq, ElementOfSeq, AppendProperties DEF AddRegexRule
<1>3. PICK f : Folds(f, n, Seq(R), <<>>, F)
  BY <1>1, <1>2, FoldExists
<1>4. f = Step(f)
  <2>1. ASSUME NEW is \in SUBSET (1 .. n)
        PROVE  f[is] = IF is = {} THEN <<>>
                       ELSE AddRegexRule(f[is \ {Max(is)}], rules[Max(is)])
    <3>1. CASE is = {}
      BY <1>3, <3>1 DEF Folds
    <3>2. CASE is # {}
      <4>1. Max(is) \in 1 .. n
        BY <1>1, <3>2, MaxIs
      <4>2. f[is \ {Max(is)}] \in Seq(R) /\ f[is] = F[Max(is)][f[is \ {Max(is)}]]
        BY <1>3, <3>2 DEF Folds
      <4> QED
        BY <3>2, <4>1, <4>2
    <3> QED
      BY <3>1, <3>2
  <2>2. f \in [SUBSET (1 .. n) -> Seq(R)]
    BY <1>3 DEF Folds
  <2>3. Step(f) = [is \in SUBSET (1 .. n) |-> f[is]]
    BY <1>1, <2>1
  <2> HIDE DEF Step
  <2> QED
    BY <2>2, <2>3
<1>5. Rules = g[DOMAIN rules]
  BY DEF Rules, FoldLeft, MapThenFoldSet
<1>6. g = Step(g)
  <2> HIDE DEF Step
  <2> QED
    BY <1>4
<1> HIDE DEF g, F
<1>7. g[{}] = <<>>
  BY <1>6
<1>8. ASSUME NEW k \in 0 .. n - 1
      PROVE  g[1 .. k + 1] = AddRegexRule(g[1 .. k], rules[k + 1])
  <2>1. /\ 1 .. k + 1 \in SUBSET DOMAIN rules /\ 1 .. k + 1 # {}
        /\ Max(1 .. k + 1) = k + 1 /\ (1 .. k + 1) \ {k + 1} = 1 .. k
    <3>1. k \in Nat /\ 1 .. k + 1 \subseteq 1 .. n
      BY <1>1
    <3> QED
      BY <1>1, <3>1, MaxOfFirst
  <2> QED
    BY <1>6, <2>1
<1>9. 1 .. 0 = {} /\ 0 \in 0 .. n /\ n \in 0 .. n
      /\ \A k \in 0 .. n - 1 : k \in 0 .. n /\ k + 1 \in 0 .. n
  BY <1>1
<1>10. h[0] = <<>> /\ h[n] = Rules
  BY <1>1, <1>5, <1>7, <1>9
<1>11. \A k \in 0 .. n - 1 :
         h[k + 1] = AddRegexRule(h[k], rules[k + 1])
  BY <1>8, <1>9
<1> QED
  BY <1>10, <1>11

\* Apply, step by step.
LEMMA ApplyUnfolds ==
    ASSUME NEW U, NEW urls \in Seq(U), NEW M, NEW ms \in Seq(M),
           \A m \in M, s \in Seq(U) : Process(s, m) \in Seq(U)
    PROVE  \E h : /\ h[0] = urls /\ h[Len(ms)] = Apply(urls, ms)
                  /\ \A k \in 0 .. Len(ms) - 1 :
                        h[k + 1] = Process(h[k], ms[k + 1])
<1> DEFINE n == Len(ms)
           F == [i \in 1 .. n |-> [out \in Seq(U) |->
                   Process(out, ms[i])]]
           Step(f) == [is \in SUBSET DOMAIN ms |->
                          IF is = {} THEN urls
                          ELSE Process(f[is \ {Max(is)}], ms[Max(is)])]
           g == CHOOSE f : f = Step(f)
           h == [k \in 0 .. n |-> g[1 .. k]]
<1>1. n \in Nat /\ DOMAIN ms = 1 .. n
  BY LenProperties
<1>2. F \in [1 .. n -> [Seq(U) -> Seq(U)]] /\ urls \in Seq(U)
  BY <1>1, ElementOfSeq
<1>3. PICK f : Folds(f, n, Seq(U), urls, F)
  BY <1>1, <1>2, FoldExists
<1>4. f = Step(f)
  <2>1. ASSUME NEW is \in SUBSET (1 .. n)
        PROVE  f[is] = IF is = {} THEN urls
                       ELSE Process(f[is \ {Max(is)}], ms[Max(is)])
    <3>1. CASE is = {}
      BY <1>3, <3>1 DEF Folds
    <3>2. CASE is # {}
      <4>1. Max(is) \in 1 .. n
        BY <1>1, <3>2, MaxIs
      <4>2. f[is \ {Max(is)}] \in Seq(U) /\ f[is] = F[Max(is)][f[is \ {Max(is)}]]
        BY <1>3, <3>2 DEF Folds
      <4> QED
        BY <3>2, <4>1, <4>2
    <3> QED
      BY <3>1, <3>2
  <2>2. f \in [SUBSET (1 .. n) -> Seq(U)]
    BY <1>3 DEF Folds
  <2>3. Step(f) = [is \in SUBSET (1 .. n) |-> f[is]]
    BY <1>1, <2>1
  <2> HIDE DEF Step
  <2> QED
    BY <2>2, <2>3
<1>5. Apply(urls, ms) = g[DOMAIN ms]
  BY DEF Apply, FoldLeft, MapThenFoldSet
<1>6. g = Step(g)
  <2> HIDE DEF Step
  <2> QED
    BY <1>4
<1> HIDE DEF g, F
<1>7. g[{}] = urls
  BY <1>6
<1>8. ASSUME NEW k \in 0 .. n - 1
      PROVE  g[1 .. k + 1] = Process(g[1 .. k], ms[k + 1])
  <2>1. /\ 1 .. k + 1 \in SUBSET DOMAIN ms /\ 1 .. k + 1 # {}
        /\ Max(1 .. k + 1) = k + 1 /\ (1 .. k + 1) \ {k + 1} = 1 .. k
    <3>1. k \in Nat /\ 1 .. k + 1 \subseteq 1 .. n
      BY <1>1
    <3> QED
      BY <1>1, <3>1, MaxOfFirst
  <2> QED
    BY <1>6, <2>1
<1>9. 1 .. 0 = {} /\ 0 \in 0 .. n /\ n \in 0 .. n
      /\ \A k \in 0 .. n - 1 : k \in 0 .. n /\ k + 1 \in 0 .. n
  BY <1>1
<1>10. h[0] = urls /\ h[n] = Apply(urls, ms)
  BY <1>1, <1>5, <1>7, <1>9
<1>11. \A k \in 0 .. n - 1 :
         h[k + 1] = Process(h[k], ms[k + 1])
  BY <1>8, <1>9
<1> QED
  BY <1>10, <1>11

\* Categories with names in N and URLs in U.
Cats(N, U) == [name : N, urls : Seq(U)]

\* What entering a URL does to the categories: it goes to the end of its category, which
\* is the last one if it is new.
Entered(out, name, u, out2) ==
    \/ /\ \E i \in 1 .. Len(out) : out[i].name = name
       /\ Len(out2) = Len(out)
       /\ \A i \in 1 .. Len(out) :
             /\ out[i].name = name => out2[i] = [name |-> name, urls |-> Append(out[i].urls, u)]
             /\ out[i].name # name => out2[i] = out[i]
    \/ /\ \A i \in 1 .. Len(out) : out[i].name # name
       /\ out2 = Append(out, [name |-> name, urls |-> <<u>>])

\* That is what Enter does.
LEMMA EnterIs ==
    ASSUME NEW N, NEW U, NEW out \in Seq(Cats(N, U)), NEW name \in N, NEW u \in U
    PROVE  /\ Enter(out, name, u) \in Seq(Cats(N, U)) /\ Len(out) \in Nat
           /\ Entered(out, name, u, Enter(out, name, u))
<1> DEFINE n == Len(out)
<1>1. n \in Nat /\ \A i \in 1 .. n : out[i] \in Cats(N, U)
  BY LenProperties, ElementOfSeq
<1>2. CASE \E i \in 1 .. n : out[i].name = name
  <2> DEFINE new(i) == IF out[i].name = name
                       THEN [out[i] EXCEPT !.urls = Append(@, u)] ELSE out[i]
             es == [i \in 1 .. n |-> new(i)]
  <2>1. Enter(out, name, u) = es
    BY <1>2 DEF Enter
  <2>2. ASSUME NEW i \in 1 .. n
        PROVE  /\ es[i] \in Cats(N, U)
               /\ es[i] = IF out[i].name = name
                          THEN [name |-> name, urls |-> Append(out[i].urls, u)] ELSE out[i]
    <3>1. /\ out[i] = [name |-> out[i].name, urls |-> out[i].urls]
          /\ out[i].name \in N /\ out[i].urls \in Seq(U)
      BY <1>1 DEF Cats
    <3>2. Append(out[i].urls, u) \in Seq(U)
      BY <3>1, AppendProperties
    <3>3. es[i] = new(i)
      OBVIOUS
    <3>4. CASE out[i].name = name
      <4>1. new(i) = [name |-> name, urls |-> Append(out[i].urls, u)]
        BY <3>1, <3>4
      <4> QED
        BY <3>2, <3>3, <3>4, <4>1 DEF Cats
    <3>5. CASE out[i].name # name
      BY <1>1, <3>3, <3>5
    <3> QED
      BY <3>4, <3>5
  <2> HIDE DEF new
  <2>3. es \in [1 .. n -> Cats(N, U)]
    <3>1. es = [i \in 1 .. n |-> es[i]]
      OBVIOUS
    <3> HIDE DEF es
    <3> QED
      BY <2>2, <3>1
  <2>4. es \in Seq(Cats(N, U)) /\ Len(es) = n
    <3> HIDE DEF es
    <3> QED
      BY <1>1, <2>3, SeqDef, LenProperties
  <2> HIDE DEF es
  <2> QED
    BY <1>1, <1>2, <2>1, <2>2, <2>4 DEF Entered
<1>3. CASE ~ \E i \in 1 .. n : out[i].name = name
  <2>1. Enter(out, name, u) = Append(out, [name |-> name, urls |-> <<u>>])
    BY <1>3 DEF Enter
  <2>2. <<u>> \in Seq(U)
    OBVIOUS
  <2>3. [name |-> name, urls |-> <<u>>] \in Cats(N, U)
    BY <2>2 DEF Cats
  <2>4. Enter(out, name, u) \in Seq(Cats(N, U))
    BY <2>1, <2>3, AppendProperties
  <2> QED
    BY <1>1, <1>3, <2>1, <2>4 DEF Entered
<1> QED
  BY <1>2, <1>3

\* ClassifyUrls, step by step.
LEMMA ClassifyUnfolds ==
    ASSUME NEW N, NEW U, NEW s \in Seq(U), \A u \in U : Category(u) \in N
    PROVE  \E h : /\ h[0] = <<>> /\ h[Len(s)] = ClassifyUrls(s)
                  /\ \A k \in 0 .. Len(s) - 1 :
                        h[k + 1] = IF Fitting(s[k + 1]) = {}
                                      THEN h[k]
                                      ELSE Enter(h[k], Category(s[k + 1]), s[k + 1])
<1> DEFINE n == Len(s)
           F == [i \in 1 .. n |-> [out \in Seq(Cats(N, U)) |->
                   IF Fitting(s[i]) = {} THEN out ELSE Enter(out, Category(s[i]), s[i])]]
           Step(f) == [is \in SUBSET DOMAIN s |->
                          IF is = {} THEN <<>>
                          ELSE IF Fitting(s[Max(is)]) = {}
                                  THEN f[is \ {Max(is)}]
                                  ELSE Enter(f[is \ {Max(is)}], Category(s[Max(is)]), s[Max(is)])]
           g == CHOOSE f : f = Step(f)
           h == [k \in 0 .. n |-> g[1 .. k]]
<1>1. n \in Nat /\ DOMAIN s = 1 .. n
  BY LenProperties
<1>2. F \in [1 .. n -> [Seq(Cats(N, U)) -> Seq(Cats(N, U))]] /\ <<>> \in Seq(Cats(N, U))
  <2>1. \A i \in 1 .. n : s[i] \in U
    BY <1>1, ElementOfSeq
  <2>2. \A i \in 1 .. n, out \in Seq(Cats(N, U)) :
           Enter(out, Category(s[i]), s[i]) \in Seq(Cats(N, U))
    BY <2>1, EnterIs
  <2> QED
    BY <2>2, EmptySeq
<1>3. PICK f : Folds(f, n, Seq(Cats(N, U)), <<>>, F)
  BY <1>1, <1>2, FoldExists
<1>4. f = Step(f)
  <2>1. ASSUME NEW is \in SUBSET (1 .. n)
        PROVE  f[is] = IF is = {} THEN <<>>
                       ELSE IF Fitting(s[Max(is)]) = {}
                               THEN f[is \ {Max(is)}]
                               ELSE Enter(f[is \ {Max(is)}], Category(s[Max(is)]), s[Max(is)])
    <3>1. CASE is = {}
      BY <1>3, <3>1 DEF Folds
    <3>2. CASE is # {}
      <4>1. Max(is) \in 1 .. n
        BY <1>1, <3>2, MaxIs
      <4>2. f[is \ {Max(is)}] \in Seq(Cats(N, U)) /\ f[is] = F[Max(is)][f[is \ {Max(is)}]]
        BY <1>3, <3>2 DEF Folds
      <4> QED
        BY <3>2, <4>1, <4>2
    <3> QED
      BY <3>1, <3>2
  <2>2. f \in [SUBSET (1 .. n) -> Seq(Cats(N, U))]
    BY <1>3 DEF Folds
  <2>3. Step(f) = [is \in SUBSET (1 .. n) |-> f[is]]
    BY <1>1, <2>1
  <2> HIDE DEF Step
  <2> QED
    BY <2>2, <2>3
<1>5. ClassifyUrls(s) = g[DOMAIN s]
  BY DEF ClassifyUrls, FoldLeft, MapThenFoldSet
<1>6. g = Step(g)
  <2> HIDE DEF Step
  <2> QED
    BY <1>4
<1> HIDE DEF g, F
<1>7. g[{}] = <<>>
  BY <1>6
<1>8. ASSUME NEW k \in 0 .. n - 1
      PROVE  g[1 .. k + 1] = IF Fitting(s[k + 1]) = {}
                                THEN g[1 .. k]
                                ELSE Enter(g[1 .. k], Category(s[k + 1]), s[k + 1])
  <2>1. /\ 1 .. k + 1 \in SUBSET DOMAIN s /\ 1 .. k + 1 # {}
        /\ Max(1 .. k + 1) = k + 1 /\ (1 .. k + 1) \ {k + 1} = 1 .. k
    <3>1. k \in Nat /\ 1 .. k + 1 \subseteq 1 .. n
      BY <1>1
    <3> QED
      BY <1>1, <3>1, MaxOfFirst
  <2> QED
    BY <1>6, <2>1
<1>9. 1 .. 0 = {} /\ 0 \in 0 .. n /\ n \in 0 .. n
      /\ \A k \in 0 .. n - 1 : k \in 0 .. n /\ k + 1 \in 0 .. n
  BY <1>1
<1>10. h[0] = <<>> /\ h[n] = ClassifyUrls(s)
  BY <1>1, <1>5, <1>7, <1>9
<1>11. \A k \in 0 .. n - 1 :
         h[k + 1] = IF Fitting(s[k + 1]) = {}
                       THEN h[k]
                       ELSE Enter(h[k], Category(s[k + 1]), s[k + 1])
  BY <1>8, <1>9
<1> QED
  BY <1>10, <1>11

-----------------------------------------------------------------------------
(* What a sequence has at some positions, in order.                        *)

TakenAt(ix, piece, whole, positions) ==
    /\ ix \in [DOMAIN piece -> positions]
    /\ \A p \in positions : \E j \in DOMAIN piece : ix[j] = p
    /\ \A j, k \in DOMAIN piece : j < k => ix[j] < ix[k]
    /\ \A j \in DOMAIN piece : piece[j] = whole[ix[j]]

\* The positions, one by one.
LEMMA HasPlaces ==
    ASSUME NEW t, NEW s, NEW P, InOrder(t, s, P)
    PROVE  \E ix : TakenAt(ix, t, s, P)
BY DEF InOrder, TakenAt

\* At no position there is nothing.
LEMMA InOrderNone == ASSUME NEW s PROVE InOrder(<<>>, s, {})
<1> DEFINE ix == [j \in {} |-> 0]
<1>1. DOMAIN <<>> = {} /\ ix \in [{} -> {}]
  OBVIOUS
<1> QED
  BY <1>1 DEF InOrder

\* The next position adds its element at the end.
LEMMA InOrderMore ==
    ASSUME NEW U, NEW t \in Seq(U), NEW s, NEW k \in Nat, NEW P \in SUBSET (1 .. k),
           InOrder(t, s, P), s[k + 1] \in U
    PROVE  InOrder(Append(t, s[k + 1]), s, P \cup {k + 1})
<1> DEFINE n  == Len(t)
           t2 == Append(t, s[k + 1])
           P2 == P \cup {k + 1}
<1>1. n \in Nat /\ DOMAIN t = 1 .. n
  BY LenProperties
<1>2. /\ DOMAIN t2 = 1 .. n + 1 /\ t2[n + 1] = s[k + 1]
      /\ \A j \in 1 .. n : t2[j] = t[j]
  BY <1>1, AppendProperties
<1>3. PICK ix \in [1 .. n -> P] :
         /\ \A p \in P : \E j \in 1 .. n : ix[j] = p
         /\ \A j, l \in 1 .. n : j < l => ix[j] < ix[l]
         /\ \A j \in 1 .. n : t[j] = s[ix[j]]
  BY <1>1 DEF InOrder
<1> DEFINE ix2 == [j \in 1 .. n + 1 |-> IF j = n + 1 THEN k + 1 ELSE ix[j]]
<1>4. /\ ix2[n + 1] = k + 1 /\ n + 1 \in 1 .. n + 1
      /\ \A j \in 1 .. n : ix2[j] = ix[j] /\ ix[j] \in P /\ j \in 1 .. n + 1 /\ j # n + 1
      /\ \A j \in 1 .. n + 1 : j \in 1 .. n \/ j = n + 1
  BY <1>1, <1>3
<1>5. ix2 \in [1 .. n + 1 -> P2]
  BY <1>1, <1>3
<1> HIDE DEF ix2, t2
<1>6. \A p \in P2 : \E j \in 1 .. n + 1 : ix2[j] = p
  BY <1>3, <1>4
<1>7. ASSUME NEW j \in 1 .. n + 1, NEW l \in 1 .. n + 1, j < l PROVE ix2[j] < ix2[l]
  <2>1. CASE l = n + 1
    <3>1. j \in 1 .. n
      BY <1>1, <1>7, <2>1
    <3>2. ix2[j] = ix[j] /\ ix[j] \in 1 .. k /\ ix2[l] = k + 1
      BY <1>4, <2>1, <3>1
    <3> QED
      BY <3>2
  <2>2. CASE l # n + 1
    <3>1. j \in 1 .. n /\ l \in 1 .. n
      BY <1>1, <1>7, <2>2
    <3> QED
      BY <1>3, <1>4, <1>7, <3>1
  <2> QED
    BY <2>1, <2>2
<1>8. \A j \in 1 .. n + 1 : t2[j] = s[ix2[j]]
  <2>1. \A j \in 1 .. n : t2[j] = s[ix2[j]]
    BY <1>2, <1>3, <1>4
  <2>2. t2[n + 1] = s[ix2[n + 1]]
    BY <1>2, <1>4
  <2> QED
    BY <1>4, <2>1, <2>2
<1>9. InOrder(t2, s, P2)
  <2>1. PICK D : D = 1 .. n + 1
    OBVIOUS
  <2>2. DOMAIN t2 = D /\ ix2 \in [D -> P2]
    BY <1>2, <1>5, <2>1
  <2>3. /\ \A p \in P2 : \E j \in D : ix2[j] = p
        /\ \A j, l \in D : j < l => ix2[j] < ix2[l]
        /\ \A j \in D : t2[j] = s[ix2[j]]
    BY <1>6, <1>7, <1>8, <2>1
  <2> HIDE DEF P2
  <2> QED
    BY <2>2, <2>3 DEF InOrder
<1> QED
  BY <1>9 DEF t2

\* What is in the part is what the whole has there.
LEMMA InOrderHas ==
    ASSUME NEW t, NEW s, NEW P, InOrder(t, s, P)
    PROVE  ToSet(t) = {s[p] : p \in P}
BY DEF InOrder, ToSet

Through(ix, Q) == {ix[q] : q \in Q}

\* A part of a part.
LEMMA InOrderVia ==
    ASSUME NEW t, NEW s, NEW f, NEW P, NEW Q \in SUBSET DOMAIN s, NEW ix,
           TakenAt(ix, s, f, P), InOrder(t, s, Q)
    PROVE  InOrder(t, f, Through(ix, Q))
<1> USE DEF TakenAt
<1>1. PICK b \in [DOMAIN t -> Q] :
         /\ \A q \in Q : \E j \in DOMAIN t : b[j] = q
         /\ \A j, l \in DOMAIN t : j < l => b[j] < b[l]
         /\ \A j \in DOMAIN t : t[j] = s[b[j]]
  BY DEF InOrder
<1> DEFINE c == [j \in DOMAIN t |-> ix[b[j]]]
           R == Through(ix, Q)
<1>2. \A j \in DOMAIN t : b[j] \in DOMAIN s /\ c[j] = ix[b[j]] /\ c[j] \in R
  BY <1>1 DEF Through
<1>3. c \in [DOMAIN t -> R]
  BY <1>2
<1> HIDE DEF c
<1>4. \A p \in R : \E j \in DOMAIN t : c[j] = p
  BY <1>1, <1>2 DEF Through
<1>5. \A j, l \in DOMAIN t : j < l => c[j] < c[l]
  BY <1>1, <1>2
<1>6. \A j \in DOMAIN t : t[j] = f[c[j]]
  BY <1>1, <1>2
<1> QED
  BY <1>3, <1>4, <1>5, <1>6 DEF InOrder

-----------------------------------------------------------------------------
(* The filters.                                                            *)

\* What is left is what is kept, in order.
LEMMA AmongIs ==
    ASSUME NEW U, NEW s \in Seq(U), NEW kept
    PROVE  /\ Among(s, kept) \in Seq(U)
           /\ InOrder(Among(s, kept), s, {q \in DOMAIN s : s[q] \in kept})
<1> DEFINE n == Len(s)
           P(k) == {q \in 1 .. k : s[q] \in kept}
<1>1. n \in Nat /\ DOMAIN s = 1 .. n
  BY LenProperties
<1>2. PICK h : /\ h[0] = <<>> /\ h[n] = Among(s, kept)
               /\ \A k \in 0 .. n - 1 :
                     h[k + 1] = IF s[k + 1] \in kept THEN Append(h[k], s[k + 1]) ELSE h[k]
  BY AmongUnfolds
<1> DEFINE Good(k) == h[k] \in Seq(U) /\ InOrder(h[k], s, P(k))
<1>3. Good(0)
  <2>1. P(0) = {}
    OBVIOUS
  <2> QED
    BY <1>2, <2>1, InOrderNone, EmptySeq
<1>4. ASSUME NEW k \in 0 .. n - 1, Good(k) PROVE Good(k + 1)
  <2>1. k \in Nat /\ k + 1 \in 1 .. n /\ P(k) \in SUBSET (1 .. k) /\ s[k + 1] \in U
    BY <1>1, ElementOfSeq
  <2>2. CASE s[k + 1] \in kept
    <3>1. P(k + 1) = P(k) \cup {k + 1}
      BY <2>1, <2>2
    <3>2. h[k + 1] = Append(h[k], s[k + 1])
      BY <1>2, <2>2
    <3> HIDE DEF P
    <3>3. InOrder(Append(h[k], s[k + 1]), s, P(k) \cup {k + 1})
      BY <1>4, <2>1, InOrderMore
    <3>4. Append(h[k], s[k + 1]) \in Seq(U)
      BY <1>4, <2>1, AppendProperties
    <3> QED
      BY <3>1, <3>2, <3>3, <3>4
  <2>3. CASE s[k + 1] \notin kept
    <3>1. P(k + 1) = P(k)
      BY <2>1, <2>3
    <3> QED
      BY <1>2, <1>4, <2>3, <3>1
  <2> QED
    BY <2>2, <2>3
<1>5. Good(n)
  <2> DEFINE good == {k \in 0 .. n : Good(k)}
  <2> HIDE DEF Good
  <2>1. 0 \in good /\ \A k \in 0 .. n - 1 : k \in good => k + 1 \in good
    BY <1>1, <1>3, <1>4
  <2>2. n \in good
    <3> HIDE DEF good
    <3>1. good \in SUBSET (0 .. n)
      BY DEF good
    <3> QED
      BY <1>1, <2>1, <3>1, CountsUp
  <2> QED
    BY <2>2
<1> QED
  BY <1>1, <1>2, <1>5

\* The places of the first of equal elements, up to k.
FirstUpTo(s, k) == {q \in 1 .. k : \A r \in 1 .. q - 1 : s[r] # s[q]}

\* What is left is the first of equal elements, in order.
LEMMA DeduplicateIs ==
    ASSUME NEW U, NEW s \in Seq(U)
    PROVE  /\ Deduplicate(s) \in Seq(U)
           /\ InOrder(Deduplicate(s), s, FirstUpTo(s, Len(s)))
<1> DEFINE n == Len(s)
<1>1. n \in Nat /\ DOMAIN s = 1 .. n
  BY LenProperties
<1>2. PICK h : /\ h[0] = <<>> /\ h[n] = Deduplicate(s)
               /\ \A k \in 0 .. n - 1 :
                     h[k + 1] = IF s[k + 1] \in ToSet(h[k])
                                   THEN h[k]
                                   ELSE Append(h[k], s[k + 1])
  BY DeduplicateUnfolds
<1> DEFINE Good(k) == h[k] \in Seq(U) /\ InOrder(h[k], s, FirstUpTo(s, k))
<1>3. Good(0)
  <2>1. FirstUpTo(s, 0) = {}
    BY DEF FirstUpTo
  <2> QED
    BY <1>2, <2>1, InOrderNone, EmptySeq
<1>4. ASSUME NEW k \in 0 .. n - 1, Good(k) PROVE Good(k + 1)
  <2>1. /\ k \in Nat /\ k + 1 \in 1 .. n /\ s[k + 1] \in U
        /\ FirstUpTo(s, k) \in SUBSET (1 .. k)
    BY <1>1, ElementOfSeq DEF FirstUpTo
  <2>2. ToSet(h[k]) = {s[p] : p \in FirstUpTo(s, k)}
    BY <1>4, InOrderHas
  <2>3. CASE s[k + 1] \in ToSet(h[k])
    <3>1. PICK p \in FirstUpTo(s, k) : s[p] = s[k + 1]
      BY <2>2, <2>3
    <3>2. p \in 1 .. k
      BY <2>1
    <3>3. FirstUpTo(s, k + 1) = FirstUpTo(s, k)
      BY <2>1, <3>1, <3>2 DEF FirstUpTo
    <3> QED
      BY <1>2, <1>4, <2>3, <3>3
  <2>4. CASE s[k + 1] \notin ToSet(h[k])
    <3>1. ASSUME NEW r \in 1 .. k, s[r] = s[k + 1] PROVE FALSE
      <4> DEFINE same == {q \in 1 .. k : s[q] = s[k + 1]}
      <4>1. same \in SUBSET Nat /\ same # {}
        BY <3>1
      <4>2. PICK q \in same : \A j \in same : q <= j
        <5> HIDE DEF same
        <5> QED
          BY <4>1, LeastNumber
      <4>3. q \in 1 .. k /\ s[q] = s[k + 1]
        OBVIOUS
      <4>4. \A j \in 1 .. q - 1 : s[j] # s[q]
        <5> SUFFICES ASSUME NEW j \in 1 .. q - 1, s[j] = s[q] PROVE FALSE
          OBVIOUS
        <5>1. j \in same /\ ~(q <= j)
          BY <2>1, <4>3
        <5> QED
          BY <4>2, <5>1
      <4>5. q \in FirstUpTo(s, k)
        BY <4>3, <4>4 DEF FirstUpTo
      <4> QED
        BY <2>2, <2>4, <4>3, <4>5
    <3>2. FirstUpTo(s, k + 1) = FirstUpTo(s, k) \cup {k + 1}
      BY <2>1, <3>1 DEF FirstUpTo
    <3>3. h[k + 1] = Append(h[k], s[k + 1])
      BY <1>2, <2>4
    <3>4. InOrder(Append(h[k], s[k + 1]), s, FirstUpTo(s, k) \cup {k + 1})
      BY <1>4, <2>1, InOrderMore
    <3>5. Append(h[k], s[k + 1]) \in Seq(U)
      BY <1>4, <2>1, AppendProperties
    <3> QED
      BY <3>2, <3>3, <3>4, <3>5
  <2> QED
    BY <2>3, <2>4
<1>5. Good(n)
  <2> DEFINE good == {k \in 0 .. n : Good(k)}
  <2> HIDE DEF Good
  <2>1. 0 \in good /\ \A k \in 0 .. n - 1 : k \in good => k + 1 \in good
    BY <1>1, <1>3, <1>4
  <2>2. n \in good
    <3> HIDE DEF good
    <3>1. good \in SUBSET (0 .. n)
      BY DEF good
    <3> QED
      BY <1>1, <2>1, <3>1, CountsUp
  <2> QED
    BY <2>2
<1> QED
  BY <1>2, <1>5

\* The rules of the router are those that compile, in order.
LEMMA RulesAre ==
    LET P == {i \in DOMAIN RegexRules : RegexRules[i].compiles}
    IN  Rules \in Seq(ToSet(RegexRules)) /\ InOrder(Rules, RegexRules, P)
<1>0. PICK R, s : R = ToSet(RegexRules) /\ s = RegexRules /\ s \in Seq(R)
  BY LinkAssumption
<1> DEFINE n == Len(s)
           P(k) == {q \in 1 .. k : s[q].compiles}
<1>1. n \in Nat /\ DOMAIN s = 1 .. n
  BY <1>0, LenProperties
<1>2. PICK h : /\ h[0] = <<>> /\ h[n] = Rules
               /\ \A k \in 0 .. n - 1 : h[k + 1] = AddRegexRule(h[k], s[k + 1])
  BY <1>0, RulesUnfold
<1> DEFINE Good(k) == h[k] \in Seq(R) /\ InOrder(h[k], s, P(k))
<1>3. Good(0)
  <2>1. P(0) = {}
    OBVIOUS
  <2> QED
    BY <1>2, <2>1, InOrderNone, EmptySeq
<1>4. ASSUME NEW k \in 0 .. n - 1, Good(k) PROVE Good(k + 1)
  <2>1. k \in Nat /\ k + 1 \in 1 .. n /\ P(k) \in SUBSET (1 .. k) /\ s[k + 1] \in R
    BY <1>0, <1>1, ElementOfSeq
  <2>2. CASE s[k + 1].compiles
    <3>1. P(k + 1) = P(k) \cup {k + 1}
      BY <2>1, <2>2
    <3>2. h[k + 1] = Append(h[k], s[k + 1])
      BY <1>2, <2>2 DEF AddRegexRule
    <3> HIDE DEF P
    <3>3. InOrder(Append(h[k], s[k + 1]), s, P(k) \cup {k + 1})
      BY <1>4, <2>1, InOrderMore
    <3>4. Append(h[k], s[k + 1]) \in Seq(R)
      BY <1>4, <2>1, AppendProperties
    <3> QED
      BY <3>1, <3>2, <3>3, <3>4
  <2>3. CASE ~s[k + 1].compiles
    <3>1. P(k + 1) = P(k)
      BY <2>1, <2>3
    <3> QED
      BY <1>2, <1>4, <2>3, <3>1 DEF AddRegexRule
  <2> QED
    BY <2>2, <2>3
<1>5. Good(n)
  <2> DEFINE good == {k \in 0 .. n : Good(k)}
  <2> HIDE DEF Good
  <2>1. 0 \in good /\ \A k \in 0 .. n - 1 : k \in good => k + 1 \in good
    BY <1>1, <1>3, <1>4
  <2>2. n \in good
    <3> HIDE DEF good
    <3>1. good \in SUBSET (0 .. n)
      BY DEF good
    <3> QED
      BY <1>1, <2>1, <3>1, CountsUp
  <2> QED
    BY <2>2
<1>6. P(n) = {i \in DOMAIN RegexRules : RegexRules[i].compiles}
  BY <1>0, <1>1
<1> QED
  BY <1>0, <1>2, <1>5, <1>6

\* The first of the router's rules that fits is the first that compiles and fits.
LEMMA CategoryIs ==
    ASSUME NEW u
    PROVE  /\ Fitting(u) = {} <=> RulesFor(u) = {}
           /\ RulesFor(u) # {} => Category(u) = RegexRules[Min(RulesFor(u))].name
<1>1. DOMAIN RegexRules \subseteq Nat /\ DOMAIN Rules \subseteq Nat
  <2>1. RegexRules \in Seq(ToSet(RegexRules)) /\ Rules \in Seq(ToSet(RegexRules))
    BY LinkAssumption, RulesAre
  <2>2. /\ DOMAIN RegexRules = 1 .. Len(RegexRules) /\ Len(RegexRules) \in Nat
        /\ DOMAIN Rules = 1 .. Len(Rules) /\ Len(Rules) \in Nat
    BY <2>1, LenProperties
  <2> QED
    BY <2>2
<1>2. PICK ix \in [DOMAIN Rules -> {i \in DOMAIN RegexRules : RegexRules[i].compiles}] :
         /\ \A i \in DOMAIN RegexRules :
               RegexRules[i].compiles => \E j \in DOMAIN Rules : ix[j] = i
         /\ \A j, k \in DOMAIN Rules : j < k => ix[j] < ix[k]
         /\ \A j \in DOMAIN Rules : Rules[j] = RegexRules[ix[j]]
  BY RulesAre DEF InOrder
<1>3. \A j \in Fitting(u) : j \in DOMAIN Rules /\ ix[j] \in RulesFor(u)
  BY <1>2 DEF Fitting, RulesFor
<1>4. \A i \in RulesFor(u) : \E j \in Fitting(u) : ix[j] = i
  BY <1>2 DEF Fitting, RulesFor
<1>5. ASSUME RulesFor(u) # {} PROVE Category(u) = RegexRules[Min(RulesFor(u))].name
  <2>1. Fitting(u) # {} /\ Fitting(u) \in SUBSET Nat /\ RulesFor(u) \in SUBSET Nat
    BY <1>1, <1>4, <1>5 DEF Fitting, RulesFor
  <2>2. PICK x : x = Min(Fitting(u)) /\ x \in Fitting(u) /\ \A j \in Fitting(u) : x <= j
    BY <2>1, MinIs
  <2>3. PICK y : y = Min(RulesFor(u)) /\ y \in RulesFor(u) /\ \A i \in RulesFor(u) : y <= i
    BY <1>5, <2>1, MinIs
  <2>4. PICK z \in Fitting(u) : ix[z] = y
    BY <1>4, <2>3
  <2>5. x = z
    <3>1. x \in Nat /\ z \in Nat /\ x <= z /\ y <= ix[x] /\ y \in Nat /\ ix[x] \in Nat
      BY <1>3, <2>1, <2>2, <2>3, <2>4
    <3>2. x < z => ix[x] < ix[z]
      BY <1>2, <1>3, <2>2
    <3> QED
      BY <2>4, <3>1, <3>2
  <2> QED
    BY <1>2, <1>3, <2>2, <2>3, <2>4, <2>5 DEF Category
<1> QED
  BY <1>3, <1>4, <1>5

-----------------------------------------------------------------------------
(* The chain.                                                              *)

\* The places that a middleware leaves of a list.
Left(m, s) ==
    {q \in DOMAIN s : /\ Passes(m, s[q])
                      /\ m.kind = "dedup" => \A r \in 1 .. q - 1 : s[r] # s[q]}

\* A middleware leaves in order what it passes.
LEMMA ProcessIs ==
    ASSUME NEW U, NEW s \in Seq(U), NEW m \in ToSet(Middlewares)
    PROVE  Process(s, m) \in Seq(U) /\ InOrder(Process(s, m), s, Left(m, s))
<1>1. \/ m.kind = "dedup"
      \/ m.kind = "pattern" /\ m.include \in BOOLEAN
      \/ m.kind = "site" /\ m.sameSite \in BOOLEAN
  BY LinkAssumption
<1>2. DOMAIN s = 1 .. Len(s) /\ \A q \in DOMAIN s : s[q] \in ToSet(s)
  BY LenProperties DEF ToSet
<1>3. CASE m.kind = "dedup"
  <2>1. Process(s, m) = Deduplicate(s)
    BY <1>3 DEF Process
  <2>2. Left(m, s) = FirstUpTo(s, Len(s))
    BY <1>2, <1>3 DEF Left, FirstUpTo, Passes
  <2> QED
    BY <2>1, <2>2, DeduplicateIs
<1>4. CASE m.kind = "pattern"
  <2> DEFINE kept == {u \in ToSet(s) : MatchesAny(m.patterns, u) <=> m.include}
  <2>1. Process(s, m) = Among(s, kept)
    BY <1>4 DEF Process, Filter
  <2>2. ASSUME NEW q \in DOMAIN s PROVE Passes(m, s[q]) <=> s[q] \in kept
    <3>1. Passes(m, s[q]) <=> m.include = MatchesAny(m.patterns, s[q])
      BY <1>4 DEF Passes, MatchesAny
    <3>2. MatchesAny(m.patterns, s[q]) \in BOOLEAN
      BY DEF MatchesAny
    <3> QED
      BY <1>1, <1>2, <1>4, <3>1, <3>2
  <2>3. Left(m, s) = {q \in DOMAIN s : s[q] \in kept}
    BY <1>4, <2>2 DEF Left
  <2> HIDE DEF kept
  <2> QED
    BY <2>1, <2>3, AmongIs
<1>5. CASE m.kind = "site"
  <2> DEFINE kept == {u \in ToSet(s) : (u.host = m.base.host) <=> m.sameSite}
  <2>1. Process(s, m) = Among(s, kept)
    BY <1>5 DEF Process, SiteFilter
  <2>2. ASSUME NEW q \in DOMAIN s PROVE Passes(m, s[q]) <=> s[q] \in kept
    BY <1>1, <1>2, <1>5 DEF Passes
  <2>3. Left(m, s) = {q \in DOMAIN s : s[q] \in kept}
    BY <1>5, <2>2 DEF Left
  <2> HIDE DEF kept
  <2> QED
    BY <2>1, <2>3, AmongIs
<1> QED
  BY <1>1, <1>3, <1>4, <1>5

\* All of a list.
LEMMA InOrderSelf == ASSUME NEW s PROVE InOrder(s, s, DOMAIN s)
<1> DEFINE ix == [j \in DOMAIN s |-> j]
<1>1. ix \in [DOMAIN s -> DOMAIN s] /\ \A j \in DOMAIN s : ix[j] = j
  OBVIOUS
<1> HIDE DEF ix
<1> QED
  BY <1>1 DEF InOrder

\* The places that the first middlewares leave.
LeftByFirst(links, k) ==
    {p \in DOMAIN links :
        \A i \in 1 .. k :
            /\ Passes(Middlewares[i], links[p])
            /\ Middlewares[i].kind = "dedup" => \A q \in 1 .. p - 1 : links[q] # links[p]}

\* One more middleware takes out what it does not pass, seen on its own: if it removes
\* duplicates, then the first of them is one that is still there.
LEMMA LeftByNext ==
    ASSUME NEW U, NEW links \in Seq(U), NEW s \in Seq(U), NEW k \in Nat, NEW ix,
           TakenAt(ix, s, links, LeftByFirst(links, k))
    PROVE  LeftByFirst(links, k + 1) = Through(ix, Left(Middlewares[k + 1], s))
<1> USE DEF TakenAt
<1>0. PICK m : m = Middlewares[k + 1]
  OBVIOUS
<1> DEFINE n == Len(s)
           l == Len(links)
           P == LeftByFirst(links, k)
           First(p) == \A q \in 1 .. p - 1 : links[q] # links[p]
           New(p) == Passes(m, links[p]) /\ (m.kind = "dedup" => First(p))
<1>1. /\ n \in Nat /\ DOMAIN s = 1 .. n
      /\ l \in Nat /\ DOMAIN links = 1 .. l /\ P \in SUBSET (1 .. l)
  BY LenProperties DEF LeftByFirst
<1>2. LeftByFirst(links, k + 1) = {p \in P : New(p)}
  <2>1. \A i : i \in 1 .. k + 1 <=> i \in 1 .. k \/ i = k + 1
    OBVIOUS
  <2> QED
    BY <1>0, <2>1 DEF LeftByFirst
<1>3. ASSUME NEW q \in DOMAIN s PROVE ix[q] \in P /\ (q \in Left(m, s) <=> New(ix[q]))
  <2>1. ix[q] \in P /\ s[q] = links[ix[q]]
    OBVIOUS
  <2>2. ASSUME First(ix[q]) PROVE \A r \in 1 .. q - 1 : s[r] # s[q]
    <3> SUFFICES ASSUME NEW r \in 1 .. q - 1 PROVE s[r] # s[q]
      OBVIOUS
    <3>1. r \in DOMAIN s /\ r < q /\ q \in DOMAIN s
      BY <1>1
    <3>2. ix[r] < ix[q] /\ s[r] = links[ix[r]] /\ ix[r] \in 1 .. l /\ ix[q] \in 1 .. l
      BY <1>1, <3>1
    <3>3. ix[r] \in 1 .. ix[q] - 1
      BY <3>2
    <3> QED
      BY <2>1, <2>2, <3>2, <3>3
  <2>3. ASSUME \A r \in 1 .. q - 1 : s[r] # s[q] PROVE First(ix[q])
    <3>1. SUFFICES ASSUME NEW o \in 1 .. ix[q] - 1, links[o] = links[ix[q]] PROVE FALSE
      OBVIOUS
    <3> DEFINE same == {i \in 1 .. ix[q] - 1 : links[i] = links[ix[q]]}
    <3>2. ix[q] \in 1 .. l
      BY <1>1, <2>1
    <3>3. PICK f \in same : \A i \in same : f <= i
      <4>1. ix[q] \in Nat /\ o \in same
        BY <1>1, <3>1, <3>2
      <4>2. \A i \in 1 .. ix[q] - 1 : i \in Nat
        BY <4>1
      <4>3. same \in SUBSET Nat
        BY <4>2
      <4> HIDE DEF same
      <4> QED
        BY <4>1, <4>3, LeastNumber
    <3>4. f \in 1 .. l /\ f < ix[q] /\ links[f] = links[ix[q]]
      BY <3>2
    <3>5. First(f)
      <4> SUFFICES ASSUME NEW i \in 1 .. f - 1, links[i] = links[f] PROVE FALSE
        OBVIOUS
      <4>1. i \in same /\ ~(f <= i)
        BY <3>2, <3>4
      <4> QED
        BY <3>3, <4>1
    <3>6. f \in P
      <4>1. /\ ix[q] \in DOMAIN links
            /\ \A i \in 1 .. k : Passes(Middlewares[i], links[ix[q]])
        BY <2>1 DEF LeftByFirst
      <4>2. \A i \in 1 .. k : Passes(Middlewares[i], links[f])
        BY <3>4, <4>1
      <4> QED
        BY <1>1, <3>4, <3>5, <4>2 DEF LeftByFirst
    <3>7. PICK r \in DOMAIN s : ix[r] = f
      BY <3>6
    <3>8. r < q
      <4>1. q < r => ix[q] < ix[r]
        OBVIOUS
      <4>2. r \in Nat /\ q \in Nat /\ r # q
        BY <1>1, <3>2, <3>4, <3>7
      <4> QED
        BY <3>2, <3>4, <3>7, <4>1, <4>2
    <3>9. r \in 1 .. q - 1 /\ s[r] = s[q]
      BY <1>1, <2>1, <3>4, <3>7, <3>8
    <3> QED
      BY <2>3, <3>9
  <2> HIDE DEF First
  <2> QED
    BY <2>1, <2>2, <2>3 DEF Left
<1> HIDE DEF New, P
<1>4. Left(m, s) \subseteq DOMAIN s
  BY DEF Left
<1>5. \A p \in P : \E j \in DOMAIN s : ix[j] = p
  BY DEF P
<1> QED
  BY <1>0, <1>2, <1>3, <1>4, <1>5 DEF Through

\* The chain leaves in order what survives it.
LEMMA ApplyIs ==
    ASSUME NEW U, NEW links \in Seq(U)
    PROVE  /\ Apply(links, Middlewares) \in Seq(U)
           /\ InOrder(Apply(links, Middlewares), links, Surviving(links))
<1>0. PICK M, ms : M = ToSet(Middlewares) /\ ms = Middlewares /\ ms \in Seq(M)
  BY LinkAssumption
<1> DEFINE n == Len(ms)
<1>1. n \in Nat /\ DOMAIN ms = 1 .. n
  BY <1>0, LenProperties
<1>2. PICK h : /\ h[0] = links /\ h[n] = Apply(links, ms)
               /\ \A k \in 0 .. n - 1 : h[k + 1] = Process(h[k], ms[k + 1])
  <2>1. \A m \in M, s \in Seq(U) : Process(s, m) \in Seq(U)
    BY <1>0, ProcessIs
  <2> QED
    BY <1>0, <2>1, ApplyUnfolds
<1> DEFINE Good(k) == h[k] \in Seq(U) /\ InOrder(h[k], links, LeftByFirst(links, k))
<1>3. Good(0)
  <2>1. LeftByFirst(links, 0) = DOMAIN links
    <3>1. \A i \in 1 .. 0 : FALSE
      OBVIOUS
    <3> QED
      BY <3>1, Zenon DEF LeftByFirst
  <2> QED
    BY <1>2, <2>1, InOrderSelf
<1>4. ASSUME NEW k \in 0 .. n - 1, Good(k) PROVE Good(k + 1)
  <2>1. PICK m, s : m = ms[k + 1] /\ s = h[k]
    OBVIOUS
  <2>2. k \in Nat /\ m \in ToSet(Middlewares) /\ s \in Seq(U) /\ m = Middlewares[k + 1]
    <3>1. k \in Nat /\ k + 1 \in 1 .. n
      BY <1>1
    <3> QED
      BY <1>0, <1>4, <2>1, <3>1, ElementOfSeq
  <2>3. h[k + 1] \in Seq(U) /\ InOrder(h[k + 1], s, Left(m, s))
    BY <1>2, <2>1, <2>2, ProcessIs
  <2>4. PICK ix : TakenAt(ix, s, links, LeftByFirst(links, k))
    BY <1>4, <2>1, HasPlaces
  <2>5. LeftByFirst(links, k + 1) = Through(ix, Left(m, s))
    BY <2>2, <2>4, LeftByNext
  <2>6. Left(m, s) \in SUBSET DOMAIN s
    BY DEF Left
  <2>7. InOrder(h[k + 1], links, LeftByFirst(links, k + 1))
    <3>1. PICK t, Q, P, R : /\ t = h[k + 1] /\ Q = Left(m, s) /\ P = LeftByFirst(links, k)
                            /\ R = LeftByFirst(links, k + 1)
      OBVIOUS
    <3>2. /\ Q \in SUBSET DOMAIN s /\ TakenAt(ix, s, links, P) /\ InOrder(t, s, Q)
          /\ R = Through(ix, Q)
      BY <2>2, <2>3, <2>4, <2>5, <2>6, <3>1
    <3>3. InOrder(t, links, R)
      BY <3>2, InOrderVia
    <3> QED
      BY <3>1, <3>3
  <2> QED
    BY <2>3, <2>7
<1>5. Good(n)
  <2> DEFINE good == {k \in 0 .. n : Good(k)}
  <2> HIDE DEF Good
  <2>1. 0 \in good /\ \A k \in 0 .. n - 1 : k \in good => k + 1 \in good
    BY <1>1, <1>3, <1>4
  <2>2. n \in good
    <3> HIDE DEF good
    <3>1. good \in SUBSET (0 .. n)
      BY DEF good
    <3> QED
      BY <1>1, <2>1, <3>1, CountsUp
  <2> QED
    BY <2>2
<1>6. LeftByFirst(links, n) = Surviving(links)
  <2>1. ToSet(Middlewares) = {Middlewares[i] : i \in 1 .. n}
    BY <1>0, <1>1 DEF ToSet
  <2> QED
    BY <2>1 DEF LeftByFirst, Surviving
<1> QED
  BY <1>0, <1>2, <1>5, <1>6

-----------------------------------------------------------------------------
(* The categories.                                                         *)

\* The places of the URLs of a category, up to k.
Of(s, k, name) == {p \in 1 .. k : Fitting(s[p]) # {} /\ Category(s[p]) = name}

SortedUpTo(out, s, k) ==
    /\ \A p \in 1 .. k : Fitting(s[p]) # {} =>
          \E i \in 1 .. Len(out) : out[i].name = Category(s[p])
    /\ \A i \in 1 .. Len(out) : /\ Of(s, k, out[i].name) # {}
                                /\ InOrder(out[i].urls, s, Of(s, k, out[i].name))
    /\ \A i, j \in 1 .. Len(out) : i < j =>
          \E p \in Of(s, k, out[i].name) : \A q \in Of(s, k, out[j].name) : p < q

\* A URL that fits is entered, one that does not is left out.
LEMMA OfNext ==
    ASSUME NEW s, NEW k \in Nat, NEW name
    PROVE  Of(s, k + 1, name) = IF Fitting(s[k + 1]) # {} /\ Category(s[k + 1]) = name
                                THEN Of(s, k, name) \cup {k + 1} ELSE Of(s, k, name)
BY DEF Of

\* Entering the next URL keeps the categories sorted.
LEMMA EnterSorts ==
    ASSUME NEW N, NEW U, NEW out \in Seq(Cats(N, U)), NEW s, NEW k \in Nat,
           s[k + 1] \in U, Category(s[k + 1]) \in N, Fitting(s[k + 1]) # {},
           SortedUpTo(out, s, k)
    PROVE  SortedUpTo(Enter(out, Category(s[k + 1]), s[k + 1]), s, k + 1)
<1>0. PICK c \in N, u \in U : c = Category(s[k + 1]) /\ u = s[k + 1]
  OBVIOUS
<1>1. PICK out2 : c = Category(s[k + 1]) /\ u = s[k + 1] /\ out2 = Enter(out, c, u)
  BY <1>0
<1> DEFINE n == Len(out)
<1>2. n \in Nat /\ Entered(out, c, u, out2)
  BY <1>1, EnterIs
<1>3. /\ \A p \in 1 .. k : Fitting(s[p]) # {} =>
            \E i \in 1 .. n : out[i].name = Category(s[p])
      /\ \A i \in 1 .. n : /\ Of(s, k, out[i].name) # {}
                           /\ InOrder(out[i].urls, s, Of(s, k, out[i].name))
      /\ \A i, j \in 1 .. n : i < j =>
            \E p \in Of(s, k, out[i].name) : \A q \in Of(s, k, out[j].name) : p < q
  BY DEF SortedUpTo
<1>4. /\ Of(s, k + 1, c) = Of(s, k, c) \cup {k + 1}
      /\ \A name : name # c => Of(s, k + 1, name) = Of(s, k, name)
      /\ \A name : /\ Of(s, k, name) \in SUBSET (1 .. k)
                   /\ Of(s, k + 1, name) \subseteq Of(s, k, name) \cup {k + 1}
                   /\ Of(s, k, name) \subseteq Of(s, k + 1, name)
  <2>1. \A name : Of(s, k, name) \in SUBSET (1 .. k)
    BY DEF Of
  <2> QED
    BY <1>1, <2>1, OfNext
<1>5. ASSUME NEW t \in Seq(U), InOrder(t, s, Of(s, k, c))
      PROVE  InOrder(Append(t, u), s, Of(s, k + 1, c))
  <2>1. PICK P \in SUBSET (1 .. k) : P = Of(s, k, c)
    BY <1>4
  <2>2. InOrder(Append(t, s[k + 1]), s, P \cup {k + 1})
    BY <1>5, <2>1, InOrderMore
  <2> QED
    BY <1>1, <1>4, <2>1, <2>2
<1>6. \A p \in 1 .. k + 1 : p \in 1 .. k \/ p = k + 1
  OBVIOUS
<1>7. ASSUME NEW i \in 1 .. n PROVE out[i].urls \in Seq(U)
  <2>1. out[i] \in Cats(N, U)
    BY ElementOfSeq
  <2> QED
    BY <2>1 DEF Cats
<1>8. CASE \E i \in 1 .. n : out[i].name = c
  <2>1. /\ Len(out2) = n
        /\ \A i \in 1 .. n :
              /\ out2[i].name = out[i].name
              /\ out2[i].urls = IF out[i].name = c THEN Append(out[i].urls, u)
                                ELSE out[i].urls
    <3>1. /\ Len(out2) = n
          /\ \A i \in 1 .. n :
                /\ out[i].name = c => out2[i] = [name |-> c, urls |-> Append(out[i].urls, u)]
                /\ out[i].name # c => out2[i] = out[i]
      BY <1>2, <1>8 DEF Entered
    <3>2. ASSUME NEW i \in 1 .. n
          PROVE  /\ out2[i].name = out[i].name
                 /\ out2[i].urls = IF out[i].name = c THEN Append(out[i].urls, u)
                                   ELSE out[i].urls
      <4>1. CASE out[i].name = c
        <5>1. out2[i] = [name |-> c, urls |-> Append(out[i].urls, u)]
          BY <3>1, <4>1
        <5> QED
          BY <4>1, <5>1
      <4>2. CASE out[i].name # c
        BY <3>1, <4>2
      <4> QED
        BY <4>1, <4>2
    <3> QED
      BY <3>1, <3>2
  <2>2. ASSUME NEW p \in 1 .. k + 1, Fitting(s[p]) # {}
        PROVE  \E i \in 1 .. n : out2[i].name = Category(s[p])
    <3>1. CASE p = k + 1
      BY <1>1, <1>8, <2>1, <3>1
    <3>2. CASE p \in 1 .. k
      BY <1>3, <2>1, <2>2, <3>2
    <3> QED
      BY <1>6, <3>1, <3>2
  <2>3. ASSUME NEW i \in 1 .. n
        PROVE  /\ Of(s, k + 1, out2[i].name) # {}
               /\ InOrder(out2[i].urls, s, Of(s, k + 1, out2[i].name))
    <3>1. CASE out[i].name = c
      BY <1>3, <1>4, <1>5, <1>7, <2>1, <3>1
    <3>2. CASE out[i].name # c
      BY <1>3, <1>4, <2>1, <3>2
    <3> QED
      BY <3>1, <3>2
  <2>4. ASSUME NEW i \in 1 .. n, NEW j \in 1 .. n, i < j
        PROVE  \E p \in Of(s, k + 1, out2[i].name) :
                  \A q \in Of(s, k + 1, out2[j].name) : p < q
    <3>1. PICK p \in Of(s, k, out[i].name) : \A q \in Of(s, k, out[j].name) : p < q
      BY <1>3, <2>4
    <3>2. p \in Of(s, k + 1, out2[i].name) /\ p \in 1 .. k
      BY <1>4, <2>1
    <3>3. ASSUME NEW q \in Of(s, k + 1, out2[j].name) PROVE p < q
      <4>1. q \in Of(s, k, out[j].name) \/ q = k + 1
        BY <1>4, <2>1
      <4> QED
        BY <3>1, <3>2, <4>1
    <3> QED
      BY <3>2, <3>3
  <2>5. SortedUpTo(out2, s, k + 1)
    BY <2>1, <2>2, <2>3, <2>4 DEF SortedUpTo
  <2> QED
    BY <1>1, <2>5
<1>9. CASE \A i \in 1 .. n : out[i].name # c
  <2>1. /\ Len(out2) = n + 1
        /\ out2[n + 1] = [name |-> c, urls |-> <<u>>]
        /\ \A i \in 1 .. n : out2[i] = out[i]
    <3>1. out2 = Append(out, [name |-> c, urls |-> <<u>>])
      BY <1>2, <1>9 DEF Entered
    <3>2. [name |-> c, urls |-> <<u>>] \in Cats(N, U)
      BY DEF Cats
    <3> QED
      BY <3>1, <3>2, AppendProperties
  <2>2. \A i \in 1 .. n + 1 : i \in 1 .. n \/ i = n + 1
    BY <1>2
  <2>3. n + 1 \in 1 .. n + 1 /\ \A i \in 1 .. n : i \in 1 .. n + 1
    BY <1>2
  <2>4. Of(s, k, c) = {}
    <3>1. ASSUME NEW p \in Of(s, k, c) PROVE FALSE
      <4>1. p \in 1 .. k /\ Fitting(s[p]) # {} /\ Category(s[p]) = c
        BY DEF Of
      <4> QED
        BY <1>3, <1>9, <4>1
    <3> QED
      BY <3>1
  <2>5. ASSUME NEW p \in 1 .. k + 1, Fitting(s[p]) # {}
        PROVE  \E i \in 1 .. n + 1 : out2[i].name = Category(s[p])
    <3>1. CASE p = k + 1
      BY <1>1, <2>1, <2>3, <3>1
    <3>2. CASE p \in 1 .. k
      BY <1>3, <2>1, <2>3, <2>5, <3>2
    <3> QED
      BY <1>6, <3>1, <3>2
  <2>6. ASSUME NEW i \in 1 .. n + 1
        PROVE  /\ Of(s, k + 1, out2[i].name) # {}
               /\ InOrder(out2[i].urls, s, Of(s, k + 1, out2[i].name))
    <3>1. CASE i = n + 1
      <4>1. InOrder(<<>>, s, Of(s, k, c)) /\ <<>> \in Seq(U)
        BY <2>4, InOrderNone
      <4>2. InOrder(Append(<<>>, u), s, Of(s, k + 1, c))
        BY <1>5, <4>1
      <4>3. Append(<<>>, u) = <<u>>
        OBVIOUS
      <4>4. InOrder(<<u>>, s, Of(s, k + 1, c))
        BY <4>2, <4>3
      <4> QED
        BY <1>4, <2>1, <3>1, <4>4
    <3>2. CASE i \in 1 .. n
      BY <1>3, <1>4, <1>9, <2>1, <3>2
    <3> QED
      BY <2>2, <3>1, <3>2
  <2>7. ASSUME NEW i \in 1 .. n + 1, NEW j \in 1 .. n + 1, i < j
        PROVE  \E p \in Of(s, k + 1, out2[i].name) :
                  \A q \in Of(s, k + 1, out2[j].name) : p < q
    <3>0. i \in 1 .. n /\ out2[i] = out[i] /\ out[i].name # c
      <4>1. i \in 1 .. n
        BY <1>2, <2>7
      <4> QED
        BY <1>9, <2>1, <4>1
    <3>1. CASE j = n + 1
      <4>1. PICK p \in Of(s, k, out[i].name) : TRUE
        BY <1>3, <3>0
      <4>2. p \in 1 .. k /\ p \in Of(s, k + 1, out2[i].name)
        BY <1>4, <3>0
      <4>3. Of(s, k + 1, out2[j].name) = {k + 1}
        BY <1>4, <2>1, <2>4, <3>1
      <4>4. p < k + 1
        BY <4>2
      <4> QED
        BY <4>2, <4>3, <4>4
    <3>2. CASE j \in 1 .. n
      <4>1. out2[j] = out[j] /\ out[j].name # c
        BY <1>9, <2>1, <3>2
      <4>2. \E p \in Of(s, k, out[i].name) : \A q \in Of(s, k, out[j].name) : p < q
        BY <1>3, <2>7, <3>0, <3>2
      <4> QED
        BY <1>4, <3>0, <4>1, <4>2
    <3> QED
      BY <2>2, <3>1, <3>2
  <2>8. SortedUpTo(out2, s, k + 1)
    BY <2>1, <2>5, <2>6, <2>7 DEF SortedUpTo
  <2> QED
    BY <1>1, <2>8
<1> QED
  BY <1>8, <1>9

\* The categories are sorted when all URLs are entered.
LEMMA ClassifyIs ==
    ASSUME NEW U, NEW s \in Seq(U)
    PROVE  /\ SortedUpTo(ClassifyUrls(s), s, Len(s))
           /\ DOMAIN ClassifyUrls(s) = 1 .. Len(ClassifyUrls(s))
           /\ Len(ClassifyUrls(s)) \in Nat
<1> DEFINE n == Len(s)
           N == {Category(u) : u \in U}
<1>1. n \in Nat /\ \A k \in 0 .. n - 1 : s[k + 1] \in U /\ k \in Nat
  <2>1. n \in Nat /\ \A i \in 1 .. n : s[i] \in U
    BY LenProperties, ElementOfSeq
  <2>2. \A k \in 0 .. n - 1 : k + 1 \in 1 .. n /\ k \in Nat
    BY <2>1
  <2> QED
    BY <2>1, <2>2
<1>2. \A u \in U : Category(u) \in N
  OBVIOUS
<1> HIDE DEF N
<1>3. PICK h : /\ h[0] = <<>> /\ h[n] = ClassifyUrls(s)
               /\ \A k \in 0 .. n - 1 :
                     h[k + 1] = IF Fitting(s[k + 1]) = {} THEN h[k]
                                ELSE Enter(h[k], Category(s[k + 1]), s[k + 1])
  BY <1>2, ClassifyUnfolds
<1> DEFINE Good(k) == h[k] \in Seq(Cats(N, U)) /\ SortedUpTo(h[k], s, k)
<1>4. Good(0)
  <2>1. Len(<<>>) = 0 /\ 1 .. 0 = {}
    OBVIOUS
  <2>2. SortedUpTo(<<>>, s, 0)
    BY <2>1 DEF SortedUpTo
  <2> QED
    BY <1>3, <2>2, EmptySeq
<1>5. ASSUME NEW k \in 0 .. n - 1, Good(k) PROVE Good(k + 1)
  <2>1. PICK out, out2 : out = h[k] /\ out2 = h[k + 1]
    OBVIOUS
  <2>2. /\ k \in Nat /\ s[k + 1] \in U /\ Category(s[k + 1]) \in N
        /\ out \in Seq(Cats(N, U)) /\ SortedUpTo(out, s, k)
    BY <1>1, <1>2, <1>5, <2>1
  <2>3. CASE Fitting(s[k + 1]) = {}
    <3>1. out2 = out
      BY <1>3, <2>1, <2>3
    <3>2. \A name : Of(s, k + 1, name) = Of(s, k, name)
      BY <2>2, <2>3, OfNext
    <3>3. \A p \in 1 .. k + 1 : Fitting(s[p]) # {} => p \in 1 .. k
      BY <2>2, <2>3
    <3>4. SortedUpTo(out, s, k + 1)
      BY <2>2, <3>2, <3>3 DEF SortedUpTo
    <3> QED
      BY <2>1, <2>2, <3>1, <3>4
  <2>4. CASE Fitting(s[k + 1]) # {}
    <3>1. out2 = Enter(out, Category(s[k + 1]), s[k + 1])
      BY <1>3, <2>1, <2>4
    <3>2. SortedUpTo(out2, s, k + 1)
      BY <2>2, <2>4, <3>1, EnterSorts
    <3>3. out2 \in Seq(Cats(N, U))
      BY <2>2, <3>1, EnterIs
    <3> QED
      BY <2>1, <3>2, <3>3
  <2> QED
    BY <2>3, <2>4
<1>6. Good(n)
  <2> DEFINE good == {k \in 0 .. n : Good(k)}
  <2> HIDE DEF Good
  <2>1. 0 \in good /\ \A k \in 0 .. n - 1 : k \in good => k + 1 \in good
    BY <1>1, <1>4, <1>5
  <2>2. n \in good
    <3> HIDE DEF good
    <3>1. good \in SUBSET (0 .. n)
      BY DEF good
    <3> QED
      BY <1>1, <2>1, <3>1, CountsUp
  <2> QED
    BY <2>2
<1> QED
  BY <1>3, <1>6, LenProperties

\* The categories of a page's links are what they should be.
LEMMA SortedLinks ==
    ASSUME NEW links \in Links
    PROVE  Sorts(links, ClassifyUrls(Apply(links, Middlewares)))
<1> DEFINE U == ToSet(links)
<1>1. links \in Seq(U)
  BY LinkAssumption
<1>2. PICK s \in Seq(U) : s = Apply(links, Middlewares) /\ InOrder(s, links, Surviving(links))
  BY <1>1, ApplyIs
<1>3. PICK out : /\ out = ClassifyUrls(s) /\ SortedUpTo(out, s, Len(s))
                 /\ DOMAIN out = 1 .. Len(out) /\ Len(out) \in Nat
  BY ClassifyIs
<1>4. PICK ix : TakenAt(ix, s, links, Surviving(links))
  BY <1>2, HasPlaces
<1> DEFINE n == Len(s)
           m == Len(out)
<1>5. /\ n \in Nat /\ DOMAIN s = 1 .. n
      /\ DOMAIN links = 1 .. Len(links) /\ Surviving(links) \subseteq DOMAIN links
  BY <1>1, LenProperties DEF Surviving
<1>6. /\ \A j \in 1 .. n : ix[j] \in Surviving(links) /\ s[j] = links[ix[j]]
      /\ \A p \in Surviving(links) : \E j \in 1 .. n : ix[j] = p
      /\ \A j, k \in 1 .. n : j < k => ix[j] < ix[k]
  BY <1>4, <1>5 DEF TakenAt
<1>7. ASSUME NEW name
      PROVE  /\ Belonging(links, name) = Through(ix, Of(s, n, name))
             /\ Of(s, n, name) \in SUBSET (1 .. n)
             /\ Belonging(links, name) \in SUBSET Nat
  <2>1. \A p \in Surviving(links) :
           p \in Belonging(links, name) <=>
              Fitting(links[p]) # {} /\ Category(links[p]) = name
    BY CategoryIs DEF Belonging
  <2>2. \A j \in 1 .. n : j \in Of(s, n, name) <=> ix[j] \in Belonging(links, name)
    BY <1>6, <2>1 DEF Of
  <2>3. Belonging(links, name) \subseteq Surviving(links)
    BY DEF Belonging
  <2>4. Of(s, n, name) \subseteq 1 .. n
    BY DEF Of
  <2>5. Surviving(links) \subseteq Nat
    BY <1>5
  <2> QED
    BY <1>6, <2>2, <2>3, <2>4, <2>5 DEF Through
<1>8. /\ \A p \in 1 .. n : Fitting(s[p]) # {} =>
            \E i \in 1 .. m : out[i].name = Category(s[p])
      /\ \A i \in 1 .. m : /\ Of(s, n, out[i].name) # {}
                           /\ InOrder(out[i].urls, s, Of(s, n, out[i].name))
      /\ \A i, j \in 1 .. m : i < j =>
            \E p \in Of(s, n, out[i].name) : \A q \in Of(s, n, out[j].name) : p < q
  BY <1>3 DEF SortedUpTo
<1>9. DOMAIN out = 1 .. m
  BY <1>3
<1>10. ASSUME NEW p \in Surviving(links), RulesFor(links[p]) # {}
       PROVE  \E i \in DOMAIN out : p \in Belonging(links, out[i].name)
  <2>1. PICK j \in 1 .. n : ix[j] = p
    BY <1>6
  <2>2. Fitting(s[j]) # {}
    BY <1>6, <1>10, <2>1, CategoryIs
  <2>3. PICK i \in 1 .. m : out[i].name = Category(s[j])
    BY <1>8, <2>2
  <2>4. j \in Of(s, n, out[i].name)
    BY <2>2, <2>3 DEF Of
  <2> QED
    BY <1>7, <1>9, <2>1, <2>4 DEF Through
<1>11. ASSUME NEW i \in DOMAIN out
       PROVE  /\ Belonging(links, out[i].name) # {}
              /\ InOrder(out[i].urls, links, Belonging(links, out[i].name))
  <2>1. PICK name, Q, t : name = out[i].name /\ Q = Of(s, n, name) /\ t = out[i].urls
    OBVIOUS
  <2>2. Q # {} /\ InOrder(t, s, Q) /\ Q \in SUBSET DOMAIN s
    BY <1>5, <1>7, <1>8, <1>9, <2>1
  <2>3. InOrder(t, links, Through(ix, Q))
    BY <1>4, <2>2, InOrderVia
  <2> QED
    <3>1. Belonging(links, name) = Through(ix, Q)
      BY <1>7, <2>1
    <3>2. Through(ix, Q) # {}
      BY <2>2 DEF Through
    <3> QED
      BY <2>1, <2>3, <3>1, <3>2
<1>12. ASSUME NEW i \in DOMAIN out, i > 1
       PROVE  Min(Belonging(links, out[i - 1].name)) < Min(Belonging(links, out[i].name))
  <2>1. PICK a, b : a = out[i - 1].name /\ b = out[i].name
    OBVIOUS
  <2>2. i - 1 \in 1 .. m /\ i \in 1 .. m /\ i - 1 < i
    BY <1>3, <1>9, <1>12
  <2>3. PICK p \in Of(s, n, a) : \A q \in Of(s, n, b) : p < q
    BY <1>8, <2>1, <2>2
  <2>4. PICK q \in Of(s, n, b) : ix[q] = Min(Belonging(links, b))
    <3>1. Belonging(links, b) # {} /\ Belonging(links, b) \in SUBSET Nat
      BY <1>7, <1>11, <2>1
    <3>2. Min(Belonging(links, b)) \in Belonging(links, b)
      BY <3>1, MinIs
    <3> QED
      BY <1>7, <3>2 DEF Through
  <2>5. ix[p] \in Belonging(links, a) /\ Belonging(links, a) \in SUBSET Nat
    BY <1>7 DEF Through
  <2>6. Min(Belonging(links, a)) \in Nat /\ Min(Belonging(links, a)) <= ix[p]
    BY <2>5, MinIs
  <2>7. ix[p] < ix[q] /\ ix[p] \in Nat /\ ix[q] \in Nat
    <3>1. p \in 1 .. n /\ q \in 1 .. n /\ p < q
      BY <1>7, <2>3
    <3> QED
      BY <1>5, <1>6, <3>1
  <2> QED
    BY <2>1, <2>4, <2>6, <2>7
<1>13. Sorts(links, out)
  BY <1>10, <1>11, <1>12 DEF Sorts
<1> QED
  BY <1>2, <1>3, <1>13

\* Before it is sorted, a page has no links.
LEMMA NothingSorted == Sorts(<<>>, <<>>)
<1>1. DOMAIN <<>> = {}
  OBVIOUS
<1>2. Surviving(<<>>) = {}
  BY <1>1 DEF Surviving
<1> QED
  BY <1>1, <1>2 DEF Sorts

\* Sorting the links of a page sorts them.
LEMMA LinkStep == ASSUME LinksSorted, [LinkNext]_linkVars PROVE LinksSorted'
<1>1. CASE UNCHANGED linkVars
  BY <1>1 DEF LinksSorted, linkVars
<1>2. CASE SortLinks
  <2>1. PICK links \in Links : found' = links /\ sorted' = ClassifyUrls(Apply(links, Middlewares))
    BY <1>2 DEF SortLinks
  <2> QED
    BY <2>1, SortedLinks DEF LinksSorted
<1> QED
  BY <1>1, <1>2 DEF LinkNext

\* Every link of a page that survives the chain and fits a rule is in the category of the
\* first such rule, nothing else is, and everything is in the order of the page.
THEOREM LinksAreSorted == PartsSpec => []LinksSorted
<1>1. PartsInit => LinksSorted
  BY NothingSorted DEF PartsInit, LinkInit, LinksSorted
<1>2. LinksSorted /\ [PartsNext]_partVars => LinksSorted'
  BY LinkStep DEF PartsNext, partVars, linkVars
<1> QED
  BY <1>1, <1>2, PTL DEF PartsSpec

-----------------------------------------------------------------------------
(* Proofs about the in-memory queue: first its list.                       *)

\* What a new entry does to a list without repetitions.
LEMMA Listed ==
    ASSUME NEW S, NEW s \in Seq(S), NEW e \in S, IsInjective(s), e \notin ToSet(s)
    PROVE  /\ Append(s, e) \in Seq(S) /\ IsInjective(Append(s, e))
           /\ ToSet(Append(s, e)) = ToSet(s) \cup {e}
<1>1. /\ Append(s, e) \in Seq(S) /\ Len(Append(s, e)) = Len(s) + 1
      /\ \A i \in 1 .. Len(s) : Append(s, e)[i] = s[i]
      /\ Append(s, e)[Len(s) + 1] = e
  BY AppendProperties
<1>2. /\ Len(s) \in Nat /\ DOMAIN s = 1 .. Len(s)
      /\ DOMAIN Append(s, e) = 1 .. Len(s) + 1
  BY <1>1, LenProperties
<1>3. \A i \in 1 .. Len(s) + 1 : i \in 1 .. Len(s) \/ i = Len(s) + 1
  BY <1>2
<1>4. ToSet(Append(s, e)) \subseteq ToSet(s) \cup {e}
  BY <1>1, <1>2, <1>3 DEF ToSet
<1>5. /\ ToSet(s) \subseteq ToSet(Append(s, e)) /\ e \in ToSet(Append(s, e))
  <2>1. 1 .. Len(s) \subseteq 1 .. Len(s) + 1 /\ Len(s) + 1 \in 1 .. Len(s) + 1
    BY <1>2
  <2> QED
    BY <1>1, <1>2, <2>1 DEF ToSet
<1>6. IsInjective(Append(s, e))
  BY <1>1, <1>2, <1>3 DEF IsInjective, ToSet
<1> QED
  BY <1>1, <1>4, <1>5, <1>6

\* What is left of it without its first entry.
LEMMA Unlisted ==
    ASSUME NEW S, NEW s \in Seq(S), s # <<>>, IsInjective(s)
    PROVE  /\ Head(s) \in ToSet(s) /\ Head(s) \in S
           /\ Tail(s) \in Seq(S) /\ IsInjective(Tail(s))
           /\ ToSet(Tail(s)) = ToSet(s) \ {Head(s)}
<1>1. /\ Head(s) \in S /\ Tail(s) \in Seq(S) /\ Len(Tail(s)) = Len(s) - 1
      /\ \A i \in 1 .. Len(Tail(s)) : Tail(s)[i] = s[i + 1]
  BY HeadTailProperties
<1>2. /\ Len(s) \in Nat \ {0} /\ DOMAIN s = 1 .. Len(s)
      /\ DOMAIN Tail(s) = 1 .. Len(s) - 1 /\ Head(s) = s[1] /\ 1 \in DOMAIN s
  BY <1>1, EmptySeq, LenProperties
<1>3. \A i \in 1 .. Len(s) - 1 : i + 1 \in 1 .. Len(s) /\ i + 1 # 1
  BY <1>2
<1>4. \A i \in 1 .. Len(s) : i = 1 \/ (i - 1 \in 1 .. Len(s) - 1 /\ (i - 1) + 1 = i)
  BY <1>2
<1>5. \A i \in DOMAIN Tail(s) : Tail(s)[i] = s[i + 1] /\ i + 1 \in DOMAIN s /\ i + 1 # 1
  BY <1>1, <1>2, <1>3
<1>6. \A i \in DOMAIN s : i = 1 \/ (i - 1 \in DOMAIN Tail(s) /\ Tail(s)[i - 1] = s[i])
  BY <1>1, <1>2, <1>4
<1>7. ToSet(Tail(s)) \subseteq ToSet(s) \ {Head(s)}
  BY <1>2, <1>5 DEF ToSet, IsInjective
<1>8. ToSet(s) \ {Head(s)} \subseteq ToSet(Tail(s))
  BY <1>2, <1>6 DEF ToSet
<1>9. IsInjective(Tail(s))
  <2> SUFFICES ASSUME NEW i \in DOMAIN Tail(s), NEW j \in DOMAIN Tail(s),
                      Tail(s)[i] = Tail(s)[j]
               PROVE  i = j
    BY DEF IsInjective
  <2>1. i + 1 = j + 1
    BY <1>5 DEF IsInjective
  <2> QED
    BY <1>2, <2>1
<1> QED
  BY <1>1, <1>2, <1>7, <1>8, <1>9 DEF ToSet

\* What it is with a set drained into it, in any order.
LEMMA DrainedInto ==
    ASSUME NEW S, IsFiniteSet(S), NEW T \in SUBSET S, NEW s \in Seq(S), IsInjective(s),
           ToSet(s) \cap T = {}, NEW d \in SetToSeqs(T)
    PROVE  /\ s \o d \in Seq(S) /\ IsInjective(s \o d)
           /\ ToSet(s \o d) = ToSet(s) \cup T
<1> DEFINE n == Cardinality(T)
<1>1. IsFiniteSet(T) /\ n \in Nat
  BY FS_Subset, FS_CardinalityType
<1>2. d \in [1 .. n -> T] /\ \A i, j \in 1 .. n : i # j => d[i] # d[j]
  BY DEF SetToSeqs
<1>3. Cardinality(1 .. n) = n
  BY <1>1, FS_Interval
<1>4. d \in Injection(1 .. n, T)
  BY <1>2 DEF Injection, IsInjective
<1>5. d \in Surjection(1 .. n, T)
  BY <1>1, <1>3, <1>4, FS_Injection
<1>6. \A x \in T : \E i \in 1 .. n : d[i] = x
  BY <1>5 DEF Surjection
<1>7. d \in Seq(S) /\ Len(d) = n
  BY <1>1, <1>2, LenProperties, SeqDef
<1>8. /\ s \o d \in Seq(S) /\ Len(s \o d) = Len(s) + n /\ Len(s) \in Nat
      /\ \A i \in 1 .. Len(s) + n :
            (s \o d)[i] = IF i <= Len(s) THEN s[i] ELSE d[i - Len(s)]
  <2>1. Len(s) \in Nat
    BY LenProperties
  <2>2. /\ s \o d \in Seq(S) /\ Len(s \o d) = Len(s) + Len(d)
        /\ \A i \in 1 .. Len(s) + Len(d) :
              (s \o d)[i] = IF i <= Len(s) THEN s[i] ELSE d[i - Len(s)]
    BY <1>7, ConcatProperties
  <2> QED
    BY <1>7, <2>1, <2>2
<1>9. DOMAIN (s \o d) = 1 .. Len(s) + n /\ DOMAIN s = 1 .. Len(s)
  BY <1>8, LenProperties
<1> HIDE DEF n
<1>10. \A i \in 1 .. Len(s) + n :
          \/ i \in 1 .. Len(s) /\ (s \o d)[i] = s[i]
          \/ i > Len(s) /\ i - Len(s) \in 1 .. n /\ (s \o d)[i] = d[i - Len(s)]
  BY <1>1, <1>8
<1>11. /\ \A i \in 1 .. Len(s) : i \in 1 .. Len(s) + n /\ (s \o d)[i] = s[i]
       /\ \A i \in 1 .. n : i + Len(s) \in 1 .. Len(s) + n /\ (s \o d)[i + Len(s)] = d[i]
  <2>1. \A i \in 1 .. Len(s) : i \in 1 .. Len(s) + n /\ i <= Len(s)
    BY <1>1, <1>8
  <2>2. \A i \in 1 .. n : /\ i + Len(s) \in 1 .. Len(s) + n /\ ~(i + Len(s) <= Len(s))
                          /\ (i + Len(s)) - Len(s) = i
    BY <1>1, <1>8
  <2> QED
    BY <1>8, <2>1, <2>2
<1>12. ToSet(s \o d) \subseteq ToSet(s) \cup T
  <2>1. \A i \in 1 .. Len(s) : s[i] \in ToSet(s)
    BY <1>9 DEF ToSet
  <2>2. \A i \in 1 .. n : d[i] \in T
    BY <1>2
  <2>3. \A i \in 1 .. Len(s) + n : (s \o d)[i] \in ToSet(s) \cup T
    BY <1>10, <2>1, <2>2
  <2>4. \A x \in ToSet(s \o d) : \E i \in 1 .. Len(s) + n : x = (s \o d)[i]
    BY <1>9 DEF ToSet
  <2> QED
    BY <2>3, <2>4
<1>13. ToSet(s) \subseteq ToSet(s \o d)
  BY <1>9, <1>11 DEF ToSet
<1>14. T \subseteq ToSet(s \o d)
  BY <1>6, <1>9, <1>11 DEF ToSet
<1>15. IsInjective(s \o d)
  <2> SUFFICES ASSUME NEW i \in 1 .. Len(s) + n, NEW j \in 1 .. Len(s) + n,
                      (s \o d)[i] = (s \o d)[j]
               PROVE  i = j
    BY <1>9 DEF IsInjective
  <2>1. CASE i \in 1 .. Len(s) /\ j \in 1 .. Len(s)
    BY <1>9, <1>11, <2>1 DEF IsInjective
  <2>2. CASE i > Len(s) /\ j > Len(s)
    <3>1. i - Len(s) \in 1 .. n /\ j - Len(s) \in 1 .. n
          /\ d[i - Len(s)] = d[j - Len(s)]
      BY <1>8, <1>10, <2>2
    <3>2. i - Len(s) = j - Len(s)
      BY <1>2, <3>1
    <3> QED
      BY <1>1, <1>8, <3>2
  <2>3. ASSUME NEW a \in 1 .. Len(s) + n, NEW b \in 1 .. Len(s) + n,
               a \in 1 .. Len(s), b > Len(s), (s \o d)[a] = (s \o d)[b]
        PROVE  FALSE
    <3>1. (s \o d)[a] \in ToSet(s)
      BY <1>9, <1>11, <2>3 DEF ToSet
    <3>2. (s \o d)[b] \in T
      BY <1>2, <1>8, <1>10, <2>3
    <3> QED
      BY <2>3, <3>1, <3>2
  <2> QED
    BY <1>8, <2>1, <2>2, <2>3
<1> QED
  BY <1>8, <1>12, <1>13, <1>14, <1>15

-----------------------------------------------------------------------------
(* Its records.                                                            *)

\* A record is told apart from none.
LEMMA RecordOrNone == NoRecord \notin Record
BY DEF Record, NoRecord

\* What the owner of a task makes of its copy.
LEMMA Transitions ==
    /\ \A t \in Tasks :
          /\ NewTask(t) \in Record /\ NewTask(t).id = t /\ NewTask(t).retries = 0
          /\ NewTask(t).status = "Queued" /\ ~NewTask(t).error
    /\ \A r \in Record :
          /\ r.id \in Tasks /\ r.retries \in 0 .. MaxRetries + 1
          /\ SetInProgress(r) \in Record /\ SetInProgress(r).id = r.id
          /\ SetInProgress(r).retries = r.retries /\ SetInProgress(r).error = r.error
          /\ SetInProgress(r).status = "InProgress"
          /\ SetSucceed(r) \in Record /\ SetSucceed(r).id = r.id
          /\ r.retries <= MaxRetries =>
                /\ SetRetry(r) \in Record /\ SetRetry(r).id = r.id
                /\ SetRetry(r).retries = r.retries + 1 /\ SetRetry(r).error
                /\ SetRetry(r).status = "Failed"
    /\ \A r \in Record :
          /\ SetDlq(r) \in Record /\ SetDlq(r).id = r.id
          /\ SetDlq(r).retries = r.retries
          /\ SetDlq(r).status = "DeadLetter" /\ SetDlq(r).finished
<1>1. \A t \in Tasks :
         /\ NewTask(t) \in Record /\ NewTask(t).id = t /\ NewTask(t).retries = 0
         /\ NewTask(t).status = "Queued" /\ ~NewTask(t).error
  BY MemoryAssumption DEF NewTask, Record, Statuses
<1> SUFFICES ASSUME NEW r \in Record
             PROVE  /\ r.id \in Tasks /\ r.retries \in 0 .. MaxRetries + 1
                    /\ SetInProgress(r) \in Record /\ SetInProgress(r).id = r.id
                    /\ SetInProgress(r).retries = r.retries
                    /\ SetInProgress(r).error = r.error
                    /\ SetInProgress(r).status = "InProgress"
                    /\ SetSucceed(r) \in Record /\ SetSucceed(r).id = r.id
                    /\ r.retries <= MaxRetries =>
                          /\ SetRetry(r) \in Record /\ SetRetry(r).id = r.id
                          /\ SetRetry(r).retries = r.retries + 1 /\ SetRetry(r).error
                          /\ SetRetry(r).status = "Failed"
                    /\ SetDlq(r) \in Record /\ SetDlq(r).id = r.id
                    /\ SetDlq(r).retries = r.retries
                    /\ SetDlq(r).status = "DeadLetter" /\ SetDlq(r).finished
  BY <1>1
<1> USE MemoryAssumption DEF Record, Statuses
<1>2. r.id \in Tasks /\ r.retries \in 0 .. MaxRetries + 1
  OBVIOUS
<1>3. /\ SetInProgress(r) \in Record /\ SetInProgress(r).id = r.id
      /\ SetInProgress(r).retries = r.retries /\ SetInProgress(r).error = r.error
      /\ SetInProgress(r).status = "InProgress"
  BY DEF SetInProgress
<1>4. SetSucceed(r) \in Record /\ SetSucceed(r).id = r.id
  BY DEF SetSucceed
<1>5. ASSUME r.retries <= MaxRetries
      PROVE  /\ SetRetry(r) \in Record /\ SetRetry(r).id = r.id
             /\ SetRetry(r).retries = r.retries + 1 /\ SetRetry(r).error
             /\ SetRetry(r).status = "Failed"
  <2>1. r.retries + 1 \in 0 .. MaxRetries + 1
    BY <1>5
  <2> QED
    BY <2>1 DEF SetRetry
<1>6. /\ SetDlq(r) \in Record /\ SetDlq(r).id = r.id /\ SetDlq(r).retries = r.retries
      /\ SetDlq(r).status = "DeadLetter" /\ SetDlq(r).finished
  BY DEF SetDlq
<1> QED
  BY <1>2, <1>3, <1>4, <1>5, <1>6

\* The ids of the stored tasks, and of a store in which one row is written.
LEMMA IdsOfRows ==
    ASSUME NEW map \in Rows
    PROVE  \A t \in Tasks : /\ t \in Ids(map) <=> map[t] # NoRecord
                            /\ t \in Ids(map) <=> map[t] \in Record
BY RecordOrNone DEF Rows, Ids

-----------------------------------------------------------------------------
(* What a call that returns leaves behind.                                 *)

\* The tasks that are in some store.
InStore == Ids(hashmap) \cup Ids(dlq) \cup acked

\* The call of a client ends, and it goes on somewhere with a task.
Returns(c, place, task) == call' = [call EXCEPT ![c] = NoCall] /\ Moves(c, place, task)

\* The client is where the operation puts it, and no longer in a call; the others are
\* where they were.
LEMMA CallReturns ==
    ASSUME MemoryInv, NEW c \in Clients, NEW place \in {"idle", "popped", "running"},
           NEW task \in Record \cup {NoRecord},
           Returns(c, place, task)
    PROVE  /\ call' \in [Clients -> {NoCall} \cup
                  [name : CallNames, task : Record \cup {NoRecord}, taken : Nat]]
           /\ at' \in [Clients -> {"idle", "popped", "running"}]
           /\ copy' \in [Clients -> Record \cup {NoRecord}]
           /\ at'[c] = place /\ copy'[c] = task /\ call'[c] = NoCall
           /\ \A d \in Clients \ {c} :
                 at'[d] = at[d] /\ copy'[d] = copy[d] /\ call'[d] = call[d]
           /\ \A d \in Clients : Busy(d)' =>
                 d # c /\ Busy(d) /\ call'[d].taken < Len(Order[call'[d].name])
BY DEF MemoryInv, MemoryTypeOK, Returns, Moves, Busy

\* The calls of the others still fit, if no task entered a store but one this client
\* has pushed anew.
LEMMA OthersFit ==
    ASSUME MemoryInv, NEW c \in Clients, NEW place \in {"idle", "popped", "running"},
           NEW task \in Record \cup {NoRecord},
           Returns(c, place, task),
           Recovering => place = "idle",
           \A t \in InStore' : t \in InStore \/ (PushesNew(c) /\ t = call[c].task.id)
    PROVE  CallsFit' /\ RecoveryAlone'
<1>1. /\ at'[c] = place /\ copy'[c] = task /\ call'[c] = NoCall
      /\ \A d \in Clients \ {c} :
            at'[d] = at[d] /\ copy'[d] = copy[d] /\ call'[d] = call[d]
      /\ \A d \in Clients : Busy(d)' => d # c /\ Busy(d)
  BY CallReturns
<1>2. CallsFit /\ RecoveryAlone
  BY DEF MemoryInv
<1>3. \A d \in Clients : PushesNew(d)' => d # c /\ PushesNew(d)
  BY <1>1 DEF PushesNew, Busy
<1>4. ASSUME NEW d \in Clients, PushesNew(d)'
      PROVE  \E t \in Tasks : call'[d].task = NewTask(t) /\ t \notin InStore'
  <2>1. d # c /\ PushesNew(d) /\ call'[d] = call[d]
    BY <1>1, <1>3, <1>4
  <2>2. PICK t \in Tasks : call[d].task = NewTask(t) /\ t \notin InStore
    BY <1>2, <2>1 DEF CallsFit, InStore
  <2>3. call[d].task.id = t
    BY <2>2, Transitions
  <2>4. PushesNew(c) => call[c].task.id # t
    BY <1>2, <2>1, <2>3 DEF CallsFit
  <2> QED
    BY <2>1, <2>2, <2>4
<1>5. ASSUME NEW d \in Clients, Busy(d)'
      PROVE  d # c /\ Busy(d) /\ at'[d] = at[d] /\ copy'[d] = copy[d]
             /\ call'[d] = call[d]
  BY <1>1, <1>5
<1>6. CallsFit'
  <2>1. \A d \in Clients : Busy(d)' =>
        \/ at'[d] = "idle" /\ call'[d].name \in {"push", "pop", "recover", "fmt"}
        \/ at'[d] = "popped" /\ call'[d].name = "set"
           /\ call'[d].task = SetInProgress(copy'[d])
        \/ /\ at'[d] = "running"
           /\ \/ call'[d].name = "ack" /\ call'[d].task = SetSucceed(copy'[d])
              \/ call'[d].name = "push" /\ copy'[d].retries < MaxRetries
                 /\ call'[d].task = SetRetry(copy'[d])
              \/ call'[d].name = "nack" /\ copy'[d].retries = MaxRetries
                 /\ call'[d].task = SetDlq(SetRetry(copy'[d]))
    BY <1>2, <1>5 DEF CallsFit
  <2>2. \A d, e \in Clients :
          PushesNew(d)' /\ PushesNew(e)' /\ call'[d].task.id = call'[e].task.id => d = e
    BY <1>1, <1>2, <1>3 DEF CallsFit
  <2> QED
    BY <1>4, <2>1, <2>2 DEF CallsFit, InStore
<1>7. RecoveryAlone'
  <2>1. Recovering' => Recovering
    BY <1>5 DEF Recovering
  <2> QED
    BY <1>1, <1>2, <1>5, <2>1 DEF RecoveryAlone
<1> QED
  BY <1>6, <1>7

\* The copies of the others are still held, if their rows and leases stay.
LEMMA OthersHeld ==
    ASSUME MemoryInv, NEW c \in Clients, NEW place \in {"idle", "popped", "running"},
           NEW task \in Record \cup {NoRecord},
           Returns(c, place, task),
           \A d \in Clients \ {c} : at[d] # "idle" =>
               /\ copy[d].id \in inflight'
               /\ hashmap'[copy[d].id] = hashmap[copy[d].id]
               /\ place # "idle" => copy[d].id # task.id,
           place # "idle" =>
               task \in Record /\ task.id \in inflight' /\ hashmap'[task.id] = task
    PROVE  CopiesHeld'
<1>1. /\ at'[c] = place /\ copy'[c] = task
      /\ \A d \in Clients \ {c} : at'[d] = at[d] /\ copy'[d] = copy[d]
  BY CallReturns
<1> QED
  BY <1>1 DEF MemoryInv, CopiesHeld

\* The types of what a returned call leaves.
LEMMA TypesAfter ==
    ASSUME MemoryInv, NEW c \in Clients, NEW place \in {"idle", "popped", "running"},
           NEW task \in Record \cup {NoRecord}, Returns(c, place, task),
           list' \in Seq(Tasks), hashmap' \in Rows, dlq' \in Rows,
           inflight' \subseteq Tasks, acked' \subseteq Tasks
    PROVE  MemoryTypeOK'
BY CallReturns DEF MemoryTypeOK

-----------------------------------------------------------------------------
(* The operations, one after the other: each preserves the invariant and   *)
(* is a step of the contract.                                              *)

\* A step of the contract, or one that it does not see.
ContractStep == Contract!LifecycleNext \/ UNCHANGED Contract!queueVars

\* The contract's rows are the retries of the records.
LEMMA RetriesWritten ==
    ASSUME hashmap \in Rows, NEW t \in Tasks
    PROVE  /\ \A u \in Tasks : Retries[u] = IF u \in Ids(hashmap) THEN hashmap[u].retries
                                                                  ELSE -1
           /\ Contract!Stored = Ids(hashmap)
           /\ \A r \in Record : hashmap' = [hashmap EXCEPT ![t] = r] =>
                 Retries' = [Retries EXCEPT ![t] = r.retries]
           /\ hashmap' = [hashmap EXCEPT ![t] = NoRecord] =>
                 Retries' = [Retries EXCEPT ![t] = -1]
           /\ hashmap' = hashmap => Retries' = Retries
<1>1. \A u \in Tasks : Retries[u] = IF u \in Ids(hashmap) THEN hashmap[u].retries ELSE -1
  BY DEF Retries
<1>2. Contract!Stored = Ids(hashmap)
  <2>1. \A u \in Ids(hashmap) : hashmap[u] \in Record /\ u \in Tasks
    BY IdsOfRows DEF Ids
  <2>2. \A u \in Ids(hashmap) : hashmap[u].retries # -1
    BY <2>1, Transitions, MemoryAssumption
  <2> QED
    BY <1>1, <2>2 DEF Contract!Stored, Contract!NoRow, Ids
<1>3. ASSUME NEW r \in Record, hashmap' = [hashmap EXCEPT ![t] = r]
      PROVE  Retries' = [Retries EXCEPT ![t] = r.retries]
  <2>1. /\ Ids(hashmap)' = Ids(hashmap) \cup {t} /\ hashmap'[t] = r
        /\ \A u \in Tasks \ {t} : hashmap'[u] = hashmap[u]
    BY <1>3, RecordOrNone DEF Ids, Rows
  <2>2. Retries' = [u \in Tasks |-> IF u \in Ids(hashmap)' THEN hashmap'[u].retries ELSE -1]
    BY DEF Retries
  <2>3. \A u \in Tasks : (IF u \in Ids(hashmap)' THEN hashmap'[u].retries ELSE -1)
                            = [Retries EXCEPT ![t] = r.retries][u]
    BY <1>1, <2>1 DEF Retries
  <2> QED
    BY <2>2, <2>3 DEF Retries
<1>4. ASSUME hashmap' = [hashmap EXCEPT ![t] = NoRecord]
      PROVE  Retries' = [Retries EXCEPT ![t] = -1]
  <2>1. /\ Ids(hashmap)' = Ids(hashmap) \ {t}
        /\ \A u \in Tasks \ {t} : hashmap'[u] = hashmap[u]
    BY <1>4, RecordOrNone DEF Ids, Rows
  <2>2. Retries' = [u \in Tasks |-> IF u \in Ids(hashmap)' THEN hashmap'[u].retries ELSE -1]
    BY DEF Retries
  <2>3. \A u \in Tasks : (IF u \in Ids(hashmap)' THEN hashmap'[u].retries ELSE -1)
                            = [Retries EXCEPT ![t] = -1][u]
    BY <1>1, <2>1 DEF Retries
  <2> QED
    BY <2>2, <2>3 DEF Retries
<1>5. hashmap' = hashmap => Retries' = Retries
  BY DEF Retries, Ids
<1> QED
  BY <1>1, <1>2, <1>3, <1>4, <1>5

\* What a push writes, of a new task or of one in flight.
LEMMA PushWrites ==
    ASSUME MemoryInv, NEW c \in Clients, Push(c), NEW t \in Tasks,
           call[c].task \in Record, call[c].task.id = t,
           call[c].task.retries <= MaxRetries,
           call[c].task.status \in {"Queued", "InProgress", "Failed"},
           call[c].task.error <=> call[c].task.retries > 0,
           t \in inflight \/ t \notin InStore
    PROVE  /\ hashmap' \in Rows /\ Ids(hashmap)' = Ids(hashmap) \cup {t}
           /\ hashmap'[t] = call[c].task
           /\ \A u \in Tasks \ {t} : hashmap'[u] = hashmap[u]
           /\ list' \in Seq(Tasks) /\ inflight' = inflight \ {t}
           /\ ToSet(list)' = ToSet(list) \cup {t}
           /\ UNCHANGED <<dlq, acked>> /\ Ids(dlq)' = Ids(dlq)
           /\ Retries' = [Retries EXCEPT ![t] = call[c].task.retries]
           /\ TasksApart' /\ RowsTell'
<1>1. /\ hashmap' = [hashmap EXCEPT ![t] = call[c].task]
      /\ list' = Append(list, t) /\ inflight' = inflight \ {t}
      /\ UNCHANGED <<dlq, acked>>
  BY DEF Push
<1>2. /\ hashmap \in Rows /\ list \in Seq(Tasks)
      /\ IsInjective(list) /\ ToSet(list) \cup inflight = Ids(hashmap)
      /\ ToSet(list) \cap inflight = {} /\ Ids(dlq) \cap acked = {}
      /\ Ids(hashmap) \cap (Ids(dlq) \cup acked) = {}
  BY DEF MemoryInv, MemoryTypeOK, TasksApart
<1>3. t \notin ToSet(list)
  BY <1>2 DEF InStore
<1>4. list' \in Seq(Tasks) /\ IsInjective(list') /\ ToSet(list') = ToSet(list) \cup {t}
  BY <1>1, <1>2, <1>3, Listed
<1>5. Ids(dlq)' = Ids(dlq)
  BY <1>1 DEF Ids
<1>6. /\ hashmap' \in Rows /\ Ids(hashmap)' = Ids(hashmap) \cup {t}
      /\ hashmap'[t] = call[c].task
      /\ \A u \in Tasks \ {t} : hashmap'[u] = hashmap[u]
  BY <1>1, <1>2, RecordOrNone DEF Ids, Rows
<1>7. Retries' = [Retries EXCEPT ![t] = call[c].task.retries]
  BY <1>1, <1>2, RetriesWritten
<1>8. ToSet(list)' = ToSet(list') /\ IsInjective(list)' = IsInjective(list')
  BY DEF ToSet, IsInjective
<1>9. t \notin Ids(dlq) \cup acked
  BY <1>2 DEF InStore
<1>10. TasksApart'
  <2>1. IsInjective(list)' /\ ToSet(list)' = ToSet(list) \cup {t}
    BY <1>4, <1>8
  <2>2. /\ ToSet(list)' \cup inflight' = Ids(hashmap)'
        /\ ToSet(list)' \cap inflight' = {}
    BY <1>1, <1>2, <1>6, <2>1
  <2>3. /\ Ids(dlq)' \cap acked' = {}
        /\ Ids(hashmap)' \cap (Ids(dlq)' \cup acked') = {}
    BY <1>1, <1>2, <1>5, <1>6, <1>9
  <2> QED
    BY <2>1, <2>2, <2>3 DEF TasksApart
<1>11. RowsTell'
  <2>1. \A u \in Ids(hashmap)' : u = t \/ (u \in Ids(hashmap) /\ u \in Tasks \ {t})
    BY <1>6 DEF Ids
  <2>2. RowsTell
    BY DEF MemoryInv
  <2>3. \A u \in Ids(hashmap)' :
           /\ hashmap'[u].id = u /\ hashmap'[u].retries <= MaxRetries
           /\ hashmap'[u].status \in {"Queued", "InProgress", "Failed"}
           /\ hashmap'[u].error <=> hashmap'[u].retries > 0
    BY <1>6, <2>1, <2>2 DEF RowsTell
  <2> QED
    BY <1>1, <1>5, <2>2, <2>3 DEF RowsTell
<1> QED
  BY <1>1, <1>4, <1>5, <1>6, <1>7, <1>8, <1>10, <1>11

\* push, of a new task or of a retry.
LEMMA PushDone ==
    ASSUME MemoryInv, NEW c \in Clients, Busy(c), call[c].name = "push",
           Push(c), call' = [call EXCEPT ![c] = NoCall]
    PROVE  MemoryInv' /\ ContractStep
<1> DEFINE task == call[c].task
           t == task.id
<1>0. MemoryTypeOK /\ TasksApart /\ RowsTell /\ CopiesHeld /\ CallsFit
  BY DEF MemoryInv
<1>1. Returns(c, "idle", NoRecord)
  BY DEF Push, Returns
<1>2. \/ /\ at[c] = "idle" /\ PushesNew(c)
         /\ \E u \in Tasks : task = NewTask(u) /\ u \notin InStore
      \/ /\ at[c] = "running" /\ copy[c].retries < MaxRetries
         /\ task = SetRetry(copy[c])
  BY <1>0 DEF CallsFit, PushesNew, InStore
<1>3. ASSUME at[c] = "running"
      PROVE  /\ copy[c] \in Record /\ copy[c].id \in inflight
             /\ hashmap[copy[c].id] = copy[c] /\ copy[c].retries <= MaxRetries
  <2>1. copy[c] \in Record /\ copy[c].id \in inflight /\ hashmap[copy[c].id] = copy[c]
    BY <1>0, <1>3 DEF CopiesHeld
  <2>2. copy[c].id \in Ids(hashmap)
    BY <1>0, <2>1 DEF TasksApart
  <2> QED
    BY <1>0, <2>1, <2>2 DEF RowsTell
<1>4. /\ task \in Record /\ t \in Tasks /\ task.retries <= MaxRetries
      /\ task.status \in {"Queued", "InProgress", "Failed"}
      /\ task.error <=> task.retries > 0
      /\ t \in inflight \/ t \notin InStore
  <2>1. CASE \E u \in Tasks : task = NewTask(u) /\ u \notin InStore
    BY <2>1, Transitions, MemoryAssumption
  <2>2. CASE at[c] = "running" /\ copy[c].retries < MaxRetries /\ task = SetRetry(copy[c])
    <3>1. /\ copy[c].id \in Tasks /\ copy[c].retries \in 0 .. MaxRetries + 1
          /\ SetRetry(copy[c]) \in Record /\ SetRetry(copy[c]).id = copy[c].id
          /\ SetRetry(copy[c]).retries = copy[c].retries + 1
          /\ SetRetry(copy[c]).error /\ SetRetry(copy[c]).status = "Failed"
      BY <1>3, <2>2, Transitions
    <3> QED
      BY <1>3, <2>2, <3>1, MemoryAssumption
  <2> QED
    BY <1>2, <2>1, <2>2
<1>5. /\ hashmap' \in Rows /\ Ids(hashmap)' = Ids(hashmap) \cup {t}
      /\ hashmap'[t] = task
      /\ \A u \in Tasks \ {t} : hashmap'[u] = hashmap[u]
      /\ list' \in Seq(Tasks) /\ inflight' = inflight \ {t}
      /\ ToSet(list)' = ToSet(list) \cup {t}
      /\ UNCHANGED <<dlq, acked>> /\ Ids(dlq)' = Ids(dlq)
      /\ Retries' = [Retries EXCEPT ![t] = task.retries]
      /\ TasksApart' /\ RowsTell'
  BY <1>4, PushWrites
<1>6. MemoryTypeOK'
  BY <1>0, <1>1, <1>5, TypesAfter DEF MemoryTypeOK
<1>7. \A d \in Clients \ {c} : at[d] # "idle" => copy[d].id \in inflight \ {t}
  <2>1. CASE at[c] = "idle"
    BY <1>0, <1>2, <1>4, <2>1, Transitions DEF CopiesHeld, TasksApart, InStore
  <2>2. CASE at[c] = "running"
    <3>1. t = copy[c].id
      BY <1>2, <1>3, <2>2, Transitions
    <3> QED
      BY <1>0, <2>2, <3>1 DEF CopiesHeld
  <2> QED
    BY <1>2, <2>1, <2>2
<1>8. CopiesHeld'
  <2>1. \A d \in Clients \ {c} : at[d] # "idle" =>
           copy[d].id \in inflight' /\ hashmap'[copy[d].id] = hashmap[copy[d].id]
    BY <1>0, <1>5, <1>7 DEF MemoryTypeOK
  <2> QED
    BY <1>1, <2>1, OthersHeld
<1>9. CallsFit' /\ RecoveryAlone'
  <2>1. \A u \in InStore' : u \in InStore \/ (PushesNew(c) /\ u = call[c].task.id)
    <3>1. InStore' = InStore \cup {t}
      BY <1>5 DEF InStore
    <3>2. PushesNew(c) \/ t \in InStore
      BY <1>0, <1>2, <1>3, Transitions DEF TasksApart, InStore
    <3> QED
      BY <3>1, <3>2
  <2> QED
    BY <1>1, <2>1, OthersFit
<1>10. ContractStep
  <2>1. Contract!Push(t, task.retries)
    BY <1>5 DEF Contract!Push
  <2>2. CASE at[c] = "idle"
    <3>1. task.retries = 0 /\ t \notin InStore
      BY <1>2, <2>2, Transitions
    <3>2. Contract!Submit(t)
      BY <1>0, <2>1, <3>1, RetriesWritten, <1>4 DEF Contract!Submit, InStore, MemoryTypeOK
    <3> QED
      BY <1>4, <3>2 DEF ContractStep, Contract!LifecycleNext
  <2>3. CASE at[c] = "running"
    <3>1. /\ t = copy[c].id /\ task.retries = copy[c].retries + 1 /\ t \in inflight
          /\ copy[c].retries < MaxRetries /\ t \in Ids(hashmap)
      BY <1>0, <1>2, <1>3, <2>3, Transitions DEF TasksApart
    <3>2. Retries[t] = copy[c].retries
      BY <1>0, <1>3, <1>4, <2>3, <3>1, RetriesWritten DEF MemoryTypeOK
    <3>3. Contract!Retry(t)
      BY <2>1, <3>1, <3>2 DEF Contract!Retry
    <3> QED
      BY <1>4, <3>3 DEF ContractStep, Contract!LifecycleNext
  <2> QED
    BY <1>2, <2>2, <2>3
<1> QED
  BY <1>5, <1>6, <1>8, <1>9, <1>10 DEF MemoryInv

\* What the invariant says of the store depends on the store alone.
LEMMA StoreKept ==
    ASSUME MemoryInv, UNCHANGED storeVars
    PROVE  /\ TasksApart' /\ RowsTell' /\ InStore' = InStore
           /\ list' \in Seq(Tasks) /\ hashmap' \in Rows /\ dlq' \in Rows
           /\ inflight' \subseteq Tasks /\ acked' \subseteq Tasks
           /\ UNCHANGED Contract!queueVars
<1>1. UNCHANGED <<list, hashmap, inflight, dlq, acked>>
  BY DEF storeVars
<1>2. /\ Ids(hashmap)' = Ids(hashmap) /\ Ids(dlq)' = Ids(dlq)
      /\ ToSet(list)' = ToSet(list) /\ IsInjective(list)' = IsInjective(list)
  BY <1>1 DEF Ids, ToSet, IsInjective
<1>3. Retries' = Retries
  BY <1>1, <1>2 DEF Retries
<1> QED
  BY <1>1, <1>2, <1>3
  DEF MemoryInv, MemoryTypeOK, TasksApart, RowsTell, InStore, Contract!queueVars

\* A call that only looks.
LEMMA LookedAround ==
    ASSUME MemoryInv, NEW c \in Clients, UNCHANGED storeVars,
           Returns(c, "idle", NoRecord)
    PROVE  MemoryInv' /\ ContractStep
<1>1. /\ TasksApart' /\ RowsTell' /\ InStore' = InStore
      /\ list' \in Seq(Tasks) /\ hashmap' \in Rows /\ dlq' \in Rows
      /\ inflight' \subseteq Tasks /\ acked' \subseteq Tasks
      /\ UNCHANGED Contract!queueVars
  BY StoreKept
<1>2. MemoryTypeOK'
  BY <1>1, TypesAfter
<1>3. CallsFit' /\ RecoveryAlone'
  BY <1>1, OthersFit
<1>4. CopiesHeld'
  <2>1. \A d \in Clients \ {c} : at[d] # "idle" =>
           copy[d].id \in inflight' /\ hashmap'[copy[d].id] = hashmap[copy[d].id]
    BY DEF MemoryInv, CopiesHeld, storeVars
  <2> QED
    BY <2>1, OthersHeld
<1> QED
  BY <1>1, <1>2, <1>3, <1>4 DEF MemoryInv, ContractStep

\* pop: what is listed has its row, so a task is never reported missing.
LEMMA PopDone ==
    ASSUME MemoryInv, NEW c \in Clients, Busy(c), call[c].name = "pop",
           Pop(c), call' = [call EXCEPT ![c] = NoCall]
    PROVE  MemoryInv' /\ ContractStep
<1>0. MemoryTypeOK /\ TasksApart /\ RowsTell /\ CopiesHeld /\ CallsFit /\ RecoveryAlone
  BY DEF MemoryInv
<1>1. CASE list = <<>>
  <2>1. UNCHANGED storeVars /\ Returns(c, "idle", NoRecord)
    BY <1>1 DEF Pop, Returns, storeVars
  <2> QED
    BY <2>1, LookedAround
<1>2. CASE list # <<>>
  <2> DEFINE t == Head(list)
  <2>1. /\ t \in ToSet(list) /\ t \in Tasks
        /\ Tail(list) \in Seq(Tasks) /\ IsInjective(Tail(list))
        /\ ToSet(Tail(list)) = ToSet(list) \ {t}
    BY <1>0, <1>2, Unlisted DEF MemoryTypeOK, TasksApart
  <2>2. t \in Ids(hashmap) /\ t \notin inflight
    BY <1>0, <2>1 DEF TasksApart
  <2>3. hashmap[t] # NoRecord /\ hashmap[t] \in Record /\ hashmap[t].id = t
    BY <1>0, <2>1, <2>2, IdsOfRows DEF MemoryTypeOK, RowsTell
  <2>4. /\ list' = Tail(list) /\ inflight' = inflight \cup {t}
        /\ UNCHANGED <<hashmap, dlq, acked>> /\ Returns(c, "popped", hashmap[t])
    BY <1>2, <2>3 DEF Pop, Returns
  <2>5. PICK r \in Record : r = hashmap[t]
    BY <2>3
  <2>6. Returns(c, "popped", r) /\ r.id = t
    BY <2>3, <2>4, <2>5
  <2>7. /\ Ids(hashmap)' = Ids(hashmap) /\ Ids(dlq)' = Ids(dlq) /\ InStore' = InStore
        /\ ToSet(list)' = ToSet(list) \ {t} /\ IsInjective(list)'
    <3>1. ToSet(list)' = ToSet(list') /\ IsInjective(list)' = IsInjective(list')
      BY DEF ToSet, IsInjective
    <3> QED
      BY <2>1, <2>4, <3>1 DEF Ids, InStore
  <2> HIDE DEF t
  <2>8. MemoryTypeOK'
    <3>1. /\ list' \in Seq(Tasks) /\ hashmap' \in Rows /\ dlq' \in Rows
          /\ inflight' \subseteq Tasks /\ acked' \subseteq Tasks
      BY <1>0, <2>1, <2>4 DEF MemoryTypeOK
    <3> QED
      BY <2>6, <3>1, TypesAfter
  <2>9. TasksApart'
    BY <1>0, <2>1, <2>2, <2>4, <2>7 DEF TasksApart
  <2>10. RowsTell'
    BY <1>0, <2>4, <2>7 DEF RowsTell
  <2>11. CopiesHeld'
    <3>1. \A d \in Clients \ {c} : at[d] # "idle" =>
             /\ copy[d].id \in inflight' /\ hashmap'[copy[d].id] = hashmap[copy[d].id]
             /\ copy[d].id # r.id
      BY <1>0, <2>2, <2>4, <2>6 DEF CopiesHeld
    <3>2. r.id \in inflight' /\ hashmap'[r.id] = r
      BY <2>4, <2>5, <2>6
    <3> QED
      BY <2>6, <3>1, <3>2, OthersHeld
  <2>12. CallsFit' /\ RecoveryAlone'
    <3>1. ~Recovering
      BY <1>0 DEF RecoveryAlone
    <3>2. \A u \in InStore' : u \in InStore
      BY <2>7
    <3> QED
      BY <2>6, <3>1, <3>2, OthersFit
  <2>13. Contract!Pop(t)
    <3>1. Retries' = Retries
      BY <2>4, <2>7 DEF Retries
    <3> QED
      BY <2>1, <2>4, <2>7, <3>1 DEF Contract!Pop
  <2>14. ContractStep
    BY <2>1, <2>13 DEF ContractStep, Contract!LifecycleNext
  <2> QED
    BY <2>8, <2>9, <2>10, <2>11, <2>12, <2>14 DEF MemoryInv
<1> QED
  BY <1>1, <1>2

\* A client that runs a task is the only one, and the stored row is its copy.
LEMMA RunsItsTask ==
    ASSUME MemoryInv, NEW c \in Clients, at[c] # "idle"
    PROVE  /\ copy[c] \in Record /\ copy[c].id \in Tasks /\ copy[c].id \in inflight
           /\ hashmap[copy[c].id] = copy[c] /\ copy[c].id \in Ids(hashmap)
           /\ Retries[copy[c].id] = copy[c].retries
           /\ \A d \in Clients \ {c} : at[d] # "idle" => copy[d].id # copy[c].id
           /\ copy[c].id \notin ToSet(list) \cup Ids(dlq) \cup acked
           /\ copy[c].retries <= MaxRetries
           /\ copy[c].status \in {"Queued", "InProgress", "Failed"}
           /\ copy[c].error <=> copy[c].retries > 0
           /\ ~Recovering
<1>0. MemoryTypeOK /\ TasksApart /\ RowsTell /\ CopiesHeld /\ RecoveryAlone
  BY DEF MemoryInv
<1>1. copy[c] \in Record /\ copy[c].id \in inflight /\ hashmap[copy[c].id] = copy[c]
  BY <1>0 DEF CopiesHeld
<1>2. copy[c].id \in Tasks /\ copy[c].id \in Ids(hashmap)
  BY <1>0, <1>1, Transitions DEF TasksApart
<1>3. Retries[copy[c].id] = copy[c].retries
  BY <1>1, <1>2 DEF Retries
<1>4. \A d \in Clients \ {c} : at[d] # "idle" => copy[d].id # copy[c].id
  BY <1>0 DEF CopiesHeld
<1>5. /\ copy[c].retries <= MaxRetries
      /\ copy[c].status \in {"Queued", "InProgress", "Failed"}
      /\ copy[c].error <=> copy[c].retries > 0
  BY <1>0, <1>1, <1>2 DEF RowsTell
<1>6. copy[c].id \notin ToSet(list) \cup Ids(dlq) \cup acked
  BY <1>0, <1>1, <1>2 DEF TasksApart
<1>7. ~Recovering
  BY <1>0 DEF RecoveryAlone
<1> QED
  BY <1>1, <1>2, <1>3, <1>4, <1>5, <1>6, <1>7

\* What ack and nack have in common: the row and the lease go together.
LEMMA SettleWrites ==
    ASSUME MemoryInv, NEW c \in Clients, Settle(c), at[c] = "running",
           NEW t \in Tasks, t = copy[c].id, call[c].task.id = t
    PROVE  /\ hashmap' \in Rows /\ Ids(hashmap)' = Ids(hashmap) \ {t}
           /\ \A u \in Tasks \ {t} : hashmap'[u] = hashmap[u]
           /\ inflight' = inflight \ {t} /\ UNCHANGED list
           /\ ToSet(list)' = ToSet(list) /\ IsInjective(list)' = IsInjective(list)
           /\ Retries' = [Retries EXCEPT ![t] = -1]
           /\ \A d \in Clients \ {c} : at[d] # "idle" =>
                 copy[d].id \in inflight' /\ hashmap'[copy[d].id] = hashmap[copy[d].id]
<1>0. MemoryTypeOK /\ TasksApart /\ CopiesHeld
  BY DEF MemoryInv
<1>1. hashmap[t] \in Record /\ t \in inflight
  BY RunsItsTask
<1>2. /\ hashmap' = [hashmap EXCEPT ![t] = NoRecord]
      /\ inflight' = inflight \ {t} /\ UNCHANGED list
  BY <1>1, RecordOrNone DEF Settle
<1>3. /\ hashmap \in Rows /\ hashmap' \in Rows /\ Ids(hashmap)' = Ids(hashmap) \ {t}
      /\ \A u \in Tasks \ {t} : hashmap'[u] = hashmap[u]
  BY <1>0, <1>2 DEF MemoryTypeOK, Ids, Rows
<1>4. Retries' = [Retries EXCEPT ![t] = -1]
  BY <1>2, <1>3, RetriesWritten
<1>5. ToSet(list)' = ToSet(list) /\ IsInjective(list)' = IsInjective(list)
  BY <1>2 DEF ToSet, IsInjective
<1>6. \A d \in Clients \ {c} : at[d] # "idle" =>
         copy[d].id \in inflight /\ copy[d].id \in Tasks /\ copy[d].id # t
  BY <1>0, RunsItsTask DEF MemoryTypeOK
<1> QED
  BY <1>2, <1>3, <1>4, <1>5, <1>6

\* ack: the task is in flight, and its row is there.
LEMMA AckDone ==
    ASSUME MemoryInv, NEW c \in Clients, Busy(c), call[c].name = "ack",
           Ack(c), call' = [call EXCEPT ![c] = NoCall]
    PROVE  MemoryInv' /\ ContractStep
<1> DEFINE t == copy[c].id
<1>0. MemoryTypeOK /\ TasksApart /\ RowsTell /\ CopiesHeld /\ CallsFit
  BY DEF MemoryInv
<1>1. at[c] = "running" /\ call[c].task = SetSucceed(copy[c])
  BY <1>0 DEF CallsFit
<1>2. /\ copy[c] \in Record /\ t \in Tasks /\ t \in inflight /\ t \in Ids(hashmap)
      /\ t \notin ToSet(list) \cup Ids(dlq) \cup acked /\ ~Recovering
  BY <1>1, RunsItsTask
<1>3. call[c].task.id = t
  BY <1>1, <1>2, Transitions
<1>4. /\ Settle(c) /\ UNCHANGED dlq /\ acked' = acked \cup {t}
      /\ Returns(c, "idle", NoRecord)
  BY <1>2, <1>3 DEF Ack, Settle, Returns
<1>5. /\ hashmap' \in Rows /\ Ids(hashmap)' = Ids(hashmap) \ {t}
      /\ \A u \in Tasks \ {t} : hashmap'[u] = hashmap[u]
      /\ inflight' = inflight \ {t} /\ UNCHANGED list
      /\ ToSet(list)' = ToSet(list) /\ IsInjective(list)' = IsInjective(list)
      /\ Retries' = [Retries EXCEPT ![t] = -1]
      /\ \A d \in Clients \ {c} : at[d] # "idle" =>
            copy[d].id \in inflight' /\ hashmap'[copy[d].id] = hashmap[copy[d].id]
  BY <1>1, <1>2, <1>3, <1>4, SettleWrites
<1>6. Ids(dlq)' = Ids(dlq)
  BY <1>4 DEF Ids
<1> HIDE DEF t
<1>7. MemoryTypeOK'
  <2>1. /\ list' \in Seq(Tasks) /\ hashmap' \in Rows /\ dlq' \in Rows
        /\ inflight' \subseteq Tasks /\ acked' \subseteq Tasks
    BY <1>0, <1>2, <1>4, <1>5 DEF MemoryTypeOK
  <2> QED
    BY <1>4, <2>1, TypesAfter
<1>8. TasksApart'
  BY <1>0, <1>2, <1>4, <1>5, <1>6 DEF TasksApart
<1>9. RowsTell'
  <2>1. \A u \in Ids(hashmap)' : u \in Ids(hashmap) /\ hashmap'[u] = hashmap[u]
    BY <1>5 DEF Ids
  <2> QED
    BY <1>0, <1>4, <1>6, <2>1 DEF RowsTell
<1>10. CopiesHeld'
  BY <1>4, <1>5, OthersHeld
<1>11. CallsFit' /\ RecoveryAlone'
  <2>1. \A u \in InStore' : u \in InStore
    BY <1>2, <1>4, <1>5, <1>6 DEF InStore
  <2> QED
    BY <1>4, <2>1, OthersFit
<1>12. ContractStep
  <2>1. Contract!Finish(t)
    BY <1>2, <1>4, <1>5, <1>6
    DEF Contract!Finish, Contract!Ack, Contract!NoRow
  <2> QED
    BY <1>2, <2>1 DEF ContractStep, Contract!LifecycleNext
<1> QED
  BY <1>7, <1>8, <1>9, <1>10, <1>11, <1>12 DEF MemoryInv

\* nack: the dead letter is the copy, with its last retry counted and its mark.
LEMMA NackDone ==
    ASSUME MemoryInv, NEW c \in Clients, Busy(c), call[c].name = "nack",
           Nack(c), call' = [call EXCEPT ![c] = NoCall]
    PROVE  MemoryInv' /\ ContractStep
<1> DEFINE t == copy[c].id
           dead == SetDlq(SetRetry(copy[c]))
<1>0. MemoryTypeOK /\ TasksApart /\ RowsTell /\ CopiesHeld /\ CallsFit
  BY DEF MemoryInv
<1>1. at[c] = "running" /\ call[c].task = dead /\ copy[c].retries = MaxRetries
  BY <1>0 DEF CallsFit
<1>2. /\ copy[c] \in Record /\ t \in Tasks /\ t \in inflight /\ t \in Ids(hashmap)
      /\ t \notin ToSet(list) \cup Ids(dlq) \cup acked /\ ~Recovering
      /\ Retries[t] = copy[c].retries
  BY <1>1, RunsItsTask
<1>3. /\ dead \in Record /\ dead.id = t /\ dead.retries = MaxRetries + 1
      /\ dead.status = "DeadLetter" /\ dead.finished
  <2>1. SetRetry(copy[c]) \in Record /\ SetRetry(copy[c]).id = t
        /\ SetRetry(copy[c]).retries = MaxRetries + 1
    BY <1>1, <1>2, Transitions, MemoryAssumption
  <2> QED
    BY <2>1, Transitions
<1>4. PICK r \in Record : r = dead
  BY <1>3
<1> HIDE DEF dead
<1>5. /\ Settle(c) /\ UNCHANGED acked /\ dlq' = [dlq EXCEPT ![t] = r]
      /\ Returns(c, "idle", NoRecord)
  BY <1>1, <1>3, <1>4 DEF Nack, Settle, Returns
<1>6. /\ hashmap' \in Rows /\ Ids(hashmap)' = Ids(hashmap) \ {t}
      /\ \A u \in Tasks \ {t} : hashmap'[u] = hashmap[u]
      /\ inflight' = inflight \ {t} /\ UNCHANGED list
      /\ ToSet(list)' = ToSet(list) /\ IsInjective(list)' = IsInjective(list)
      /\ Retries' = [Retries EXCEPT ![t] = -1]
      /\ \A d \in Clients \ {c} : at[d] # "idle" =>
            copy[d].id \in inflight' /\ hashmap'[copy[d].id] = hashmap[copy[d].id]
  BY <1>1, <1>2, <1>3, <1>5, SettleWrites
<1>7. /\ dlq' \in Rows /\ Ids(dlq)' = Ids(dlq) \cup {t} /\ dlq'[t] = r
      /\ \A u \in Tasks \ {t} : dlq'[u] = dlq[u]
  BY <1>0, <1>2, <1>5, RecordOrNone DEF MemoryTypeOK, Ids, Rows
<1> HIDE DEF t
<1>8. MemoryTypeOK'
  <2>1. /\ list' \in Seq(Tasks) /\ inflight' \subseteq Tasks /\ acked' \subseteq Tasks
    BY <1>0, <1>5, <1>6 DEF MemoryTypeOK
  <2> QED
    BY <1>5, <1>6, <1>7, <2>1, TypesAfter
<1>9. TasksApart'
  <2>1. /\ IsInjective(list)' /\ ToSet(list)' \cup inflight' = Ids(hashmap)'
        /\ ToSet(list)' \cap inflight' = {}
    BY <1>0, <1>2, <1>6 DEF TasksApart
  <2>2. /\ Ids(dlq)' \cap acked' = {}
        /\ Ids(hashmap)' \cap (Ids(dlq)' \cup acked') = {}
    <3>1. /\ Ids(dlq)' = Ids(dlq) \cup {t} /\ acked' = acked
          /\ Ids(hashmap)' = Ids(hashmap) \ {t} /\ t \notin acked
      BY <1>2, <1>5, <1>6, <1>7
    <3>2. /\ Ids(dlq) \cap acked = {} /\ Ids(hashmap) \cap (Ids(dlq) \cup acked) = {}
      BY <1>0 DEF TasksApart
    <3> QED
      BY <3>1, <3>2
  <2> QED
    BY <2>1, <2>2 DEF TasksApart
<1>10. RowsTell'
  <2>1. \A u \in Ids(hashmap)' : u \in Ids(hashmap) /\ hashmap'[u] = hashmap[u]
    BY <1>6 DEF Ids
  <2>2. \A u \in Ids(dlq)' : u = t \/ (u \in Ids(dlq) /\ dlq'[u] = dlq[u])
    BY <1>7 DEF Ids
  <2> QED
    BY <1>0, <1>3, <1>4, <1>7, <2>1, <2>2 DEF RowsTell
<1>11. CopiesHeld'
  BY <1>5, <1>6, OthersHeld
<1>12. CallsFit' /\ RecoveryAlone'
  <2>1. \A u \in InStore' : u \in InStore
    BY <1>2, <1>5, <1>6, <1>7 DEF InStore
  <2> QED
    BY <1>5, <2>1, OthersFit
<1>13. ContractStep
  <2>1. Contract!Bury(t)
    BY <1>1, <1>2, <1>5, <1>6, <1>7
    DEF Contract!Bury, Contract!Nack, Contract!NoRow
  <2> QED
    BY <1>2, <2>1 DEF ContractStep, Contract!LifecycleNext
<1> QED
  BY <1>8, <1>9, <1>10, <1>11, <1>12, <1>13 DEF MemoryInv

\* set: the row of a popped task becomes its copy, marked in progress.
LEMMA SetDone ==
    ASSUME MemoryInv, NEW c \in Clients, Busy(c), call[c].name = "set",
           Set(c), call' = [call EXCEPT ![c] = NoCall]
    PROVE  MemoryInv' /\ ContractStep
<1> DEFINE t == copy[c].id
           begun == SetInProgress(copy[c])
<1>0. MemoryTypeOK /\ TasksApart /\ RowsTell /\ CopiesHeld /\ CallsFit
  BY DEF MemoryInv
<1>1. at[c] = "popped" /\ call[c].task = begun
  BY <1>0 DEF CallsFit
<1>2. /\ copy[c] \in Record /\ t \in Tasks /\ t \in inflight /\ t \in Ids(hashmap)
      /\ Retries[t] = copy[c].retries /\ copy[c].retries <= MaxRetries /\ ~Recovering
      /\ copy[c].error <=> copy[c].retries > 0
      /\ \A d \in Clients \ {c} : at[d] # "idle" => copy[d].id # t
  BY <1>1, RunsItsTask
<1>3. /\ begun \in Record /\ begun.id = t /\ begun.retries = copy[c].retries
      /\ begun.error = copy[c].error /\ begun.status = "InProgress"
  BY <1>2, Transitions
<1>4. PICK r \in Record : r = begun
  BY <1>3
<1> HIDE DEF begun
<1>5. /\ hashmap' = [hashmap EXCEPT ![t] = r]
      /\ UNCHANGED <<list, inflight, dlq, acked>> /\ Returns(c, "running", r)
  BY <1>1, <1>3, <1>4 DEF Set, Returns
<1>6. /\ hashmap \in Rows /\ hashmap' \in Rows /\ hashmap'[t] = r
      /\ Ids(hashmap)' = Ids(hashmap)
      /\ \A u \in Tasks \ {t} : hashmap'[u] = hashmap[u]
  BY <1>0, <1>2, <1>5, RecordOrNone DEF MemoryTypeOK, Ids, Rows
<1>7. /\ Ids(dlq)' = Ids(dlq) /\ InStore' = InStore
      /\ ToSet(list)' = ToSet(list) /\ IsInjective(list)' = IsInjective(list)
  BY <1>5, <1>6 DEF Ids, InStore, ToSet, IsInjective
<1>8. Retries' = Retries
  <2>1. \A u \in Ids(hashmap) : hashmap'[u].retries = hashmap[u].retries
    <3>1. hashmap'[t].retries = hashmap[t].retries
      BY <1>1, <1>3, <1>4, <1>6, RunsItsTask
    <3> QED
      BY <1>6, <3>1 DEF Ids
  <2> QED
    BY <1>6, <2>1 DEF Retries
<1> HIDE DEF t
<1>9. MemoryTypeOK'
  <2>1. /\ list' \in Seq(Tasks) /\ inflight' \subseteq Tasks /\ acked' \subseteq Tasks
        /\ dlq' \in Rows
    BY <1>0, <1>5 DEF MemoryTypeOK
  <2> QED
    BY <1>5, <1>6, <2>1, TypesAfter
<1>10. TasksApart'
  BY <1>0, <1>5, <1>6, <1>7 DEF TasksApart
<1>11. RowsTell'
  <2>1. \A u \in Ids(hashmap)' : u = t \/ (u \in Ids(hashmap) /\ hashmap'[u] = hashmap[u])
    BY <1>6 DEF Ids
  <2> QED
    BY <1>0, <1>2, <1>3, <1>4, <1>5, <1>6, <1>7, <2>1 DEF RowsTell
<1>12. CopiesHeld'
  <2>1. \A d \in Clients \ {c} : at[d] # "idle" =>
           /\ copy[d].id \in inflight' /\ hashmap'[copy[d].id] = hashmap[copy[d].id]
           /\ copy[d].id # r.id
    <3>1. ASSUME NEW d \in Clients \ {c}, at[d] # "idle"
          PROVE  copy[d].id \in inflight /\ copy[d].id \in Tasks \ {t}
      BY <1>0, <1>2, <3>1, RunsItsTask
    <3> QED
      BY <1>3, <1>4, <1>5, <1>6, <3>1
  <2>2. r.id \in inflight' /\ hashmap'[r.id] = r
    BY <1>2, <1>3, <1>4, <1>5, <1>6
  <2> QED
    BY <1>5, <2>1, <2>2, OthersHeld
<1>13. CallsFit' /\ RecoveryAlone'
  <2>1. \A u \in InStore' : u \in InStore
    BY <1>7
  <2> QED
    BY <1>2, <1>5, <2>1, OthersFit
<1>14. ContractStep
  BY <1>5, <1>7, <1>8 DEF ContractStep, Contract!queueVars
<1> QED
  BY <1>9, <1>10, <1>11, <1>12, <1>13, <1>14 DEF MemoryInv

\* recover_inflight: nobody has a task, so none is handed out twice.
LEMMA RecoverDone ==
    ASSUME MemoryInv, NEW c \in Clients, Busy(c), call[c].name = "recover",
           RecoverInflight(c), call' = [call EXCEPT ![c] = NoCall]
    PROVE  MemoryInv' /\ ContractStep
<1>0. MemoryTypeOK /\ TasksApart /\ RowsTell /\ CopiesHeld /\ CallsFit /\ RecoveryAlone
  BY DEF MemoryInv
<1>1. \A d \in Clients : at[d] = "idle"
  BY <1>0 DEF RecoveryAlone, Recovering
<1>2. PICK s \in SetToSeqs(inflight) : list' = list \o s
  BY DEF RecoverInflight
<1>3. inflight' = {} /\ UNCHANGED <<hashmap, dlq, acked>> /\ Returns(c, "idle", NoRecord)
  BY DEF RecoverInflight, Returns
<1>4. /\ list' \in Seq(Tasks) /\ IsInjective(list')
      /\ ToSet(list') = ToSet(list) \cup inflight
  BY <1>0, <1>2, DrainedInto, MemoryAssumption DEF MemoryTypeOK, TasksApart
<1>5. ToSet(list)' = ToSet(list') /\ IsInjective(list)' = IsInjective(list')
  BY DEF ToSet, IsInjective
<1>6. Ids(hashmap)' = Ids(hashmap) /\ Ids(dlq)' = Ids(dlq) /\ InStore' = InStore
  BY <1>3 DEF Ids, InStore
<1>7. MemoryTypeOK'
  <2>1. /\ hashmap' \in Rows /\ dlq' \in Rows
        /\ inflight' \subseteq Tasks /\ acked' \subseteq Tasks
    BY <1>0, <1>3 DEF MemoryTypeOK
  <2> QED
    BY <1>3, <1>4, <2>1, TypesAfter
<1>8. TasksApart'
  BY <1>0, <1>3, <1>4, <1>5, <1>6 DEF TasksApart
<1>9. RowsTell'
  BY <1>0, <1>3, <1>6 DEF RowsTell
<1>10. CopiesHeld'
  BY <1>1, <1>3, OthersHeld
<1>11. CallsFit' /\ RecoveryAlone'
  <2>1. \A u \in InStore' : u \in InStore
    BY <1>6
  <2> QED
    BY <1>3, <2>1, OthersFit
<1>12. Contract!RecoverInflight
  <2>1. Retries' = Retries
    BY <1>3, <1>6 DEF Retries
  <2> QED
    BY <1>3, <1>4, <1>5, <1>6, <2>1 DEF Contract!RecoverInflight
<1> QED
  BY <1>7, <1>8, <1>9, <1>10, <1>11, <1>12
  DEF MemoryInv, ContractStep, Contract!LifecycleNext

-----------------------------------------------------------------------------
(* The steps that only begin, wait for or give up a call.                  *)

\* A call begins: the store is as it was, and the other calls too.
LEMMA CallBegins ==
    ASSUME MemoryInv, NEW c \in Clients, NEW name \in CallNames,
           NEW task \in Record \cup {NoRecord}, Calls(c, name, task)
    PROVE  /\ MemoryTypeOK' /\ TasksApart' /\ RowsTell' /\ CopiesHeld' /\ ContractStep
           /\ UNCHANGED <<list, hashmap, inflight, dlq, acked, at, copy>>
           /\ InStore' = InStore /\ ~Busy(c) /\ Busy(c)'
           /\ call'[c].name = name /\ call'[c].task = task
           /\ \A d \in Clients \ {c} : call'[d] = call[d] /\ (Busy(d)' <=> Busy(d))
<1>0. MemoryTypeOK /\ CopiesHeld
  BY DEF MemoryInv
<1>1. /\ call' = [call EXCEPT ![c] = [name |-> name, task |-> task, taken |-> 0]]
      /\ ~Busy(c) /\ UNCHANGED <<storeVars, at, copy>>
  BY DEF Calls
<1>2. /\ TasksApart' /\ RowsTell' /\ InStore' = InStore
      /\ UNCHANGED Contract!queueVars
  BY <1>1, StoreKept
<1>3. UNCHANGED <<list, hashmap, inflight, dlq, acked, at, copy>>
  BY <1>1 DEF storeVars
<1>4. /\ call'[c] = [name |-> name, task |-> task, taken |-> 0]
      /\ \A d \in Clients \ {c} : call'[d] = call[d]
      /\ call' \in [Clients -> {NoCall} \cup
            [name : CallNames, task : Record \cup {NoRecord}, taken : Nat]]
  BY <1>0, <1>1 DEF MemoryTypeOK
<1>5. call'[c] # NoCall /\ call'[c].name = name /\ call'[c].task = task
      /\ call'[c].taken = 0
  BY <1>4 DEF NoCall
<1>6. Len(Order[name]) > 0
  <2>1. /\ Len(Order["push"]) = 3 /\ Len(Order["pop"]) = 3 /\ Len(Order["ack"]) = 2
        /\ Len(Order["nack"]) = 3 /\ Len(Order["set"]) = 1
        /\ Len(Order["recover"]) = 2 /\ Len(Order["fmt"]) = 4
    BY DEF Order
  <2>2. Len(Order[name]) \in {1, 2, 3, 4}
    BY <2>1, Zenon DEF CallNames
  <2> QED
    BY <2>2
<1>7. MemoryTypeOK'
  BY <1>0, <1>3, <1>4, <1>5, <1>6 DEF MemoryTypeOK, Busy
<1>8. CopiesHeld'
  BY <1>0, <1>3 DEF CopiesHeld
<1> QED
  BY <1>1, <1>2, <1>3, <1>4, <1>5, <1>7, <1>8 DEF ContractStep, Busy

\* A call that its client's place allows, by a client that nobody's recovery excludes.
LEMMA BeginsFit ==
    ASSUME MemoryInv, NEW c \in Clients, NEW name \in CallNames,
           NEW task \in Record \cup {NoRecord}, Calls(c, name, task),
           \/ at[c] = "idle" /\ name \in {"push", "pop", "recover", "fmt"}
           \/ at[c] = "popped" /\ name = "set" /\ task = SetInProgress(copy[c])
           \/ /\ at[c] = "running"
              /\ \/ name = "ack" /\ task = SetSucceed(copy[c])
                 \/ name = "push" /\ copy[c].retries < MaxRetries
                    /\ task = SetRetry(copy[c])
                 \/ name = "nack" /\ copy[c].retries = MaxRetries
                    /\ task = SetDlq(SetRetry(copy[c])),
           at[c] = "idle" /\ name = "push" =>
               \E t \in Tasks : task = NewTask(t) /\ t \notin InStore \cup InHand,
           Recovering => name \in {"push", "fmt", "recover"},
           name = "recover" => Quiet
    PROVE  MemoryInv' /\ ContractStep
<1>0. CallsFit /\ RecoveryAlone
  BY DEF MemoryInv
<1>1. /\ MemoryTypeOK' /\ TasksApart' /\ RowsTell' /\ CopiesHeld' /\ ContractStep
      /\ UNCHANGED <<list, hashmap, inflight, dlq, acked, at, copy>>
      /\ InStore' = InStore /\ ~Busy(c) /\ Busy(c)'
      /\ call'[c].name = name /\ call'[c].task = task
      /\ \A d \in Clients \ {c} : call'[d] = call[d] /\ (Busy(d)' <=> Busy(d))
  BY CallBegins
<1>2. \A d \in Clients : PushesNew(d)' => d = c \/ PushesNew(d)
  BY <1>1 DEF PushesNew
<1>3. PushesNew(c)' => at[c] = "idle" /\ name = "push"
  BY <1>1 DEF PushesNew
<1>4. CallsFit'
  <2>1. ASSUME NEW d \in Clients, Busy(d)'
        PROVE  \/ at'[d] = "idle" /\ call'[d].name \in {"push", "pop", "recover", "fmt"}
               \/ at'[d] = "popped" /\ call'[d].name = "set"
                  /\ call'[d].task = SetInProgress(copy'[d])
               \/ /\ at'[d] = "running"
                  /\ \/ call'[d].name = "ack" /\ call'[d].task = SetSucceed(copy'[d])
                     \/ call'[d].name = "push" /\ copy'[d].retries < MaxRetries
                        /\ call'[d].task = SetRetry(copy'[d])
                     \/ call'[d].name = "nack" /\ copy'[d].retries = MaxRetries
                        /\ call'[d].task = SetDlq(SetRetry(copy'[d]))
    <3>1. CASE d = c
      BY <1>1, <3>1
    <3>2. CASE d # c
      BY <1>0, <1>1, <2>1, <3>2 DEF CallsFit
    <3> QED
      BY <3>1, <3>2
  <2>2. ASSUME NEW d \in Clients, PushesNew(d)'
        PROVE  \E t \in Tasks : call'[d].task = NewTask(t) /\ t \notin InStore'
    <3>1. CASE d = c
      BY <1>1, <1>3, <2>2, <3>1
    <3>2. CASE d # c
      <4>1. PushesNew(d) /\ call'[d] = call[d]
        BY <1>1, <1>2, <2>2, <3>2
      <4> QED
        BY <1>0, <1>1, <4>1 DEF CallsFit, InStore
    <3> QED
      BY <3>1, <3>2
  <2>3. ASSUME NEW d \in Clients, d # c, PushesNew(c)', PushesNew(d)'
        PROVE  call'[d].task.id # call'[c].task.id
    <3>1. PushesNew(d) /\ Busy(d) /\ call'[d] = call[d]
      BY <1>1, <1>2, <2>3 DEF PushesNew
    <3>2. PICK t \in Tasks : task = NewTask(t) /\ t \notin InHand
      BY <1>3, <2>3
    <3>3. call'[c].task.id = t
      BY <1>1, <3>2, Transitions
    <3>4. call[d].task.id \in InHand
      BY <3>1 DEF InHand
    <3> QED
      BY <3>1, <3>2, <3>3, <3>4
  <2>4. \A d, e \in Clients :
           PushesNew(d)' /\ PushesNew(e)' /\ call'[d].task.id = call'[e].task.id => d = e
    <3>1. \A d, e \in Clients \ {c} :
             PushesNew(d)' /\ PushesNew(e)' /\ call'[d].task.id = call'[e].task.id => d = e
      BY <1>0, <1>1, <1>2 DEF CallsFit
    <3> QED
      BY <2>3, <3>1
  <2> QED
    BY <2>1, <2>2, <2>4 DEF CallsFit, InStore
<1>5. RecoveryAlone'
  <2>1. CASE name = "recover"
    <3>1. \A d \in Clients : at[d] = "idle" /\ (Busy(d) => call[d].name \in {"push", "fmt"})
      BY <2>1 DEF Quiet
    <3> QED
      BY <1>1, <2>1, <3>1 DEF RecoveryAlone
  <2>2. CASE name # "recover"
    <3>1. Recovering' => Recovering
      BY <1>1, <2>2 DEF Recovering
    <3> QED
      BY <1>0, <1>1, <3>1 DEF RecoveryAlone
  <2> QED
    BY <2>1, <2>2
<1> QED
  BY <1>1, <1>4, <1>5 DEF MemoryInv

\* A client takes the next mutex: nothing else changes.
LEMMA TakesNext ==
    ASSUME MemoryInv, NEW c \in Clients, Take(c)
    PROVE  MemoryInv' /\ ContractStep
<1>0. MemoryTypeOK /\ CopiesHeld /\ CallsFit /\ RecoveryAlone
  BY DEF MemoryInv
<1>1. /\ Busy(c) /\ ~IsLast(c) /\ call' = [call EXCEPT ![c].taken = @ + 1]
      /\ UNCHANGED <<storeVars, at, copy>>
  BY DEF Take
<1>2. /\ TasksApart' /\ RowsTell' /\ InStore' = InStore
      /\ UNCHANGED Contract!queueVars
  BY <1>1, StoreKept
<1>3. UNCHANGED <<list, hashmap, inflight, dlq, acked, at, copy>>
  BY <1>1 DEF storeVars
<1>4. /\ call[c] \in [name : CallNames, task : Record \cup {NoRecord}, taken : Nat]
      /\ call[c].taken < Len(Order[call[c].name])
  BY <1>0, <1>1 DEF MemoryTypeOK, Busy
<1>5. /\ call'[c].name = call[c].name /\ call'[c].task = call[c].task
      /\ call'[c].taken = call[c].taken + 1
      /\ call'[c] \in [name : CallNames, task : Record \cup {NoRecord}, taken : Nat]
      /\ \A d \in Clients \ {c} : call'[d] = call[d]
      /\ call' \in [Clients -> {NoCall} \cup
            [name : CallNames, task : Record \cup {NoRecord}, taken : Nat]]
  BY <1>0, <1>1, <1>4 DEF MemoryTypeOK
<1>6. call'[c] # NoCall
  BY <1>5 DEF NoCall, CallNames
<1>7. \A d \in Clients : /\ Busy(d)' <=> Busy(d)
                         /\ Busy(d) => /\ call'[d].name = call[d].name
                                       /\ call'[d].task = call[d].task
  BY <1>1, <1>5, <1>6 DEF Busy
<1>8. MemoryTypeOK'
  <2>1. Len(Order[call[c].name]) \in Nat
    <3>1. /\ Len(Order["push"]) = 3 /\ Len(Order["pop"]) = 3 /\ Len(Order["ack"]) = 2
          /\ Len(Order["nack"]) = 3 /\ Len(Order["set"]) = 1
          /\ Len(Order["recover"]) = 2 /\ Len(Order["fmt"]) = 4
      BY DEF Order
    <3>2. call[c].name \in CallNames
      BY <1>4
    <3>3. Len(Order[call[c].name]) \in {1, 2, 3, 4}
      BY <3>1, <3>2, Zenon DEF CallNames
    <3> QED
      BY <3>3
  <2>2. call'[c].taken < Len(Order[call'[c].name])
    BY <1>1, <1>4, <1>5, <2>1 DEF IsLast
  <2>3. \A d \in Clients : Busy(d)' => call'[d].taken < Len(Order[call'[d].name])
    BY <1>0, <1>5, <1>7, <2>2 DEF MemoryTypeOK
  <2> QED
    BY <1>0, <1>3, <1>5, <2>3 DEF MemoryTypeOK
<1>9. CopiesHeld'
  BY <1>0, <1>3 DEF CopiesHeld
<1>10. \A d \in Clients : PushesNew(d)' <=> PushesNew(d)
  BY <1>3, <1>7 DEF PushesNew
<1>11. CallsFit'
  <2>1. \A d \in Clients : Busy(d)' =>
        \/ at'[d] = "idle" /\ call'[d].name \in {"push", "pop", "recover", "fmt"}
        \/ at'[d] = "popped" /\ call'[d].name = "set"
           /\ call'[d].task = SetInProgress(copy'[d])
        \/ /\ at'[d] = "running"
           /\ \/ call'[d].name = "ack" /\ call'[d].task = SetSucceed(copy'[d])
              \/ call'[d].name = "push" /\ copy'[d].retries < MaxRetries
                 /\ call'[d].task = SetRetry(copy'[d])
              \/ call'[d].name = "nack" /\ copy'[d].retries = MaxRetries
                 /\ call'[d].task = SetDlq(SetRetry(copy'[d]))
    BY <1>0, <1>3, <1>7 DEF CallsFit
  <2>2. \A d \in Clients : PushesNew(d)' => Busy(d)
    BY <1>10 DEF PushesNew
  <2>3. \A d \in Clients : PushesNew(d)' =>
           \E t \in Tasks : call'[d].task = NewTask(t) /\ t \notin InStore'
    BY <1>0, <1>2, <1>7, <1>10, <2>2 DEF CallsFit, InStore
  <2>4. \A d, e \in Clients :
           PushesNew(d)' /\ PushesNew(e)' /\ call'[d].task.id = call'[e].task.id => d = e
    BY <1>0, <1>7, <1>10, <2>2 DEF CallsFit
  <2> QED
    BY <2>1, <2>3, <2>4 DEF CallsFit, InStore
<1>12. RecoveryAlone'
  BY <1>0, <1>3, <1>7 DEF RecoveryAlone, Recovering
<1> QED
  BY <1>2, <1>8, <1>9, <1>11, <1>12 DEF MemoryInv, ContractStep

\* A client is lost with its task: the lease stays, for a recovery to find.
LEMMA GivesUp ==
    ASSUME MemoryInv, NEW c \in Clients, Abandon(c)
    PROVE  MemoryInv' /\ ContractStep
<1>0. MemoryTypeOK /\ CopiesHeld /\ CallsFit /\ RecoveryAlone
  BY DEF MemoryInv
<1>1. /\ at[c] # "idle" /\ ~Busy(c) /\ UNCHANGED <<storeVars, call>>
      /\ at' = [at EXCEPT ![c] = "idle"] /\ copy' = [copy EXCEPT ![c] = NoRecord]
  BY DEF Abandon, Moves
<1>2. /\ TasksApart' /\ RowsTell' /\ InStore' = InStore
      /\ UNCHANGED Contract!queueVars
  BY <1>1, StoreKept
<1>3. UNCHANGED <<list, hashmap, inflight, dlq, acked, call>>
  BY <1>1 DEF storeVars
<1>4. /\ at'[c] = "idle"
      /\ \A d \in Clients \ {c} : at'[d] = at[d] /\ copy'[d] = copy[d]
      /\ \A d \in Clients : Busy(d)' <=> Busy(d)
  BY <1>0, <1>1 DEF MemoryTypeOK, Busy
<1>5. MemoryTypeOK'
  BY <1>0, <1>1, <1>3, <1>4 DEF MemoryTypeOK
<1>6. CopiesHeld'
  BY <1>0, <1>3, <1>4 DEF CopiesHeld
<1>7. \A d \in Clients : PushesNew(d)' => PushesNew(d)
  BY <1>1, <1>3, <1>4 DEF PushesNew
<1>8. CallsFit'
  <2>1. \A d \in Clients : Busy(d)' => d # c /\ Busy(d) /\ at'[d] = at[d]
                                       /\ copy'[d] = copy[d] /\ call'[d] = call[d]
    BY <1>1, <1>3, <1>4
  <2>2. \A d \in Clients : Busy(d)' =>
        \/ at'[d] = "idle" /\ call'[d].name \in {"push", "pop", "recover", "fmt"}
        \/ at'[d] = "popped" /\ call'[d].name = "set"
           /\ call'[d].task = SetInProgress(copy'[d])
        \/ /\ at'[d] = "running"
           /\ \/ call'[d].name = "ack" /\ call'[d].task = SetSucceed(copy'[d])
              \/ call'[d].name = "push" /\ copy'[d].retries < MaxRetries
                 /\ call'[d].task = SetRetry(copy'[d])
              \/ call'[d].name = "nack" /\ copy'[d].retries = MaxRetries
                 /\ call'[d].task = SetDlq(SetRetry(copy'[d]))
    BY <1>0, <2>1 DEF CallsFit
  <2>3. \A d \in Clients : PushesNew(d)' =>
           \E t \in Tasks : call'[d].task = NewTask(t) /\ t \notin InStore'
    BY <1>0, <1>2, <1>3, <1>7 DEF CallsFit, InStore
  <2>4. \A d, e \in Clients :
           PushesNew(d)' /\ PushesNew(e)' /\ call'[d].task.id = call'[e].task.id => d = e
    BY <1>0, <1>3, <1>7 DEF CallsFit
  <2> QED
    BY <2>2, <2>3, <2>4 DEF CallsFit, InStore
<1>9. RecoveryAlone'
  <2>1. ~Recovering
    BY <1>0, <1>1 DEF RecoveryAlone
  <2> QED
    BY <1>3, <1>4, <2>1 DEF RecoveryAlone, Recovering
<1> QED
  BY <1>2, <1>5, <1>6, <1>8, <1>9 DEF MemoryInv, ContractStep

-----------------------------------------------------------------------------
(* The theorems about the in-memory queue.                                 *)

\* A step of a client.
LEMMA ClientStep ==
    ASSUME MemoryInv, NEW c \in Clients,
           \/ \E t \in Tasks : PushNew(c, t)
           \/ Idles(c) \/ Starts(c) \/ Succeeds(c) \/ Fails(c)
           \/ Take(c) \/ Finish(c) \/ Abandon(c)
    PROVE  MemoryInv' /\ ContractStep
<1>1. ASSUME NEW t \in Tasks, PushNew(c, t) PROVE MemoryInv' /\ ContractStep
  <2>1. /\ at[c] = "idle" /\ Calls(c, "push", NewTask(t)) /\ NewTask(t) \in Record
        /\ t \notin InStore \cup InHand
    BY <1>1, Transitions DEF PushNew, InStore
  <2>2. PICK r \in Record : r = NewTask(t)
    BY <2>1
  <2>3. "push" \in CallNames
    BY DEF CallNames
  <2> QED
    BY <2>1, <2>2, <2>3, BeginsFit
<1>2. CASE Idles(c)
  <2>1. /\ at[c] = "idle" /\ NoRecord \in Record \cup {NoRecord}
        /\ "fmt" \in CallNames /\ "pop" \in CallNames /\ "recover" \in CallNames
    BY <1>2 DEF Idles, CallNames
  <2>2. CASE Calls(c, "fmt", NoRecord)
    BY <2>1, <2>2, BeginsFit
  <2>3. CASE ~Recovering /\ Calls(c, "pop", NoRecord)
    BY <2>1, <2>3, BeginsFit
  <2>4. CASE Quiet /\ Calls(c, "recover", NoRecord)
    BY <2>1, <2>4, BeginsFit
  <2> QED
    BY <1>2, <2>2, <2>3, <2>4 DEF Idles
<1>3. CASE Starts(c)
  <2>1. at[c] = "popped" /\ Calls(c, "set", SetInProgress(copy[c]))
    BY <1>3 DEF Starts
  <2>2. SetInProgress(copy[c]) \in Record /\ ~Recovering /\ "set" \in CallNames
    BY <2>1, RunsItsTask, Transitions DEF CallNames
  <2> QED
    BY <2>1, <2>2, BeginsFit
<1>4. CASE Succeeds(c)
  <2>1. at[c] = "running" /\ Calls(c, "ack", SetSucceed(copy[c]))
    BY <1>4 DEF Succeeds
  <2>2. SetSucceed(copy[c]) \in Record /\ ~Recovering /\ "ack" \in CallNames
    BY <2>1, RunsItsTask, Transitions DEF CallNames
  <2> QED
    BY <2>1, <2>2, BeginsFit
<1>5. CASE Fails(c)
  <2>1. /\ at[c] = "running"
        /\ IF SetRetry(copy[c]).retries <= MaxRetries
           THEN Calls(c, "push", SetRetry(copy[c]))
           ELSE Calls(c, "nack", SetDlq(SetRetry(copy[c])))
    BY <1>5 DEF Fails
  <2>2. /\ copy[c] \in Record /\ copy[c].retries <= MaxRetries /\ ~Recovering
        /\ copy[c].retries \in Nat
    BY <2>1, RunsItsTask, Transitions
  <2>3. /\ SetRetry(copy[c]) \in Record /\ SetDlq(SetRetry(copy[c])) \in Record
        /\ SetRetry(copy[c]).retries = copy[c].retries + 1
    BY <2>2, Transitions
  <2>4. "push" \in CallNames /\ "nack" \in CallNames
    BY DEF CallNames
  <2>5. CASE SetRetry(copy[c]).retries <= MaxRetries
    <3>1. Calls(c, "push", SetRetry(copy[c])) /\ copy[c].retries < MaxRetries
      BY <2>1, <2>2, <2>3, <2>5, MemoryAssumption
    <3> QED
      BY <2>1, <2>2, <2>3, <2>4, <3>1, BeginsFit
  <2>6. CASE ~(SetRetry(copy[c]).retries <= MaxRetries)
    <3>1. Calls(c, "nack", SetDlq(SetRetry(copy[c]))) /\ copy[c].retries = MaxRetries
      BY <2>1, <2>2, <2>3, <2>6, MemoryAssumption
    <3> QED
      BY <2>1, <2>2, <2>3, <2>4, <3>1, BeginsFit
  <2> QED
    BY <2>5, <2>6
<1>6. CASE Finish(c)
  <2>1. Busy(c) /\ call' = [call EXCEPT ![c] = NoCall]
    BY <1>6 DEF Finish
  <2>2. call[c].name \in CallNames
    BY <2>1 DEF MemoryInv, MemoryTypeOK, Busy
  <2>3. CASE call[c].name = "push"
    BY <1>6, <2>1, <2>3, PushDone DEF Finish
  <2>4. CASE call[c].name = "pop"
    BY <1>6, <2>1, <2>4, PopDone DEF Finish
  <2>5. CASE call[c].name = "ack"
    BY <1>6, <2>1, <2>5, AckDone DEF Finish
  <2>6. CASE call[c].name = "nack"
    BY <1>6, <2>1, <2>6, NackDone DEF Finish
  <2>7. CASE call[c].name = "set"
    BY <1>6, <2>1, <2>7, SetDone DEF Finish
  <2>8. CASE call[c].name = "recover"
    BY <1>6, <2>1, <2>8, RecoverDone DEF Finish
  <2>9. CASE call[c].name = "fmt"
    <3>1. UNCHANGED storeVars /\ Returns(c, "idle", NoRecord)
      BY <1>6, <2>1, <2>9 DEF Finish, Format, Returns
    <3> QED
      BY <3>1, LookedAround
  <2> QED
    BY <2>2, <2>3, <2>4, <2>5, <2>6, <2>7, <2>8, <2>9 DEF CallNames
<1> QED
  BY <1>1, <1>2, <1>3, <1>4, <1>5, <1>6, TakesNext, GivesUp

\* A step of the queue preserves the invariant and is a step of the contract.
LEMMA MemoryStep ==
    ASSUME MemoryInv, [MemoryNext]_memoryVars PROVE MemoryInv' /\ ContractStep
<1>1. CASE MemoryNext
  BY <1>1, ClientStep DEF MemoryNext
<1>2. CASE UNCHANGED memoryVars
  <2>1. UNCHANGED <<list, hashmap, inflight, dlq, acked, call, at, copy>>
        /\ UNCHANGED storeVars
    BY <1>2 DEF memoryVars, storeVars
  <2>2. /\ TasksApart' /\ RowsTell' /\ UNCHANGED Contract!queueVars
    BY <2>1, StoreKept
  <2>3. MemoryTypeOK' /\ CopiesHeld' /\ CallsFit' /\ RecoveryAlone'
    <3>1. \A d \in Clients : (Busy(d)' <=> Busy(d)) /\ (PushesNew(d)' <=> PushesNew(d))
      BY <2>1 DEF Busy, PushesNew
    <3>2. (Recovering' <=> Recovering) /\ Ids(hashmap)' = Ids(hashmap)
          /\ Ids(dlq)' = Ids(dlq)
      BY <2>1 DEF Recovering, Busy, Ids
    <3>3. MemoryTypeOK'
      BY <2>1, <3>1 DEF MemoryInv, MemoryTypeOK
    <3>4. CopiesHeld'
      BY <2>1 DEF MemoryInv, CopiesHeld
    <3>5. CallsFit'
      BY <2>1, <3>1, <3>2 DEF MemoryInv, CallsFit
    <3>6. RecoveryAlone'
      BY <2>1, <3>1, <3>2 DEF MemoryInv, RecoveryAlone
    <3> QED
      BY <3>3, <3>4, <3>5, <3>6
  <2> QED
    BY <2>2, <2>3 DEF MemoryInv, ContractStep
<1> QED
  BY <1>1, <1>2

\* The empty queue satisfies it, and is the contract's.
LEMMA MemoryStarts == ASSUME MemoryInit PROVE MemoryInv /\ Contract!QueueInit
<1>1. /\ list = <<>> /\ inflight = {} /\ acked = {}
      /\ hashmap = [t \in Tasks |-> NoRecord] /\ dlq = [t \in Tasks |-> NoRecord]
      /\ call = [c \in Clients |-> NoCall]
      /\ at = [c \in Clients |-> "idle"] /\ copy = [c \in Clients |-> NoRecord]
  BY DEF MemoryInit
<1>2. /\ Ids(hashmap) = {} /\ Ids(dlq) = {} /\ ToSet(list) = {} /\ IsInjective(list)
      /\ \A c \in Clients : ~Busy(c) /\ at[c] = "idle"
  BY <1>1 DEF Ids, ToSet, IsInjective, Busy
<1>3. MemoryTypeOK
  BY <1>1, <1>2 DEF MemoryTypeOK, Rows
<1>4. TasksApart
  BY <1>1, <1>2 DEF TasksApart
<1>5. RowsTell /\ CopiesHeld
  BY <1>2 DEF RowsTell, CopiesHeld
<1>6. CallsFit /\ RecoveryAlone
  BY <1>2 DEF CallsFit, RecoveryAlone, PushesNew
<1>7. Contract!QueueInit
  <2>1. Retries = [t \in Tasks |-> -1]
    BY <1>2 DEF Retries
  <2> QED
    BY <1>1, <1>2, <2>1 DEF Contract!QueueInit, Contract!NoRow
<1> QED
  BY <1>3, <1>4, <1>5, <1>6, <1>7 DEF MemoryInv

\* The invariant of the in-memory queue, whichever part moves.
THEOREM QueueInvariance == PartsSpec => []MemoryInv
<1>1. PartsInit => MemoryInv
  BY MemoryStarts DEF PartsInit
<1>2. MemoryInv /\ [PartsNext]_partVars => MemoryInv'
  BY MemoryStep DEF PartsNext, partVars
<1> QED
  BY <1>1, <1>2, PTL DEF PartsSpec

\* Through four mutexes and any interleaving of any number of clients, the queue of
\* backend/memory.rs goes through the life cycle of TaskQueue.
THEOREM MemoryImplementsLifecycle == PartsSpec => MemoryLifecycle
<1>1. PartsInit => Contract!QueueInit
  BY MemoryStarts DEF PartsInit
<1>2. MemoryInv /\ [PartsNext]_partVars
        => Contract!LifecycleNext \/ UNCHANGED Contract!queueVars
  <2> SUFFICES ASSUME MemoryInv, [PartsNext]_partVars
               PROVE  ContractStep
    BY DEF ContractStep
  <2>1. [MemoryNext]_memoryVars
    BY DEF PartsNext, partVars
  <2> QED
    BY <2>1, MemoryStep
<1> QED
  BY <1>1, <1>2, QueueInvariance, PTL DEF PartsSpec, MemoryLifecycle, Contract!LifecycleSpec

\* Where a task is and what its record says agree.
THEOREM RecordsAgree == PartsSpec => []RecordsTellFate
<1>1. MemoryInv => RecordsTellFate
  BY DEF MemoryInv, TasksApart, RowsTell, CopiesHeld, RecordsTellFate
<1> QED
  BY <1>1, QueueInvariance, PTL

\* The operations take the mutexes in one order, from dlq to inflight; only fmt does not.
Rank == [dlq |-> 0, list |-> 1, hashmap |-> 2, inflight |-> 3]

\* An operation waits for a mutex that comes after all it holds.
LEMMA WaitsLeadUp ==
    ASSUME MemoryInv, NEW c \in Operating
    PROVE  Rank[Wants(c)] \in 0 .. 3 /\ \A m \in Holds(c) : Rank[m] < Rank[Wants(c)]
<1> DEFINE name == call[c].name
           n == call[c].taken
           order == Order[name]
<1>1. /\ name \in CallNames \ {"fmt"} /\ n \in Nat /\ n < Len(order) /\ Busy(c)
  BY DEF MemoryInv, MemoryTypeOK, Operating, Busy
<1>2. /\ order \in Seq({"dlq", "list", "hashmap", "inflight"}) /\ Len(order) \in 1 .. 3
      /\ \A i, j \in 1 .. Len(order) : i < j => Rank[order[i]] < Rank[order[j]]
  <2>1. CASE name \in {"push", "pop"}
    <3>1. order = <<"list", "hashmap", "inflight">>
      BY <2>1 DEF Order
    <3> HIDE DEF order, name
    <3> QED
      BY <3>1 DEF Rank
  <2>2. CASE name = "ack"
    BY <2>2 DEF Order, Rank
  <2>3. CASE name = "nack"
    BY <2>3 DEF Order, Rank
  <2>4. CASE name = "set"
    BY <2>4 DEF Order, Rank
  <2>5. CASE name = "recover"
    BY <2>5 DEF Order, Rank
  <2> QED
    BY <1>1, <2>1, <2>2, <2>3, <2>4, <2>5 DEF CallNames
<1>3. Wants(c) = order[n + 1] /\ Holds(c) = {order[i] : i \in 1 .. n}
  BY <1>1 DEF Wants, Holds
<1> HIDE DEF order, n, name
<1>4. n + 1 \in 1 .. Len(order) /\ \A i \in 1 .. n : i \in 1 .. Len(order) /\ i < n + 1
  BY <1>1, <1>2
<1>5. order[n + 1] \in {"dlq", "list", "hashmap", "inflight"}
  BY <1>2, <1>4
<1>6. Rank[Wants(c)] \in 0 .. 3
  BY <1>3, <1>5 DEF Rank
<1> QED
  BY <1>2, <1>3, <1>4, <1>6

\* Clients that operate never wait for each other in a circle: the one that waits for
\* the last mutex waits for none of them.
THEOREM OperationsNeverBlock == PartsSpec => []OnlyFormattingBlocks
<1>1. MemoryInv => OnlyFormattingBlocks
  <2> SUFFICES ASSUME MemoryInv, NEW S \in SUBSET Operating, S # {}
               PROVE  \E c \in S : \A d \in S : Wants(c) \notin Holds(d)
    BY DEF OnlyFormattingBlocks
  <2>1. \A d \in S : /\ Rank[Wants(d)] \in 0 .. 3
                     /\ \A m \in Holds(d) : Rank[m] < Rank[Wants(d)]
    BY WaitsLeadUp
  <2>2. \E c \in S : \A d \in S : Rank[Wants(d)] <= Rank[Wants(c)]
    <3>1. CASE \E c \in S : Rank[Wants(c)] = 3
      BY <2>1, <3>1
    <3>2. CASE (\A c \in S : Rank[Wants(c)] # 3) /\ (\E c \in S : Rank[Wants(c)] = 2)
      BY <2>1, <3>2
    <3>3. CASE (\A c \in S : Rank[Wants(c)] \notin {2, 3})
               /\ (\E c \in S : Rank[Wants(c)] = 1)
      BY <2>1, <3>3
    <3>4. CASE \A c \in S : Rank[Wants(c)] \notin {1, 2, 3}
      BY <2>1, <3>4
    <3> QED
      BY <3>1, <3>2, <3>3, <3>4
  <2>3. PICK c \in S : \A d \in S : Rank[Wants(d)] <= Rank[Wants(c)]
    BY <2>2
  <2>4. ASSUME NEW d \in S, Wants(c) \in Holds(d) PROVE FALSE
    <3>1. Rank[Wants(c)] < Rank[Wants(d)] /\ Rank[Wants(d)] <= Rank[Wants(c)]
      BY <2>1, <2>3, <2>4
    <3> QED
      BY <2>1, <3>1
  <2> QED
    BY <2>4
<1> QED
  BY <1>1, QueueInvariance, PTL

-----------------------------------------------------------------------------
(* The keys of the round-robin queue.                                      *)

\* The two bytes of a length give it back ...
LEMMA LengthBack ==
    ASSUME NEW n \in Nat
    PROVE  (n \div Radix) * Radix + (n % Radix) = n
BY KeyAssumption

\* ... and the first one is a byte, since the length fits into two.
LEMMA HighByte ==
    ASSUME NEW n \in Nat, n <= MaxLength
    PROVE  (n \div Radix) % Radix = n \div Radix
<1>. DEFINE q == n \div Radix
<1>1. q \in Nat /\ Radix \in Nat /\ Radix > 0 /\ n % Radix \in Nat
  BY KeyAssumption
<1>2. q * Radix <= n
  BY <1>1, LengthBack
<1>3. q < Radix
  <2>1. SUFFICES ASSUME q >= Radix PROVE FALSE
    BY <1>1
  <2>2. q * Radix >= Radix * Radix
    BY <1>1, <2>1
  <2>. QED  BY <1>1, <1>2, <2>2 DEF MaxLength
<1>. QED  BY <1>1, <1>3

\* Facts about the encoders: lengths and positions.
LEMMA PrefixShape ==
    ASSUME NEW tag, Tag(tag)
    PROVE  /\ EncodePrefix(tag) \in Seq(Int)
           /\ Len(EncodePrefix(tag)) = 2 + Len(tag)
           /\ EncodePrefix(tag)[1] = Len(tag) \div Radix
           /\ EncodePrefix(tag)[2] = Len(tag) % Radix
           /\ \A i \in 1 .. Len(tag) : EncodePrefix(tag)[2 + i] = tag[i]
<1>1. tag \in Seq(Int) /\ Len(tag) \in Nat
  BY KeyAssumption DEF Tag, Byte
<1>2. Len(tag) \div Radix \in Int /\ Len(tag) % Radix \in Int
  BY <1>1, KeyAssumption
<1>3. (Len(tag) \div Radix) % Radix = Len(tag) \div Radix
  BY <1>1, HighByte DEF Tag
<1>. QED
  BY <1>1, <1>2, <1>3 DEF EncodePrefix

LEMMA KeyShape ==
    ASSUME NEW tag, Tag(tag), NEW id, Id(id)
    PROVE  /\ EncodeKey(tag, id) \in Seq(Int)
           /\ Len(EncodeKey(tag, id)) = 2 + Len(tag) + IdLength
           /\ \A i \in 1 .. 2 + Len(tag) : EncodeKey(tag, id)[i] = EncodePrefix(tag)[i]
           /\ \A i \in 1 .. IdLength : EncodeKey(tag, id)[2 + Len(tag) + i] = id[i]
<1>1. id \in Seq(Int) /\ Len(id) = IdLength
  BY KeyAssumption DEF Id, Byte
<1>2. Len(tag) \in Nat
  BY DEF Tag
<1>3. EncodePrefix(tag) \in Seq(Int) /\ Len(EncodePrefix(tag)) = 2 + Len(tag)
  BY PrefixShape
<1>4. /\ EncodeKey(tag, id) \in Seq(Int)
      /\ Len(EncodeKey(tag, id)) = 2 + Len(tag) + IdLength
  BY <1>1, <1>2, <1>3, KeyAssumption DEF EncodeKey
<1>5. \A i \in 1 .. 2 + Len(tag) : EncodeKey(tag, id)[i] = EncodePrefix(tag)[i]
  BY <1>1, <1>2, <1>3, KeyAssumption DEF EncodeKey
<1>6. \A i \in 1 .. IdLength : EncodeKey(tag, id)[2 + Len(tag) + i] = id[i]
  BY <1>1, <1>2, <1>3, KeyAssumption DEF EncodeKey
<1>. QED
  BY <1>4, <1>5, <1>6

\* Two tags with the same prefix are the same: the length tells a tag from its
\* extensions.  A pop of one tag therefore never scans the tasks of another.
THEOREM ScanFindsOwnTag ==
    ASSUME NEW a, Tag(a), NEW b, Tag(b), NEW id, Id(id)
    PROVE  HasPrefix(EncodeKey(a, id), EncodePrefix(b)) <=> a = b
<1>. DEFINE key == EncodeKey(a, id)
            pre == EncodePrefix(b)
<1>0. Len(a) \in Nat /\ Len(b) \in Nat /\ IdLength \in Nat
  BY KeyAssumption DEF Tag
<1>a. /\ key \in Seq(Int) /\ Len(key) = 2 + Len(a) + IdLength
      /\ \A i \in 1 .. 2 + Len(a) : key[i] = EncodePrefix(a)[i]
  BY KeyShape
<1>b. /\ EncodePrefix(a)[1] = Len(a) \div Radix /\ EncodePrefix(a)[2] = Len(a) % Radix
      /\ \A i \in 1 .. Len(a) : EncodePrefix(a)[2 + i] = a[i]
  BY PrefixShape
<1>c. /\ pre \in Seq(Int) /\ Len(pre) = 2 + Len(b)
      /\ pre[1] = Len(b) \div Radix /\ pre[2] = Len(b) % Radix
      /\ \A i \in 1 .. Len(b) : pre[2 + i] = b[i]
  BY PrefixShape
<1> HIDE DEF key, pre
<1>1. ASSUME HasPrefix(key, pre) PROVE a = b
  <2>1. \A i \in 1 .. 2 + Len(b) : key[i] = pre[i]
    <3>1. Len(pre) = 2 + Len(b) /\ pre \in Seq(Int) /\ key \in Seq(Int)
      BY <1>a, <1>c
    <3>2. SubSeq(key, 1, Len(pre)) = pre /\ Len(pre) <= Len(key)
      BY <1>1 DEF HasPrefix
    <3>3. \A i \in 1 .. Len(pre) : SubSeq(key, 1, Len(pre))[i] = key[i]
      BY <1>0, <3>1, <3>2
    <3>. QED  BY <3>1, <3>2, <3>3
  <2>2. Len(a) \div Radix = Len(b) \div Radix /\ Len(a) % Radix = Len(b) % Radix
    <3>1. key[1] = EncodePrefix(a)[1] /\ key[2] = EncodePrefix(a)[2]
      BY <1>0, <1>a
    <3>2. key[1] = pre[1] /\ key[2] = pre[2]
      BY <1>0, <2>1
    <3>. QED  BY <3>1, <3>2, <1>b, <1>c
  <2>3. Len(a) = Len(b)
    BY <1>0, <2>2, LengthBack
  <2>4. \A i \in 1 .. Len(a) : a[i] = b[i]
    <3>. SUFFICES ASSUME NEW i \in 1 .. Len(a) PROVE a[i] = b[i]
      OBVIOUS
    <3>1. 2 + i \in 1 .. 2 + Len(a)
      BY <1>0
    <3>2. key[2 + i] = pre[2 + i]
      BY <2>1, <2>3, <3>1
    <3>3. key[2 + i] = EncodePrefix(a)[2 + i]
      BY <1>a, <3>1
    <3>. QED  BY <1>b, <1>c, <2>3, <3>2, <3>3
  <2>. QED  BY <2>3, <2>4 DEF Tag
<1>2. ASSUME a = b PROVE HasPrefix(key, pre)
  <2>1. Len(pre) = 2 + Len(a) /\ Len(pre) <= Len(key)
    BY <1>0, <1>2, <1>a, <1>c
  <2>2. \A i \in 1 .. Len(pre) : key[i] = pre[i]
    BY <1>2, <1>a, <2>1 DEF pre
  <2>3. SubSeq(key, 1, Len(pre)) = pre
    BY <1>0, <1>a, <1>c, <2>1, <2>2
  <2>. QED  BY <2>1, <2>3 DEF HasPrefix
<1>3. HasPrefix(key, pre) <=> a = b
  BY <1>1, <1>2
<1>. QED  BY <1>3 DEF key, pre

\* What was encoded is decoded: the tag and the id of a key, and the tag of a blob.
THEOREM DecodeInverts ==
    ASSUME NEW tag, Tag(tag), NEW id, Id(id)
    PROVE  /\ DecodeTag(EncodeKey(tag, id)) = tag
           /\ ExtractId(EncodeKey(tag, id)) = id
           /\ DecodeBlob(EncodePrefix(tag)) = tag
<1>. DEFINE key == EncodeKey(tag, id)
            pre == EncodePrefix(tag)
<1>0. Len(tag) \in Nat /\ IdLength \in Nat /\ tag \in Seq(Int) /\ id \in Seq(Int)
      /\ Len(id) = IdLength
  BY KeyAssumption DEF Tag, Id, Byte
<1>1. /\ key \in Seq(Int) /\ Len(key) = 2 + Len(tag) + IdLength
      /\ \A i \in 1 .. 2 + Len(tag) : key[i] = pre[i]
      /\ \A i \in 1 .. IdLength : key[2 + Len(tag) + i] = id[i]
  BY KeyShape
<1>2. /\ pre \in Seq(Int) /\ Len(pre) = 2 + Len(tag)
      /\ pre[1] = Len(tag) \div Radix /\ pre[2] = Len(tag) % Radix
      /\ \A i \in 1 .. Len(tag) : pre[2 + i] = tag[i]
  BY PrefixShape
<1>3. Declared(pre) = Len(tag) /\ Declared(key) = Len(tag)
  <2>1. key[1] = pre[1] /\ key[2] = pre[2]
    BY <1>0, <1>1
  <2>2. (Len(tag) \div Radix) * Radix + (Len(tag) % Radix) = Len(tag)
    BY <1>0, LengthBack
  <2>3. Declared(pre) = Len(tag)
    BY <1>2, <2>2 DEF Declared
  <2>. QED  BY <2>1, <2>3 DEF Declared
<1>4. SubSeq(key, 3, 2 + Len(tag)) = tag
  <2>1. \A i \in 1 .. Len(tag) : key[2 + i] = tag[i]
    <3>. SUFFICES ASSUME NEW i \in 1 .. Len(tag) PROVE key[2 + i] = tag[i]
      OBVIOUS
    <3>1. 2 + i \in 1 .. 2 + Len(tag)
      BY <1>0
    <3>2. key[2 + i] = pre[2 + i]
      BY <1>1, <3>1
    <3>. QED  BY <3>2, <1>2
  <2>. QED  BY <1>0, <1>1, <2>1
<1>5. SubSeq(pre, 3, Len(pre)) = tag
  BY <1>0, <1>2
<1>6. SubSeq(key, Len(key) - IdLength + 1, Len(key)) = id
  BY <1>0, <1>1
<1>. QED
  BY <1>0, <1>1, <1>2, <1>3, <1>4, <1>5, <1>6 DEF DecodeTag, DecodeBlob, ExtractId

\* Both together: the keyspace can be read as one queue for each tag.
THEOREM EveryKeyExact ==
    ASSUME NEW tags, \A a \in tags : Tag(a), NEW ids, \A id \in ids : Id(id)
    PROVE  KeysExact(tags, ids)
BY ScanFindsOwnTag, DecodeInverts DEF KeysExact

\* The keys of every behaviour are those of tags and ids that fit.
THEOREM TagsStayApart == KeysSpec => []TagsApart
<1> DEFINE KInv == keyspace \subseteq KeyTags \X KeyIds
<1>1. KeysInit => KInv
  BY DEF KeysInit
<1>2. KInv /\ [KeysNext]_keyspace => KInv'
  BY DEF KeysNext, InsertKey, RemoveKey
<1>3. KInv => TagsApart
  <2> SUFFICES ASSUME KInv PROVE TagsApart
    OBVIOUS
  <2>1. \A tag \in {key[1] : key \in keyspace} : Tag(tag)
    BY KeysFit
  <2>2. \A id \in {key[2] : key \in keyspace} : Id(id)
    BY KeysFit
  <2>. QED
    BY <2>1, <2>2, EveryKeyExact DEF TagsApart
<1>. QED
  BY <1>1, <1>2, <1>3, PTL DEF KeysSpec

=============================================================================
