-------------------------- MODULE FileCacheProofs ---------------------------
(***************************************************************************)
(* Theorems about FileHttpCache, for every finite set of keys, any number  *)
(* of values and of interruptions, and every selection of faults.          *)
(*                                                                         *)
(* A key that no interrupted operation has damaged has no thread at work   *)
(* but the one its operation waits for; so the index agrees with the       *)
(* completed operations at every moment, and the file whenever no          *)
(* operation is under way for the key.  What makes this inductive is what  *)
(* an operation knows of its key (OpOK), whose the jobs are (JobsOK), and  *)
(* that an operation which began with no thread at work has the file for   *)
(* itself (Undisturbed).                                                   *)
(***************************************************************************)
EXTENDS FileCache, TLAPS

\* Frame tuples are expanded everywhere.
USE DEF vars, historyVars

-----------------------------------------------------------------------------
(* The strengthening.                                                      *)

Operations ==
    [name : Rewrites \cup Removals \cup {"idle"}, keys : SUBSET Keys,
     path : Paths \cup {NoPath}, entry : Entries \cup {Gone}, tag : Tags, quiet : BOOLEAN]

\* A rewrite keeps the path of an indexed key; a removal knows its keys from the
\* index, cleanup also that they are bad.
OpOK ==
    /\ op \in Operations /\ (op.name = "idle" => op = Idle)
    /\ op.name \in Rewrites =>
          /\ op.path \in Paths /\ op.entry \in Entries
          /\ KeyOf(op.path) \in Indexed => index[KeyOf(op.path)].path = op.path
    /\ op.name \in Removals =>
          /\ op.keys # {} /\ op.keys \subseteq Indexed /\ op.entry = Gone
          /\ op.path # NoPath =>
                KeyOf(op.path) \in op.keys /\ index[KeyOf(op.path)].path = op.path
    /\ op.name = "cleanup" => \A k \in op.keys : Bad(index[k].tag)

OwnPaths == \A k \in Indexed : KeyOf(index[k].path) = k

\* A job is the operation's, or what an interrupted one has left behind.
JobsOK ==
    \A j \in jobs :
        /\ j.kind = "write" => j.entry \in Entries
        /\ j.kind = "unlink" => j.entry = Gone
        /\ IF j.mine
           THEN /\ j.path = op.path /\ j.entry = op.entry
                /\ op.name \in IF j.kind = "write" THEN Rewrites ELSE Removals
           ELSE /\ KeyOf(j.path) \in damaged
                /\ j.kind = "unlink" => KeyOf(j.path) \in unlinked

\* The operation under way has the files of its key for itself.
Apart == op.path # NoPath /\ (op.quiet \/ KeyOf(op.path) \notin damaged)

Undisturbed ==
    Apart =>
        /\ \A j \in jobs : KeyOf(j.path) = KeyOf(op.path) => j.mine /\ (j.open => j.alone)
        /\ Waiting \/ file[op.path] = op.entry

\* What a rewrite writes to the index is what it writes to the file.
TagsAgree ==
    op.name \in Rewrites /\ (op.name = "set" \/ KeyOf(op.path) \notin damaged) =>
        op.tag = op.entry.tag

IndexAgrees ==
    \A k \in Keys \ damaged :
        IF expected[k] = Gone THEN k \notin Indexed
        ELSE k \in Indexed /\ index[k].tag = expected[k].tag

FileAgrees ==
    \A k \in Keys \ damaged :
        k \notin Underway /\ expected[k] # Gone => file[index[k].path] = expected[k]

\* An indexed file is there, unless it is being, or was being, removed; the file of
\* a rewrite is there once its thread has begun.
NothingDangles ==
    /\ \A k \in Indexed : file[index[k].path] = Gone =>
          k \in unlinked \/ (op.name \in Removals /\ k \in Underway)
    /\ op.name \in Rewrites /\ file[op.path] = Gone =>
          KeyOf(op.path) \in unlinked \/ \E j \in jobs : j.mine /\ ~j.open

\* A file that is there is indexed, or being written, or left by an interruption.
NothingStrays ==
    \A p \in Paths : file[p] # Gone =>
        index[KeyOf(p)].path = p \/ KeyOf(p) \in touched \/ p = op.path

\* The inductive invariant.
IInv == TypeOK /\ OpOK /\ OwnPaths /\ JobsOK /\ Undisturbed /\ TagsAgree
        /\ IndexAgrees /\ FileAgrees /\ NothingDangles /\ NothingStrays

-----------------------------------------------------------------------------
(* Data.                                                                   *)

\* A path belongs to one key, and is not the lack of one.
LEMMA PathKeys ==
    /\ \A p \in Paths : KeyOf(p) \in Keys /\ p # NoPath
    /\ \A k \in Keys : \A p \in {k} \X {1, 2} : p \in Paths /\ KeyOf(p) = k
  BY DEF Paths, KeyOf, NoPath

\* A missing or a torn file has no entry.
LEMMA NoEntries ==
    /\ Gone \notin Entries /\ Torn \notin Entries /\ Gone # Torn /\ NoTag \in Tags
    /\ \A e \in Entries : e.tag \in Tags
  BY CacheAssumption DEF Gone, Torn, Entries, NoTag, Tags, States

\* The paths of the index.
LEMMA IndexPaths ==
    ASSUME TypeOK, NEW k \in Keys
    PROVE  /\ k \in Indexed <=> index[k].path # NoPath
           /\ k \in Indexed => index[k].path \in Paths /\ index[k].tag \in Tags
           /\ index[k].path \in Paths \cup {NoPath}
<1>1. index[k] \in [path : Paths, tag : Tags] \cup {NotIndexed}
  BY DEF TypeOK
<1>2. CASE index[k] = NotIndexed
  BY <1>2, PathKeys DEF Indexed, NotIndexed
<1>3. CASE index[k] \in [path : Paths, tag : Tags]
  BY <1>3, PathKeys DEF Indexed, NotIndexed
<1> QED
  BY <1>1, <1>2, <1>3

\* Nobody waits for a job while no operation is under way.
LEMMA IdleJobs ==
    ASSUME JobsOK, op = Idle
    PROVE  /\ \A j \in jobs : ~j.mine
           /\ op.name = "idle" /\ op.path = NoPath /\ Underway = {}
  BY DEF JobsOK, Idle, Rewrites, Removals, Underway

\* Where an operation is under way.
LEMMA UnderwayKey ==
    ASSUME OpOK
    PROVE  /\ op.path # NoPath => op.path \in Paths /\ Underway = {KeyOf(op.path)}
           /\ op.path = NoPath => Underway = {}
           /\ op.name \in Rewrites => op.path # NoPath
  BY PathKeys DEF OpOK, Operations, Underway

-----------------------------------------------------------------------------
(* An operation begins.                                                    *)

\* A rewrite takes the mutex and hands its file to a thread.
LEMMA RewriteInv ==
    ASSUME IInv, NEW name \in Rewrites, NEW k \in Keys, NEW p \in PathsFor(k),
           NEW e \in Entries, NEW tag \in Tags, Rewrite(name, k, p, e, tag),
           name = "set" \/ k \notin damaged => tag = e.tag, values' \in 0 .. MaxValues
    PROVE  IInv'
<1> DEFINE new == Job("write", p, e)
<1> USE DEF IInv
<1>1. /\ op = Idle /\ jobs' = jobs \cup {new} /\ UNCHANGED <<file, index, faults, historyVars>>
      /\ op' = [name |-> name, keys |-> {k}, path |-> p, entry |-> e, tag |-> tag,
                quiet |-> Quiet(k)]
  BY DEF Rewrite
<1>2. /\ op'.name = name /\ op'.path = p /\ op'.entry = e /\ op'.tag = tag
      /\ op'.quiet = Quiet(k) /\ op'.keys = {k} /\ Quiet(k) \in BOOLEAN
  BY <1>1 DEF Quiet
<1>3. p \in Paths /\ KeyOf(p) = k /\ p # NoPath /\ (k \in Indexed => index[k].path = p)
  <2>1. CASE k \in Indexed
    BY <2>1, IndexPaths, PathKeys DEF PathsFor, OwnPaths
  <2>2. CASE k \notin Indexed
    BY <2>2, PathKeys DEF PathsFor
  <2> QED
    BY <2>1, <2>2
<1>4. /\ new \in Jobs /\ new.kind = "write" /\ new.path = p /\ new.entry = e
      /\ new.mine /\ ~new.open
  BY <1>3 DEF Job, Jobs
<1> HIDE DEF new
<1>5. /\ \A j \in jobs : ~j.mine
      /\ op.name = "idle" /\ op.path = NoPath /\ Underway = {}
  BY <1>1, IdleJobs
<1>6. Underway' = {k} /\ Indexed' = Indexed
  BY <1>1, <1>2, <1>3 DEF Underway, Indexed
<1>7. TypeOK'
  <2>1. op'.name \in Rewrites \cup Removals \cup {"idle"} /\ op'.keys \subseteq Keys
    BY <1>2
  <2>2. jobs' \subseteq Jobs /\ \A i, j \in jobs' : i.mine /\ j.mine => i = j /\ i.path = op'.path
    BY <1>1, <1>2, <1>4, <1>5 DEF TypeOK
  <2> QED
    BY <1>1, <2>1, <2>2 DEF TypeOK
<1>8. OpOK'
  <2>1. op' \in Operations
    BY <1>1, <1>2, <1>3 DEF Operations
  <2>2. name \notin Removals /\ name # "idle" /\ name # "cleanup"
    BY DEF Rewrites, Removals
  <2> QED
    BY <1>1, <1>2, <1>3, <1>6, <2>1, <2>2 DEF OpOK
<1>9. OwnPaths'
  BY <1>1, <1>6 DEF OwnPaths
<1>10. JobsOK'
  BY <1>1, <1>2, <1>4, <1>5, NoEntries DEF JobsOK
<1>11. Undisturbed'
  <2> SUFFICES ASSUME Apart'
               PROVE  /\ \A j \in jobs' : KeyOf(j.path) = KeyOf(op'.path) => j.mine /\ (j.open => j.alone)
                      /\ Waiting'
    BY DEF Undisturbed
  <2>1. \A j \in jobs : KeyOf(j.path) # k
    BY <1>1, <1>2, <1>3, <1>5 DEF Apart, Quiet, JobsOK
  <2> QED
    BY <1>1, <1>2, <1>3, <1>4, <2>1 DEF Waiting
<1>12. TagsAgree'
  BY <1>1, <1>2, <1>3 DEF TagsAgree
<1>13. IndexAgrees'
  BY <1>1, <1>6 DEF IndexAgrees
<1>14. FileAgrees'
  BY <1>1, <1>5 DEF FileAgrees
<1>15. NothingDangles'
  <2>1. \E j \in jobs' : j.mine /\ ~j.open
    BY <1>1, <1>4
  <2>2. op.name \notin Removals
    BY <1>5 DEF Removals
  <2> QED
    BY <1>1, <1>6, <2>1, <2>2 DEF NothingDangles
<1>16. NothingStrays'
  BY <1>1, <1>5, PathKeys DEF NothingStrays
<1> QED
  BY <1>7, <1>8, <1>9, <1>10, <1>11, <1>12, <1>13, <1>14, <1>15, <1>16

\* What get and update_state have read, for a key that no interruption damaged.
LEMMA ReadAgrees ==
    ASSUME IInv, op = Idle, NEW k \in Keys, Readable(k)
    PROVE  /\ file[index[k].path] \in Entries /\ index[k].tag \in Tags
           /\ index[k].path \in PathsFor(k)
           /\ k \notin damaged => index[k].tag = file[index[k].path].tag
<1>1. /\ k \in Indexed /\ file[index[k].path] \notin {Gone, Torn}
      /\ index[k].path \in Paths /\ index[k].tag \in Tags
  BY IndexPaths DEF Readable, IInv
<1>2. file[index[k].path] \in Entries
  BY <1>1 DEF IInv, TypeOK
<1>3. ASSUME k \notin damaged PROVE index[k].tag = file[index[k].path].tag
  <2>1. Underway = {}
    BY IdleJobs DEF IInv
  <2> QED
    BY <1>1, <1>3, <2>1 DEF IInv, IndexAgrees, FileAgrees
<1> QED
  BY <1>1, <1>2, <1>3 DEF PathsFor

\* set, get and update_state begin.
LEMMA BeginRewriteInv ==
    ASSUME IInv, NEW k \in Keys,
           Get(k) \/ \E st \in States : Set(k, st) \/ UpdateState(k, st)
    PROVE  IInv'
<1>1. ASSUME NEW st \in States, Set(k, st) PROVE IInv'
  <2> DEFINE tag == [state |-> st, errors |-> IF st = "error" THEN 1 ELSE 0]
             e   == [value |-> values + 1, tag |-> tag]
  <2>1. /\ values < MaxValues /\ values' = values + 1
        /\ \E p \in PathsFor(k) : Rewrite("set", k, p, e, tag)
    BY <1>1 DEF Set
  <2>2. values \in 0 .. MaxValues /\ MaxValues \in Nat
    BY CacheAssumption DEF IInv, TypeOK
  <2>3. tag \in Tags
    BY CacheAssumption DEF Tags
  <2>4. e \in Entries /\ e.tag = tag /\ values' \in 0 .. MaxValues
    BY <2>1, <2>2, <2>3 DEF Entries
  <2> HIDE DEF tag, e
  <2> QED
    BY <2>1, <2>3, <2>4, RewriteInv DEF Rewrites
<1>2. CASE Get(k)
  <2>1. /\ Readable(k) /\ values' = values /\ op = Idle
        /\ Rewrite("get", k, index[k].path, file[index[k].path], index[k].tag)
    BY <1>2 DEF Get, Rewrite
  <2>2. values' \in 0 .. MaxValues
    BY <2>1 DEF IInv, TypeOK
  <2>3. /\ file[index[k].path] \in Entries /\ index[k].tag \in Tags
        /\ index[k].path \in PathsFor(k)
        /\ k \notin damaged => index[k].tag = file[index[k].path].tag
    BY <2>1, ReadAgrees
  <2> QED
    BY <2>1, <2>2, <2>3, RewriteInv DEF Rewrites
<1>3. ASSUME NEW st \in States, UpdateState(k, st) PROVE IInv'
  <2> DEFINE old == file[index[k].path]
             e   == [old EXCEPT !.tag = Retag(@, st)]
             tag == Retag(index[k].tag, st)
  <2>1. /\ Readable(k) /\ values' = values /\ op = Idle
        /\ st = "error" => old.tag.errors < MaxErrors /\ index[k].tag.errors < MaxErrors
        /\ Rewrite("update", k, index[k].path, e, tag)
    BY <1>3 DEF UpdateState, Rewrite, IndexTag
  <2>2. values' \in 0 .. MaxValues
    BY <2>1 DEF IInv, TypeOK
  <2>3. /\ old \in Entries /\ index[k].tag \in Tags /\ index[k].path \in PathsFor(k)
        /\ k \notin damaged => index[k].tag = old.tag
    BY <2>1, ReadAgrees
  <2> HIDE DEF old
  <2>4. \A tg \in Tags : (st = "error" => tg.errors < MaxErrors) => Retag(tg, st) \in Tags
    BY CacheAssumption DEF Retag, Tags
  <2>5. tag \in Tags /\ old.tag \in Tags /\ Retag(old.tag, st) \in Tags
    BY <2>1, <2>3, <2>4, NoEntries
  <2>6. e \in Entries /\ e.tag = Retag(old.tag, st)
    BY <2>3, <2>5 DEF Entries
  <2>7. k \notin damaged => tag = e.tag
    BY <2>3, <2>6
  <2> HIDE DEF e, tag
  <2> QED
    BY <2>1, <2>2, <2>3, <2>5, <2>6, <2>7, RewriteInv DEF Rewrites
<1> QED
  BY <1>1, <1>2, <1>3

\* A removal takes the mutex and collects its keys from the index.
LEMMA RemovalInv ==
    ASSUME IInv, Cleanup \/ ClearAll \/ \E k \in Keys : Remove(k)
    PROVE  IInv'
<1> USE DEF IInv
<1>1. PICK name \in Removals, ks \in SUBSET Indexed :
          Removal(name, ks) /\ (name = "cleanup" => \A k \in ks : Bad(index[k].tag))
  <2>1. CASE Cleanup
    <3> DEFINE bad == {k \in Indexed : Bad(index[k].tag)}
    <3>1. Removal("cleanup", bad) /\ bad \in SUBSET Indexed /\ \A k \in bad : Bad(index[k].tag)
      BY <2>1 DEF Cleanup
    <3> QED
      BY <3>1 DEF Removals
  <2>2. CASE ClearAll
    BY <2>2 DEF ClearAll, Removals
  <2>3. ASSUME NEW k \in Keys, Remove(k)
        PROVE  Removal("remove", {k} \cap Indexed) /\ {k} \cap Indexed \in SUBSET Indexed
    BY <2>3 DEF Remove
  <2>4. CASE \E k \in Keys : Remove(k)
    BY <2>3, <2>4 DEF Removals
  <2> QED
    BY <2>1, <2>2, <2>4
<1>2. /\ op = Idle /\ ks # {} /\ op' = [Idle EXCEPT !.name = name, !.keys = ks]
      /\ UNCHANGED <<file, index, jobs, values, faults, historyVars>>
  BY <1>1 DEF Removal
<1>3. /\ op'.name = name /\ op'.keys = ks /\ op'.path = NoPath /\ op'.entry = Gone
      /\ op'.tag = NoTag /\ op'.quiet = TRUE
      /\ op' = [name |-> name, keys |-> ks, path |-> NoPath, entry |-> Gone,
                tag |-> NoTag, quiet |-> TRUE]
  BY <1>2 DEF Idle
<1>4. ks \subseteq Keys /\ Indexed' = Indexed /\ name \notin Rewrites /\ name # "idle"
  BY <1>1, <1>2 DEF Indexed, Removals, Rewrites
<1>5. /\ \A j \in jobs : ~j.mine
      /\ op.name = "idle" /\ op.path = NoPath /\ Underway = {}
  BY <1>2, IdleJobs
<1>6. Underway' = {}
  BY <1>3 DEF Underway
<1>7. TypeOK'
  BY <1>2, <1>3, <1>4, <1>5 DEF TypeOK
<1>8. OpOK'
  <2>1. op' \in Operations
    BY <1>3, <1>4, NoEntries DEF Operations
  <2>2. \A k \in ks : Bad(index[k].tag)' <=> Bad(index[k].tag)
    BY <1>2 DEF Bad
  <2> QED
    BY <1>1, <1>2, <1>3, <1>4, <2>1, <2>2 DEF OpOK, Bad
<1>9. OwnPaths' /\ JobsOK'
  BY <1>2, <1>4, <1>5 DEF OwnPaths, JobsOK
<1>10. Undisturbed' /\ TagsAgree'
  BY <1>3, <1>4 DEF Undisturbed, Apart, TagsAgree
<1>11. IndexAgrees' /\ FileAgrees'
  BY <1>2, <1>4, <1>5, <1>6 DEF IndexAgrees, FileAgrees
<1>12. NothingDangles' /\ NothingStrays'
  BY <1>2, <1>3, <1>4, <1>5, <1>6, PathKeys DEF NothingDangles, NothingStrays, Removals
<1> QED
  BY <1>7, <1>8, <1>9, <1>10, <1>11, <1>12

\* The removal of the next key begins.
LEMMA UnlinkInv == ASSUME IInv, NEW k \in Keys, Unlink(k) PROVE IInv'
<1> DEFINE p == index[k].path   new == Job("unlink", p, Gone)
<1> USE DEF IInv
<1>1. /\ op.name \in Removals /\ op.path = NoPath /\ k \in op.keys
      /\ op' = [op EXCEPT !.path = p, !.quiet = Quiet(k)] /\ jobs' = jobs \cup {new}
      /\ UNCHANGED <<file, index, values, faults, historyVars>>
  BY DEF Unlink
<1>2. /\ k \in Indexed /\ p \in Paths /\ KeyOf(p) = k /\ p # NoPath
      /\ op.keys \subseteq Indexed /\ op.entry = Gone
  BY <1>1, IndexPaths, PathKeys DEF OpOK, OwnPaths
<1>3. /\ op'.name = op.name /\ op'.path = p /\ op'.entry = op.entry /\ op'.tag = op.tag
      /\ op'.quiet = Quiet(k) /\ op'.keys = op.keys /\ op' \in Operations
  BY <1>1, <1>2 DEF OpOK, Operations, Quiet
<1>4. /\ new \in Jobs /\ new.kind = "unlink" /\ new.path = p /\ new.entry = Gone
      /\ new.mine /\ ~new.open
  BY <1>2 DEF Job, Jobs
<1> HIDE DEF new
<1>5. \A j \in jobs : ~j.mine
  BY <1>1, PathKeys DEF JobsOK, TypeOK, Jobs
<1>6. Underway' = {k} /\ Underway = {} /\ Indexed' = Indexed
      /\ op.name \notin Rewrites /\ op.name # "idle"
  BY <1>1, <1>2, <1>3 DEF Underway, Indexed, Removals, Rewrites
<1>7. TypeOK'
  <2>1. jobs' \subseteq Jobs /\ \A i, j \in jobs' : i.mine /\ j.mine => i = j /\ i.path = op'.path
    BY <1>1, <1>3, <1>4, <1>5 DEF TypeOK
  <2> QED
    BY <1>1, <1>3, <2>1 DEF TypeOK
<1>8. OpOK'
  <2>1. op.name = "cleanup" => \A u \in op.keys : Bad(index'[u].tag)
    BY <1>1 DEF OpOK
  <2> QED
    BY <1>1, <1>2, <1>3, <1>6, <2>1 DEF OpOK, Bad
<1>9. OwnPaths'
  BY <1>1, <1>6 DEF OwnPaths
<1>10. JobsOK'
  BY <1>1, <1>2, <1>3, <1>4, <1>5 DEF JobsOK
<1>11. Undisturbed'
  <2> SUFFICES ASSUME Apart'
               PROVE  /\ \A j \in jobs' : KeyOf(j.path) = KeyOf(op'.path) => j.mine /\ (j.open => j.alone)
                      /\ Waiting'
    BY DEF Undisturbed
  <2>1. \A j \in jobs : KeyOf(j.path) # k
    BY <1>1, <1>2, <1>3, <1>5 DEF Apart, Quiet, JobsOK
  <2> QED
    BY <1>1, <1>2, <1>3, <1>4, <2>1 DEF Waiting
<1>12. TagsAgree'
  BY <1>3, <1>6 DEF TagsAgree
<1>13. IndexAgrees' /\ FileAgrees'
  BY <1>1, <1>6 DEF IndexAgrees, FileAgrees
<1>14. NothingDangles' /\ NothingStrays'
  BY <1>1, <1>3, <1>6, PathKeys DEF NothingDangles, NothingStrays
<1> QED
  BY <1>7, <1>8, <1>9, <1>10, <1>11, <1>12, <1>13, <1>14

\* get and update_state drop an entry whose file is gone: only damage explains it.
LEMMA DropMissingInv == ASSUME IInv, NEW k \in Keys, DropMissing(k) PROVE IInv'
<1> USE DEF IInv
<1>1. /\ op = Idle /\ k \in Indexed /\ file[index[k].path] = Gone
      /\ index' = [index EXCEPT ![k] = NotIndexed]
      /\ UNCHANGED <<file, op, jobs, values, faults, historyVars>>
  BY DEF DropMissing
<1>2. /\ \A j \in jobs : ~j.mine
      /\ op.name = "idle" /\ op.path = NoPath /\ Underway = {}
  BY <1>1, IdleJobs
<1>3. /\ index'[k] = NotIndexed /\ \A u \in Keys \ {k} : index'[u] = index[u]
      /\ Indexed' = Indexed \ {k} /\ Underway' = {}
  BY <1>1, <1>2 DEF TypeOK, Indexed, Underway
<1>4. k \in damaged
  BY <1>1, <1>2 DEF IndexAgrees, FileAgrees
<1>5. TypeOK'
  BY <1>1 DEF TypeOK
<1>6. OpOK' /\ OwnPaths' /\ JobsOK'
  BY <1>1, <1>2, <1>3 DEF OpOK, OwnPaths, JobsOK, Idle, Rewrites, Removals, Indexed
<1>7. Undisturbed' /\ TagsAgree'
  BY <1>1, <1>2 DEF Undisturbed, Apart, TagsAgree, Rewrites
<1>8. IndexAgrees' /\ FileAgrees'
  BY <1>1, <1>2, <1>3, <1>4 DEF IndexAgrees, FileAgrees
<1>9. NothingDangles'
  BY <1>1, <1>2, <1>3 DEF NothingDangles, Rewrites, Removals, Indexed
<1>10. NothingStrays'
  <2> SUFFICES ASSUME NEW p \in Paths, file[p] # Gone
               PROVE  index'[KeyOf(p)].path = p \/ KeyOf(p) \in touched
    BY <1>1 DEF NothingStrays
  <2>1. index[KeyOf(p)].path = p \/ KeyOf(p) \in touched
    BY <1>2, PathKeys DEF NothingStrays
  <2>2. KeyOf(p) = k => KeyOf(p) \in touched
    BY <1>4 DEF TypeOK
  <2> QED
    BY <1>3, <2>1, <2>2, PathKeys
<1> QED
  BY <1>5, <1>6, <1>7, <1>8, <1>9, <1>10

-----------------------------------------------------------------------------
(* An operation completes.                                                 *)

\* A key is healed only when nothing is at work on it.
LEMMA HealedKey ==
    ASSUME IInv, op.path # NoPath, ~Waiting,
           damaged' = damaged \/ damaged' = damaged \ Healed(KeyOf(op.path))
    PROVE  /\ \A j \in jobs : ~j.mine /\ KeyOf(j.path) \in damaged'
           /\ damaged' \subseteq damaged
           /\ \A u \in Keys \ {KeyOf(op.path)} : u \in damaged' <=> u \in damaged
           /\ KeyOf(op.path) \notin damaged' => file[op.path] = op.entry
<1>1. \A j \in jobs : ~j.mine /\ KeyOf(j.path) \in damaged
  BY DEF IInv, JobsOK, Waiting
<1>2. op.quiet => \A j \in jobs : KeyOf(j.path) # KeyOf(op.path)
  BY <1>1 DEF IInv, Undisturbed, Apart
<1>3. KeyOf(op.path) \notin damaged' => op.quiet \/ KeyOf(op.path) \notin damaged
  BY DEF Healed
<1>4. KeyOf(op.path) \notin damaged' => file[op.path] = op.entry
  BY <1>3 DEF IInv, Undisturbed, Apart
<1> QED
  BY <1>1, <1>2, <1>4 DEF Healed

\* A rewrite completes.
LEMMA WriteIndexInv == ASSUME IInv, WriteIndex PROVE IInv'
<1> DEFINE k == KeyOf(op.path)
<1> USE DEF IInv
<1>1. /\ op.name \in Rewrites /\ ~Waiting /\ op' = Idle
      /\ index' = [index EXCEPT ![k] = [path |-> op.path, tag |-> op.tag]]
      /\ expected' = [expected EXCEPT ![k] = op.entry]
      /\ damaged' = IF op.name = "set" THEN damaged \ Healed(k) ELSE damaged
      /\ UNCHANGED <<file, jobs, values, faults, touched, unlinked>>
  BY DEF WriteIndex
<1>2. /\ op.path \in Paths /\ op.path # NoPath /\ op.entry \in Entries /\ op.tag \in Tags
      /\ k \in Keys /\ Underway = {k} /\ op.name \notin Removals
      /\ k \in Indexed => index[k].path = op.path
  BY <1>1, UnderwayKey, PathKeys DEF OpOK, Operations, Rewrites, Removals
<1>3. /\ \A j \in jobs : ~j.mine /\ KeyOf(j.path) \in damaged'
      /\ damaged' \subseteq damaged
      /\ \A u \in Keys \ {k} : u \in damaged' <=> u \in damaged
      /\ k \notin damaged' => file[op.path] = op.entry
  BY <1>1, <1>2, HealedKey
<1>4. /\ index'[k] = [path |-> op.path, tag |-> op.tag]
      /\ \A u \in Keys \ {k} : index'[u] = index[u] /\ expected'[u] = expected[u]
      /\ expected'[k] = op.entry
  BY <1>1, <1>2 DEF TypeOK
<1>5. Indexed' = Indexed \cup {k}
  BY <1>2, <1>4 DEF Indexed, NotIndexed
<1>6. /\ op'.name = "idle" /\ op'.path = NoPath /\ op' \in Operations /\ Underway' = {}
      /\ op'.keys = {}
  BY <1>1, NoEntries DEF Idle, Operations, Underway
<1>7. TypeOK'
  <2>1. index' \in [Keys -> [path : Paths, tag : Tags] \cup {NotIndexed}]
    BY <1>1, <1>2 DEF TypeOK
  <2>2. expected' \in [Keys -> Entries \cup {Gone}]
    BY <1>1, <1>2 DEF TypeOK
  <2> QED
    BY <1>1, <1>3, <1>6, <2>1, <2>2 DEF TypeOK
<1>8. OpOK'
  BY <1>1, <1>6 DEF OpOK, Rewrites, Removals
<1>9. OwnPaths'
  BY <1>4, <1>5 DEF OwnPaths, Indexed
<1>10. JobsOK'
  BY <1>1, <1>3 DEF JobsOK
<1>11. Undisturbed' /\ TagsAgree'
  BY <1>6 DEF Undisturbed, Apart, TagsAgree, Rewrites
<1>12. k \notin damaged' => op.tag = op.entry.tag
  BY <1>1 DEF TagsAgree
<1>13. IndexAgrees'
  BY <1>2, <1>3, <1>4, <1>5, <1>12, NoEntries DEF IndexAgrees
<1>14. FileAgrees'
  BY <1>1, <1>2, <1>3, <1>4 DEF FileAgrees
<1>15. NothingDangles'
  <2>1. file[op.path] = Gone => k \in unlinked
    BY <1>1, <1>3 DEF NothingDangles
  <2> QED
    BY <1>1, <1>2, <1>4, <1>5, <1>6, <2>1 DEF NothingDangles, Rewrites, Indexed
<1>16. NothingStrays'
  <2> SUFFICES ASSUME NEW p \in Paths, file[p] # Gone
               PROVE  index'[KeyOf(p)].path = p \/ KeyOf(p) \in touched
    BY <1>1 DEF NothingStrays
  <2>1. index[KeyOf(p)].path = p \/ KeyOf(p) \in touched \/ p = op.path
    BY DEF NothingStrays
  <2>2. KeyOf(p) = k /\ index[k].path = p => p = op.path
    BY <1>2, IndexPaths, PathKeys
  <2> QED
    BY <1>2, <1>4, <2>1, <2>2, PathKeys
<1> QED
  BY <1>7, <1>8, <1>9, <1>10, <1>11, <1>13, <1>14, <1>15, <1>16

\* The removal of a key completes.
LEMMA DropIndexInv == ASSUME IInv, DropIndex PROVE IInv'
<1> DEFINE k == KeyOf(op.path)
<1> USE DEF IInv
<1>1. /\ op.name \in Removals /\ op.path # NoPath /\ ~Waiting
      /\ op' = IF op.keys = {k} THEN Idle ELSE [op EXCEPT !.keys = @ \ {k}, !.path = NoPath]
      /\ index' = [index EXCEPT ![k] = NotIndexed]
      /\ expected' = [expected EXCEPT ![k] = Gone]
      /\ damaged' = damaged \ Healed(k)
      /\ UNCHANGED <<file, jobs, values, faults, touched, unlinked>>
  BY DEF DropIndex
<1>2. /\ op.path \in Paths /\ k \in Keys /\ Underway = {k} /\ op.name \notin Rewrites
      /\ k \in op.keys /\ op.keys \subseteq Indexed /\ index[k].path = op.path
      /\ op.entry = Gone
  BY <1>1, UnderwayKey, PathKeys DEF OpOK, Rewrites, Removals
<1>3. /\ \A j \in jobs : ~j.mine /\ KeyOf(j.path) \in damaged'
      /\ damaged' \subseteq damaged
      /\ \A u \in Keys \ {k} : u \in damaged' <=> u \in damaged
      /\ k \notin damaged' => file[op.path] = op.entry
  BY <1>1, HealedKey
<1>4. /\ index'[k] = NotIndexed /\ expected'[k] = Gone
      /\ \A u \in Keys \ {k} : index'[u] = index[u] /\ expected'[u] = expected[u]
  BY <1>1, <1>2 DEF TypeOK
<1>5. Indexed' = Indexed \ {k}
  BY <1>2, <1>4 DEF Indexed
<1>6. /\ op'.path = NoPath /\ op' \in Operations /\ Underway' = {}
      /\ \/ op' = Idle /\ op'.name = "idle" /\ op'.keys = {}
         \/ /\ op'.name = op.name /\ op'.keys = op.keys \ {k} /\ op'.keys # {}
            /\ op'.entry = op.entry
  <2>1. CASE op.keys = {k}
    BY <1>1, <2>1, NoEntries DEF Idle, Operations, Underway
  <2>2. CASE op.keys # {k}
    BY <1>1, <1>2, <2>2 DEF OpOK, Operations, Underway
  <2> QED
    BY <2>1, <2>2
<1>7. TypeOK'
  <2>1. index' \in [Keys -> [path : Paths, tag : Tags] \cup {NotIndexed}]
    BY <1>1, <1>2 DEF TypeOK
  <2>2. expected' \in [Keys -> Entries \cup {Gone}]
    BY <1>1, <1>2 DEF TypeOK
  <2>3. op'.name \in Rewrites \cup Removals \cup {"idle"} /\ op'.keys \subseteq Keys
    BY <1>6 DEF Operations
  <2> QED
    BY <1>1, <1>3, <2>1, <2>2, <2>3 DEF TypeOK
<1>8. OpOK'
  <2>1. op'.name = "idle" => op' = Idle
    BY <1>1, <1>6 DEF Removals
  <2>2. op'.name \in Removals =>
           op'.name = op.name /\ op'.keys = op.keys \ {k} /\ op'.keys # {} /\ op'.entry = Gone
    BY <1>2, <1>6 DEF Removals
  <2>3. op'.name \notin Rewrites
    BY <1>2, <1>6 DEF Rewrites
  <2>4. op'.name = "cleanup" => \A u \in op'.keys : u \in Keys /\ Bad(index'[u].tag)
    BY <1>2, <1>4, <2>2 DEF OpOK, Removals, Indexed
  <2> QED
    BY <1>2, <1>5, <1>6, <2>1, <2>2, <2>3, <2>4 DEF OpOK, Bad
<1>9. OwnPaths' /\ JobsOK'
  BY <1>1, <1>3, <1>4, <1>5 DEF OwnPaths, JobsOK, Indexed
<1>10. Undisturbed' /\ TagsAgree'
  BY <1>2, <1>6 DEF Undisturbed, Apart, TagsAgree, Rewrites
<1>11. IndexAgrees' /\ FileAgrees'
  BY <1>1, <1>2, <1>3, <1>4, <1>5 DEF IndexAgrees, FileAgrees
<1>12. NothingDangles'
  BY <1>1, <1>2, <1>4, <1>5, <1>6 DEF NothingDangles, Rewrites, Indexed
<1>13. NothingStrays'
  <2> SUFFICES ASSUME NEW p \in Paths, file[p] # Gone
               PROVE  index'[KeyOf(p)].path = p \/ KeyOf(p) \in touched
    BY <1>1 DEF NothingStrays
  <2>1. index[KeyOf(p)].path = p \/ KeyOf(p) \in touched \/ p = op.path
    BY DEF NothingStrays
  <2>2. p = op.path => k \in touched
    BY <1>2, <1>3 DEF TypeOK
  <2>3. KeyOf(p) = k /\ index[k].path = p => p = op.path
    BY <1>2
  <2> QED
    BY <1>2, <1>4, <2>1, <2>2, <2>3, PathKeys
<1> QED
  BY <1>7, <1>8, <1>9, <1>10, <1>11, <1>12, <1>13

-----------------------------------------------------------------------------
(* The threads.                                                            *)

\* What a thread's step leaves of the other jobs.
LEMMA OtherJobs ==
    ASSUME TypeOK, NEW j \in jobs
    PROVE  /\ \A i \in Others(j) : \E b \in jobs \ {j} :
                 /\ i \in Jobs /\ i.kind = b.kind /\ i.path = b.path /\ i.entry = b.entry
                 /\ i.open = b.open /\ i.mine = b.mine
                 /\ i = b \/ b.path = j.path
           /\ \A b \in jobs \ {j} : \E i \in Others(j) : i.open = b.open /\ i.mine = b.mine
           /\ \A i \in Others(j) : i.mine => ~j.mine /\ \A h \in Others(j) : h.mine => i = h
<1>1. \A b \in jobs : b \in Jobs
  BY DEF TypeOK
<1>2. \A b \in jobs \ {j} :
         /\ [b EXCEPT !.alone = FALSE] \in Jobs
         /\ [b EXCEPT !.alone = FALSE].kind = b.kind /\ [b EXCEPT !.alone = FALSE].path = b.path
         /\ [b EXCEPT !.alone = FALSE].entry = b.entry /\ [b EXCEPT !.alone = FALSE].open = b.open
         /\ [b EXCEPT !.alone = FALSE].mine = b.mine
  BY <1>1 DEF Jobs
<1>3. ASSUME NEW i \in Others(j)
      PROVE  \E b \in jobs \ {j} :
                 /\ i \in Jobs /\ i.kind = b.kind /\ i.path = b.path /\ i.entry = b.entry
                 /\ i.open = b.open /\ i.mine = b.mine
                 /\ i = b \/ b.path = j.path
  <2>1. PICK b \in jobs \ {j} :
            i = IF b.path = j.path /\ b.open THEN [b EXCEPT !.alone = FALSE] ELSE b
    BY DEF Others
  <2>2. CASE b.path = j.path /\ b.open
    BY <1>2, <2>1, <2>2
  <2>3. CASE ~(b.path = j.path /\ b.open)
    BY <1>1, <2>1, <2>3
  <2> QED
    BY <2>2, <2>3
<1>4. ASSUME NEW b \in jobs \ {j}
      PROVE  \E i \in Others(j) : i.open = b.open /\ i.mine = b.mine
  <2> DEFINE i == IF b.path = j.path /\ b.open THEN [b EXCEPT !.alone = FALSE] ELSE b
  <2>1. i \in Others(j)
    BY DEF Others
  <2>2. i.open = b.open /\ i.mine = b.mine
    BY <1>2
  <2> QED
    BY <2>1, <2>2
<1>5. ASSUME NEW i \in Others(j), i.mine, NEW h \in Others(j), h.mine
      PROVE  ~j.mine /\ i = h
  <2>1. PICK b \in jobs \ {j} :
            i = IF b.path = j.path /\ b.open THEN [b EXCEPT !.alone = FALSE] ELSE b
    BY DEF Others
  <2>2. PICK c \in jobs \ {j} :
            h = IF c.path = j.path /\ c.open THEN [c EXCEPT !.alone = FALSE] ELSE c
    BY DEF Others
  <2>3. b.mine /\ c.mine
    BY <1>2, <1>5, <2>1, <2>2
  <2>4. b = c /\ ~j.mine
    BY <2>3 DEF TypeOK
  <2> QED
    BY <2>1, <2>2, <2>4
<1> QED
  BY <1>3, <1>4, <1>5

\* The key of a job is under way or damaged, and the operation's own thread is
\* the only one at work for it as long as it is apart.
LEMMA JobKeys ==
    ASSUME IInv, NEW j \in jobs
    PROVE  /\ j \in Jobs /\ j.path \in Paths /\ KeyOf(j.path) \in Keys
           /\ j.mine => j.path = op.path /\ KeyOf(j.path) \in Underway
           /\ ~j.mine => KeyOf(j.path) \in damaged /\ KeyOf(j.path) \in touched
           /\ Apart /\ KeyOf(j.path) = KeyOf(op.path) => j.mine /\ (j.open => j.alone)
           /\ \A i \in jobs : i.mine /\ j.mine => i = j
<1>1. j \in Jobs /\ j.path \in Paths /\ KeyOf(j.path) \in Keys /\ j.path # NoPath
  BY PathKeys DEF IInv, TypeOK, Jobs
<1>2. j.mine => j.path = op.path
  BY DEF IInv, JobsOK
<1>3. j.mine => KeyOf(j.path) \in Underway
  BY <1>1, <1>2 DEF Underway
<1>4. ~j.mine => KeyOf(j.path) \in damaged /\ KeyOf(j.path) \in touched
  BY DEF IInv, JobsOK, TypeOK
<1>5. Apart /\ KeyOf(j.path) = KeyOf(op.path) => j.mine /\ (j.open => j.alone)
  BY DEF IInv, Undisturbed
<1>6. \A i \in jobs : i.mine /\ j.mine => i = j
  BY DEF IInv, TypeOK
<1> QED
  BY <1>1, <1>2, <1>3, <1>4, <1>5, <1>6

\* A thread's step leaves the operation and the index alone; it writes one file.
LEMMA ThreadFrame ==
    ASSUME IInv, NEW j \in jobs, NEW e \in Entries \cup {Gone, Torn},
           file' = [file EXCEPT ![j.path] = e],
           UNCHANGED <<index, op, values, faults, historyVars>>,
           \A i \in jobs' : i \in Jobs /\ \E b \in jobs :
               i.kind = b.kind /\ i.path = b.path /\ i.entry = b.entry /\ i.mine = b.mine,
           \A i, h \in jobs' : i.mine /\ h.mine => i = h
    PROVE  /\ TypeOK' /\ OpOK' /\ OwnPaths' /\ JobsOK' /\ TagsAgree'
           /\ IndexAgrees' /\ FileAgrees' /\ NothingStrays'
           /\ Indexed' = Indexed /\ Underway' = Underway /\ Apart' = Apart
           /\ file'[j.path] = e /\ \A p \in Paths \ {j.path} : file'[p] = file[p]
<1> USE DEF IInv
<1>1. /\ j.path \in Paths /\ KeyOf(j.path) \in Keys
      /\ j.mine => j.path = op.path /\ KeyOf(j.path) \in Underway
      /\ ~j.mine => KeyOf(j.path) \in damaged /\ KeyOf(j.path) \in touched
  BY JobKeys
<1>2. file'[j.path] = e /\ \A p \in Paths \ {j.path} : file'[p] = file[p]
  BY <1>1 DEF TypeOK
<1>3. Indexed' = Indexed /\ Underway' = Underway /\ Apart' = Apart
  BY DEF Indexed, Underway, Apart
<1>4. TypeOK'
  <2>1. file' \in [Paths -> Entries \cup {Gone, Torn}]
    BY <1>1 DEF TypeOK
  <2>2. jobs' \subseteq Jobs /\ \A i, h \in jobs' : i.mine /\ h.mine => i = h /\ i.path = op'.path
    BY DEF TypeOK
  <2> QED
    BY <2>1, <2>2 DEF TypeOK
<1>5. OpOK' /\ OwnPaths' /\ TagsAgree' /\ IndexAgrees'
  BY <1>3 DEF OpOK, OwnPaths, TagsAgree, IndexAgrees, Bad
<1>6. JobsOK'
  BY DEF JobsOK
<1>7. FileAgrees'
  <2> SUFFICES ASSUME NEW k \in Keys \ damaged, k \notin Underway, expected[k] # Gone
               PROVE  file'[index[k].path] = expected[k]
    BY <1>3 DEF FileAgrees
  <2>1. k \in Indexed /\ file[index[k].path] = expected[k]
    BY DEF IndexAgrees, FileAgrees
  <2>2. index[k].path \in Paths /\ KeyOf(index[k].path) = k
    BY <2>1, IndexPaths DEF OwnPaths
  <2> QED
    BY <1>1, <1>2, <2>1, <2>2
<1>8. NothingStrays'
  <2> SUFFICES ASSUME NEW p \in Paths, file'[p] # Gone
               PROVE  index[KeyOf(p)].path = p \/ KeyOf(p) \in touched \/ p = op.path
    BY DEF NothingStrays
  <2> QED
    BY <1>1, <1>2 DEF NothingStrays
<1> QED
  BY <1>2, <1>3, <1>4, <1>5, <1>6, <1>7, <1>8

\* A thread truncates the file it is about to write.
LEMMA TruncateInv == ASSUME IInv, NEW j \in jobs, Truncate(j) PROVE IInv'
<1> DEFINE new == [j EXCEPT !.open = TRUE, !.alone = \A i \in jobs : i.path = j.path => ~i.open]
<1>1. /\ j.kind = "write" /\ ~j.open /\ file' = [file EXCEPT ![j.path] = Torn]
      /\ jobs' = Others(j) \cup {new} /\ UNCHANGED <<index, op, values, faults, historyVars>>
  BY DEF Truncate
<1>2. TypeOK /\ NothingDangles /\ Undisturbed
  BY DEF IInv
<1>3. /\ j \in Jobs /\ j.path \in Paths
      /\ j.mine => j.path = op.path
      /\ ~j.mine => KeyOf(j.path) \in damaged /\ KeyOf(j.path) \in touched
      /\ Apart /\ KeyOf(j.path) = KeyOf(op.path) => j.mine
  BY JobKeys
<1>4. /\ new \in Jobs /\ new.kind = j.kind /\ new.path = j.path /\ new.entry = j.entry
      /\ new.mine = j.mine /\ new.open /\ (new.alone <=> \A i \in jobs : i.path = j.path => ~i.open)
  BY <1>3 DEF Jobs
<1> HIDE DEF new
<1>5. /\ \A i \in Others(j) : \E b \in jobs \ {j} :
            /\ i \in Jobs /\ i.kind = b.kind /\ i.path = b.path /\ i.entry = b.entry
            /\ i.open = b.open /\ i.mine = b.mine
            /\ i = b \/ b.path = j.path
      /\ \A b \in jobs \ {j} : \E i \in Others(j) : i.open = b.open /\ i.mine = b.mine
      /\ \A i \in Others(j) : i.mine => ~j.mine /\ \A h \in Others(j) : h.mine => i = h
  BY <1>2, OtherJobs
<1>6. /\ \A i \in jobs' : i \in Jobs /\ \E b \in jobs :
            i.kind = b.kind /\ i.path = b.path /\ i.entry = b.entry /\ i.mine = b.mine
      /\ \A i, h \in jobs' : i.mine /\ h.mine => i = h
  BY <1>1, <1>4, <1>5
<1>7. /\ TypeOK' /\ OpOK' /\ OwnPaths' /\ JobsOK' /\ TagsAgree'
      /\ IndexAgrees' /\ FileAgrees' /\ NothingStrays'
      /\ Indexed' = Indexed /\ Underway' = Underway /\ Apart' = Apart
      /\ file'[j.path] = Torn /\ \A p \in Paths \ {j.path} : file'[p] = file[p]
  BY <1>1, <1>6, ThreadFrame
<1>8. Undisturbed'
  <2> SUFFICES ASSUME Apart
               PROVE  /\ \A i \in jobs' : KeyOf(i.path) = KeyOf(op.path) => i.mine /\ (i.open => i.alone)
                      /\ Waiting' \/ file'[op.path] = op.entry
    BY <1>1, <1>7 DEF Undisturbed
  <2>1. \A b \in jobs : KeyOf(b.path) = KeyOf(op.path) => b.mine /\ (b.open => b.alone)
    BY DEF IInv, Undisturbed
  <2>2. \A b \in jobs : b.mine /\ j.mine => b = j
    BY <1>2 DEF TypeOK
  <2>3. ASSUME NEW i \in Others(j), KeyOf(i.path) = KeyOf(op.path)
        PROVE  i.mine /\ (i.open => i.alone)
    BY <1>5, <2>1, <2>2, <2>3
  <2>4. KeyOf(j.path) = KeyOf(op.path) => new.mine /\ new.alone
    BY <1>1, <1>4, <2>1, <2>2
  <2>5. Waiting' \/ file'[op.path] = op.entry
    <3>1. CASE j.mine
      BY <1>1, <1>4, <3>1 DEF Waiting
    <3>2. CASE ~j.mine
      <4>1. KeyOf(j.path) # KeyOf(op.path) /\ op.path \in Paths
        BY <2>1, <3>2, UnderwayKey DEF Apart, IInv
      <4>2. Waiting => Waiting'
        BY <1>1, <1>5, <3>2 DEF Waiting
      <4> QED
        BY <1>2, <1>7, <4>1, <4>2 DEF Undisturbed
    <3> QED
      BY <3>1, <3>2
  <2> QED
    BY <1>1, <1>4, <2>3, <2>4, <2>5
<1>9. NothingDangles'
  <2>1. \A k \in Indexed : index[k].path \in Paths
    BY <1>2, IndexPaths DEF Indexed
  <2>2. \A p \in Paths : file'[p] = Gone => file[p] = Gone /\ p # j.path
    BY <1>7, NoEntries
  <2>3. ASSUME op.name \in Rewrites, file'[op.path] = Gone
        PROVE  KeyOf(op.path) \in unlinked \/ \E i \in jobs' : i.mine /\ ~i.open
    <3>1. op.path \in Paths /\ file[op.path] = Gone /\ op.path # j.path
      BY <2>2, <2>3 DEF IInv, OpOK
    <3>2. KeyOf(op.path) \in unlinked \/ \E b \in jobs : b.mine /\ ~b.open
      BY <1>2, <2>3, <3>1 DEF NothingDangles
    <3> QED
      BY <1>1, <1>3, <1>5, <3>1, <3>2
  <2> QED
    BY <1>1, <1>2, <1>7, <2>1, <2>2, <2>3 DEF NothingDangles
<1> QED
  BY <1>7, <1>8, <1>9 DEF IInv

\* A thread finishes its write or its unlink.
LEMMA FinishInv == ASSUME IInv, NEW j \in jobs, Finish(j) PROVE IInv'
<1>1. /\ j.kind = "unlink" \/ j.open
      /\ jobs' = Others(j) /\ UNCHANGED <<index, op, values, faults, historyVars>>
  BY DEF Finish
<1>2. PICK e : /\ file' = [file EXCEPT ![j.path] = e]
               /\ e = j.entry \/ (j.kind # "unlink" /\ ~j.alone /\ e \in {file[j.path], Torn})
  BY DEF Finish
<1>3. TypeOK /\ NothingDangles /\ Undisturbed /\ JobsOK
  BY DEF IInv
<1>4. /\ j \in Jobs /\ j.path \in Paths
      /\ j.mine => j.path = op.path /\ KeyOf(j.path) \in Underway
      /\ ~j.mine => KeyOf(j.path) \in damaged /\ KeyOf(j.path) \in touched
      /\ Apart /\ KeyOf(j.path) = KeyOf(op.path) => j.mine /\ (j.open => j.alone)
      /\ j.entry \in Entries \cup {Gone} /\ file[j.path] \in Entries \cup {Gone, Torn}
      /\ j.kind \in {"write", "unlink"}
  BY <1>3, JobKeys DEF Jobs, TypeOK
<1>5. e \in Entries \cup {Gone, Torn}
  BY <1>2, <1>4
<1>6. /\ \A i \in Others(j) : \E b \in jobs \ {j} :
            /\ i \in Jobs /\ i.kind = b.kind /\ i.path = b.path /\ i.entry = b.entry
            /\ i.open = b.open /\ i.mine = b.mine
            /\ i = b \/ b.path = j.path
      /\ \A b \in jobs \ {j} : \E i \in Others(j) : i.open = b.open /\ i.mine = b.mine
      /\ \A i \in Others(j) : i.mine => ~j.mine /\ \A h \in Others(j) : h.mine => i = h
  BY <1>3, OtherJobs
<1>7. /\ \A i \in jobs' : i \in Jobs /\ \E b \in jobs :
            i.kind = b.kind /\ i.path = b.path /\ i.entry = b.entry /\ i.mine = b.mine
      /\ \A i, h \in jobs' : i.mine /\ h.mine => i = h
  BY <1>1, <1>6
<1>8. /\ TypeOK' /\ OpOK' /\ OwnPaths' /\ JobsOK' /\ TagsAgree'
      /\ IndexAgrees' /\ FileAgrees' /\ NothingStrays'
      /\ Indexed' = Indexed /\ Underway' = Underway /\ Apart' = Apart
      /\ file'[j.path] = e /\ \A p \in Paths \ {j.path} : file'[p] = file[p]
  BY <1>1, <1>2, <1>5, <1>7, ThreadFrame
<1>9. Undisturbed'
  <2> SUFFICES ASSUME Apart
               PROVE  /\ \A i \in jobs' : KeyOf(i.path) = KeyOf(op.path) => i.mine /\ (i.open => i.alone)
                      /\ Waiting' \/ file'[op.path] = op.entry
    BY <1>1, <1>8 DEF Undisturbed
  <2>1. \A b \in jobs : KeyOf(b.path) = KeyOf(op.path) => b.mine /\ (b.open => b.alone)
    BY <1>3 DEF Undisturbed
  <2>2. \A b \in jobs : b.mine /\ j.mine => b = j
    BY <1>3 DEF TypeOK
  <2>3. ASSUME NEW i \in Others(j), KeyOf(i.path) = KeyOf(op.path)
        PROVE  i.mine /\ (i.open => i.alone)
    BY <1>6, <2>1, <2>2, <2>3
  <2>4. Waiting' \/ file'[op.path] = op.entry
    <3>1. CASE j.mine
      <4>1. e = j.entry /\ j.entry = op.entry
        BY <1>1, <1>2, <1>3, <1>4, <3>1 DEF JobsOK
      <4> QED
        BY <1>4, <1>8, <3>1, <4>1
    <3>2. CASE ~j.mine
      <4>1. KeyOf(j.path) # KeyOf(op.path) /\ op.path \in Paths
        BY <2>1, <3>2, UnderwayKey DEF Apart, IInv
      <4>2. Waiting => Waiting'
        BY <1>1, <1>6, <3>2 DEF Waiting
      <4> QED
        BY <1>3, <1>8, <4>1, <4>2 DEF Undisturbed
    <3> QED
      BY <3>1, <3>2
  <2> QED
    BY <1>1, <2>3, <2>4
<1>10. NothingDangles'
  <2>1. \A k \in Indexed : index[k].path \in Paths /\ KeyOf(index[k].path) = k
    BY <1>3, IndexPaths DEF Indexed, IInv, OwnPaths
  <2>2. e = Gone => \/ j.kind = "unlink"
                    \/ j.kind = "write" /\ j.open /\ file[j.path] = Gone
    BY <1>1, <1>2, <1>3, <1>4, NoEntries DEF JobsOK
  <2>3. j.kind = "unlink" => IF j.mine THEN op.name \in Removals ELSE KeyOf(j.path) \in unlinked
    BY <1>3 DEF JobsOK
  <2>4. ASSUME NEW k \in Indexed, file'[index[k].path] = Gone
        PROVE  k \in unlinked \/ (op.name \in Removals /\ k \in Underway)
    <3>1. CASE index[k].path # j.path
      BY <1>3, <1>8, <2>1, <2>4, <3>1 DEF NothingDangles
    <3>2. CASE index[k].path = j.path
      BY <1>3, <1>4, <1>8, <2>1, <2>2, <2>3, <2>4, <3>2 DEF NothingDangles
    <3> QED
      BY <3>1, <3>2
  <2>5. ASSUME op.name \in Rewrites, file'[op.path] = Gone
        PROVE  KeyOf(op.path) \in unlinked \/ \E i \in jobs' : i.mine /\ ~i.open
    <3>1. op.path \in Paths /\ op.name \notin Removals
      BY <2>5 DEF IInv, OpOK, Rewrites, Removals
    <3>2. CASE op.path # j.path
      <4>1. KeyOf(op.path) \in unlinked \/ \E b \in jobs : b.mine /\ ~b.open
        BY <1>3, <1>8, <2>5, <3>1, <3>2 DEF NothingDangles
      <4> QED
        BY <1>1, <1>4, <1>6, <3>2, <4>1
    <3>3. CASE op.path = j.path
      <4>1. CASE j.kind = "unlink"
        BY <2>3, <3>1, <3>3, <4>1
      <4>2. CASE j.kind = "write" /\ j.open /\ file[j.path] = Gone
        <5>1. KeyOf(op.path) \in unlinked \/ \E b \in jobs : b.mine /\ ~b.open
          BY <1>3, <2>5, <3>3, <4>2 DEF NothingDangles
        <5> QED
          BY <1>1, <1>6, <4>2, <5>1
      <4> QED
        BY <1>8, <2>2, <2>5, <3>3, <4>1, <4>2
    <3> QED
      BY <3>2, <3>3
  <2> QED
    BY <1>1, <1>8, <2>4, <2>5 DEF NothingDangles
<1> QED
  BY <1>8, <1>9, <1>10 DEF IInv

-----------------------------------------------------------------------------
(* Interruptions.                                                          *)

\* An operation ends where it is: its key is damaged, and any other is as it was.
LEMMA InterruptInv ==
    ASSUME IInv, NEW ks \in SUBSET Keys, Underway \subseteq ks, Interrupt(ks), file' = file,
           jobs' \subseteq Jobs,
           \A j \in jobs' : /\ ~j.mine /\ KeyOf(j.path) \in damaged'
                            /\ j.kind = "write" => j.entry \in Entries
                            /\ j.kind = "unlink" => j.entry = Gone /\ KeyOf(j.path) \in unlinked',
           index' \in [Keys -> [path : Paths, tag : Tags] \cup {NotIndexed}],
           \A k \in Keys \ Underway : index'[k] = index[k],
           \A k \in Underway : index'[k] # NotIndexed =>
               /\ KeyOf(index'[k].path) = k
               /\ file[index'[k].path] = Gone => k \in unlinked'
    PROVE  IInv'
<1> USE DEF IInv
<1>1. /\ faults < MaxFaults /\ faults' = faults + 1 /\ op' = Idle
      /\ damaged' = damaged \cup ks /\ touched' = touched \cup ks
      /\ unlinked' = IF op.name \in Removals THEN unlinked \cup ks ELSE unlinked
      /\ UNCHANGED <<values, expected>>
  BY DEF Interrupt
<1>2. /\ op'.name = "idle" /\ op'.path = NoPath /\ op' \in Operations /\ Underway' = {}
      /\ op'.keys = {} /\ "idle" \notin Rewrites /\ "idle" \notin Removals
  BY <1>1, NoEntries DEF Idle, Operations, Underway, Rewrites, Removals
<1>3. Underway \subseteq damaged' /\ Underway \subseteq Keys
  BY <1>1
<1>4. TypeOK'
  <2>1. faults' \in 0 .. MaxFaults
    BY <1>1, CacheAssumption DEF TypeOK
  <2>2. damaged' \subseteq touched' /\ unlinked' \subseteq touched' /\ touched' \subseteq Keys
    BY <1>1 DEF TypeOK
  <2> QED
    BY <1>1, <1>2, <2>1, <2>2 DEF TypeOK
<1>5. OpOK'
  BY <1>1, <1>2 DEF OpOK
<1>6. \A k \in Keys \ Underway : k \in Indexed' <=> k \in Indexed
  BY DEF Indexed
<1>7. OwnPaths'
  BY <1>6 DEF OwnPaths, Indexed
<1>8. JobsOK'
  BY DEF JobsOK
<1>9. Undisturbed' /\ TagsAgree'
  BY <1>2 DEF Undisturbed, Apart, TagsAgree
<1>10. IndexAgrees'
  BY <1>1, <1>3, <1>6 DEF IndexAgrees
<1>11. FileAgrees'
  BY <1>1, <1>3 DEF FileAgrees
<1>12. NothingDangles'
  <2> SUFFICES ASSUME NEW k \in Indexed', file[index'[k].path] = Gone PROVE k \in unlinked'
    BY <1>2 DEF NothingDangles
  <2>1. k \in Keys /\ index'[k] # NotIndexed
    BY DEF Indexed
  <2>2. CASE k \in Underway
    BY <2>1, <2>2
  <2>3. CASE k \notin Underway
    BY <1>1, <1>6, <2>1, <2>3 DEF NothingDangles
  <2> QED
    BY <2>2, <2>3
<1>13. NothingStrays'
  <2> SUFFICES ASSUME NEW p \in Paths, file[p] # Gone
               PROVE  index'[KeyOf(p)].path = p \/ KeyOf(p) \in touched'
    BY DEF NothingStrays
  <2>1. index[KeyOf(p)].path = p \/ KeyOf(p) \in touched \/ p = op.path
    BY DEF NothingStrays
  <2>2. p = op.path => KeyOf(p) \in Underway
    BY PathKeys DEF Underway
  <2> QED
    BY <1>1, <2>1, <2>2, PathKeys
<1> QED
  BY <1>4, <1>5, <1>7, <1>8, <1>9, <1>10, <1>11, <1>12, <1>13

\* An index that an interruption leaves alone fits.
LEMMA IndexKept ==
    ASSUME IInv, NEW ks, Underway \subseteq ks, Interrupt(ks), index' = index
    PROVE  /\ index' \in [Keys -> [path : Paths, tag : Tags] \cup {NotIndexed}]
           /\ \A k \in Keys \ Underway : index'[k] = index[k]
           /\ \A k \in Underway : index'[k] # NotIndexed =>
                 /\ KeyOf(index'[k].path) = k
                 /\ file[index'[k].path] = Gone => k \in unlinked'
<1>1. Underway \subseteq Keys
  BY UnderwayKey, PathKeys DEF IInv
<1>2. unlinked' = IF op.name \in Removals THEN unlinked \cup ks ELSE unlinked
  BY DEF Interrupt
<1>3. ASSUME NEW k \in Underway, index[k] # NotIndexed
      PROVE  KeyOf(index[k].path) = k /\ (file[index[k].path] = Gone => k \in unlinked')
  <2>1. k \in Indexed
    BY <1>1, <1>3 DEF Indexed
  <2> QED
    BY <1>2, <2>1 DEF IInv, OwnPaths, NothingDangles
<1> QED
  BY <1>3 DEF IInv, TypeOK

\* What is left of the jobs when nobody waits any more.
LEMMA JobsLeft ==
    ASSUME IInv, NEW ks, Underway \subseteq ks, Interrupt(ks), NEW j \in jobs
    PROVE  /\ j \in Jobs /\ [j EXCEPT !.mine = FALSE] \in Jobs
           /\ KeyOf(j.path) \in Keys /\ KeyOf(j.path) \in damaged'
           /\ j.kind = "write" => j.entry \in Entries
           /\ j.kind = "unlink" => j.entry = Gone /\ KeyOf(j.path) \in unlinked'
<1>1. /\ damaged' = damaged \cup ks
      /\ unlinked' = IF op.name \in Removals THEN unlinked \cup ks ELSE unlinked
  BY DEF Interrupt
<1>2. /\ j \in Jobs /\ KeyOf(j.path) \in Keys
      /\ j.mine => KeyOf(j.path) \in Underway
      /\ ~j.mine => KeyOf(j.path) \in damaged
  BY JobKeys
<1>3. [j EXCEPT !.mine = FALSE] \in Jobs
  BY <1>2 DEF Jobs
<1>4. /\ j.kind = "write" => j.entry \in Entries
      /\ j.kind = "unlink" => j.entry = Gone
      /\ j.kind = "unlink" => IF j.mine THEN op.name \in Removals ELSE KeyOf(j.path) \in unlinked
  BY DEF IInv, JobsOK
<1> QED
  BY <1>1, <1>2, <1>3, <1>4

\* The caller is dropped, the process dies, or a file operation fails.
LEMMA FileInterruptInv ==
    ASSUME IInv, Cancel \/ Crash \/ JobFails
    PROVE  IInv'
<1>1. Underway \subseteq Keys
  BY UnderwayKey, PathKeys DEF IInv
<1>2. CASE Cancel
  <2>1. /\ Interrupt(Underway) /\ UNCHANGED <<file, index>>
        /\ \/ jobs' = {[j EXCEPT !.mine = FALSE] : j \in jobs}
           \/ jobs' = {j \in jobs : ~j.mine}
    BY <1>2 DEF Cancel
  <2>2. \A j \in jobs : /\ j \in Jobs /\ [j EXCEPT !.mine = FALSE] \in Jobs
                        /\ KeyOf(j.path) \in damaged'
                        /\ j.kind = "write" => j.entry \in Entries
                        /\ j.kind = "unlink" => j.entry = Gone /\ KeyOf(j.path) \in unlinked'
    BY <2>1, JobsLeft
  <2>3. \A j \in jobs : /\ ~[j EXCEPT !.mine = FALSE].mine
                        /\ [j EXCEPT !.mine = FALSE].path = j.path
                        /\ [j EXCEPT !.mine = FALSE].kind = j.kind
                        /\ [j EXCEPT !.mine = FALSE].entry = j.entry
    BY <2>2 DEF Jobs
  <2>4. /\ jobs' \subseteq Jobs
        /\ \A j \in jobs' : /\ ~j.mine /\ KeyOf(j.path) \in damaged'
                            /\ j.kind = "write" => j.entry \in Entries
                            /\ j.kind = "unlink" => j.entry = Gone /\ KeyOf(j.path) \in unlinked'
    <3>1. CASE jobs' = {[j EXCEPT !.mine = FALSE] : j \in jobs}
      <4>1. ASSUME NEW i \in jobs'
            PROVE  /\ i \in Jobs /\ ~i.mine /\ KeyOf(i.path) \in damaged'
                   /\ i.kind = "write" => i.entry \in Entries
                   /\ i.kind = "unlink" => i.entry = Gone /\ KeyOf(i.path) \in unlinked'
        <5>1. PICK j \in jobs : i = [j EXCEPT !.mine = FALSE]
          BY <3>1
        <5>2. /\ i \in Jobs /\ ~i.mine
              /\ i.path = j.path /\ i.kind = j.kind /\ i.entry = j.entry
          BY <2>2, <2>3, <5>1
        <5> QED
          BY <2>2, <5>2
      <4> QED
        BY <4>1
    <3>2. CASE jobs' = {j \in jobs : ~j.mine}
      BY <2>2, <3>2
    <3> QED
      BY <2>1, <3>1, <3>2
  <2>5. /\ index' \in [Keys -> [path : Paths, tag : Tags] \cup {NotIndexed}]
        /\ \A k \in Keys \ Underway : index'[k] = index[k]
        /\ \A k \in Underway : index'[k] # NotIndexed =>
              /\ KeyOf(index'[k].path) = k
              /\ file[index'[k].path] = Gone => k \in unlinked'
    BY <2>1, IndexKept
  <2> QED
    BY <1>1, <2>1, <2>4, <2>5, InterruptInv
<1>3. CASE Crash
  <2> DEFINE ks == Underway \cup {KeyOf(j.path) : j \in jobs}
  <2>1. Interrupt(ks) /\ UNCHANGED <<file, index>> /\ jobs' = {}
    BY <1>3 DEF Crash
  <2>2. ks \in SUBSET Keys /\ Underway \subseteq ks
    BY <1>1, JobKeys
  <2> HIDE DEF ks
  <2>3. /\ index' \in [Keys -> [path : Paths, tag : Tags] \cup {NotIndexed}]
        /\ \A k \in Keys \ Underway : index'[k] = index[k]
        /\ \A k \in Underway : index'[k] # NotIndexed =>
              /\ KeyOf(index'[k].path) = k
              /\ file[index'[k].path] = Gone => k \in unlinked'
    BY <2>1, <2>2, IndexKept
  <2> QED
    BY <2>1, <2>2, <2>3, InterruptInv
<1>4. CASE JobFails
  <2>1. Interrupt(Underway) /\ UNCHANGED <<file, index>> /\ jobs' = {j \in jobs : ~j.mine}
    BY <1>4 DEF JobFails
  <2>2. /\ jobs' \subseteq Jobs
        /\ \A j \in jobs' : /\ ~j.mine /\ KeyOf(j.path) \in damaged'
                            /\ j.kind = "write" => j.entry \in Entries
                            /\ j.kind = "unlink" => j.entry = Gone /\ KeyOf(j.path) \in unlinked'
    BY <2>1, JobsLeft
  <2>3. /\ index' \in [Keys -> [path : Paths, tag : Tags] \cup {NotIndexed}]
        /\ \A k \in Keys \ Underway : index'[k] = index[k]
        /\ \A k \in Underway : index'[k] # NotIndexed =>
              /\ KeyOf(index'[k].path) = k
              /\ file[index'[k].path] = Gone => k \in unlinked'
    BY <2>1, IndexKept
  <2> QED
    BY <1>1, <2>1, <2>2, <2>3, InterruptInv
<1> QED
  BY <1>2, <1>3, <1>4

\* The write to the index, or its persist, fails.
LEMMA IndexFailsInv == ASSUME IInv, IndexFails PROVE IInv'
<1> DEFINE k == KeyOf(op.path)
           entry == IF op.name \in Rewrites THEN [path |-> op.path, tag |-> op.tag] ELSE NotIndexed
<1>1. /\ op.path # NoPath /\ ~Waiting /\ Interrupt(Underway) /\ UNCHANGED <<file, jobs>>
      /\ index' = index \/ index' = [index EXCEPT ![k] = entry]
  BY DEF IndexFails
<1>2. /\ op.path \in Paths /\ Underway = {k} /\ k \in Keys /\ op.tag \in Tags
  BY <1>1, UnderwayKey, PathKeys DEF IInv, OpOK, Operations
<1>3. /\ jobs' \subseteq Jobs
      /\ \A j \in jobs' : /\ ~j.mine /\ KeyOf(j.path) \in damaged'
                          /\ j.kind = "write" => j.entry \in Entries
                          /\ j.kind = "unlink" => j.entry = Gone /\ KeyOf(j.path) \in unlinked'
  BY <1>1, JobsLeft DEF Waiting
<1>4. /\ index' \in [Keys -> [path : Paths, tag : Tags] \cup {NotIndexed}]
      /\ \A u \in Keys \ Underway : index'[u] = index[u]
      /\ \A u \in Underway : index'[u] # NotIndexed =>
            /\ KeyOf(index'[u].path) = u
            /\ file[index'[u].path] = Gone => u \in unlinked'
  <2>1. CASE index' = index
    BY <1>1, <2>1, IndexKept
  <2>2. CASE index' = [index EXCEPT ![k] = entry]
    <3>1. /\ index'[k] = entry /\ \A u \in Keys \ {k} : index'[u] = index[u]
          /\ index' \in [Keys -> [path : Paths, tag : Tags] \cup {NotIndexed}]
      BY <1>2, <2>2 DEF IInv, TypeOK
    <3>2. entry # NotIndexed =>
             /\ op.name \in Rewrites /\ entry.path = op.path
             /\ file[op.path] = Gone => k \in unlinked
      BY <1>1 DEF IInv, NothingDangles, Waiting
    <3>3. unlinked \subseteq unlinked'
      BY <1>1 DEF Interrupt
    <3> HIDE DEF entry
    <3> QED
      BY <1>2, <3>1, <3>2, <3>3
  <2> QED
    BY <1>1, <2>1, <2>2
<1> QED
  BY <1>1, <1>2, <1>3, <1>4, InterruptInv

-----------------------------------------------------------------------------
(* The theorems.                                                           *)

\* An empty cache.
LEMMA InitInv == Init => IInv
<1> SUFFICES ASSUME Init PROVE IInv
  OBVIOUS
<1>1. /\ file = [p \in Paths |-> Gone] /\ index = [k \in Keys |-> NotIndexed]
      /\ op = Idle /\ jobs = {} /\ values = 0 /\ faults = 0
      /\ expected = [k \in Keys |-> Gone] /\ damaged = {} /\ touched = {} /\ unlinked = {}
  BY DEF Init
<1>2. /\ op.name = "idle" /\ op.path = NoPath /\ op.keys = {} /\ op \in Operations
      /\ "idle" \notin Rewrites /\ "idle" \notin Removals
  BY <1>1, NoEntries DEF Idle, Operations, Rewrites, Removals
<1>3. Indexed = {}
  BY <1>1 DEF Indexed
<1>4. TypeOK
  BY <1>1, <1>2, CacheAssumption DEF TypeOK
<1>5. OpOK /\ OwnPaths /\ JobsOK /\ Undisturbed /\ TagsAgree
  BY <1>1, <1>2, <1>3 DEF OpOK, OwnPaths, JobsOK, Undisturbed, Apart, TagsAgree
<1>6. IndexAgrees /\ FileAgrees /\ NothingDangles /\ NothingStrays
  BY <1>1, <1>2, <1>3 DEF IndexAgrees, FileAgrees, NothingDangles, NothingStrays
<1> QED
  BY <1>4, <1>5, <1>6 DEF IInv

\* No step breaks the invariant.
LEMMA Inductive == IInv /\ [Next]_vars => IInv'
<1> SUFFICES ASSUME IInv, [Next]_vars PROVE IInv'
  OBVIOUS
<1>1. CASE \E k \in Keys : Get(k) \/ \E st \in States : Set(k, st) \/ UpdateState(k, st)
  BY <1>1, BeginRewriteInv
<1>2. CASE Cleanup \/ ClearAll \/ \E k \in Keys : Remove(k)
  BY <1>2, RemovalInv
<1>3. CASE \E k \in Keys : Unlink(k)
  BY <1>3, UnlinkInv
<1>4. CASE \E k \in Keys : DropMissing(k)
  BY <1>4, DropMissingInv
<1>5. CASE WriteIndex
  BY <1>5, WriteIndexInv
<1>6. CASE DropIndex
  BY <1>6, DropIndexInv
<1>7. CASE \E j \in jobs : Truncate(j)
  BY <1>7, TruncateInv
<1>8. CASE \E j \in jobs : Finish(j)
  BY <1>8, FinishInv
<1>9. CASE Cancel \/ Crash \/ JobFails
  BY <1>9, FileInterruptInv
<1>10. CASE IndexFails
  BY <1>10, IndexFailsInv
<1>11. CASE UNCHANGED vars
  BY <1>11 DEF IInv, TypeOK, OpOK, OwnPaths, JobsOK, Undisturbed, Apart, TagsAgree, IndexAgrees,
               FileAgrees, NothingDangles, NothingStrays, Indexed, Underway, Waiting, Bad
<1> QED
  BY <1>1, <1>2, <1>3, <1>4, <1>5, <1>6, <1>7, <1>8, <1>9, <1>10, <1>11 DEF Next

\* The invariant holds throughout.
THEOREM Invariance == Spec => []IInv
  BY InitInv, Inductive, PTL DEF Spec

\* Every variable of the cache keeps its type, and an operation waits for one job.
THEOREM TypeCorrect == Spec => []TypeOK
<1>1. IInv => TypeOK
  BY DEF IInv
<1> QED
  BY <1>1, Invariance, PTL

\* The damage of interrupted operations stays with their keys until they are
\* healed; any other key is what the completed operations made of it.
THEOREM KeysAgree == Spec => []Agreement
<1>1. IInv => Agreement
  <2> SUFFICES ASSUME IInv, op = Idle, NEW k \in Keys \ damaged
               PROVE  IF expected[k] = Gone THEN k \notin Indexed
                      ELSE /\ k \in Indexed /\ index[k].tag = expected[k].tag
                           /\ file[index[k].path] = expected[k]
    BY DEF Agreement
  <2>1. Underway = {}
    BY IdleJobs DEF IInv
  <2> QED
    BY <2>1 DEF IInv, IndexAgrees, FileAgrees
<1> QED
  BY <1>1, Invariance, PTL

\* An index entry points to a file, a file has an index entry, except for what
\* interrupted removals and interrupted operations left.
THEOREM IndexFits == Spec => []IndexMatchesFiles
<1>1. IInv => IndexMatchesFiles
  <2> SUFFICES ASSUME IInv, op = Idle
               PROVE  /\ \A k \in Indexed : file[index[k].path] = Gone => k \in unlinked
                      /\ \A p \in Paths : file[p] # Gone => p \in {index[k].path : k \in Indexed}
                                                            \/ KeyOf(p) \in touched
    BY DEF IndexMatchesFiles
  <2>1. Underway = {} /\ op.path = NoPath
    BY IdleJobs DEF IInv
  <2>2. ASSUME NEW p \in Paths, index[KeyOf(p)].path = p
        PROVE  p \in {index[k].path : k \in Indexed}
    BY <2>2, PathKeys, IndexPaths DEF IInv
  <2> QED
    BY <2>1, <2>2, PathKeys DEF IInv, NothingDangles, NothingStrays
<1> QED
  BY <1>1, Invariance, PTL

\* cleanup drops nothing that get would still serve.
THEOREM CleanupSpares == Spec => CleanupSparesGood
<1> DEFINE Spared == \A k \in (Indexed \ Indexed') \ damaged : op.name = "cleanup" =>
                        \/ expected[k].tag.state = "invalid"
                        \/ expected[k].tag.state = "error" /\ expected[k].tag.errors > ErrorLimit
<1>1. IInv /\ [Next]_vars => [Spared]_vars
  <2> SUFFICES ASSUME IInv, Next, NEW k \in Indexed, k \notin Indexed', k \notin damaged,
                      op.name = "cleanup"
               PROVE  Bad(expected[k].tag)
    BY DEF Bad
  <2>1. index[k].tag = expected[k].tag
    BY DEF IInv, IndexAgrees, Indexed
  <2>2. k \in op.keys
    <3>1. op # Idle /\ op.name \in Removals /\ op.name \notin Rewrites /\ index' # index
      BY DEF Idle, Removals, Rewrites, Indexed
    <3>2. CASE DropIndex
      <4>1. op.path # NoPath /\ index' = [index EXCEPT ![KeyOf(op.path)] = NotIndexed]
        BY <3>2 DEF DropIndex
      <4>2. k = KeyOf(op.path)
        BY <4>1 DEF Indexed, IInv, TypeOK
      <4> QED
        BY <3>1, <4>1, <4>2 DEF IInv, OpOK
    <3>3. CASE IndexFails
      <4>1. op.path # NoPath /\ index' = [index EXCEPT ![KeyOf(op.path)] = NotIndexed]
        BY <3>1, <3>3 DEF IndexFails
      <4>2. k = KeyOf(op.path)
        BY <4>1 DEF Indexed, IInv, TypeOK
      <4> QED
        BY <3>1, <4>1, <4>2 DEF IInv, OpOK
    <3>4. CASE \E u \in Keys : Unlink(u)
      BY <3>1, <3>4 DEF Unlink
    <3>5. CASE \E j \in jobs : Truncate(j) \/ Finish(j)
      BY <3>1, <3>5 DEF Truncate, Finish
    <3>6. CASE Cancel \/ Crash \/ JobFails
      BY <3>1, <3>6 DEF Cancel, Crash, JobFails
    <3> QED
      BY <3>1, <3>2, <3>3, <3>4, <3>5, <3>6
         DEF Next, Set, UpdateState, Get, Rewrite, DropMissing, Remove, Cleanup, ClearAll,
             Removal, WriteIndex
  <2> QED
    BY <2>1, <2>2 DEF IInv, OpOK
<1> QED
  BY <1>1, Invariance, PTL DEF Spec, CleanupSparesGood

=============================================================================
