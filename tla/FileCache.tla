----------------------------- MODULE FileCache -----------------------------
(***************************************************************************)
(* FileHttpCache (capp-cache, file.rs): an index entry per key in a Fjall  *)
(* keyspace, and the cached value in a file of its own.  An operation      *)
(* holds an async mutex.  tokio::fs hands a write or an unlink to a        *)
(* background thread; the caller may be cancelled while it waits (by a     *)
(* timeout), which releases the mutex but does not stop the thread.        *)
(***************************************************************************)
EXTENDS Integers, FiniteSets

CONSTANTS
    Keys,
    MaxValues,    \* how many values a behaviour sets
    MaxErrors,    \* how far error counts are followed
    ErrorLimit,   \* cleanup removes entries with more errors (3 in the code)
    MaxFaults,
    Faults        \* which interruptions there are

FaultKinds == {"cancel",  \* the caller drops the operation at an await
               "crash",   \* the process dies and opens the cache again
               "io"}      \* a write to the file or to the index fails

ASSUME CacheAssumption ==
    /\ IsFiniteSet(Keys) /\ MaxValues \in Nat \ {0}
    /\ ErrorLimit \in Nat /\ MaxErrors \in Nat /\ MaxErrors > ErrorLimit
    /\ MaxFaults \in Nat /\ Faults \subseteq FaultKinds

VARIABLES
    file,      \* what each path holds
    index,     \* the index entry of each key
    op,        \* the operation that holds the mutex
    jobs,      \* file operations in the hands of background threads
    values,    \* how many values were set; a value is its number
    faults,
    expected,  \* history: what the completed operations made of each key
    damaged,   \* history: keys of interrupted operations, until they are healed
    touched,   \* history: keys of interrupted operations
    unlinked   \* history: keys of interrupted removals

historyVars == <<expected, damaged, touched, unlinked>>
vars == <<file, index, op, jobs, values, faults, historyVars>>

-----------------------------------------------------------------------------
(* Data.  (An entry's state "stale" is treated as "fresh" is everywhere.)   *)

States == {"fresh", "invalid", "error"}

Tags    == [state : States, errors : 0 .. MaxErrors]
Entries == [value : 1 .. MaxValues, tag : Tags]

NoTag == [state |-> "fresh", errors |-> 0]
Gone  == [value |-> 0, tag |-> NoTag]     \* there is no file
Torn  == [value |-> -1, tag |-> NoTag]    \* the file cannot be parsed

\* A file is named for the key's hash and the millisecond of its first set; a
\* later file of the key may have the name of an earlier one.
Paths  == Keys \X {1, 2}
NoPath == <<>>

NotIndexed == [path |-> NoPath, tag |-> NoTag]
Indexed == {k \in Keys : index[k] # NotIndexed}

\* `quiet`: when it began, no thread was at work for its key.
Idle == [name |-> "idle", keys |-> {}, path |-> NoPath, entry |-> Gone, tag |-> NoTag,
         quiet |-> TRUE]

Rewrites == {"set", "get", "update"}
Removals == {"remove", "cleanup", "clear_all"}

\* A job: `open` once the file is truncated, `alone` while nobody else has
\* touched it since, `mine` while the operation waits for it.
Jobs == [kind : {"write", "unlink"}, path : Paths, entry : Entries \cup {Gone},
         open : BOOLEAN, alone : BOOLEAN, mine : BOOLEAN]

Job(kind, p, e) == [kind |-> kind, path |-> p, entry |-> e,
                    open |-> FALSE, alone |-> TRUE, mine |-> TRUE]

Waiting == \E j \in jobs : j.mine

KeyOf(p) == p[1]

Quiet(k) == \A j \in jobs : KeyOf(j.path) # k

Init ==
    /\ file = [p \in Paths |-> Gone]
    /\ index = [k \in Keys |-> NotIndexed]
    /\ op = Idle /\ jobs = {} /\ values = 0 /\ faults = 0
    /\ expected = [k \in Keys |-> Gone]
    /\ damaged = {} /\ touched = {} /\ unlinked = {}

-----------------------------------------------------------------------------
(* The operations: a rewrite replaces the file and then the index entry, a *)
(* removal unlinks the file and then drops the index entry.                *)

\* Mutant: the mutex is not taken.
RewriteUnlocked(name, k, p, e, tag) ==
    /\ op' = [name |-> name, keys |-> {k}, path |-> p, entry |-> e, tag |-> tag,
              quiet |-> Quiet(k)]
    /\ jobs' = jobs \cup {Job("write", p, e)}
    /\ UNCHANGED <<file, index, faults, historyVars>>

Rewrite(name, k, p, e, tag) ==
    /\ op = Idle
    /\ op' = [name |-> name, keys |-> {k}, path |-> p, entry |-> e, tag |-> tag,
              quiet |-> Quiet(k)]
    /\ jobs' = jobs \cup {Job("write", p, e)}
    /\ UNCHANGED <<file, index, faults, historyVars>>

\* Mutant: every set takes a new path.
PathsForNew(k) == {k} \X {1, 2}

\* A key keeps its path as long as it is indexed.
PathsFor(k) == IF k \in Indexed THEN {index[k].path} ELSE {k} \X {1, 2}

Set(k, st) ==
    /\ values < MaxValues /\ values' = values + 1
    /\ LET tag == [state |-> st, errors |-> IF st = "error" THEN 1 ELSE 0]
       IN  \E p \in PathsFor(k) :
               Rewrite("set", k, p, [value |-> values + 1, tag |-> tag], tag)

\* Otherwise get and update_state return an error, or drop the entry.
Readable(k) == k \in Indexed /\ file[index[k].path] \notin {Gone, Torn}

\* get writes back what it has read, with a new access time.
Get(k) ==
    /\ Readable(k)
    /\ Rewrite("get", k, index[k].path, file[index[k].path], index[k].tag)
    /\ UNCHANGED values

Retag(tag, st) ==
    [state |-> st, errors |-> IF st = "error" THEN tag.errors + 1 ELSE tag.errors]

\* Mutant: the index entry keeps its state.
IndexTagKept(tag, st) == tag

IndexTag(tag, st) == Retag(tag, st)

UpdateState(k, st) ==
    /\ Readable(k)
    /\ LET e == file[index[k].path]
       IN  /\ st = "error" => e.tag.errors < MaxErrors /\ index[k].tag.errors < MaxErrors
           /\ Rewrite("update", k, index[k].path, [e EXCEPT !.tag = Retag(@, st)],
                      IndexTag(index[k].tag, st))
    /\ UNCHANGED values

\* get and update_state drop the index entry of a file that is gone.
DropMissing(k) ==
    /\ op = Idle /\ k \in Indexed /\ file[index[k].path] = Gone
    /\ index' = [index EXCEPT ![k] = NotIndexed]
    /\ UNCHANGED <<file, op, jobs, values, faults, historyVars>>

Removal(name, ks) ==
    /\ op = Idle /\ ks # {}
    /\ op' = [Idle EXCEPT !.name = name, !.keys = ks]
    /\ UNCHANGED <<file, index, jobs, values, faults, historyVars>>

\* Mutant: one error too few is enough.
BadAtLimit(tag) == tag.state = "invalid" \/ (tag.state = "error" /\ tag.errors >= ErrorLimit)

Bad(tag) == tag.state = "invalid" \/ (tag.state = "error" /\ tag.errors > ErrorLimit)

Remove(k) == Removal("remove", {k} \cap Indexed)
Cleanup   == Removal("cleanup", {k \in Indexed : Bad(index[k].tag)})
ClearAll  == Removal("clear_all", Indexed)

\* remove_internal for the next of the keys that were collected.
Unlink(k) ==
    /\ op.name \in Removals /\ op.path = NoPath /\ k \in op.keys
    /\ op' = [op EXCEPT !.path = index[k].path, !.quiet = Quiet(k)]
    /\ jobs' = jobs \cup {Job("unlink", index[k].path, Gone)}
    /\ UNCHANGED <<file, index, values, faults, historyVars>>

\* A completed set or removal heals its key, unless a thread is at work on it.
Healed(k) == IF op.quiet THEN {k} ELSE {}

WriteIndex ==
    /\ op.name \in Rewrites /\ ~Waiting
    /\ LET k == KeyOf(op.path)
       IN  /\ index' = [index EXCEPT ![k] = [path |-> op.path, tag |-> op.tag]]
           /\ expected' = [expected EXCEPT ![k] = op.entry]
           /\ damaged' = IF op.name = "set" THEN damaged \ Healed(k) ELSE damaged
    /\ op' = Idle
    /\ UNCHANGED <<file, jobs, values, faults, touched, unlinked>>

DropIndex ==
    /\ op.name \in Removals /\ op.path # NoPath /\ ~Waiting
    /\ LET k == KeyOf(op.path)
       IN  /\ index' = [index EXCEPT ![k] = NotIndexed]
           /\ expected' = [expected EXCEPT ![k] = Gone]
           /\ damaged' = damaged \ Healed(k)
           /\ op' = IF op.keys = {k} THEN Idle
                    ELSE [op EXCEPT !.keys = @ \ {k}, !.path = NoPath]
    /\ UNCHANGED <<file, jobs, values, faults, touched, unlinked>>

-----------------------------------------------------------------------------
(* The background threads.                                                 *)

Others(j) ==
    {IF i.path = j.path /\ i.open THEN [i EXCEPT !.alone = FALSE] ELSE i : i \in jobs \ {j}}

Truncate(j) ==
    /\ j.kind = "write" /\ ~j.open
    /\ file' = [file EXCEPT ![j.path] = Torn]
    /\ jobs' = Others(j) \cup
         {[j EXCEPT !.open = TRUE, !.alone = \A i \in jobs : i.path = j.path => ~i.open]}
    /\ UNCHANGED <<index, op, values, faults, historyVars>>

\* Two threads that write the same file, or a file that is unlinked meanwhile,
\* leave one of the contents, or a mixture.
Finish(j) ==
    /\ j.kind = "unlink" \/ j.open
    /\ \E e \in IF j.kind = "unlink" \/ j.alone THEN {j.entry}
                ELSE {j.entry, file[j.path], Torn} :
          file' = [file EXCEPT ![j.path] = e]
    /\ jobs' = Others(j)
    /\ UNCHANGED <<index, op, values, faults, historyVars>>

-----------------------------------------------------------------------------
(* Interruptions.                                                          *)

\* The operation ends where it is; `ks` are the keys it may have left halfway.
Interrupt(ks) ==
    /\ faults < MaxFaults /\ faults' = faults + 1
    /\ op' = Idle
    /\ damaged' = damaged \cup ks /\ touched' = touched \cup ks
    /\ unlinked' = IF op.name \in Removals THEN unlinked \cup ks ELSE unlinked
    /\ UNCHANGED <<values, expected>>

Underway == IF op.path = NoPath THEN {} ELSE {KeyOf(op.path)}

\* The thread goes on, unless the directory was still being created.
Cancel ==
    /\ "cancel" \in Faults /\ Waiting
    /\ Interrupt(Underway)
    /\ LET detached == {[j EXCEPT !.mine = FALSE] : j \in jobs}
       IN  \/ jobs' = detached
           \/ /\ \E j \in jobs : j.mine /\ j.kind = "write" /\ ~j.open
              /\ jobs' = {j \in jobs : ~j.mine}
    /\ UNCHANGED <<file, index>>

Crash ==
    /\ "crash" \in Faults
    /\ Interrupt(Underway \cup {KeyOf(j.path) : j \in jobs})
    /\ jobs' = {}
    /\ UNCHANGED <<file, index>>

\* The file operation fails, and the operation that waits for it returns the error.
JobFails ==
    /\ "io" \in Faults /\ Waiting
    /\ Interrupt(Underway)
    /\ jobs' = {j \in jobs : ~j.mine}
    /\ UNCHANGED <<file, index>>

\* The write to the index, or its persist, fails.
IndexFails ==
    /\ "io" \in Faults /\ op.path # NoPath /\ ~Waiting
    /\ Interrupt(Underway)
    /\ \/ UNCHANGED index
       \/ index' = [index EXCEPT ![KeyOf(op.path)] =
                      IF op.name \in Rewrites THEN [path |-> op.path, tag |-> op.tag]
                      ELSE NotIndexed]
    /\ UNCHANGED <<file, jobs>>

Next ==
    \/ \E k \in Keys, st \in States : Set(k, st) \/ UpdateState(k, st)
    \/ \E k \in Keys : Get(k) \/ DropMissing(k) \/ Remove(k) \/ Unlink(k)
    \/ Cleanup \/ ClearAll \/ WriteIndex \/ DropIndex
    \/ \E j \in jobs : Truncate(j) \/ Finish(j)
    \/ Cancel \/ Crash \/ JobFails \/ IndexFails

Spec == Init /\ [][Next]_vars

-----------------------------------------------------------------------------
(* What the cache promises.                                                *)

\* Every variable has its type, and the mutex holder waits for one job at most.
TypeOK ==
    /\ file \in [Paths -> Entries \cup {Gone, Torn}]
    /\ index \in [Keys -> [path : Paths, tag : Tags] \cup {NotIndexed}]
    /\ op.name \in Rewrites \cup Removals \cup {"idle"} /\ op.keys \subseteq Keys
    /\ jobs \subseteq Jobs
    /\ \A i, j \in jobs : i.mine /\ j.mine => i = j /\ i.path = op.path
    /\ values \in 0 .. MaxValues /\ faults \in 0 .. MaxFaults
    /\ expected \in [Keys -> Entries \cup {Gone}]
    /\ damaged \subseteq touched /\ unlinked \subseteq touched /\ touched \subseteq Keys

\* The damage of an interrupted operation is confined to its own key and undone
\* by the next completed set or removal of it that began with no thread at work:
\* any other key has the file and the index entry that its completed operations
\* gave it, and the two agree.
Agreement ==
    op = Idle =>
        \A k \in Keys \ damaged :
            IF expected[k] = Gone THEN k \notin Indexed
            ELSE /\ k \in Indexed /\ index[k].tag = expected[k].tag
                 /\ file[index[k].path] = expected[k]

\* Index and files fit each other: an entry never points to a file that was not
\* written (only an interrupted removal leaves one without its file), and a file that
\* no entry refers to -- neither cleanup nor clear_all will find it -- is left by an
\* interrupted operation on its key.
IndexMatchesFiles ==
    op = Idle =>
        /\ \A k \in Indexed : file[index[k].path] = Gone => k \in unlinked
        /\ \A p \in Paths : file[p] # Gone => p \in {index[k].path : k \in Indexed}
                                               \/ KeyOf(p) \in touched

\* cleanup judges by the index alone; for an undamaged key it drops only what get
\* would return as invalid, or as an error that was marked too often.
CleanupSparesGood ==
    [][ \A k \in (Indexed \ Indexed') \ damaged : op.name = "cleanup" =>
            \/ expected[k].tag.state = "invalid"
            \/ expected[k].tag.state = "error" /\ expected[k].tag.errors > ErrorLimit ]_vars

=============================================================================
