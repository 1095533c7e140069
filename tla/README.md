# TLA+ models of capp-rs

capp-rs is a Rust toolkit for task-queue based crawlers.  This directory models the part of it in which the order
of events matters: the mailbox runtime that executes tasks, the task queues it takes them from, and the HTTP cache; a
crawler that runs on it, down to the web site it crawls; and the parts a crawler is put together from: proxies, the
HTTP client, filters and router.  The models are checked with TLC on small instances; theorems about the runtime,
all three queues, the file cache, the whole crawl and some of the smaller parts are proved with TLAPS for every instance.

## 1. The system

| component | source | state it keeps | operations | talks to |
|---|---|---|---|---|
| task queue contract | `capp-queue/src/queue.rs`, `task.rs` | task rows, queued ids, in-flight ids, dead letters | push, pop, ack, nack, set, recover_inflight | called by the dispatcher (and by seeders before it starts) |
| in-memory queue | `capp-queue/src/backend/memory.rs` | hashmap, list, inflight, dlq, each under its own mutex | the same | - |
| fjall queue | `capp-queue/src/backend/fjall.rs` | four keyspaces on disk, one mutex | the same, each a sequence of writes and a persist | the disk |
| fjall round-robin queue | `capp-queue/src/backend/fjall_round_robin.rs` | the same keyspaces, and a rotation of tags in memory | the same, pop by tag | the disk |
| mailbox runtime | `capp/src/manager/mailbox.rs`, `capp-queue/src/dispatch.rs` | paused, stopping, saw-work flags, in-flight counter; control broadcast, producer, result and stats channels; spawned futures | the four branches of a biased select, dispatch, apply a result, drain check | the queue, the handlers (a tower service), the owner |
| stats | `mailbox.rs` 440-533, `capp/src/stats_http.rs`, `observability.rs` | a snapshot in a watch channel | count events, serve the snapshot | the runtime |
| file cache | `capp-cache/src/file.rs` | an index in a Fjall keyspace, one file per value, an async mutex | set, get, update_state, remove, cleanup, clear_all, contains | the disk, tokio's blocking threads |
| serializers | `capp-queue/src/serializers.rs` | none | encode, decode a task | the queues |
| proxies, http client | `capp-config/src/proxy.rs`, `http.rs` | index of the next proxy | next proxy, build a client, fetch with retries | the handlers |
| configuration, health check | `capp-config/src/config.rs`, `healthcheck.rs` | a TOML tree | look up a key, one request | start-up |
| router | `capp-router/src/lib.rs` | a list of rules | add a rule, classify urls | the handlers |
| url tools | `capp-urls/src/` | none | deduplicate and filter lists of urls | the handlers |
| test kit | `capp-testkit/src/lib.rs` | counts per path, a request log, each under its own mutex | serve three link graphs, count, snapshot, shut down | a crawler under test |
| blog crawl | `examples/local_blog_crawl.rs` | the set of paths seen, under a mutex | the handler: fetch, mark, enqueue, report; main: seed, wait, check, stop | the runtime, the test kit |

**How they interact.**  The owner calls `spawn_mailbox_runtime`, which starts one dispatcher task.  Producers (the
owner's, and the handlers themselves) send tasks into a bounded channel; only the dispatcher pushes them into the
queue.  The dispatcher pops a task when the service has a permit, marks its row in progress, calls the service and
spawns the returned future; the future reports through a bounded result channel; the dispatcher acknowledges the task,
queues it again, or buries it.  Pause, Resume and Stop arrive over a broadcast channel that overwrites its oldest entry.

**What is hard in it.**

- *Runtime.*  One task consumes three channels which its own handlers fill; a counter decides when it may leave; the
  select is biased, so one branch can starve another; storage errors, panics, timeouts, a lost command or a crash can
  come anywhere.  It is right if every accepted task is settled exactly as its attempts went, each task is in the hands
  of one future at a time, Pause and Stop hold back new calls and nothing else, and a stopping dispatcher leaves - after
  the last result and not before.
- *Fjall queues.*  The writes of an operation are not a batch.  They are right if what was promised is never lost and
  what is settled never comes back, wherever the process dies, and if a task is in at most one place otherwise.
- *Round robin.*  The rotation lives in memory and must match a keyspace that outlives it; no tag may starve.
- *File cache.*  Two stores that are changed one after the other, and file operations that go on after their caller
  was cancelled.  It is right if index and file agree for every key but those of interrupted operations.
- *In-memory queue.*  Four mutexes, several held at once, taken in two different orders; an operation is not atomic, and
  an id in one structure refers to a record in another.
- *Stats.*  Events of futures and dispatcher merge in one bounded channel; gauge and totals must match once it is
  drained, and a full channel holds up its senders.
- *Blog crawl.*  Handlers find the same link at once; a page must be crawled by one of them, and the crawl must end.
- *Test kit.*  A snapshot is taken under two mutexes one after the other while requests are counted.
- *HTTP client.*  Three clocks (attempt, pause, limit) decide when a fetch ends; a mistake in the configuration of the
  proxies must not let requests out without one.
- *Router, url tools.*  Sequential; right if first match and filters mean what they say.

The hazards at their source lines, with the properties that look at them, are in `PROJECT.json`.

## 2. Modules

| module | models | built on |
|---|---|---|
| `TaskQueue` | the contract of the queue, and `LifecycleSpec`: what a disciplined client makes of it | - |
| `Mailbox` | the runtime | `TaskQueue`, which it extends and implements |
| `MailboxStats` | the events of the runtime and their collector | extends `Mailbox`, step for step |
| `TestSite` | the link graphs and the server of the test kit | - |
| `BlogCrawl` | the crawler of the example | composes `MailboxStats` and `TestSite` |
| `FjallQueue` | the fjall backend, write by write | refines `TaskQueue` through `Contract` |
| `FjallRoundRobin` | the rotation | extends `FjallQueue` |
| `RoundRobinKeys` | the bytes of its keys | - |
| `TaskRecord` | the fields of a task and the methods that change them | - |
| `MemoryQueue` | the in-memory backend, lock by lock | uses `TaskRecord`, refines `TaskQueue` through `Contract` |
| `FileCache` | the file cache | - |
| `ProxyClient` | configuration, proxies, the HTTP client and its fetches | - |
| `LinkRouter` | filters and router | - |
| `Components` | one of `MemoryQueue`, `TestSite`, `ProxyClient`, `LinkRouter`, `RoundRobinKeys` at a time, for one run | those five |
| `TaskQueueProofs` | theorems about every disciplined client of the queue | `TaskQueue` |
| `MailboxProofs` | theorems about `Mailbox` | `Mailbox`, `TaskQueueProofs` |
| `FjallQueueProofs` | theorems about `FjallQueue` | `FjallQueue` |
| `FjallRoundRobinProofs` | theorems about `FjallRoundRobin` | `FjallRoundRobin`, `FjallQueueProofs` |
| `FileCacheProofs` | theorems about `FileCache` | `FileCache` |
| `MailboxStatsProofs` | theorems about `MailboxStats` | `MailboxStats`, `MailboxProofs` |
| `ComponentsProofs` | theorems about all five parts of `Components` | `Components` |
| `BlogCrawlProofs` | theorems about `BlogCrawl` | `BlogCrawl`, `MailboxStatsProofs` |
| `MC*` | instances for TLC | - |

Definitions whose comment begins with "Mutant" are wrong on purpose; each is put in the place of the definition after
it to see that a property fails.  `PROJECT.json` pairs every property of a passing run with such a mutant.

### TaskQueue

`queued`, `leased`, `row` (the stored retry counter, or `NoRow`), `dlq`, and the history `acked`.  One operator per
trait method.  `pop` may take any queued id, because the backends order them differently (arrival, key, tag rotation).
`LifecycleSpec` is the promise: a task is submitted once, leased, and then finished, retried at most `MaxRetries` times,
or buried; recovery gives leases back and touches nothing else.

### Mailbox

`pc` is the next poll of the loop: `control`, `producer`, `result`, `ready`, then `check` (the drain check at the end of
the loop).  Polls are steps of their own because other threads go on between them; a handler that enqueues and completes
after the producer poll and before the result poll is a behaviour of the model.  `handle` and `dispatch` split the two
branches in which the dispatcher holds a task in its hand (`hand`) across an await.  The correspondence:

| code | model |
|---|---|
| `recover_inflight()` at the start (243-252) | `Recover` |
| `control_rx.recv()`: `Ok`, `Err(Lagged)`, `Err(Closed)` | `ControlEvent`, `ControlFires`, `ControlPending` |
| `producer_rx.recv(), if !stopping` | `ProducerFires`, `ProducerPending` |
| `result_rx.recv()`, `fetch_sub`, `handle_worker_result` | `ResultFires`, `HandleResult`, `ApplyResult` |
| `service.ready(), if !paused && !stopping` | `ReadyPending`, `ReadyFails` |
| `queue.pop()`: `Ok`, `QueueEmpty`, other errors | `PopTask`, `PopEmpty`, `PopFails` |
| `queue.set`, `call`, `fetch_add`, `tokio::spawn` | `Dispatch`, `Spawn`; `DispatchFails` |
| `if stopping && in_flight == 0 && result_rx.is_empty()` | `DrainCheck`, `IsDrained` |
| the spawned future | `worker[t]`: `HandlerEnqueues`, `HandlerEnqueued`, `Complete`, `TimeOut`, `Panic`, `SendResult` |
| `ProducerHandle::enqueue` | `Enqueue`, `ExternalEnqueue` |
| the owner: commands, dropped senders, a new process | `SendCommand`, `DropControl`, `Restart` |

`known`, `calls`, `commands`, `crashes` are history or bounds.  A `Restart` keeps the queue only, as a durable backend
does.  A task's payload, times and error texts are left out: nothing decides on them.  A wake-up is a round of polls
that find nothing.

### FjallQueue

`versions` is the store as last persisted followed by the store after each later write.  An operation takes the mutex
(`Begin`), performs its list of writes one by one (`Write`), persists and returns (`Return`).  `Fail` is `?` after any
write.  `Crash` ends the process: in the middle of an operation if `"cut" \in Faults`; with the loss of any suffix of the
unpersisted writes if `"power" \in Faults` (the journal is sequential, so a suffix is what can be lost).  The client is
the dispatcher: `held` is what this process has popped.  Ids are numbers because uuid v7 keys sort by creation: `Pop`
takes the smallest.  A retried task keeps its key and so goes to the front of the queue.

### FjallRoundRobin

The same writes; `active` and `cursor` are `RotationState` (`present` is the set of the elements of `active`).  A tag is
added when a push or a recovered key has succeeded, a pop searches one lap from the cursor and moves it past the tag it
served, and opening the database rebuilds the list, sorted, from the queue keyspace alone with the cursor at 0: the
rotation starts anew after each start.

### FileCache

`file` and `index` are the two stores, `op` the holder of the mutex, `jobs` the file operations in the hands of
background threads.  A write job truncates (`Truncate`) and later fills (`Finish`); two of them on one path, or a write
and an unlink, may leave either content or a mixture (`Torn`).  `Cancel` drops an operation at an await: the mutex is
released, the job goes on.  `get` is a rewrite, because it stores the access time.  `DropMissing` is what `get` and
`update_state` do about an index entry without a file.  A path is the key and one of two milliseconds.

### MemoryQueue

A client calls an operation (`Calls`), which takes its mutexes one by one in the order of the code (`Order`) and does
its work when it has the last one; then it gives them back.  `Debug::fmt` is an operation like the others, and the one
whose order is the reverse of the others'.  `list`, `hashmap`, `inflight` and `dlq` are the four structures, `copy` is
the task a client popped, with the fields of `TaskRecord`: like the dispatcher, a client changes its copy and pushes it
back, or settles it; it may also be gone, which recovery deals with.  Recovery is called while no client has a task
or settles one, whereas a producer may push (`Quiet`): the dispatcher calls it before its loop.  `Push` of a waiting task
lists it twice, as the code does; the clients never do that.  A poisoned mutex (a panic inside an operation, which
needs an allocation to fail) is left out.

### MailboxStats and BlogCrawl

`MailboxStats` repeats the steps of `Mailbox` that send an event, together with the send: the step waits for room in
the channel.  The event of a handler's outcome is a step of its own (`SendCall`), since the code sends it before the
result and awaits in between.  `CountedSpec` is the runtime with its statistics and no client in particular; the
proofs and the crawl build on it.  `BlogCrawl` puts the example's handler in the place of `Mailbox`'s arbitrary one:
it asks the server (`TestSite`) for its page, goes through the links, marks and enqueues what is not seen, reports
and returns; `main` seeds, counts the reports, takes a snapshot of the server's statistics, stops the runtime and then
the server.  The report channel holds twice as many reports as there are pages, so it is a counter.  A mark and the
start of the enqueue are one step: nobody but other handlers reads the set, and they find the mark at the same place.

### TestSite

A request is counted (`Request`), logged (`Log`), and answered; `CopyLog` and `CopyPaths` are the two halves of a
snapshot.  A client may go away at any await.  The links of every page are operators, translated from the functions
that print them; `EveryPageLinked` says that they make connected graphs without dead links, and TLC evaluates it
as an assumption for blogs of 1 to 7 posts (`SiteFact`).  The infinite site's depth wraps at the width of its integer.

### ProxyClient, LinkRouter

TOML is tables, arrays, strings, numbers and booleans as tagged values, a URI is a host and its ports.  A random choice
is any choice.  A client that cannot be built panics and stays `Panicked`.  A fetch has one clock, `at`: attempts take up
to the client's timeout, pauses up to `MaxPause`, which is half as long again as the configured `max_interval`, because
the backoff crate randomizes a pause after it has capped it (the short first pauses are among these); the pause that
would pass the limit ends it.  `EveryProxyUsed` counts an address as often as the configuration names it, since the code
hands out the expanded list and looks for no duplicates.  Links are records, and a pattern is the set of what it matches, so regexes are abstract, and one that does
not compile is a flag.  `LinksSorted` speaks of positions in the page and not of URLs, so it also says what happens to
a link that is there twice, with a middleware that removes duplicates and without one.  `ConfigAssumption` and
`LinkAssumption` name the shapes that the parsers and the middlewares distinguish.

### RoundRobinKeys

Keys are sequences of bytes in any `Radix`, ids have any `IdLength`.  `FjallRoundRobin` reads the queue of a tag as the
set of its tasks; these facts are why it may.  The keyspace is the set of the tags and ids in it, to which a push adds
and from which a pop removes; what is checked is how their encodings meet.

## 3. Runs

| run | instance | shows |
|---|---|---|
| `mailbox_safety` | 2 handler tasks + 1 external, 2 permits, 1 retry, channels of 1, one command, one crash, and timeouts, panics, a failing service, dropped senders | counter, leases, attempts and exit are right; the runtime implements `LifecycleSpec` |
| `mailbox_idle` | `stop_when_idle`, timeouts, one crash, no commands, with fairness | a finite crawl ends by itself, only when all is settled; every task is settled |
| `mailbox_live` | two commands, storage errors, no retries, 1 permit, channels of 1, with fairness | a Stop is obeyed even when overwritten, a paused dispatcher drains, a blocked handler is released; nothing is called under Pause or after a Stop, also one that a Resume follows |
| `stop_loses_accepted` | violation | see findings |
| `dropped_control_hangs` | violation | see findings |
| `ready_error_hangs` | violation | see findings |
| `fjall_cut` | 2 tasks, 1 retry, 2 faults: crash between writes, power failure, error | promises kept, no resurrection, leases exclusive; only a cut pop makes a task unreachable; the contract holds until an operation is cut |
| `fjall_vanishes` | violation, one crash | see findings |
| `round_robin` | 3 tasks on 2 tags in every assignment, one fault of any kind | the rotation covers what is queued, and no tag is overtaken twice |
| `file_cache` | 2 keys, 2 values, 1 interruption (cancel, crash, error) | index and file agree outside interrupted keys, which a completed set or removal heals; cleanup spares good entries |
| `blog_crawl` | the smallest blog (3 pages that all link to each other), 3 permits, channels of 1 and 2, timeouts, with fairness | each page is crawled once, none is forgotten, the statistics are exact, and the crawl and its shutdown end |
| `components` | 3 clients and 3 tasks in memory; 2 connections and 3 requests; 17 configurations; pages of up to 4 of 7 links; every tag of up to 3 of 2 bytes, two keys at a time | the in-memory queue implements `LifecycleSpec` and only formatting can block it; snapshots, proxies, fetches, routing and keys are right |

**Why the bounds are enough.**  Two handler tasks make one execution meet another in each channel and both permits; the
third task is an external producer racing them.  A capacity of one makes a channel full with one message, which is where
blocking starts.  One retry has all the cases of the comparison with `max_retries`: below, at, above.  A control
ring of one is overwritten by a second command; the two commands of `mailbox_live` contain Stop-then-Resume,
Pause-then-Stop and a Stop overwritten by either of the others, and for three and more `HeldBack` is a theorem.  One crash is followed by a recovery that can meet everything a second one could (the second would again find only the
queue); for fjall, where recovery itself writes, there are two faults, so that recovery is cut as well.  Three tasks on
two tags are the smallest instance in which a busy tag could overtake twice.  Two cache keys show that damage does not
spread; a second value that an old write may still overwrite; `ErrorLimit` is 1 instead of 3 so that the limit is
passed within two marks.  One command and one crash in `mailbox_safety` make every pair of the two and a fault; all
of its properties are theorems as well, for any number of commands and crashes and for every fault, the storage errors
included, which the run leaves out because each error makes its leases lawful to lose.  The round-robin queue's steps
are `FjallQueue`'s with a narrower choice, so `fjall_cut` speaks for it in all that is not the rotation.

The smallest blog is the hardest for its size: three pages, each linking to the other two, so that two handlers find
the same link in the same moment; a larger one adds pages, not orders.  Its statistics channel of 2 is full often.
`CrawledOnce` is about a runtime without retries: with one, a page whose handler was cut off is rightly asked for again.
In `components`, three clients are enough for a circle of three, and there are four mutexes taken in runs of at most
two or three; three tasks make one listed, one running and one settled.  The configurations are every shape the parser
distinguishes.  The parts share no state, so one run checks all of them, each in behaviours of its own.

`CHECK_DEADLOCK FALSE` is set in every configuration: a dispatcher that has left its loop, a crawl whose commands are
used up, and a store whose tasks are all settled rightly stop.  That nobody waits for ever where somebody should go on
is what the liveness properties say.

**Fairness** (`Fairness` in `Mailbox`).  The dispatcher is a tokio task, polled again whenever it is woken: WF.  A send
on a channel with room, or a closed one, completes: WF on `HandlerEnqueued` and `SendResult`.  A handler returns in the
end: SF on `Complete`, strong because between two moments at which it could return it may enqueue (finitely many) tasks;
the timeout layer of `build_service_stack` ends handlers that would not.  Timeouts, panics, commands, crashes and what a
handler enqueues are never forced, so no liveness property relies on them.  The violations of liveness are found under
the same fairness.

`CrawlFairness` in `BlogCrawl` adds the collector, the server's tasks and `main`: tokio polls each of them again when it
is woken.  The example's handler waits for the server, which answers, and for room in the producer channel, so WF is
enough for it.  `CrawlCompletes` promises nothing once a handler has timed out, since nothing retries its page.

## 4. Findings

- `AcceptedSurvivesStop`: Stop closes the producer channel and disables its branch, so what is in the channel is lost
  although its `enqueue` returned Ok.  The test `shutdown_does_not_lose_pending_tasks` asserts the contrary, and waits
  until the channel is empty first.
- `StopTerminates` with dropped control senders: the closed branch is ready in every round and comes before the results
  in the biased select; with a task in flight the loop spins for ever.
- `StopTerminates` with a failing `service.ready()`: the `continue` skips the drain check; with nothing in flight no
  branch is ever ready again.
- `NothingVanishes`: a crash between `queue.remove` and `inflight.insert` of a pop leaves the row in `tasks` and the id
  in no set; neither pop nor recovery will find it.

A fifth has no run of its own: a handler that panics unwinds its future before it reports, the counter keeps its unit
(`InFlightExact` counts the dead future, as the code does), and the drain check after a Stop never succeeds, whereas
`skills/build_crawler.md` (420-421) says that a Stop drains the futures and exits.  TLC shows it, as a violation of
`StopTerminates`, when `"panic"` is added to the faults of `mailbox_live`.

Two more consequences are visible in the models and contradicted by no text: a task that keeps failing is served before
all newer ones by the fjall queue; and formatting an in-memory queue with `{:?}` while
another thread pushes or pops can leave both waiting for each other (`OnlyFormattingBlocks` says that nothing else can).

## 5. Proofs

Every theorem holds for every finite set of tasks, tags, keys, clients or connections, and for all values of the other
constants under the named assumptions of the modules (`TaskQueueAssumption`, `MailboxAssumption`, `MemoryAssumption`
and so on), which TLC evaluates in the runs.  All faults of a model are included, and nothing bounds crashes, commands
or values but the constants that the runs set to one or two.

| module | theorem | says |
|---|---|---|
| `TaskQueueProofs` | `FateIsUnique`, `NothingUndone` | the life cycle keeps `OneFate` and `NoRegress`; whatever implements it inherits them |
| `MailboxProofs` | `TypeCorrect` | `[]TypeOK`: types, and channels within their capacity |
| | `CounterExact` | `[]InFlightExact` |
| | `SingleExecution` | `[]OneExecution` |
| | `ImplementsLifecycle` | `LifecycleSpec`: the runtime implements the abstract life cycle |
| | `NothingForgotten` | `NoRegress` |
| | `NoCallWhileHeld` | `HeldBack` |
| | `EveryLeaseHeld` | `[]NoOrphanLease` |
| | `ExitIsClean` | `[]DrainedExit` |
| | `AttemptsBounded` | `[]AttemptBound` |
| | `IdleStopCutsNothing` | `[](NothingElseStops => IdleStopComplete)` |
| `FjallQueueProofs` | `PromisesKept`, `SettledForGood` | `[]PromiseKept`, `[]NoResurrection` |
| | `GhostsExplained`, `LeaseExclusive` | `[]GhostsAreSettled`, `[]HeldExclusively` |
| | `OnlyPopLoses` | `[]OnlyCutPopsVanish` |
| | `ImplementsContract` | `ContractUntilCut` |
| `FjallRoundRobinProofs` | `RoundRobinKeepsPromises` | the five invariants of `FjallQueue`, of this queue |
| | `RoundRobinImplementsContract` | `ContractUntilCut` |
| | `RotationCovers`, `NoTagStarves` | `[]RotationCoversQueue`, `NoTagOvertakesTwice` |
| `FileCacheProofs` | `TypeCorrect`, `KeysAgree` | `[]TypeOK`, `[]Agreement` |
| | `IndexFits`, `CleanupSpares` | `[]IndexMatchesFiles`, `CleanupSparesGood` |
| `MailboxStatsProofs` | `StatisticsChangeNothing` | `Spec` of `Mailbox`: sending events is all that the statistics do |
| | `StatisticsExact` | `[]StatsExact` |
| `ComponentsProofs` | `MemoryImplementsLifecycle` | `MemoryLifecycle`: the in-memory queue implements the life cycle |
| | `RecordsAgree`, `OperationsNeverBlock` | `[]RecordsTellFate`, `[]OnlyFormattingBlocks` |
| | `SnapshotsConsistent`, `FetchesEnd` | `[]SnapshotConsistent`, `[]FetchEndsInTime` |
| | `ProxiesTakeTurns` | `[]EveryProxyUsed` |
| | `LinksAreSorted` | `[]LinksSorted` |
| | `ScanFindsOwnTag`, `DecodeInverts`, `EveryKeyExact`, `TagsStayApart` | scans and keys, and `[]TagsApart` |
| `BlogCrawlProofs` | `CrawlRunsCounted`, `CrawlRunsMailbox` | `CountedSpec`, and `Spec` of `Mailbox`: every step of the crawl is one of the runtime or leaves it alone |
| | `CrawlStatisticsExact` | `[]StatsExact`, in the crawl |
| | `EveryPagePursued`, `EveryPageOnce` | `[]SeenIsPursued`, `[]CrawledOnce` |

So the three backends and the runtime are all proved to implement the one life cycle of `TaskQueue`, the fjall ones as
long as no operation is cut, and for the rest of the time what they promise instead.

**The runtime.**  Its theorems rest on one inductive invariant, `IInv`.  No conjunct is inductive alone:

- `InFlightExact` needs that a spawned task was not spawned already (else the count of futures would not grow), which is
  `OneExecution`;
- `OneExecution` needs that a popped task is in no future, channel or hand: it was queued, those are leased, and
  `OneFate` says a task is never both; `HandMatchesPc` says where the hand is full;
- `OneFate` needs that an id from the producer channel is new to the queue: `InTransit`, that ids on their way (in the
  channel, or in a handler that waits to enqueue) are distinct and unknown to the queue;
- after a crash `FreshStart` says that recovery finds no future of the earlier run, so it queues nothing that is running.

There is one lemma per conjunct, with a case per action; the one of `OneFate` only cites that each step is a step of the
life cycle (`LifecycleStep`) and that those preserve it.  `NoOrphanLease` is inductive given `IInv`; `ExitIsClean`
follows from it and from what the drain check has seen, which no later step undoes; `AttemptsBounded` from a count of
the calls (`CallsAccounted`: a task has been called once for each stored retry, once more under a lease that was
dispatched, and at most once more for each crash).  `ImplementsLifecycle` and
`HeldBack` are step properties under `IInv`.

`IdleStopCutsNothing` has a second invariant, `IdleInv`.  The decision to stop looks at an empty queue and a counter of
zero, and never at the producer channel; it is right because a handler's future counts until its result is received,
and the producer branch comes before the result branch in the biased select: once the counter is zero and that branch
has been passed, no handler can have left a task in the channel (`LatePostsCounted`).  `NothingElseStops` is about
constants alone and says when the question makes sense: no Stop is sent, the control channel is never overrun (a lag is
read as a Stop), and the faults are timeouts and panics, the ones a handler can cause.

**The fjall queues.**  A crash may bring back any version of the store, so what is claimed is claimed of each of them
(`Sound`), and a step has to be sound for the version it adds alone.  For that the invariant knows what the operation
under the mutex found when it began (`Begun`), which of its writes are made (`Progress`), and that what the client holds
is leased (`HeldLeased`); there is one lemma per operation.  `OnlyCutPopsVanish` names the cut pops as the exception
and proves that there is no other.  The invariant does not say which task a pop takes, so the round-robin queue, whose
steps are steps of `FjallQueue` (`RoundRobinIsFjall`), has it without another proof.

Its own invariant is about the lap: what is queued and not yet in the rotation is about to be added or was queued by an
operation that failed (`QueueCovered`); the tag of a pop under way is the first in the lap that has anything queued
(`PopServesFirst`); a tag that was served while another one waited is behind it (`PassedBehind`), which the cursor's
place after the served tag preserves and which is what `NoTagOvertakesTwice` needs.  That a set of tags can be sorted
(`Sorted`) is proved by looking at a smallest set that could not be.

**The file cache.**  A key that no interrupted operation has damaged has no file operation in the background but the one
its own operation waits for.  The invariant says what an operation knows of its key at each of its awaits (`OpOK`), whose
the jobs are (`JobsOK`), and that an operation which began with no thread at work has the file for itself
(`Undisturbed`); from these, index and file agree with the completed operations whenever none is under way.

**The in-memory queue.**  A task is listed, in flight, acknowledged or dead and never two of these (`TasksApart`); a
client between pop and settlement is the only one with its task, and its copy is the row (`CopiesHeld`); the call it is in
fits what it holds, and what is pushed anew is in no store (`CallsFit`); a recovery meets nobody with a task
(`RecoveryAlone`).  Each operation is then one step of the life cycle, made when the client has its last mutex.
`OnlyFormattingBlocks` follows from an order of the mutexes in which each operation but `fmt` climbs (`WaitsLeadUp`).

**The statistics.**  An event is in the channel or in the snapshot, so what `StatsInv` says of both together changes
only where one is sent, and the collector preserves it: the last gauge sent is the counter (`GaugeExact`), each dead task
has its terminal event (`DeadCounted`), and a call has its event once its future has said so (`CallsCounted`, which
counts the pairs of a task and the number of its call, because two calls of a task differ in nothing else).  That no
snapshot shows more dead tasks than failures is a claim about every prefix of the channel (`FailureFirst`): the failure
is sent by the handler's future and the death, later, by the dispatcher, and between the two the task is in the channel
of results or in the dispatcher's hand.  `DoomedCounted` follows it there: the tasks that are dead, or whose failure is
sent and which are not yet retried, are no more than the failures sent, so when one is buried its failure is already
before its death in the channel.

**The proxies.**  What was handed out is a number of whole rounds of the expanded list and a beginning of one, which
ends where the counter stands (`InTurn` in `ProxyInv`).  The list itself is a concatenation of what each entry expands
to; `FlattenSeq` is unfolded to say how often an address occurs in it.

**The links.**  Every operator that makes a list of links is a fold.  For each it is proved that the function the fold
chooses exists and what it does with one more element; then a filtered list is what the page has at the positions that
pass, in their order (`InOrder`), a chain of filters composes those positions (`ApplyIs`), and entering one URL keeps
the categories sorted up to the position reached (`EnterSorts`).  The induction over positions is the one over
numbers: the smallest position at which a claim fails has a predecessor at which it holds (`CountsUp`).

**Test site and fetches.**  `CountedFirst` counts, per path, the connections between the two mutexes, so that a request
in the log or answered is counted although nothing holds both; a fetch that tries has not passed its limit.

**The crawl.**  `CrawlRunsMailbox` brings `IInv` and `AttemptsBounded` to the crawl, for a blog of any size: without
retries a handler is called once for a task.  The rest is `CrawlInv`.  A handler's connection is at the request its
links wait for (`InStep`), and no two tasks have the same page (`UrlsApart`: a task gets a page that is not seen, which
marks it), so nobody but the one call of its task asks for a page (`AskedOnce`).  main may have no more reports than
pages were answered, less the handlers that still go through their links (`ReportsCounted`); so when there is one for
every page, each was asked for, logged and answered exactly once, nobody is left to ask again, and the snapshot main
takes then shows it (`MainInStep`), in whatever order it meets the two mutexes.  `SeenIsPursued` needs that argument
as well: an enqueue is refused only when the runtime stops, which only main makes it do (`RuntimeOpen`), and by then no
handler has anything to enqueue; and what has failed stays visible as a failure until it is a dead letter
(`FailingStays`).  What is assumed of the runtime is what the example configures (`ExampleAssumption`).

**The keys.**  The two length bytes determine the length of a tag that fits
(`LengthBack`, `HighByte`), so two keys with a common prefix have tags of one length, and then equal tags
(`PrefixShape`, `KeyShape`).  `TagsStayApart` draws the conclusion for what
pushes and pops make of the keyspace.  In TLC a byte has two values, which makes every tag of up to three bytes and every id.

Every invariant was checked with TLC on the runs' instances before it was proved.  Some definitions of the models are
in a form that can be reasoned about: `Sorted`; `Unseen`, which takes the places of the unseen links instead of selecting
the links; `Among`, a fold that keeps the elements of a set, where `SelectSeq` recurses inside its definition; `Category`,
the least of the rules that fit; `CallsMade`, a set of calls instead of a sum; and `OnlyFormattingBlocks`, which says of
every set of clients that one waits for none of the others, instead of asking for a graph without cycles.

**Model-checked only.**  Every invariant and every safety property of the steps that a passing run checks is a theorem.
The six liveness properties are not, since the prover treats neither fairness nor ENABLED:
`IdleStopTerminates`, `EveryTaskSettled`, `StopTerminates`, `PauseDrains`, `BackpressureReleases` and `CrawlCompletes`.
What refutes a text of the repository (section 4) is a counterexample of TLC, which needs no proof.

## 6. Not modelled

- *Serializers*, payloads, times, messages: no decision depends on them.
- *The stats endpoint and observability*: they read what `MailboxStats` models, and decide nothing.
- *Health checks*: single requests without state.
- *Poisoned mutexes* of the in-memory queue.
- *Power failure under the file cache*: its files are never synced, so anything may be missing after one.
- *Access times of the cache*, and `contains`: nothing decides on them, and it changes nothing.
- *main's own timeout* in the blog crawl, ten seconds without a report, and its exits with an error: they leave the
  process, and no property is about a crawl that was left.
- *The other examples and the benches*: further clients of the runtime.  The one with a store of its own
  (`examples/hackernews`) would need the runtime, the durable queue with crashes, and the store in one state space; the
  runtime and the queue alone exceed what TLC can explore together.

## 7. Plan

What is left is a model: the `hackernews` example over the life cycle instead of the whole runtime, with crashes between
its writes; and its theorem, that no story is lost between the store and the queue.
