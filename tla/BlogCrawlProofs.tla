--------------------------- MODULE BlogCrawlProofs ---------------------------
(***************************************************************************)
(* Theorems about the whole crawl, for a blog of any size, any number of   *)
(* tasks and every size of the channels.  A step of the crawl is a step of *)
(* the mailbox runtime, so all that is proved of the runtime holds of the  *)
(* crawl (CrawlRunsMailbox); of the theorems of MailboxProofs the          *)
(* invariant IInv and the bound on the calls of a handler are used below.  *)
(*                                                                         *)
(* CrawlInv adds what the handlers, the server and main keep: which step   *)
(* of its request a handler is at, that no two tasks have the same page,   *)
(* that a page is asked for by the one call of its task, and that main has *)
(* not received more reports than pages were answered.                     *)
(***************************************************************************)
EXTENDS BlogCrawl, MailboxStatsProofs

\* Frame tuples and abbreviations are expanded everywhere.
USE DEF siteVars, crawlVars, statsVars, queueVars, loopVars, controlVars, futureVars,
        envVars, restVars, dispatcherVars, Goto, ReadyEnabled, ProducerEnabled, Spawn,
        NewWorker

-----------------------------------------------------------------------------
(* The crawl runs the mailbox.                                             *)

\* A step of the crawl is a step of the runtime and its statistics, or leaves them alone.
LEMMA CountedStep == [CrawlNext]_allVars => [CountedNext]_runtimeVars
<1> SUFFICES ASSUME [CrawlNext]_allVars PROVE [CountedNext]_runtimeVars
  OBVIOUS
<1> USE ExampleAssumption DEF CountedNext
<1>1. CASE Runtime
  BY <1>1 DEF Runtime
<1>2. CASE MainChecks \/ MainLeaves
  BY <1>2 DEF MainChecks, MainLeaves, runtimeVars
<1>3. CASE MainStops
  BY <1>3 DEF MainStops, OwnerStep
<1>4. ASSUME NEW t \in Tasks, Seed(t) PROVE CountedNext
  BY <1>4 DEF Seed, OwnerStep
<1>5. ASSUME NEW t \in Tasks, Future(t) PROVE [CountedNext]_runtimeVars
  <2>1. CASE HandlerRequests(t) \/ HandlerReceives(t) \/ ServerLogs(t)
    BY <2>1 DEF HandlerRequests, HandlerReceives, ServerLogs, runtimeVars
  <2>2. CASE HandlerMarks(t)
    <3>1. /\ \E c \in Tasks : HandlerEnqueues(t, c)
          /\ UNCHANGED statsVars
      BY <2>2 DEF HandlerMarks, Fresh
    <3> QED
      BY <3>1 DEF OtherWorkerStep
  <2>3. CASE HandlerResumes(t)
    BY <2>3 DEF HandlerResumes, OtherWorkerStep
  <2>4. CASE HandlerDone(t)
    BY <2>4 DEF HandlerDone, OtherWorkerStep
  <2>5. CASE SendCall(t) \/ CountedSendResult(t)
    BY <2>5
  <2> QED
    BY <1>5, <2>1, <2>2, <2>3, <2>4, <2>5 DEF Future, Handler
<1>6. ASSUME NEW t \in Tasks, HandlerTimesOut(t) PROVE CountedNext
  BY <1>6 DEF HandlerTimesOut, OtherWorkerStep
<1>7. CASE UNCHANGED allVars
  BY <1>7 DEF allVars, runtimeVars
<1> QED
  BY <1>1, <1>2, <1>3, <1>4, <1>5, <1>6, <1>7 DEF CrawlNext

\* And so of the runtime alone.
LEMMA MailboxStep == [CrawlNext]_allVars => [Next]_vars
BY CountedStep, CountedIsRuntime

\* The crawl implements the runtime with its statistics, so those are exact here too.
THEOREM CrawlRunsCounted == CrawlSpec => CountedSpec
<1>1. CrawlInit => Init /\ StatsInit
  BY DEF CrawlInit
<1> QED
  BY <1>1, CountedStep, PTL DEF CrawlSpec, CountedSpec

\* The snapshot and the events on their way make up the state of the runtime, whatever
\* the handlers, the server and main are at.
THEOREM CrawlStatisticsExact == CrawlSpec => []StatsExact
BY CrawlRunsCounted, StatisticsExact, PTL

\* The crawl implements the mailbox runtime: what its handlers, the server and main
\* do is, as the runtime sees it, one of the things its clients may do.
THEOREM CrawlRunsMailbox == CrawlSpec => Spec
BY CrawlRunsCounted, StatisticsChangeNothing, PTL

-----------------------------------------------------------------------------
(* The pages and their links.                                              *)

\* The posts a page of the blog may link to, in order.
LEMMA Posted ==
    /\ \A n \in 1 .. Posts : Post(n) \in Pages
    /\ \A n \in 0 .. Posts : PostsUpTo(n) \in Seq(Pages) /\ Len(PostsUpTo(n)) = n
    /\ Pages = {Home, Archive} \cup {Post(n) : n \in 1 .. Posts}
<1>0. Posts \in Nat \ {0}
  BY CrawlAssumption
<1>1. Pages = {Home, Archive} \cup {Post(n) : n \in 1 .. Posts}
  BY DEF Pages, BlogPages, ToSet, PostsUpTo
<1>2. ASSUME NEW n \in 0 .. Posts
      PROVE  PostsUpTo(n) \in Seq(Pages) /\ Len(PostsUpTo(n)) = n
  <2>1. n \in Nat /\ 1 .. n \subseteq 1 .. Posts
    BY <1>0
  <2>2. PostsUpTo(n) \in [1 .. n -> Pages]
    BY <2>1, <1>1 DEF PostsUpTo
  <2>3. PostsUpTo(n) \in Seq(Pages)
    BY <2>1, <2>2, SeqDef
  <2> QED
    BY <2>1, <2>2, <2>3, LenProperties
<1> QED
  BY <1>1, <1>2

\* There are finitely many pages, the server knows them, and none is that of no task.
LEMMA PageFacts ==
    /\ NoUrl \notin Pages /\ Home \in Pages /\ StatsPath \notin Pages
    /\ Pages \subseteq SitePaths /\ IsFiniteSet(Pages)
<1>1. IsFiniteSet({Post(n) : n \in 1 .. Posts})
  <2>1. PostsUpTo(Posts) \in Surjection(1 .. Posts, {Post(n) : n \in 1 .. Posts})
    BY DEF PostsUpTo, Surjection
  <2>2. IsFiniteSet(1 .. Posts)
    BY CrawlAssumption, FS_Interval
  <2> QED
    BY <2>1, <2>2, FS_Surjection
<1>2. IsFiniteSet({Home, Archive})
  <2>1. IsFiniteSet({Home}) /\ IsFiniteSet({Archive})
    BY FS_Singleton
  <2>2. IsFiniteSet({Home} \cup {Archive})
    BY <2>1, FS_Union
  <2>3. {Home, Archive} = {Home} \cup {Archive}
    OBVIOUS
  <2> QED
    BY <2>2, <2>3
<1>3. IsFiniteSet(Pages)
  BY <1>1, <1>2, FS_Union, Posted
<1> QED
  BY <1>3, Posted, CrawlAssumption DEF NoUrl, Home, Archive, Post, StatsPath

\* A page links to at least one page, and to pages only: an answer is told apart from
\* having none and from waiting for one.
LEMMA PageLinks ==
    ASSUME NEW p \in Pages
    PROVE  BlogLinks(p, Posts) \in Seq(Pages) \ {<<>>, Waiting}
<1> DEFINE PageSeq(s) == s \in Seq(Pages) /\ s # <<>>
<1>0. Posts \in Nat \ {0} /\ Home \in Pages /\ Archive \in Pages
  BY CrawlAssumption, Posted
<1>1. ASSUME NEW s, NEW r, PageSeq(s), r \in Seq(Pages) PROVE PageSeq(s \o r)
  <2>1. s \in Seq(Pages) /\ r \in Seq(Pages) /\ s # <<>>
    BY <1>1
  <2> QED
    BY <2>1, ConcatProperties, ConcatEqualIffEmpty
<1>2. ASSUME NEW c \in BOOLEAN, NEW n \in Int, c => n \in 1 .. Posts
      PROVE  PostIf(c, n) \in Seq(Pages)
  <2>1. CASE c
    <3>1. Post(n) \in Pages /\ PostIf(c, n) = <<Post(n)>>
      BY <1>2, <2>1, Posted DEF PostIf
    <3> QED
      BY <3>1
  <2>2. CASE ~c
    BY <2>2, EmptySeq DEF PostIf
  <2> QED
    BY <2>1, <2>2
<1>3. PageSeq(<<Archive>>) /\ PageSeq(<<Home>>) /\ PageSeq(<<Home, Archive>>)
  BY <1>0
<1> HIDE DEF PageSeq
<1>4. PageSeq(BlogHome(Posts))
  <2>1. Min({Posts, 5}) \in 0 .. Posts
    BY <1>0 DEF Min
  <2>2. PageSeq(<<Archive>> \o PostsUpTo(Min({Posts, 5})))
    <3>1. PostsUpTo(Min({Posts, 5})) \in Seq(Pages)
      BY <2>1, Posted
    <3> QED
      BY <3>1, <1>1, <1>3
  <2>3. PostIf(Posts > 5, Posts) \in Seq(Pages)
    <3>1. (Posts > 5) \in BOOLEAN /\ Posts \in Int /\ Posts \in 1 .. Posts
      BY <1>0
    <3> QED
      BY <3>1, <1>2
  <2> QED
    BY <2>2, <2>3, <1>1 DEF BlogHome
<1>5. PageSeq(BlogArchive(Posts))
  <2>1. PostsUpTo(Posts) \in Seq(Pages)
    BY <1>0, Posted
  <2> QED
    BY <2>1, <1>1, <1>3 DEF BlogArchive
<1>6. ASSUME NEW n \in 1 .. Posts PROVE PageSeq(BlogPost(n, Posts))
  <2>0. /\ n > 1 => n - 1 \in 1 .. Posts
        /\ n < Posts => n + 1 \in 1 .. Posts
        /\ n + 2 <= Posts => n + 2 \in 1 .. Posts
        /\ n > 2 => n - 2 \in 1 .. Posts
        /\ n - 1 \in Int /\ n + 1 \in Int /\ n + 2 \in Int /\ n - 2 \in Int
        /\ {n > 1, n < Posts, n + 2 <= Posts, n > 2} \subseteq BOOLEAN
    BY <1>0
  <2>1. PostIf(n > 1, n - 1) \in Seq(Pages)
    BY <2>0, <1>2
  <2>2. PostIf(n < Posts, n + 1) \in Seq(Pages)
    BY <2>0, <1>2
  <2>3. PostIf(n + 2 <= Posts, n + 2) \in Seq(Pages)
    BY <2>0, <1>2
  <2>4. PostIf(n > 2, n - 2) \in Seq(Pages)
    BY <2>0, <1>2
  <2>5. PageSeq(<<Home, Archive>> \o PostIf(n > 1, n - 1))
    BY <2>1, <1>1, <1>3
  <2>6. PageSeq(<<Home, Archive>> \o PostIf(n > 1, n - 1) \o PostIf(n < Posts, n + 1))
    BY <2>2, <2>5, <1>1
  <2>7. PageSeq(<<Home, Archive>> \o PostIf(n > 1, n - 1) \o PostIf(n < Posts, n + 1)
                                  \o PostIf(n + 2 <= Posts, n + 2))
    BY <2>3, <2>6, <1>1
  <2> QED
    BY <2>4, <2>7, <1>1 DEF BlogPost
<1>7. PageSeq(BlogLinks(p, Posts))
  <2>1. CASE p = Home
    <3>1. BlogLinks(p, Posts) = BlogHome(Posts)
      BY <2>1 DEF BlogLinks, Home, Archive
    <3> QED
      BY <3>1, <1>4
  <2>2. CASE p = Archive
    BY <2>2, <1>5 DEF BlogLinks, Home, Archive
  <2>3. CASE \E n \in 1 .. Posts : p = Post(n)
    <3>1. PICK n \in 1 .. Posts : p = Post(n)
      BY <2>3
    <3>2. p # Home /\ p # Archive /\ p[1] = "post" /\ p[2] = n
      BY <3>1 DEF Post, Home, Archive
    <3>3. BlogLinks(p, Posts) = BlogPost(n, Posts)
      BY <3>1, <3>2 DEF BlogLinks
    <3> QED
      BY <3>3, <1>6
  <2> QED
    BY <2>1, <2>2, <2>3, Posted
<1>8. ASSUME NEW s, PageSeq(s) PROVE s # Waiting
  <2>1. s[1] \in Pages
    BY <1>8, HeadTail DEF PageSeq
  <2> QED
    BY <2>1, PageFacts DEF Waiting
<1> QED
  BY <1>7, <1>8 DEF PageSeq

-----------------------------------------------------------------------------
(* The strengthening.                                                      *)

\* The tasks that have a page: those a producer or a handler has made.
Tasked == known \cup Children

\* The types of the example's and the server's state that the proofs need.
CrawlTypeOK ==
    /\ url \in [Tasks -> Pages \cup {NoUrl}] /\ seen \subseteq Pages
    /\ links \in [Tasks -> Seq(Pages) \cup {Waiting}] /\ done \in Nat
    /\ perPath \in [SitePaths -> Nat] /\ requestLog \in [SitePaths -> Nat]
    /\ answered \in [SitePaths -> Nat] /\ conn = [c \in Conns |-> conn[c]]

\* The runtime has not been restarted, and nothing but main's Stop can stop it.
RuntimeOpen ==
    /\ crashes = 0 /\ controlOpen
    /\ stopping \/ lagged \/ control # <<>> => finished

\* A handler has links to go through only while it runs, and its connection is at the
\* request it waits for: its page's first, counted and not yet answered.  A handler
\* that enqueues has its page, and one that runs has been called and not failed.
InStep(t) ==
    /\ links[t] # <<>> => t \in Running
    /\ links[t] # Waiting => conn[t] \in {Closed, Idle}
    /\ links[t] = Waiting =>
           /\ perPath[url[t]] = 1 /\ answered[url[t]] = 0
           /\ \/ conn[t] = Counted(url[t]) /\ requestLog[url[t]] = 0
              \/ conn[t] = Logged(url[t]) /\ requestLog[url[t]] = 1
    /\ worker[t].child # NoTask => Loaded(t)
    /\ t \in Running => ~worker[t].ok /\ calls[t] > 0

HandlersInStep == \A t \in Tasks : InStep(t)

\* No two tasks have the same page, and the page of a task is marked as seen.
UrlsApart ==
    /\ \A t \in Tasked : url[t] \in seen
    /\ \A t, u \in Tasked : url[t] = url[u] => t = u
    /\ known = {} => seen = {Home}

\* Whoever asked for a page was the one call of its task, and asked once.
HasAsked(t) == calls[t] > 0 /\ (t \in Running => links[t] # <<>>)

AskedOnce ==
    \A p \in Pages :
        /\ answered[p] <= requestLog[p] /\ requestLog[p] <= perPath[p] /\ perPath[p] <= 1
        /\ perPath[p] > 0 => \E t \in known : url[t] = p /\ HasAsked(t)

\* A report needs an answer: main has at most one for each page that was answered, and
\* none yet from the handlers that are going through their links.
Loading       == {t \in Tasks : Loaded(t)}
AnsweredPages == {p \in Pages : answered[p] = 1}

ReportsCounted == done + Cardinality(Loading) <= Cardinality(AnsweredPages)

\* main takes the statistics when every page is reported, and finds each asked for once.
AllReported == done = Cardinality(Pages)

MainInStep ==
    /\ \/ conn[Main] = Closed
       \/ /\ conn[Main].st = "copied" /\ conn[Main].back = Closed
          /\ AllReported /\ \A p \in Pages : conn[Main].log[p] = 1
    /\ finished => AllReported /\ \A p \in Pages : taken.paths[p] = 1 /\ taken.log[p] = 1

\* The inductive invariant.
CrawlInv ==
    /\ CrawlTypeOK /\ RuntimeOpen /\ HandlersInStep /\ UrlsApart /\ AskedOnce
    /\ ReportsCounted /\ MainInStep /\ SeenIsPursued

-----------------------------------------------------------------------------
(* Cases of a step, and what each of them leaves alone.                    *)

\* The steps of the runtime.
RuntimeStep ==
    /\ \/ CountedDispatcher \/ Collect
       \/ \E t \in Tasks : SendCall(t) \/ CountedSendResult(t)
    /\ UNCHANGED <<siteVars, crawlVars>>

\* The steps that no handler notices.
Quiet == MainStops \/ MainLeaves \/ UNCHANGED allVars

\* Every step is one of them, main's check, or one of a handler and its connection.
LEMMA CrawlCases ==
    ASSUME [CrawlNext]_allVars
    PROVE  \/ RuntimeStep \/ Quiet \/ MainChecks
           \/ \E t \in Tasks :
                 \/ Seed(t) \/ HandlerRequests(t) \/ HandlerReceives(t)
                 \/ HandlerMarks(t) \/ HandlerResumes(t) \/ HandlerDone(t)
                 \/ HandlerTimesOut(t) \/ ServerLogs(t)
BY DEF CrawlNext, Runtime, Future, Handler, RuntimeStep, Quiet

\* What a step of the runtime does to a future: nothing, or it calls the handler of a
\* task that was not called before, or it ends a future whose handler is done.
FutureMoves(t) ==
    \/ worker'[t] = worker[t] /\ calls'[t] = calls[t]
    \/ worker[t].st = "done" /\ worker'[t] = NoWorker /\ calls'[t] = calls[t]
    \/ /\ t \notin Running /\ calls[t] = 0 /\ calls'[t] > 0
       /\ worker'[t].st = "running" /\ worker'[t].child = NoTask /\ ~worker'[t].ok

LEMMA RuntimeFrame ==
    ASSUME IInv, AttemptBound', crashes = 0, RuntimeStep
    PROVE  /\ UNCHANGED <<known, crashes, controlOpen>>
           /\ \A t \in Tasks : FutureMoves(t)
<1> USE DEF FutureMoves
<1>0. /\ worker \in [Tasks -> Worker \cup {NoWorker}] /\ calls \in [Tasks -> Nat]
  BY DEF IInv, TypeOK
<1>1. CASE CountedDispatch
  <2>1. Dispatch /\ hand.task \in Tasks /\ hand.task \notin Spawned
    BY <1>1, HandTask DEF CountedDispatch, Dispatch, IInv, OneExecution
  <2>2. UNCHANGED <<known, crashes, controlOpen>>
    BY <2>1 DEF Dispatch
  <2>3. ASSUME NEW t \in Tasks, t # hand.task PROVE FutureMoves(t)
    BY <2>1, <2>3, <1>0 DEF Dispatch
  <2>4. FutureMoves(hand.task)
    <3>1. /\ calls'[hand.task] = calls[hand.task] + 1
          /\ worker'[hand.task] = NewWorker(hand.retries)
      BY <2>1, <1>0 DEF Dispatch
    <3>2. calls[hand.task] = 0
      BY <3>1, <2>1, <2>2, <1>0, ExampleAssumption DEF AttemptBound
    <3> QED
      BY <3>1, <3>2, <2>1 DEF Running, Spawned
  <2> QED
    BY <2>2, <2>3, <2>4
<1>2. CASE CountedDispatcher /\ ~CountedDispatch
  <2>1. UNCHANGED <<worker, calls, known, crashes, controlOpen>>
    BY <1>2
       DEF CountedDispatcher, CountedResultFires, CountedHandleResult, Recover,
           ControlPending, ControlFires, ProducerPending, ProducerFires,
           ResultPending, ResultFires, HandleResult, ReadyPending, ReadyFails,
           PopTask, PopEmpty, PopFails, DispatchFails, DrainCheck
  <2> QED
    BY <2>1
<1>3. ASSUME NEW t \in Tasks, CountedSendResult(t)
      PROVE  /\ UNCHANGED <<known, crashes, controlOpen>>
             /\ \A u \in Tasks : FutureMoves(u)
  BY <1>3, <1>0 DEF CountedSendResult, SendResult
<1>4. CASE Collect \/ \E t \in Tasks : SendCall(t)
  BY <1>4 DEF Collect, SendCall, vars
<1> QED
  BY <1>1, <1>2, <1>3, <1>4 DEF RuntimeStep

\* What no handler notices leaves the futures, the handlers' state and the requests alone.
LEMMA QuietFrame ==
    ASSUME Quiet
    PROVE  /\ UNCHANGED <<known, calls, worker, crashes, controlOpen, stopping, crawlVars>>
           /\ UNCHANGED <<perPath, requestLog, answered, conn, taken>>
           /\ UNCHANGED <<pc, hand, resultCh, dlq>>
BY DEF Quiet, MainStops, SendCommand, MainLeaves, Shutdown, allVars, runtimeVars, vars

\* A running task has been submitted.
LEMMA RunningKnown == IInv => Running \subseteq known /\ Spawned \subseteq known
BY DEF IInv, InTransit, ChannelUnborn, Entered, OneFate, OneExecution, Running, Spawned

\* The states of a connection are told apart.
LEMMA ConnKinds ==
    /\ Closed.st = "closed" /\ Idle.st = "idle"
    /\ \A p : Counted(p).st = "counted" /\ Counted(p).path = p
    /\ \A p : Logged(p).st = "logged" /\ Logged(p).path = p
    /\ \A l, b, k : LET c == Copied(l, b, k)
                    IN  c.st = "copied" /\ c.log = l /\ c.before = b /\ c.back = k
BY DEF Closed, Idle, Counted, Logged, Copied

\* Main's connection is no handler's.
LEMMA ConnsApart == Main \in Conns /\ Main \notin Tasks /\ Tasks \subseteq Conns
BY CrawlAssumption

-----------------------------------------------------------------------------
(* One lemma for each conjunct: a step preserves it.                       *)

\* A handler marks a page that its own page links to, for a fresh task.
LEMMA Marked ==
    ASSUME CrawlTypeOK, NEW t \in Tasks, HandlerMarks(t)
    PROVE  \E c \in Fresh \ ExternalTasks, p \in Pages \ seen :
              /\ HandlerEnqueues(t, c) /\ Loaded(t)
              /\ url' = [url EXCEPT ![c] = p] /\ seen' = seen \cup {p}
              /\ UNCHANGED <<statsVars, siteVars, links, done, finished>>
<1>1. PICK i \in Unseen(t) :
          LET c == CHOOSE c \in Fresh \ ExternalTasks : TRUE
          IN  /\ HandlerEnqueues(t, c) /\ url' = [url EXCEPT ![c] = links[t][i]]
              /\ seen' = seen \cup {links[t][i]}
  BY DEF HandlerMarks
<1>2. PICK c \in Fresh \ ExternalTasks :
          /\ HandlerEnqueues(t, c) /\ url' = [url EXCEPT ![c] = links[t][i]]
          /\ seen' = seen \cup {links[t][i]}
  BY <1>1 DEF HandlerMarks
<1>3. links[t][i] \in Pages \ seen
  <2>1. links[t] \in Seq(Pages)
    BY DEF HandlerMarks, Loaded, CrawlTypeOK
  <2> QED
    BY <2>1, LenProperties, ElementOfSeq DEF Unseen
<1> QED
  BY <1>2, <1>3 DEF HandlerMarks

\* A page that is asked for, by the handler of a task.
LEMMA Requested ==
    ASSUME CrawlInv, IInv, NEW t \in Tasks, t \in Running
    PROVE  t \in Tasked /\ t \in known /\ url[t] \in seen /\ url[t] \in Pages
           /\ url[t] \in SitePaths
BY RunningKnown, PageFacts DEF CrawlInv, CrawlTypeOK, UrlsApart, Tasked

\* A handler whose request the server has waits for the answer.
LEMMA AtRequest ==
    ASSUME CrawlInv, IInv, NEW t \in Tasks, conn[t].st \in {"counted", "logged"}
    PROVE  /\ links[t] = Waiting /\ t \in Running
           /\ conn[t].path = url[t] /\ url[t] \in Pages /\ url[t] \in SitePaths
           /\ perPath[url[t]] = 1 /\ answered[url[t]] = 0
           /\ conn[t].st = "counted" => requestLog[url[t]] = 0
           /\ conn[t].st = "logged" => requestLog[url[t]] = 1
<1>1. InStep(t)
  BY DEF CrawlInv, HandlersInStep
<1>2. links[t] = Waiting
  <2>1. conn[t] # Closed /\ conn[t] # Idle
    BY DEF Closed, Idle
  <2> QED
    BY <1>1, <2>1 DEF InStep
<1>3. t \in Running
  BY <1>1, <1>2 DEF InStep, Waiting
<1>4. /\ perPath[url[t]] = 1 /\ answered[url[t]] = 0
      /\ \/ conn[t] = Counted(url[t]) /\ requestLog[url[t]] = 0
         \/ conn[t] = Logged(url[t]) /\ requestLog[url[t]] = 1
  BY <1>1, <1>2 DEF InStep
<1> QED
  BY <1>2, <1>3, <1>4, Requested DEF Counted, Logged

\* A step preserves the types.
LEMMA CrawlTypeInv ==
    ASSUME CrawlInv, IInv, AttemptBound', [CrawlNext]_allVars
    PROVE  CrawlTypeOK'
<1> USE DEF CrawlTypeOK
<1>0. CrawlTypeOK
  BY DEF CrawlInv
<1>1. CASE RuntimeStep
  BY <1>0, <1>1 DEF RuntimeStep
<1>2. CASE Quiet
  BY <1>0, <1>2, QuietFrame
<1>3. CASE MainChecks
  BY <1>0, <1>3 DEF MainChecks, CopyLog, CopyPaths
<1>4. ASSUME NEW t \in Tasks, Seed(t) PROVE CrawlTypeOK'
  BY <1>0, <1>4, PageFacts DEF Seed
<1>5. ASSUME NEW t \in Tasks, HandlerRequests(t) PROVE CrawlTypeOK'
  <2>1. url[t] \in SitePaths
    BY <1>5, Requested DEF HandlerRequests, Running
  <2> QED
    BY <1>0, <1>5, <2>1 DEF HandlerRequests, Request
<1>6. ASSUME NEW t \in Tasks, HandlerReceives(t) PROVE CrawlTypeOK'
  <2>1. conn[t].path \in SitePaths /\ url[t] \in Pages
    BY <1>6, AtRequest DEF HandlerReceives, Answer
  <2>2. PICK l \in Seq(Pages) : l = BlogLinks(url[t], Posts)
    BY <2>1, PageLinks
  <2>3. links' = [links EXCEPT ![t] = l]
    BY <1>6, <2>2 DEF HandlerReceives
  <2>4. answered' \in [SitePaths -> Nat] /\ conn' = [c \in Conns |-> conn'[c]]
    <3>1. PICK p \in SitePaths : p = conn[t].path
      BY <2>1
    <3>2. answered' = [answered EXCEPT ![p] = @ + 1] /\ conn' = [conn EXCEPT ![t] = Idle]
      BY <1>6, <3>1 DEF HandlerReceives, Answer
    <3>3. answered' \in [SitePaths -> Nat]
      BY <1>0, <3>2
    <3>4. conn' = [c \in Conns |-> conn'[c]]
      BY <1>0, <3>2
    <3> QED
      BY <3>3, <3>4
  <2>5. links' \in [Tasks -> Seq(Pages) \cup {Waiting}]
    BY <1>0, <2>3
  <2> QED
    BY <1>0, <1>6, <2>4, <2>5 DEF HandlerReceives, Answer
<1>7. ASSUME NEW t \in Tasks, HandlerMarks(t) PROVE CrawlTypeOK'
  BY <1>0, <1>7, Marked DEF Fresh
<1>8. ASSUME NEW t \in Tasks, HandlerResumes(t) PROVE CrawlTypeOK'
  BY <1>0, <1>8 DEF HandlerResumes
<1>9. ASSUME NEW t \in Tasks, HandlerDone(t) PROVE CrawlTypeOK'
  <2>1. <<>> \in Seq(Pages)
    BY EmptySeq
  <2> QED
    BY <1>0, <1>9, <2>1 DEF HandlerDone
<1>10. ASSUME NEW t \in Tasks, HandlerTimesOut(t) PROVE CrawlTypeOK'
  <2>1. <<>> \in Seq(Pages)
    BY EmptySeq
  <2> QED
    BY <1>0, <1>10, <2>1 DEF HandlerTimesOut, Disconnect
<1>11. ASSUME NEW t \in Tasks, ServerLogs(t) PROVE CrawlTypeOK'
  <2>1. conn[t].path \in SitePaths
    BY <1>11, AtRequest DEF ServerLogs, Log
  <2>2. PICK p \in SitePaths : p = conn[t].path
    BY <2>1
  <2>3. /\ requestLog' = [requestLog EXCEPT ![p] = @ + 1]
        /\ conn' = [conn EXCEPT ![t] = Logged(p)]
    BY <1>11, <2>2 DEF ServerLogs, Log
  <2>4. requestLog' \in [SitePaths -> Nat]
    BY <1>0, <2>3
  <2>5. conn' = [c \in Conns |-> conn'[c]]
    BY <1>0, <2>3
  <2> QED
    BY <1>0, <1>11, <2>4, <2>5 DEF ServerLogs, Log
<1> QED
  BY <1>1, <1>2, <1>3, <1>4, <1>5, <1>6, <1>7, <1>8, <1>9, <1>10, <1>11, CrawlCases

\* Before the seed is enqueued no task has a page.
LEMMA NothingBeforeSeed ==
    ASSUME CrawlInv, IInv, known = {}
    PROVE  Running = {} /\ Children = {} /\ Tasked = {}
<1>1. Running = {}
  BY RunningKnown
<1>2. \A t \in Tasks : worker[t].child = NoTask
  BY <1>1 DEF CrawlInv, HandlersInStep, InStep, Loaded, Running
<1> QED
  BY <1>1, <1>2 DEF Children, Tasked

\* The seed is the first task with a page.
LEMMA Seeded ==
    ASSUME CrawlInv, IInv, NEW t \in Tasks, Seed(t)
    PROVE  /\ known = {} /\ known' = {t} /\ Tasked' = {t} /\ url'[t] = Home
           /\ seen = {Home} /\ Running = {}
           /\ UNCHANGED <<worker, calls, siteVars, seen, links, done, finished, crashes,
                          controlVars, stopping, pc, hand, resultCh, dlq>>
<1>1. /\ known = {} /\ known' = {t} /\ url' = [url EXCEPT ![t] = Home]
      /\ UNCHANGED <<worker, calls, siteVars, seen, links, done, finished, crashes,
                     controlVars, stopping, pc, hand, resultCh, dlq>>
  BY DEF Seed, ExternalEnqueue, Enqueue
<1>2. Children' = {} /\ Running = {} /\ seen = {Home}
  BY <1>1, NothingBeforeSeed DEF Children, CrawlInv, UrlsApart
<1> QED
  BY <1>1, <1>2 DEF Tasked, CrawlInv, CrawlTypeOK

\* What a handler marks is given to a task that had no page.
LEMMA MarkedTask ==
    ASSUME CrawlInv, IInv, NEW t \in Tasks, HandlerMarks(t)
    PROVE  \E c \in Tasks \ Tasked, p \in Pages \ seen :
              /\ Tasked' = Tasked \cup {c} /\ Loaded(t) /\ worker[t].child = NoTask
              /\ url' = [url EXCEPT ![c] = p] /\ seen' = seen \cup {p}
              /\ worker' = [worker EXCEPT ![t].child = c]
              /\ UNCHANGED <<known, calls, siteVars, links, done, finished, crashes,
                             controlVars, stopping, pc, hand, resultCh, dlq>>
<1>1. PICK c \in Fresh \ ExternalTasks, p \in Pages \ seen :
          /\ HandlerEnqueues(t, c) /\ Loaded(t)
          /\ url' = [url EXCEPT ![c] = p] /\ seen' = seen \cup {p}
          /\ UNCHANGED <<statsVars, siteVars, links, done, finished>>
  BY Marked DEF CrawlInv
<1>2. /\ c \in Tasks \ Tasked /\ c # NoTask /\ worker[t].child = NoTask
      /\ worker' = [worker EXCEPT ![t].child = c]
      /\ UNCHANGED <<known, calls, crashes, controlVars, stopping, pc, hand, resultCh, dlq>>
  BY <1>1, NoTaskAssumption DEF HandlerEnqueues, Fresh, Tasked
<1>3. Children' = Children \cup {c}
  <2>1. worker \in [Tasks -> Worker \cup {NoWorker}]
    BY DEF IInv, TypeOK
  <2>2. \A u \in Tasks : worker'[u].child = IF u = t THEN c ELSE worker[u].child
    <3>1. worker'[t].child = c
      BY <1>2, <2>1 DEF Worker, NoWorker
    <3> QED
      BY <1>2, <2>1, <3>1
  <2> QED
    BY <1>2, <2>2 DEF Children
<1> QED
  BY <1>1, <1>2, <1>3 DEF Tasked

\* Every other step leaves the pages alone, and no task gets one.
LEMMA TaskedStep ==
    ASSUME CrawlInv, IInv, AttemptBound', [CrawlNext]_allVars,
           \A t \in Tasks : ~Seed(t) /\ ~HandlerMarks(t)
    PROVE  UNCHANGED <<url, seen>> /\ known \subseteq known' /\ Tasked' \subseteq Tasked
<1>0. worker \in [Tasks -> Worker \cup {NoWorker}] /\ crashes = 0
  BY DEF IInv, TypeOK, CrawlInv, RuntimeOpen
<1>1. CASE RuntimeStep
  <2>1. known' = known /\ \A t \in Tasks : FutureMoves(t)
    BY <1>0, <1>1, RuntimeFrame
  <2>2. \A t \in Tasks : worker'[t].child \in {worker[t].child, NoTask}
    BY <2>1 DEF FutureMoves, NoWorker
  <2> QED
    BY <1>1, <2>1, <2>2 DEF RuntimeStep, Tasked, Children
<1>2. CASE Quiet
  BY <1>2, QuietFrame DEF Tasked, Children
<1>3. CASE MainChecks
  BY <1>3 DEF MainChecks, runtimeVars, vars, Tasked, Children
<1>4. ASSUME NEW t \in Tasks, HandlerRequests(t) \/ HandlerReceives(t) \/ ServerLogs(t)
      PROVE  UNCHANGED <<url, seen>> /\ known \subseteq known' /\ Tasked' \subseteq Tasked
  BY <1>4 DEF HandlerRequests, HandlerReceives, ServerLogs, runtimeVars, vars, Tasked, Children
<1>5. ASSUME NEW t \in Tasks, HandlerResumes(t)
      PROVE  UNCHANGED <<url, seen>> /\ known \subseteq known' /\ Tasked' \subseteq Tasked
  <2>1. /\ worker[t].child # NoTask /\ worker' = [worker EXCEPT ![t].child = NoTask]
        /\ known' \in {known, known \cup {worker[t].child}} /\ UNCHANGED <<url, seen>>
    BY <1>5 DEF HandlerResumes, HandlerEnqueued, Enqueue
  <2>2. \A u \in Tasks : worker'[u].child \in {worker[u].child, NoTask}
    BY <1>0, <2>1 DEF Worker, NoWorker
  <2>3. worker[t].child \in Children
    BY <2>1 DEF Children
  <2> QED
    BY <2>1, <2>2, <2>3 DEF Tasked, Children
<1>6. ASSUME NEW t \in Tasks, HandlerDone(t) \/ HandlerTimesOut(t)
      PROVE  UNCHANGED <<url, seen>> /\ known \subseteq known' /\ Tasked' \subseteq Tasked
  <2>1. UNCHANGED <<url, seen, known>>
    BY <1>6 DEF HandlerDone, HandlerTimesOut, Complete, TimeOut
  <2>2. \A u \in Tasks : worker'[u].child \in {worker[u].child, NoTask}
    <3>1. CASE HandlerDone(t)
      BY <1>0, <3>1 DEF HandlerDone, Complete, Worker, NoWorker
    <3>2. CASE HandlerTimesOut(t)
      BY <1>0, <3>2 DEF HandlerTimesOut, TimeOut, Worker, NoWorker
    <3> QED
      BY <1>6, <3>1, <3>2
  <2> QED
    BY <2>1, <2>2 DEF Tasked, Children
<1> QED
  BY <1>1, <1>2, <1>3, <1>4, <1>5, <1>6, CrawlCases

\* A step keeps the pages of the tasks apart.
LEMMA UrlsInv ==
    ASSUME CrawlInv, IInv, AttemptBound', [CrawlNext]_allVars
    PROVE  UrlsApart'
<1>0. UrlsApart /\ CrawlTypeOK
  BY DEF CrawlInv
<1>1. ASSUME NEW t \in Tasks, Seed(t) PROVE UrlsApart'
  BY <1>1, Seeded DEF UrlsApart
<1>2. ASSUME NEW t \in Tasks, HandlerMarks(t) PROVE UrlsApart'
  <2>1. PICK c \in Tasks \ Tasked, p \in Pages \ seen :
            /\ Tasked' = Tasked \cup {c} /\ Loaded(t) /\ UNCHANGED known
            /\ url' = [url EXCEPT ![c] = p] /\ seen' = seen \cup {p}
    BY <1>2, MarkedTask
  <2>2. t \in known
    BY <2>1, RunningKnown DEF Loaded, Running
  <2>3. Tasked \subseteq Tasks
    BY NoTaskAssumption DEF Tasked, Children, IInv, TypeOK, Worker, NoWorker
  <2>4. url'[c] = p /\ \A u \in Tasked : url'[u] = url[u] /\ url[u] \in seen
    BY <2>1, <2>3, <1>0 DEF UrlsApart, CrawlTypeOK
  <2> QED
    BY <2>1, <2>2, <2>4, <1>0 DEF UrlsApart
<1>3. CASE \A t \in Tasks : ~Seed(t) /\ ~HandlerMarks(t)
  BY <1>0, <1>3, TaskedStep DEF UrlsApart
<1> QED
  BY <1>1, <1>2, <1>3

\* Two handlers that run ask for different pages.
LEMMA PagesApart ==
    ASSUME CrawlInv, IInv, NEW t \in Running, NEW u \in Running, t # u
    PROVE  url[t] # url[u]
BY RunningKnown DEF CrawlInv, UrlsApart, Tasked, Running

\* Nobody else has asked for the page of a handler that has yet to ask.
LEMMA NotYetAsked ==
    ASSUME CrawlInv, IInv, NEW t \in Running, links[t] = <<>>
    PROVE  perPath[url[t]] = 0 /\ requestLog[url[t]] = 0 /\ answered[url[t]] = 0
<1>1. t \in Tasked /\ url[t] \in Pages /\ url[t] \in SitePaths
  BY Requested DEF Running
<1>2. ~(perPath[url[t]] > 0)
  <2> SUFFICES ASSUME perPath[url[t]] > 0 PROVE FALSE
    OBVIOUS
  <2>1. PICK u \in known : url[u] = url[t] /\ HasAsked(u)
    BY <1>1 DEF CrawlInv, AskedOnce
  <2>2. u = t
    BY <1>1, <2>1 DEF CrawlInv, UrlsApart, Tasked
  <2> QED
    BY <2>1, <2>2 DEF HasAsked
<1>3. /\ perPath[url[t]] \in Nat /\ requestLog[url[t]] \in Nat /\ answered[url[t]] \in Nat
      /\ answered[url[t]] <= requestLog[url[t]] /\ requestLog[url[t]] <= perPath[url[t]]
  BY <1>1 DEF CrawlInv, CrawlTypeOK, AskedOnce
<1> QED
  BY <1>2, <1>3

\* A handler's own state, with what it depends on left alone, stays as it is.
LEMMA InStepFrame ==
    ASSUME NEW t \in Tasks, InStep(t),
           worker'[t] = worker[t], calls'[t] = calls[t], links'[t] = links[t],
           url'[t] = url[t], conn'[t] = conn[t],
           links[t] = Waiting => /\ perPath'[url[t]] = perPath[url[t]]
                                 /\ requestLog'[url[t]] = requestLog[url[t]]
                                 /\ answered'[url[t]] = answered[url[t]]
    PROVE  InStep(t)'
BY DEF InStep, Loaded, Running

\* A handler that waits, has none or has all of its links.
LEMMA EmptyNotWaiting == Waiting # <<>>
BY DEF Waiting

\* A step keeps every handler in step with its connection.
LEMMA HandlersInv ==
    ASSUME CrawlInv, IInv, AttemptBound', [CrawlNext]_allVars
    PROVE  HandlersInStep'
<1>0. /\ worker \in [Tasks -> Worker \cup {NoWorker}] /\ crashes = 0
      /\ CrawlTypeOK /\ \A t \in Tasks : InStep(t)
  BY DEF IInv, TypeOK, CrawlInv, RuntimeOpen, HandlersInStep
<1> SUFFICES ASSUME NEW u \in Tasks PROVE InStep(u)'
  BY DEF HandlersInStep
<1>1. CASE RuntimeStep
  <2>1. FutureMoves(u) /\ UNCHANGED <<siteVars, crawlVars>>
    BY <1>0, <1>1, RuntimeFrame DEF RuntimeStep
  <2>2. CASE worker'[u] = worker[u] /\ calls'[u] = calls[u]
    BY <1>0, <2>1, <2>2, InStepFrame
  <2>3. CASE worker[u].st = "done" /\ worker'[u] = NoWorker /\ calls'[u] = calls[u]
    BY <1>0, <2>1, <2>3, EmptyNotWaiting DEF InStep, Running, NoWorker, Loaded
  <2>4. CASE /\ u \notin Running /\ calls[u] = 0 /\ calls'[u] > 0
             /\ worker'[u].st = "running" /\ worker'[u].child = NoTask /\ ~worker'[u].ok
    BY <1>0, <2>1, <2>4, EmptyNotWaiting DEF InStep, Running, Loaded
  <2> QED
    BY <2>1, <2>2, <2>3, <2>4 DEF FutureMoves
<1>2. CASE Quiet
  BY <1>0, <1>2, QuietFrame, InStepFrame
<1>3. CASE MainChecks
  <2>1. conn'[u] = conn[u]
    BY <1>0, <1>3, ConnsApart DEF MainChecks, CopyLog, CopyPaths, CrawlTypeOK
  <2> QED
    BY <1>0, <1>3, <2>1, InStepFrame
       DEF MainChecks, CopyLog, CopyPaths, runtimeVars, vars
<1>4. ASSUME NEW t \in Tasks, Seed(t) PROVE InStep(u)'
  <2>1. u \notin Running
    BY <1>4, Seeded
  <2>2. /\ links[u] = <<>> /\ UNCHANGED <<worker, calls, conn, links>>
    BY <1>0, <1>4, <2>1, Seeded DEF InStep
  <2> QED
    BY <1>0, <2>1, <2>2, EmptyNotWaiting DEF InStep, Running, Loaded
<1>5. ASSUME NEW t \in Tasks, HandlerRequests(t) PROVE InStep(u)'
  <2>0. /\ t \in Running /\ links[t] = <<>> /\ url[t] \in SitePaths
        /\ links' = [links EXCEPT ![t] = Waiting]
        /\ perPath' = [perPath EXCEPT ![url[t]] = @ + 1]
        /\ conn' = [conn EXCEPT ![t] = Counted(url[t])]
        /\ UNCHANGED <<worker, calls, url, requestLog, answered>>
    BY <1>5, Requested DEF HandlerRequests, Request, Running, runtimeVars, vars
  <2>1. CASE u = t
    <3>1. perPath[url[t]] = 0 /\ requestLog[url[t]] = 0 /\ answered[url[t]] = 0
      BY <2>0, NotYetAsked
    <3>2. links'[t] = Waiting /\ conn'[t] = Counted(url[t]) /\ perPath'[url[t]] = 1
      BY <1>0, <2>0, <3>1, ConnsApart DEF CrawlTypeOK
    <3> QED
      BY <1>0, <2>0, <2>1, <3>1, <3>2 DEF InStep, Loaded, Running
  <2>2. CASE u # t
    <3>1. links'[u] = links[u] /\ conn'[u] = conn[u]
      BY <1>0, <2>0, <2>2, ConnsApart DEF CrawlTypeOK
    <3>2. links[u] = Waiting => perPath'[url[u]] = perPath[url[u]]
      <4> SUFFICES ASSUME links[u] = Waiting PROVE perPath'[url[u]] = perPath[url[u]]
        OBVIOUS
      <4>1. u \in Running
        BY <1>0, EmptyNotWaiting DEF InStep
      <4>2. url[u] # url[t] /\ url[u] \in SitePaths
        BY <2>0, <2>2, <4>1, PagesApart, Requested
      <4> QED
        BY <1>0, <2>0, <4>2 DEF CrawlTypeOK
    <3> QED
      BY <1>0, <2>0, <3>1, <3>2, InStepFrame
  <2> QED
    BY <2>1, <2>2
<1>6. ASSUME NEW t \in Tasks, HandlerReceives(t) PROVE InStep(u)'
  <2>0. PICK l \in Seq(Pages) \ {<<>>, Waiting} :
            /\ t \in Running /\ url[t] \in SitePaths
            /\ links' = [links EXCEPT ![t] = l]
            /\ answered' = [answered EXCEPT ![url[t]] = @ + 1]
            /\ conn' = [conn EXCEPT ![t] = Idle]
            /\ UNCHANGED <<worker, calls, url, requestLog, perPath>>
    <3>1. /\ t \in Running /\ url[t] \in SitePaths /\ url[t] \in Pages
          /\ conn[t].path = url[t]
      BY <1>6, AtRequest DEF HandlerReceives, Answer
    <3>2. PICK l \in Seq(Pages) \ {<<>>, Waiting} : l = BlogLinks(url[t], Posts)
      BY <3>1, PageLinks
    <3> QED
      BY <1>6, <3>1, <3>2 DEF HandlerReceives, Answer, runtimeVars, vars
  <2>1. CASE u = t
    <3>1. links'[t] = l /\ l \notin {<<>>, Waiting} /\ conn'[t] = Idle
      BY <1>0, <2>0, ConnsApart DEF CrawlTypeOK
    <3> QED
      BY <1>0, <2>0, <2>1, <3>1 DEF InStep, Loaded, Running
  <2>2. CASE u # t
    <3>1. links'[u] = links[u] /\ conn'[u] = conn[u]
      BY <1>0, <2>0, <2>2, ConnsApart DEF CrawlTypeOK
    <3>2. links[u] = Waiting => answered'[url[u]] = answered[url[u]]
      <4> SUFFICES ASSUME links[u] = Waiting PROVE answered'[url[u]] = answered[url[u]]
        OBVIOUS
      <4>1. u \in Running
        BY <1>0, EmptyNotWaiting DEF InStep
      <4>2. url[u] # url[t] /\ url[u] \in SitePaths
        BY <2>0, <2>2, <4>1, PagesApart, Requested
      <4> QED
        BY <1>0, <2>0, <4>2 DEF CrawlTypeOK
    <3> QED
      BY <1>0, <2>0, <3>1, <3>2, InStepFrame
  <2> QED
    BY <2>1, <2>2
<1>7. ASSUME NEW t \in Tasks, HandlerMarks(t) PROVE InStep(u)'
  <2>0. PICK c \in Tasks \ Tasked, p \in Pages \ seen :
            /\ Loaded(t) /\ url' = [url EXCEPT ![c] = p]
            /\ worker' = [worker EXCEPT ![t].child = c]
            /\ UNCHANGED <<calls, siteVars, links>>
    BY <1>7, MarkedTask
  <2>1. CASE u = t
    <3>1. /\ worker'[t].st = worker[t].st /\ worker'[t].ok = worker[t].ok
          /\ links[t] \notin {<<>>, Waiting}
      BY <1>0, <2>0 DEF Loaded, Worker, NoWorker
    <3> QED
      BY <1>0, <2>0, <2>1, <3>1 DEF InStep, Loaded, Running
  <2>2. CASE u # t
    <3>1. worker'[u] = worker[u]
      BY <1>0, <2>0, <2>2
    <3>2. CASE u \in Running
      <4>1. u # c
        BY <3>2, <2>0, RunningKnown DEF Tasked
      <4>2. url'[u] = url[u]
        BY <4>1, <1>0, <2>0 DEF CrawlTypeOK
      <4> QED
        BY <1>0, <2>0, <3>1, <4>2, InStepFrame
    <3>3. CASE u \notin Running
      BY <1>0, <2>0, <3>1, <3>3, EmptyNotWaiting DEF InStep, Loaded, Running
    <3> QED
      BY <3>2, <3>3
  <2> QED
    BY <2>1, <2>2
<1>8. ASSUME NEW t \in Tasks, HandlerResumes(t) PROVE InStep(u)'
  <2>0. /\ worker[t].child # NoTask /\ worker' = [worker EXCEPT ![t].child = NoTask]
        /\ UNCHANGED <<calls, siteVars, crawlVars>>
    BY <1>8 DEF HandlerResumes, HandlerEnqueued
  <2>1. CASE u = t
    <3>1. /\ worker'[t].st = worker[t].st /\ worker'[t].ok = worker[t].ok
          /\ worker'[t].child = NoTask
      BY <1>0, <2>0 DEF Worker, NoWorker
    <3> QED
      BY <1>0, <2>0, <2>1, <3>1 DEF InStep, Loaded, Running
  <2>2. CASE u # t
    BY <1>0, <2>0, <2>2, InStepFrame
  <2> QED
    BY <2>1, <2>2
<1>9. ASSUME NEW t \in Tasks, HandlerDone(t) \/ HandlerTimesOut(t) PROVE InStep(u)'
  <2>0. /\ links' = [links EXCEPT ![t] = <<>>]
        /\ worker'[t].st = "done" /\ worker'[t].child = NoTask
        /\ \A v \in Tasks \ {t} : worker'[v] = worker[v] /\ conn'[v] = conn[v]
        /\ conn'[t] \in {Closed, Idle}
        /\ UNCHANGED <<calls, url, requestLog, perPath, answered>>
    <3>1. CASE HandlerDone(t)
      <4>1. conn[t] \in {Closed, Idle}
        BY <1>0, <3>1 DEF HandlerDone, Loaded, InStep
      <4> QED
        BY <1>0, <3>1, <4>1 DEF HandlerDone, Complete, Worker, NoWorker
    <3>2. CASE HandlerTimesOut(t)
      <4>1. /\ worker'[t].st = "done" /\ worker'[t].child = NoTask
            /\ \A v \in Tasks \ {t} : worker'[v] = worker[v]
        BY <1>0, <3>2 DEF HandlerTimesOut, TimeOut, Worker, NoWorker
      <4>2. \/ conn[t] \in {Closed, Idle} /\ UNCHANGED siteVars
            \/ conn' = [conn EXCEPT ![t] = Closed]
                /\ UNCHANGED <<requestLog, perPath, answered>>
        BY <3>2 DEF HandlerTimesOut, Disconnect
      <4>3. conn'[t] \in {Closed, Idle} /\ \A v \in Tasks \ {t} : conn'[v] = conn[v]
        BY <1>0, <4>2, ConnsApart DEF CrawlTypeOK
      <4> QED
        BY <3>2, <4>1, <4>2, <4>3 DEF HandlerTimesOut, TimeOut
    <3> QED
      BY <1>9, <3>1, <3>2
  <2>1. CASE u = t
    <3>1. links'[t] = <<>>
      BY <1>0, <2>0 DEF CrawlTypeOK
    <3> QED
      BY <2>0, <2>1, <3>1, EmptyNotWaiting DEF InStep, Loaded, Running
  <2>2. CASE u # t
    <3>1. links'[u] = links[u]
      BY <1>0, <2>0, <2>2 DEF CrawlTypeOK
    <3> QED
      BY <1>0, <2>0, <2>2, <3>1, InStepFrame
  <2> QED
    BY <2>1, <2>2
<1>10. ASSUME NEW t \in Tasks, ServerLogs(t) PROVE InStep(u)'
  <2>0. /\ t \in Running /\ links[t] = Waiting /\ url[t] \in SitePaths
        /\ perPath[url[t]] = 1 /\ requestLog[url[t]] = 0 /\ answered[url[t]] = 0
        /\ requestLog' = [requestLog EXCEPT ![url[t]] = @ + 1]
        /\ conn' = [conn EXCEPT ![t] = Logged(url[t])]
        /\ UNCHANGED <<worker, calls, links, url, perPath, answered>>
    BY <1>10, AtRequest DEF ServerLogs, Log, runtimeVars, vars
  <2>1. CASE u = t
    <3>1. conn'[t] = Logged(url[t]) /\ requestLog'[url[t]] = 1
      BY <1>0, <2>0, ConnsApart DEF CrawlTypeOK
    <3> QED
      BY <1>0, <2>0, <2>1, <3>1 DEF InStep, Loaded, Running
  <2>2. CASE u # t
    <3>1. conn'[u] = conn[u]
      BY <1>0, <2>0, <2>2, ConnsApart DEF CrawlTypeOK
    <3>2. links[u] = Waiting => requestLog'[url[u]] = requestLog[url[u]]
      <4> SUFFICES ASSUME links[u] = Waiting PROVE requestLog'[url[u]] = requestLog[url[u]]
        OBVIOUS
      <4>1. u \in Running
        BY <1>0, EmptyNotWaiting DEF InStep
      <4>2. url[u] # url[t] /\ url[u] \in SitePaths
        BY <2>0, <2>2, <4>1, PagesApart, Requested
      <4> QED
        BY <1>0, <2>0, <4>2 DEF CrawlTypeOK
    <3> QED
      BY <1>0, <2>0, <3>1, <3>2, InStepFrame
  <2> QED
    BY <2>1, <2>2
<1> QED
  BY <1>1, <1>2, <1>3, <1>4, <1>5, <1>6, <1>7, <1>8, <1>9, <1>10, CrawlCases

\* What a step does to a running handler's links: it clears them only with the future.
LEMMA HasAskedStep ==
    ASSUME CrawlInv, IInv, AttemptBound', [CrawlNext]_allVars, NEW t \in known
    PROVE  t \in known' /\ url'[t] = url[t] /\ (HasAsked(t) => HasAsked(t)')
<1>0. /\ worker \in [Tasks -> Worker \cup {NoWorker}] /\ crashes = 0
      /\ CrawlTypeOK /\ t \in Tasks /\ t \in Tasked
  BY DEF IInv, TypeOK, CrawlInv, RuntimeOpen, Tasked
<1>1. \A u \in Tasks : ~Seed(u)
  BY Seeded
<1>2. t \in known' /\ url'[t] = url[t]
  <2>1. CASE \A u \in Tasks : ~HandlerMarks(u)
    BY <1>1, <2>1, TaskedStep
  <2>2. ASSUME NEW u \in Tasks, HandlerMarks(u) PROVE t \in known' /\ url'[t] = url[t]
    BY <1>0, <2>2, MarkedTask DEF CrawlTypeOK
  <2> QED
    BY <2>1, <2>2
<1>3. HasAsked(t) => HasAsked(t)'
  <2> SUFFICES ASSUME HasAsked(t) PROVE HasAsked(t)'
    OBVIOUS
  <2> USE DEF HasAsked
  <2>1. CASE RuntimeStep
    <3>1. FutureMoves(t) /\ UNCHANGED links
      BY <1>0, <2>1, RuntimeFrame DEF RuntimeStep
    <3> QED
      BY <3>1 DEF FutureMoves, NoWorker, Running
  <2>2. CASE Quiet
    BY <2>2, QuietFrame DEF Running
  <2>3. CASE MainChecks
    BY <2>3 DEF MainChecks, runtimeVars, vars, Running
  <2>4. ASSUME NEW u \in Tasks, HandlerRequests(u) PROVE HasAsked(t)'
    <3>1. /\ links' = [links EXCEPT ![u] = Waiting] /\ UNCHANGED <<worker, calls>>
      BY <2>4 DEF HandlerRequests, runtimeVars, vars
    <3> QED
      BY <1>0, <3>1, EmptyNotWaiting DEF Running, CrawlTypeOK
  <2>5. ASSUME NEW u \in Tasks, HandlerReceives(u) PROVE HasAsked(t)'
    <3>1. url[u] \in Pages
      BY <2>5, AtRequest DEF HandlerReceives, Answer
    <3>2. PICK l \in Seq(Pages) \ {<<>>, Waiting} : l = BlogLinks(url[u], Posts)
      BY <3>1, PageLinks
    <3>3. links' = [links EXCEPT ![u] = l] /\ UNCHANGED <<worker, calls>>
      BY <2>5, <3>2 DEF HandlerReceives, runtimeVars, vars
    <3> QED
      BY <1>0, <3>2, <3>3 DEF Running, CrawlTypeOK
  <2>6. ASSUME NEW u \in Tasks, HandlerMarks(u) PROVE HasAsked(t)'
    <3>1. PICK c : worker' = [worker EXCEPT ![u].child = c] /\ UNCHANGED <<calls, links>>
      BY <2>6, MarkedTask
    <3>2. worker'[t].st = worker[t].st
      BY <1>0, <3>1 DEF Worker, NoWorker
    <3> QED
      BY <1>0, <3>1, <3>2 DEF Running
  <2>7. ASSUME NEW u \in Tasks, HandlerResumes(u) PROVE HasAsked(t)'
    <3>1. /\ worker' = [worker EXCEPT ![u].child = NoTask] /\ UNCHANGED <<calls, links>>
      BY <2>7 DEF HandlerResumes, HandlerEnqueued
    <3>2. worker'[t].st = worker[t].st
      BY <1>0, <3>1 DEF Worker, NoWorker
    <3> QED
      BY <1>0, <3>1, <3>2 DEF Running
  <2>8. ASSUME NEW u \in Tasks, HandlerDone(u) \/ HandlerTimesOut(u) PROVE HasAsked(t)'
    <3>1. /\ links' = [links EXCEPT ![u] = <<>>] /\ UNCHANGED calls
          /\ worker'[u].st = "done" /\ \A v \in Tasks \ {u} : worker'[v] = worker[v]
      BY <1>0, <2>8 DEF HandlerDone, HandlerTimesOut, Complete, TimeOut, Worker, NoWorker
    <3> QED
      BY <1>0, <3>1 DEF Running, CrawlTypeOK
  <2>9. ASSUME NEW u \in Tasks, ServerLogs(u) PROVE HasAsked(t)'
    BY <2>9 DEF ServerLogs, runtimeVars, vars, Running
  <2> QED
    BY <1>1, <2>1, <2>2, <2>3, <2>4, <2>5, <2>6, <2>7, <2>8, <2>9, CrawlCases
<1> QED
  BY <1>2, <1>3

\* How a step changes the server's counts of a page: it counts a request nobody made
\* before, logs a counted one, or answers a logged one.
LEMMA CountsStep ==
    ASSUME CrawlInv, IInv, [CrawlNext]_allVars, NEW p \in Pages
    PROVE  \/ UNCHANGED <<perPath[p], requestLog[p], answered[p]>>
           \/ /\ perPath[p] = 0 /\ perPath'[p] = 1
              /\ UNCHANGED <<requestLog[p], answered[p]>>
              /\ \E t \in Tasks : HandlerRequests(t) /\ url[t] = p
           \/ /\ perPath[p] = 1 /\ requestLog[p] = 0 /\ requestLog'[p] = 1
              /\ UNCHANGED <<perPath[p], answered[p]>>
           \/ /\ perPath[p] = 1 /\ requestLog[p] = 1 /\ answered[p] = 0 /\ answered'[p] = 1
              /\ UNCHANGED <<perPath[p], requestLog[p]>>
<1>0. CrawlTypeOK /\ p \in SitePaths
  BY PageFacts DEF CrawlInv
<1>1. CASE \/ RuntimeStep \/ Quiet \/ MainChecks
           \/ \E t \in Tasks :
                 \/ Seed(t) \/ HandlerMarks(t) \/ HandlerResumes(t) \/ HandlerDone(t)
                 \/ HandlerTimesOut(t)
  <2>1. UNCHANGED <<perPath, requestLog, answered>>
    BY <1>1, QuietFrame
       DEF RuntimeStep, MainChecks, CopyLog, CopyPaths, Seed, HandlerMarks,
           HandlerResumes, HandlerDone, HandlerTimesOut, Disconnect
  <2> QED
    BY <2>1
<1>2. ASSUME NEW t \in Tasks, HandlerRequests(t)
      PROVE  /\ UNCHANGED <<requestLog, answered>>
             /\ \/ perPath'[p] = perPath[p]
                \/ perPath[p] = 0 /\ perPath'[p] = 1 /\ url[t] = p
  <2>1. /\ url[t] \in SitePaths /\ perPath[url[t]] = 0
        /\ perPath' = [perPath EXCEPT ![url[t]] = @ + 1] /\ UNCHANGED <<requestLog, answered>>
    BY <1>2, Requested, NotYetAsked DEF HandlerRequests, Request, Running
  <2> QED
    BY <1>0, <2>1 DEF CrawlTypeOK
<1>3. ASSUME NEW t \in Tasks, HandlerReceives(t)
      PROVE  /\ UNCHANGED <<perPath, requestLog>>
             /\ \/ answered'[p] = answered[p]
                \/ perPath[p] = 1 /\ requestLog[p] = 1 /\ answered[p] = 0 /\ answered'[p] = 1
  <2>1. /\ url[t] \in SitePaths /\ perPath[url[t]] = 1 /\ requestLog[url[t]] = 1
        /\ answered[url[t]] = 0 /\ answered' = [answered EXCEPT ![url[t]] = @ + 1]
        /\ UNCHANGED <<perPath, requestLog>>
    BY <1>3, AtRequest DEF HandlerReceives, Answer
  <2> QED
    BY <1>0, <2>1 DEF CrawlTypeOK
<1>4. ASSUME NEW t \in Tasks, ServerLogs(t)
      PROVE  /\ UNCHANGED <<perPath, answered>>
             /\ \/ requestLog'[p] = requestLog[p]
                \/ perPath[p] = 1 /\ requestLog[p] = 0 /\ requestLog'[p] = 1
  <2>1. /\ url[t] \in SitePaths /\ perPath[url[t]] = 1 /\ requestLog[url[t]] = 0
        /\ requestLog' = [requestLog EXCEPT ![url[t]] = @ + 1]
        /\ UNCHANGED <<perPath, answered>>
    BY <1>4, AtRequest DEF ServerLogs, Log
  <2> QED
    BY <1>0, <2>1 DEF CrawlTypeOK
<1> QED
  BY <1>1, <1>2, <1>3, <1>4, CrawlCases

\* A step leaves every page asked for at most once, by the call of its task.
LEMMA AskedInv ==
    ASSUME CrawlInv, IInv, AttemptBound', [CrawlNext]_allVars
    PROVE  AskedOnce'
<1> SUFFICES ASSUME NEW p \in Pages
             PROVE  /\ answered'[p] <= requestLog'[p] /\ requestLog'[p] <= perPath'[p]
                    /\ perPath'[p] <= 1
                    /\ perPath'[p] > 0 => \E t \in known' : url'[t] = p /\ HasAsked(t)'
  BY DEF AskedOnce
<1>0. /\ answered[p] <= requestLog[p] /\ requestLog[p] <= perPath[p] /\ perPath[p] <= 1
      /\ perPath[p] > 0 => \E t \in known : url[t] = p /\ HasAsked(t)
      /\ perPath[p] \in Nat /\ requestLog[p] \in Nat /\ answered[p] \in Nat
  BY PageFacts DEF CrawlInv, AskedOnce, CrawlTypeOK
<1>1. /\ answered'[p] <= requestLog'[p] /\ requestLog'[p] <= perPath'[p]
      /\ perPath'[p] <= 1
  BY <1>0, CountsStep
<1>2. CASE perPath[p] > 0
  <2>1. PICK t \in known : url[t] = p /\ HasAsked(t)
    BY <1>0, <1>2
  <2>2. t \in known' /\ url'[t] = p /\ HasAsked(t)'
    BY <2>1, HasAskedStep
  <2> QED
    BY <1>1, <2>2
<1>3. CASE ~(perPath[p] > 0)
  <2> SUFFICES ASSUME perPath'[p] > 0
               PROVE  \E t \in known' : url'[t] = p /\ HasAsked(t)'
    BY <1>1
  <2>1. PICK t \in Tasks : HandlerRequests(t) /\ url[t] = p
    BY <1>0, <1>3, CountsStep
  <2>2. t \in known /\ t \in Running /\ calls[t] > 0
    BY <2>1, Requested DEF HandlerRequests, Running, CrawlInv, HandlersInStep, InStep
  <2>3. links'[t] = Waiting /\ UNCHANGED <<url, known, calls, worker>>
    BY <2>1 DEF HandlerRequests, CrawlInv, CrawlTypeOK, runtimeVars, vars
  <2> QED
    BY <2>1, <2>2, <2>3, EmptyNotWaiting DEF HasAsked
<1> QED
  BY <1>1, <1>2, <1>3

\* Every step but an answer leaves the answers alone and loads no handler.
LEMMA LoadingStep ==
    ASSUME CrawlInv, IInv, AttemptBound', [CrawlNext]_allVars,
           \A t \in Tasks : ~HandlerReceives(t)
    PROVE  UNCHANGED answered /\ Loading' \subseteq Loading
<1>0. /\ worker \in [Tasks -> Worker \cup {NoWorker}] /\ crashes = 0
      /\ CrawlTypeOK /\ \A t \in Tasks : InStep(t)
  BY DEF IInv, TypeOK, CrawlInv, RuntimeOpen, HandlersInStep
<1> USE DEF Loading, Loaded
<1>1. CASE RuntimeStep
  <2>1. ASSUME NEW t \in Tasks, Loaded(t)' PROVE Loaded(t)
    <3>1. FutureMoves(t) /\ UNCHANGED links
      BY <1>0, <1>1, RuntimeFrame DEF RuntimeStep
    <3> QED
      BY <1>0, <2>1, <3>1 DEF FutureMoves, NoWorker, InStep
  <2> QED
    BY <1>1, <2>1 DEF RuntimeStep
<1>2. CASE Quiet
  BY <1>2, QuietFrame
<1>3. CASE MainChecks
  BY <1>3 DEF MainChecks, CopyLog, CopyPaths, runtimeVars, vars
<1>4. ASSUME NEW t \in Tasks, HandlerRequests(t)
      PROVE  UNCHANGED answered /\ Loading' \subseteq Loading
  <2>1. links' = [links EXCEPT ![t] = Waiting] /\ UNCHANGED <<worker, answered>>
    BY <1>4 DEF HandlerRequests, Request, runtimeVars, vars
  <2> QED
    BY <1>0, <2>1 DEF CrawlTypeOK
<1>5. ASSUME NEW t \in Tasks, HandlerMarks(t) \/ HandlerResumes(t)
      PROVE  UNCHANGED answered /\ Loading' \subseteq Loading
  <2>1. PICK c : worker' = [worker EXCEPT ![t].child = c] /\ UNCHANGED <<links, answered>>
    BY <1>5, MarkedTask DEF HandlerResumes, HandlerEnqueued
  <2>2. \A u \in Tasks : worker'[u].st = worker[u].st
    BY <1>0, <2>1 DEF Worker, NoWorker
  <2> QED
    BY <1>0, <2>1, <2>2
<1>6. ASSUME NEW t \in Tasks, HandlerDone(t) \/ HandlerTimesOut(t)
      PROVE  UNCHANGED answered /\ Loading' \subseteq Loading
  <2>1. /\ links' = [links EXCEPT ![t] = <<>>] /\ UNCHANGED answered
        /\ \A u \in Tasks \ {t} : worker'[u] = worker[u]
    BY <1>0, <1>6
       DEF HandlerDone, HandlerTimesOut, Complete, TimeOut, Disconnect, Worker, NoWorker
  <2> QED
    BY <1>0, <2>1 DEF CrawlTypeOK
<1>7. ASSUME NEW t \in Tasks, Seed(t) \/ ServerLogs(t)
      PROVE  UNCHANGED answered /\ Loading' \subseteq Loading
  BY <1>7, Seeded DEF ServerLogs, Log, runtimeVars, vars
<1> QED
  BY <1>1, <1>2, <1>3, <1>4, <1>5, <1>6, <1>7, CrawlCases

\* The pages and the handlers are finitely many.
LEMMA LoadingFinite ==
    /\ IsFiniteSet(Loading) /\ Cardinality(Loading) \in Nat
    /\ IsFiniteSet(AnsweredPages) /\ Cardinality(AnsweredPages) \in Nat
    /\ Cardinality(AnsweredPages) <= Cardinality(Pages) /\ Cardinality(Pages) \in Nat
    /\ Cardinality(AnsweredPages) = Cardinality(Pages) => AnsweredPages = Pages
BY PageFacts, TaskQueueAssumption, FS_Subset, FS_CardinalityType DEF Loading, AnsweredPages

\* A step keeps the reports behind the answers.
LEMMA ReportsInv ==
    ASSUME CrawlInv, IInv, AttemptBound', [CrawlNext]_allVars
    PROVE  ReportsCounted'
<1>0. /\ CrawlTypeOK /\ ReportsCounted /\ done \in Nat
      /\ worker \in [Tasks -> Worker \cup {NoWorker}]
  BY DEF CrawlInv, CrawlTypeOK, IInv, TypeOK
<1>1. ASSUME NEW t \in Tasks, HandlerReceives(t) PROVE ReportsCounted'
  <2>1. PICK p \in Pages :
            /\ p \in SitePaths /\ answered[p] = 0 /\ links[t] = Waiting
            /\ answered' = [answered EXCEPT ![p] = @ + 1] /\ UNCHANGED <<worker, done>>
            /\ \E l : links' = [links EXCEPT ![t] = l]
    BY <1>1, AtRequest DEF HandlerReceives, Answer, runtimeVars, vars
  <2>2. AnsweredPages' = AnsweredPages \cup {p} /\ p \notin AnsweredPages
    BY <1>0, <2>1, PageFacts DEF AnsweredPages, CrawlTypeOK
  <2>3. Loading' \subseteq Loading \cup {t}
    BY <1>0, <2>1 DEF Loading, Loaded, CrawlTypeOK
  <2>4. Cardinality(AnsweredPages') = Cardinality(AnsweredPages) + 1
    BY <2>2, LoadingFinite, FS_AddElement
  <2>5. Cardinality(Loading') \in Nat /\ Cardinality(Loading') <= Cardinality(Loading) + 1
    <3>1. /\ IsFiniteSet(Loading \cup {t}) /\ Cardinality(Loading \cup {t}) \in Nat
          /\ Cardinality(Loading \cup {t}) <= Cardinality(Loading) + 1
      <4>1. IsFiniteSet(Loading) /\ Cardinality(Loading) \in Nat
        BY LoadingFinite
      <4>2. /\ IsFiniteSet(Loading \cup {t})
            /\ Cardinality(Loading \cup {t})
                 = IF t \in Loading THEN Cardinality(Loading) ELSE Cardinality(Loading) + 1
        BY <4>1, FS_AddElement
      <4> QED
        BY <4>1, <4>2
    <3>2. Cardinality(Loading') \in Nat
          /\ Cardinality(Loading') <= Cardinality(Loading \cup {t})
      BY <2>3, <3>1, FS_Subset, FS_CardinalityType
    <3> QED
      BY <3>1, <3>2, LoadingFinite
  <2> QED
    BY <1>0, <2>1, <2>4, <2>5, LoadingFinite DEF ReportsCounted
<1>2. ASSUME NEW t \in Tasks, HandlerDone(t) PROVE ReportsCounted'
  <2>1. /\ t \in Loading /\ done' = done + 1 /\ UNCHANGED answered
        /\ links' = [links EXCEPT ![t] = <<>>]
        /\ \A u \in Tasks \ {t} : worker'[u] = worker[u]
    BY <1>0, <1>2 DEF HandlerDone, Complete, Loading
  <2>2. Loading' \subseteq Loading \ {t}
    BY <1>0, <2>1 DEF Loading, Loaded, CrawlTypeOK
  <2>3. Cardinality(Loading') \in Nat /\ Cardinality(Loading') <= Cardinality(Loading) - 1
    <3>1. /\ IsFiniteSet(Loading \ {t})
          /\ Cardinality(Loading \ {t}) = Cardinality(Loading) - 1
      BY <2>1, LoadingFinite, FS_RemoveElement
    <3> QED
      BY <2>2, <3>1, FS_Subset, FS_CardinalityType
  <2>4. AnsweredPages' = AnsweredPages
    BY <2>1 DEF AnsweredPages
  <2> QED
    BY <1>0, <2>1, <2>3, <2>4, LoadingFinite DEF ReportsCounted
<1>3. CASE \A t \in Tasks : ~HandlerReceives(t) /\ ~HandlerDone(t)
  <2>1. UNCHANGED answered /\ Loading' \subseteq Loading
    BY <1>3, LoadingStep
  <2>2. done' = done
    <3>1. ASSUME NEW t \in Tasks,
                 Seed(t) \/ HandlerRequests(t) \/ HandlerMarks(t) \/ HandlerResumes(t)
                   \/ HandlerTimesOut(t) \/ ServerLogs(t)
          PROVE  done' = done
      BY <3>1 DEF Seed, HandlerRequests, HandlerMarks, HandlerResumes, HandlerTimesOut,
                  ServerLogs
    <3> QED
      BY <1>3, <3>1, QuietFrame, CrawlCases DEF RuntimeStep, MainChecks
  <2>3. AnsweredPages' = AnsweredPages
    BY <2>1 DEF AnsweredPages
  <2>4. Cardinality(Loading') \in Nat /\ Cardinality(Loading') <= Cardinality(Loading)
    BY <2>1, LoadingFinite, FS_Subset, FS_CardinalityType
  <2> QED
    BY <1>0, <2>2, <2>3, <2>4, LoadingFinite DEF ReportsCounted
<1> QED
  BY <1>1, <1>2, <1>3

\* Once every page is reported, no handler is going through links, and every page is
\* seen and was asked for, logged and answered exactly once.
LEMMA AllAnswered ==
    ASSUME CrawlInv, AllReported
    PROVE  /\ Loading = {} /\ seen = Pages
           /\ \A p \in Pages : perPath[p] = 1 /\ requestLog[p] = 1 /\ answered[p] = 1
<1>0. CrawlTypeOK /\ ReportsCounted /\ AskedOnce /\ UrlsApart /\ done \in Nat
  BY DEF CrawlInv, CrawlTypeOK
<1>1. Cardinality(Loading) = 0 /\ AnsweredPages = Pages
  BY <1>0, LoadingFinite DEF ReportsCounted, AllReported
<1>2. Loading = {}
  BY <1>1, LoadingFinite, FS_EmptySet
<1>3. ASSUME NEW p \in Pages
      PROVE  perPath[p] = 1 /\ requestLog[p] = 1 /\ answered[p] = 1 /\ p \in seen
  <2>1. answered[p] = 1
    BY <1>1 DEF AnsweredPages
  <2>2. /\ perPath[p] \in Nat /\ requestLog[p] \in Nat
        /\ answered[p] <= requestLog[p] /\ requestLog[p] <= perPath[p] /\ perPath[p] <= 1
        /\ perPath[p] > 0 => \E t \in known : url[t] = p
    BY <1>0, PageFacts DEF CrawlTypeOK, AskedOnce
  <2>3. perPath[p] = 1 /\ requestLog[p] = 1
    BY <2>1, <2>2
  <2> QED
    BY <1>0, <2>1, <2>2, <2>3 DEF UrlsApart, Tasked
<1> QED
  BY <1>0, <1>2, <1>3 DEF CrawlTypeOK

\* Then it stays so: nobody is left to report.
LEMMA ReportsStay ==
    ASSUME CrawlInv, IInv, AttemptBound', [CrawlNext]_allVars, AllReported
    PROVE  AllReported'
<1>1. Loading = {}
  BY AllAnswered
<1>2. \A t \in Tasks : ~HandlerDone(t)
  BY <1>1 DEF HandlerDone, Loading
<1>3. ASSUME NEW t \in Tasks,
             Seed(t) \/ HandlerRequests(t) \/ HandlerReceives(t) \/ HandlerMarks(t)
               \/ HandlerResumes(t) \/ HandlerTimesOut(t) \/ ServerLogs(t)
      PROVE  done' = done
  BY <1>3 DEF Seed, HandlerRequests, HandlerReceives, HandlerMarks, HandlerResumes,
              HandlerTimesOut, ServerLogs
<1>4. done' = done
  BY <1>2, <1>3, QuietFrame, CrawlCases DEF RuntimeStep, MainChecks
<1> QED
  BY <1>4 DEF AllReported

\* A step keeps main's check: it finds the statistics of a site that is done.
LEMMA MainInv ==
    ASSUME CrawlInv, IInv, AttemptBound', [CrawlNext]_allVars
    PROVE  MainInStep'
<1>0. MainInStep /\ CrawlTypeOK
  BY DEF CrawlInv
<1>1. CASE MainChecks
  <2>1. AllReported /\ AllReported'
    BY <1>1, ReportsStay DEF MainChecks, AllReported
  <2>2. \A p \in Pages : perPath[p] = 1 /\ requestLog[p] = 1
    BY <2>1, AllAnswered
  <2>3. CASE CopyLog(Main)
    <3>1. conn[Main] = Closed
      BY <1>0, <2>3, ConnKinds DEF CopyLog, MainInStep
    <3>2. PICK b : conn' = [conn EXCEPT ![Main] = Copied(requestLog, b, Closed)]
      BY <2>3, <3>1 DEF CopyLog
    <3>3. /\ conn'[Main].st = "copied" /\ conn'[Main].back = Closed
          /\ conn'[Main].log = requestLog
      BY <1>0, <3>2, ConnsApart, ConnKinds DEF CrawlTypeOK
    <3>4. ~finished'
      BY <1>1, <3>3, ConnKinds DEF MainChecks
    <3> QED
      BY <2>1, <2>2, <3>3, <3>4 DEF MainInStep
  <2>4. CASE CopyPaths(Main)
    <3>1. conn[Main].back = Closed /\ \A p \in Pages : conn[Main].log[p] = 1
      BY <1>0, <2>4, ConnKinds DEF CopyPaths, MainInStep
    <3>2. conn'[Main] = Closed
      BY <1>0, <2>4, <3>1, ConnsApart DEF CopyPaths, CrawlTypeOK
    <3>3. taken'.log = conn[Main].log /\ taken'.paths = perPath
      BY <2>4 DEF CopyPaths
    <3> QED
      BY <2>1, <2>2, <3>1, <3>2, <3>3 DEF MainInStep
  <2> QED
    BY <1>1, <2>3, <2>4 DEF MainChecks
<1>2. CASE ~MainChecks
  <2>1. conn'[Main] = conn[Main] /\ UNCHANGED <<taken, finished>>
    <3>1. ASSUME NEW t \in Tasks,
                 Seed(t) \/ HandlerMarks(t) \/ HandlerResumes(t) \/ HandlerDone(t)
          PROVE  UNCHANGED <<conn, taken, finished>>
      BY <3>1 DEF Seed, HandlerMarks, HandlerResumes, HandlerDone
    <3>2. ASSUME NEW t \in Tasks,
                 \/ HandlerRequests(t) \/ HandlerReceives(t)
                 \/ HandlerTimesOut(t) \/ ServerLogs(t)
          PROVE  /\ UNCHANGED <<taken, finished>>
                 /\ \/ UNCHANGED conn
                    \/ \E v : conn' = [conn EXCEPT ![t] = v]
      BY <3>2 DEF HandlerRequests, Request, HandlerReceives, Answer, HandlerTimesOut,
                  Disconnect, ServerLogs, Log
    <3>3. CASE RuntimeStep \/ Quiet
      BY <3>3, QuietFrame DEF RuntimeStep
    <3>4. ASSUME NEW t \in Tasks, NEW v, conn' = [conn EXCEPT ![t] = v]
          PROVE  conn'[Main] = conn[Main]
      BY <1>0, <3>4, ConnsApart DEF CrawlTypeOK
    <3> QED
      BY <1>2, <3>1, <3>2, <3>3, <3>4, CrawlCases
  <2> QED
    BY <1>0, <2>1, ReportsStay DEF MainInStep
<1> QED
  BY <1>1, <1>2

\* A step keeps the runtime open: no service error, no idle stop, and only main's
\* command in the control channel.
LEMMA OpenInv ==
    ASSUME CrawlInv, IInv, AttemptBound', [CrawlNext]_allVars
    PROVE  RuntimeOpen'
<1>0. /\ crashes = 0 /\ controlOpen /\ (stopping \/ lagged \/ control # <<>> => finished)
      /\ control \in Seq(Commands)
  BY DEF CrawlInv, RuntimeOpen, IInv, TypeOK
<1> USE DEF RuntimeOpen
<1>1. CASE RuntimeStep
  <2>1. UNCHANGED <<crashes, controlOpen, finished>>
    BY <1>0, <1>1, RuntimeFrame DEF RuntimeStep
  <2>2. stopping' \/ lagged' \/ control' # <<>> => stopping \/ lagged \/ control # <<>>
    <3>1. CASE ControlFires
      BY <1>0, <3>1 DEF ControlFires, ControlEvent
    <3>2. CASE PopEmpty
      BY <3>2, ExampleAssumption DEF PopEmpty, IsIdle
    <3>3. ~ReadyFails
      BY ExampleAssumption DEF ReadyFails
    <3>4. CASE CountedDispatcher /\ ~ControlFires /\ ~PopEmpty /\ ~ReadyFails
      BY <3>4
         DEF CountedDispatcher, CountedResultFires, CountedDispatch, CountedHandleResult,
             Recover, ControlPending, ProducerPending, ProducerFires, ResultPending,
             ResultFires, HandleResult, ReadyPending, PopTask, PopFails, Dispatch,
             DispatchFails, DrainCheck
    <3>5. CASE Collect \/ \E t \in Tasks : SendCall(t) \/ CountedSendResult(t)
      BY <3>5 DEF Collect, SendCall, CountedSendResult, SendResult, vars
    <3> QED
      BY <1>1, <3>1, <3>2, <3>3, <3>4, <3>5 DEF RuntimeStep
  <2> QED
    BY <1>0, <2>1, <2>2
<1>2. CASE MainStops
  BY <1>0, <1>2 DEF MainStops, SendCommand
<1>3. CASE MainLeaves \/ UNCHANGED allVars
  <2>1. UNCHANGED <<crashes, controlOpen, stopping, lagged, control, finished>>
    BY <1>3 DEF MainLeaves, allVars, runtimeVars, vars
  <2> QED
    BY <1>0, <2>1
<1>4. CASE MainChecks
  <2>1. ~finished /\ UNCHANGED <<crashes, controlOpen, stopping, lagged, control>>
    BY <1>4 DEF MainChecks, runtimeVars, vars
  <2> QED
    BY <1>0, <2>1
<1>5. ASSUME NEW t \in Tasks,
             \/ Seed(t) \/ HandlerRequests(t) \/ HandlerReceives(t) \/ HandlerMarks(t)
             \/ HandlerResumes(t) \/ HandlerDone(t) \/ HandlerTimesOut(t) \/ ServerLogs(t)
      PROVE  UNCHANGED <<crashes, controlOpen, stopping, lagged, control, finished>>
  <2>1. CASE Seed(t) \/ HandlerMarks(t)
    BY <2>1, Seeded, MarkedTask
  <2>2. CASE HandlerRequests(t) \/ HandlerReceives(t) \/ ServerLogs(t)
    BY <2>2 DEF HandlerRequests, HandlerReceives, ServerLogs, runtimeVars, vars
  <2>3. CASE HandlerResumes(t) \/ HandlerDone(t) \/ HandlerTimesOut(t)
    BY <2>3 DEF HandlerResumes, HandlerEnqueued, HandlerDone, Complete, HandlerTimesOut,
                TimeOut
  <2> QED
    BY <1>5, <2>1, <2>2, <2>3
<1> QED
  BY <1>0, <1>1, <1>2, <1>3, <1>4, <1>5, CrawlCases DEF Quiet

\* The failures the runtime still has to settle.
FailedFutures == {t \in Tasks : worker[t].st = "done" /\ ~worker[t].ok}

\* They make up Failing, before and after a step.
LEMMA FailingParts ==
    /\ Failing = dlq \cup FailedFutures \cup FailedResults \cup FailedInHand
    /\ Failing' = dlq' \cup FailedFutures' \cup FailedResults' \cup FailedInHand'
BY DEF Failing, FailedFutures, FailedResults, FailedInHand

\* A failure in hand is a dead letter once it is applied: there are no retries.
LEMMA FailureBuried ==
    ASSUME IInv, HandleResult
    PROVE  dlq \subseteq dlq' /\ FailedInHand \subseteq dlq'
<1>1. hand.task \in Tasks /\ hand.retries = 0
  BY HandTask, ExampleAssumption DEF HandleResult
<1>2. ApplyResult(hand)
  BY ExampleAssumption DEF HandleResult, Try
<1>3. ~hand.ok => Nack(hand.task)
  BY <1>1, <1>2, ExampleAssumption DEF ApplyResult
<1>4. Ack(hand.task) \/ Nack(hand.task)
  BY <1>1, <1>2, ExampleAssumption DEF ApplyResult
<1>5. dlq \subseteq dlq'
  BY <1>4 DEF Ack, Nack
<1>6. ~hand.ok => hand.task \in dlq'
  BY <1>3 DEF Nack
<1> QED
  BY <1>5, <1>6 DEF FailedInHand

\* A step of the runtime forgets no failure.
LEMMA FailuresKept ==
    ASSUME CrawlInv, IInv, RuntimeStep
    PROVE  Failing \subseteq Failing'
<1>0. worker \in [Tasks -> Worker \cup {NoWorker}]
  BY DEF IInv, TypeOK
<1>1. CASE Dispatch
  <2>1. hand.task \in Tasks /\ hand.task \notin Spawned
    BY <1>1, HandTask DEF Dispatch, IInv, OneExecution
  <2>2. /\ worker' = [worker EXCEPT ![hand.task] = NewWorker(hand.retries)]
        /\ UNCHANGED <<dlq, resultCh>> /\ pc = "dispatch"
    BY <1>1 DEF Dispatch, Set
  <2>3. FailedFutures \subseteq FailedFutures'
    BY <1>0, <2>1, <2>2 DEF FailedFutures, Spawned
  <2>4. FailedInHand = {}
    BY <2>2 DEF FailedInHand
  <2> QED
    BY <2>2, <2>3, <2>4, FailingParts DEF FailedResults
<1>2. CASE ResultFires
  <2>1. UNCHANGED <<dlq, worker>> /\ pc = "result" /\ pc' = "handle"
    BY <1>2 DEF ResultFires
  <2>2. \A r \in ToSet(resultCh) : ~r.ok => r.task \in FailedInHand' \cup FailedResults'
    <3> SUFFICES ASSUME NEW r \in ToSet(resultCh), ~r.ok
                 PROVE  r.task \in FailedInHand' \cup FailedResults'
      OBVIOUS
    <3>1. CASE r = hand'
      BY <2>1, <3>1 DEF FailedInHand
    <3>2. CASE r \in ToSet(resultCh')
      BY <3>2 DEF FailedResults
    <3> QED
      BY <1>2, <3>1, <3>2, ReceivedOne
  <2>3. FailedResults \subseteq FailedInHand' \cup FailedResults'
    BY <2>2 DEF FailedResults
  <2>4. FailedInHand = {} /\ FailedFutures' = FailedFutures
    BY <2>1 DEF FailedInHand, FailedFutures
  <2> QED
    BY <2>1, <2>3, <2>4, FailingParts
<1>3. CASE HandleResult
  <2>1. UNCHANGED <<worker, resultCh>>
    BY <1>3 DEF HandleResult
  <2>2. FailedFutures' = FailedFutures /\ FailedResults' = FailedResults
    BY <2>1 DEF FailedFutures, FailedResults
  <2> QED
    BY <1>3, <2>2, FailureBuried, FailingParts
<1>4. ASSUME NEW t \in Tasks, SendResult(t) PROVE Failing \subseteq Failing'
  <2>1. /\ worker' = [worker EXCEPT ![t] = NoWorker] /\ UNCHANGED <<dlq, pc, hand>>
    BY <1>4 DEF SendResult
  <2>2. FailedResults \subseteq FailedResults'
    BY <1>4, ReportedOne DEF FailedResults
  <2>3. ~worker[t].ok => t \in FailedResults'
    <3>1. PICK r \in ToSet(resultCh') :
              r = [task |-> t, retries |-> worker[t].retries, ok |-> worker[t].ok]
      BY <1>4, ReportedOne
    <3>2. r.task = t /\ (r.ok <=> worker[t].ok)
      BY <3>1
    <3> QED
      BY <3>2 DEF FailedResults
  <2>4. FailedFutures \subseteq FailedFutures' \cup FailedResults'
    BY <1>0, <2>1, <2>3 DEF FailedFutures
  <2>5. FailedInHand' = FailedInHand
    BY <2>1 DEF FailedInHand
  <2> QED
    BY <2>1, <2>2, <2>4, <2>5, FailingParts
<1>5. CASE CountedDispatcher /\ ~Dispatch /\ ~ResultFires /\ ~HandleResult
  <2>1. UNCHANGED <<worker, resultCh, dlq>> /\ pc # "handle"
    BY <1>5
       DEF CountedDispatcher, CountedResultFires, CountedDispatch, CountedHandleResult,
           Recover, Try, RecoverInflight, ControlPending, ControlFires, ProducerPending,
           ProducerFires, Push, ResultPending, ReadyPending, ReadyFails, PopTask, Pop,
           PopEmpty, PopFails, DispatchFails, DrainCheck
  <2>2. FailedFutures' = FailedFutures /\ FailedResults' = FailedResults
    BY <2>1 DEF FailedFutures, FailedResults
  <2>3. FailedInHand = {}
    BY <2>1 DEF FailedInHand
  <2> QED
    BY <2>1, <2>2, <2>3, FailingParts
<1>6. CASE Collect \/ \E t \in Tasks : SendCall(t)
  BY <1>6 DEF Collect, SendCall, vars, Failing
<1> QED
  BY <1>1, <1>2, <1>3, <1>4, <1>5, <1>6 DEF RuntimeStep, CountedSendResult

\* No step forgets a failure: the others leave what has failed where it is.
LEMMA FailingStays ==
    ASSUME CrawlInv, IInv, [CrawlNext]_allVars
    PROVE  Failing \subseteq Failing'
<1>0. worker \in [Tasks -> Worker \cup {NoWorker}]
  BY DEF IInv, TypeOK
<1>1. CASE RuntimeStep
  BY <1>1, FailuresKept
<1>2. CASE /\ UNCHANGED <<pc, hand, resultCh, dlq>>
           /\ \A t \in Tasks : worker'[t] = worker[t] \/ worker[t].st # "done"
  <2>1. FailedFutures \subseteq FailedFutures'
    BY <1>2 DEF FailedFutures
  <2>2. FailedResults' = FailedResults /\ FailedInHand' = FailedInHand
    BY <1>2 DEF FailedResults, FailedInHand
  <2> QED
    BY <1>2, <2>1, <2>2, FailingParts
<1>3. CASE Quiet \/ MainChecks
  BY <1>2, <1>3, QuietFrame DEF MainChecks, runtimeVars, vars
<1>4. ASSUME NEW t \in Tasks,
             \/ Seed(t) \/ HandlerRequests(t) \/ HandlerReceives(t) \/ ServerLogs(t)
      PROVE  UNCHANGED <<pc, hand, resultCh, dlq, worker>>
  BY <1>4, Seeded DEF HandlerRequests, HandlerReceives, ServerLogs, runtimeVars, vars
<1>5. ASSUME NEW t \in Tasks,
             HandlerMarks(t) \/ HandlerResumes(t) \/ HandlerDone(t) \/ HandlerTimesOut(t)
      PROVE  /\ UNCHANGED <<pc, hand, resultCh, dlq>> /\ worker[t].st = "running"
             /\ \A u \in Tasks \ {t} : worker'[u] = worker[u]
  <2>1. CASE HandlerMarks(t)
    BY <1>0, <2>1, MarkedTask DEF Loaded
  <2>2. CASE HandlerResumes(t) \/ HandlerDone(t) \/ HandlerTimesOut(t)
    BY <1>0, <2>2 DEF HandlerResumes, HandlerEnqueued, HandlerDone, Complete,
                      HandlerTimesOut, TimeOut
  <2> QED
    BY <1>5, <2>1, <2>2
<1>6. ASSUME NEW t \in Tasks,
             \/ Seed(t) \/ HandlerRequests(t) \/ HandlerReceives(t) \/ ServerLogs(t)
             \/ HandlerMarks(t) \/ HandlerResumes(t) \/ HandlerDone(t) \/ HandlerTimesOut(t)
      PROVE  Failing \subseteq Failing'
  <2>1. /\ UNCHANGED <<pc, hand, resultCh, dlq>>
        /\ \A u \in Tasks : worker'[u] = worker[u] \/ worker[u].st # "done"
    BY <1>4, <1>5, <1>6
  <2> QED
    BY <1>2, <2>1
<1> QED
  BY <1>1, <1>3, <1>6, CrawlCases

\* No task loses its page, except by a timeout: a handler is refused an enqueue only when
\* the runtime stops, and by then there is nothing to enqueue.
LEMMA TaskedStays ==
    ASSUME CrawlInv, IInv, AttemptBound', [CrawlNext]_allVars,
           \A t \in Tasks : ~HandlerTimesOut(t)
    PROVE  Tasked \subseteq Tasked'
<1>0. /\ worker \in [Tasks -> Worker \cup {NoWorker}] /\ crashes = 0
      /\ \A t \in Tasks : worker[t].child # NoTask => Loaded(t)
  BY DEF IInv, TypeOK, CrawlInv, RuntimeOpen, HandlersInStep, InStep
<1>1. CASE RuntimeStep
  <2>1. known' = known /\ \A t \in Tasks : FutureMoves(t)
    BY <1>0, <1>1, RuntimeFrame
  <2>2. \A t \in Tasks : worker[t].child # NoTask => worker'[t].child = worker[t].child
    BY <1>0, <2>1 DEF FutureMoves, Loaded, Running
  <2> QED
    BY <2>1, <2>2 DEF Tasked, Children
<1>2. CASE Quiet \/ MainChecks
  <2>1. UNCHANGED <<known, worker>>
    BY <1>2, QuietFrame DEF MainChecks, runtimeVars, vars
  <2> QED
    BY <2>1 DEF Tasked, Children
<1>3. ASSUME NEW t \in Tasks, Seed(t) PROVE Tasked \subseteq Tasked'
  BY <1>3, Seeded, NothingBeforeSeed
<1>4. ASSUME NEW t \in Tasks, HandlerMarks(t) PROVE Tasked \subseteq Tasked'
  BY <1>4, MarkedTask
<1>5. ASSUME NEW t \in Tasks, HandlerResumes(t) PROVE Tasked \subseteq Tasked'
  <2>1. t \in Loading
    BY <1>0, <1>5 DEF HandlerResumes, HandlerEnqueued, Loading
  <2>2. ~stopping
    BY <2>1, AllAnswered DEF CrawlInv, RuntimeOpen, MainInStep
  <2>3. /\ known' = known \cup {worker[t].child}
        /\ worker' = [worker EXCEPT ![t].child = NoTask]
    BY <1>5, <2>2 DEF HandlerResumes, HandlerEnqueued, Enqueue
  <2>4. \A u \in Tasks \ {t} : worker'[u] = worker[u]
    BY <1>0, <2>3
  <2> QED
    BY <2>3, <2>4 DEF Tasked, Children
<1>6. ASSUME NEW t \in Tasks, HandlerDone(t) PROVE Tasked \subseteq Tasked'
  <2>1. /\ known' = known /\ worker[t].child = NoTask
        /\ \A u \in Tasks \ {t} : worker'[u] = worker[u]
    BY <1>0, <1>6 DEF HandlerDone, Complete
  <2> QED
    BY <2>1 DEF Tasked, Children
<1>7. ASSUME NEW t \in Tasks, HandlerRequests(t) \/ HandlerReceives(t) \/ ServerLogs(t)
      PROVE  Tasked \subseteq Tasked'
  <2>1. UNCHANGED <<known, worker>>
    BY <1>7 DEF HandlerRequests, HandlerReceives, ServerLogs, runtimeVars, vars
  <2> QED
    BY <2>1 DEF Tasked, Children
<1> QED
  BY <1>1, <1>2, <1>3, <1>4, <1>5, <1>6, <1>7, CrawlCases

\* A step leaves no page that is seen without a task, unless something fails.
LEMMA PursuedInv ==
    ASSUME CrawlInv, IInv, AttemptBound', [CrawlNext]_allVars
    PROVE  SeenIsPursued'
<1> SUFFICES ASSUME Failing' = {}, known' # {}, NEW p \in seen'
             PROVE  \E t \in Tasked' : p = url'[t]
  BY DEF SeenIsPursued, Tasked
<1>0. /\ Failing = {} /\ CrawlTypeOK
      /\ worker \in [Tasks -> Worker \cup {NoWorker}]
  BY FailingStays DEF CrawlInv, IInv, TypeOK
<1>1. ASSUME NEW t \in Tasks PROVE ~HandlerTimesOut(t)
  <2> SUFFICES ASSUME HandlerTimesOut(t) PROVE FALSE
    OBVIOUS
  <2>1. ~worker[t].ok
    BY DEF HandlerTimesOut, TimeOut, Running, CrawlInv, HandlersInStep, InStep
  <2>2. worker'[t].st = "done" /\ ~worker'[t].ok
    BY <1>0, <2>1 DEF HandlerTimesOut, TimeOut, Worker, NoWorker
  <2> QED
    BY <2>2, FailingParts DEF FailedFutures
<1>2. Tasked \subseteq Tasked' /\ Tasked \subseteq Tasks
  <2>1. Tasked \subseteq Tasks
    BY NoTaskAssumption DEF Tasked, Children, IInv, TypeOK, Worker, NoWorker
  <2> QED
    BY <1>1, <2>1, TaskedStays
<1>3. ASSUME NEW t \in Tasks, Seed(t) PROVE \E u \in Tasked' : p = url'[u]
  BY <1>3, Seeded
<1>4. CASE \A t \in Tasks : ~Seed(t)
  <2>1. known # {}
    <3> SUFFICES ASSUME known = {} PROVE FALSE
      OBVIOUS
    <3>1. Running = {} /\ Tasked = {}
      BY NothingBeforeSeed
    <3>2. \A t \in Tasks : ~HandlerMarks(t)
      BY <3>1, MarkedTask DEF Loaded, Running
    <3>3. Tasked' = {}
      BY <1>4, <3>1, <3>2, TaskedStep
    <3> QED
      BY <3>3 DEF Tasked
  <2>2. \A q \in seen : \E t \in Tasked : q = url[t]
    BY <1>0, <2>1 DEF CrawlInv, SeenIsPursued, Tasked
  <2>3. ASSUME NEW t \in Tasks, HandlerMarks(t) PROVE \E u \in Tasked' : p = url'[u]
    <3>1. PICK c \in Tasks \ Tasked, q \in Pages \ seen :
              /\ Tasked' = Tasked \cup {c}
              /\ url' = [url EXCEPT ![c] = q] /\ seen' = seen \cup {q}
      BY <2>3, MarkedTask
    <3>2. url'[c] = q /\ \A u \in Tasked : url'[u] = url[u]
      BY <1>0, <1>2, <3>1 DEF CrawlTypeOK
    <3> QED
      BY <2>2, <3>1, <3>2
  <2>4. CASE \A t \in Tasks : ~HandlerMarks(t)
    <3>1. UNCHANGED <<url, seen>>
      BY <1>4, <2>4, TaskedStep
    <3> QED
      BY <1>2, <2>2, <3>1
  <2> QED
    BY <2>3, <2>4
<1> QED
  BY <1>3, <1>4

-----------------------------------------------------------------------------
(* The invariants of the crawl.                                            *)

\* The crawl starts in the invariant.
LEMMA CrawlInitInv == CrawlInit => CrawlInv
<1> SUFFICES ASSUME CrawlInit PROVE CrawlInv
  OBVIOUS
<1> USE DEF CrawlInit, Init, SiteInit
<1>0. /\ known = {} /\ Children = {} /\ Tasked = {} /\ Running = {}
      /\ Pages \subseteq SitePaths /\ Home \in Pages
  BY PageFacts DEF Children, Tasked, Running, NoWorker
<1>1. CrawlTypeOK
  <2>1. <<>> \in Seq(Pages)
    BY EmptySeq
  <2> QED
    BY <1>0, <2>1 DEF CrawlTypeOK, NoRequests
<1>2. RuntimeOpen
  BY DEF RuntimeOpen
<1>3. HandlersInStep
  BY <1>0, EmptyNotWaiting, ConnsApart DEF HandlersInStep, InStep, NoWorker
<1>4. UrlsApart /\ SeenIsPursued
  BY <1>0 DEF UrlsApart, SeenIsPursued
<1>5. AskedOnce
  BY <1>0 DEF AskedOnce, NoRequests
<1>6. ReportsCounted
  <2>1. Loading = {} /\ AnsweredPages = {}
    BY <1>0 DEF Loading, Loaded, AnsweredPages, NoRequests
  <2> QED
    BY <2>1, FS_EmptySet DEF ReportsCounted
<1>7. MainInStep
  BY ConnsApart DEF MainInStep
<1> QED
  BY <1>1, <1>2, <1>3, <1>4, <1>5, <1>6, <1>7 DEF CrawlInv

\* A step preserves it.
LEMMA CrawlInductive ==
    ASSUME CrawlInv, IInv, AttemptBound', [CrawlNext]_allVars
    PROVE  CrawlInv'
<1>1. CrawlTypeOK' /\ RuntimeOpen' /\ HandlersInStep' /\ UrlsApart'
  BY CrawlTypeInv, OpenInv, HandlersInv, UrlsInv
<1>2. AskedOnce' /\ ReportsCounted' /\ MainInStep' /\ SeenIsPursued'
  BY AskedInv, ReportsInv, MainInv, PursuedInv
<1> QED
  BY <1>1, <1>2 DEF CrawlInv

\* The invariant of the crawl, from that of the runtime and the bound on its calls.
THEOREM CrawlInvariance == CrawlSpec => []CrawlInv
<1>1. CrawlInv /\ IInv /\ AttemptBound' /\ [CrawlNext]_allVars => CrawlInv'
  BY CrawlInductive
<1>2. CrawlSpec => []IInv /\ []AttemptBound
  BY CrawlRunsMailbox, Invariance, AttemptsBounded, PTL
<1> QED
  BY <1>1, <1>2, CrawlInitInv, PTL DEF CrawlSpec

\* Every page that is marked as seen has a task, unless a handler was cut off or failed:
\* mark_seen and the enqueue after it lose no page between them.
THEOREM EveryPagePursued == CrawlSpec => []SeenIsPursued
<1>1. CrawlInv => SeenIsPursued
  BY DEF CrawlInv
<1> QED
  BY <1>1, CrawlInvariance, PTL

\* No page is asked for twice, whoever finds links to it, and what main asserts before
\* it returns holds: every page is seen, and the statistics show one request for each.
THEOREM EveryPageOnce == CrawlSpec => []CrawledOnce
<1>1. CrawlInv => CrawledOnce
  <2> SUFFICES ASSUME CrawlInv PROVE CrawledOnce
    OBVIOUS
  <2>1. \A p \in Pages : perPath[p] <= 1
    BY DEF CrawlInv, AskedOnce
  <2>2. finished => seen = Pages /\ \A p \in Pages : taken.paths[p] = 1 /\ taken.log[p] = 1
    BY AllAnswered DEF CrawlInv, MainInStep
  <2> QED
    BY <2>1, <2>2 DEF CrawledOnce
<1> QED
  BY <1>1, CrawlInvariance, PTL
=============================================================================
