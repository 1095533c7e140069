------------------------------ MODULE BlogCrawl ------------------------------
(***************************************************************************)
(* A whole crawl: examples/local_blog_crawl.rs on the mailbox runtime with *)
(* its statistics (MailboxStats), against the test site (TestSite).  A     *)
(* handler asks for its page, marks the links it has not seen, enqueues a  *)
(* task for each, and reports itself done; main counts the reports, takes  *)
(* the server's statistics once there is one for every page, checks them   *)
(* and shuts the runtime down.                                             *)
(*                                                                         *)
(* The steps are those of Mailbox, with what the handler chooses to do     *)
(* fixed by the page it works on.                                          *)
(***************************************************************************)
EXTENDS MailboxStats, TestSite

CONSTANT Posts     \* Scenario::blog_with_posts

Pages == BlogPages(Posts)

Main == "main"

ASSUME CrawlAssumption ==
    /\ Posts \in Nat \ {0} /\ Cardinality(Tasks) > Posts + 2
    /\ Conns = Tasks \cup {Main} /\ Main \notin Tasks /\ Pages \subseteq SitePaths
    /\ ExternalTasks # {} /\ MaxRequests > Posts + 2

\* The example's MailboxConfig, service stack and in-memory queue: no retries, no idle
\* stop, a timeout; the only command main gives is to stop.
ASSUME ExampleAssumption ==
    /\ MaxRetries = 0 /\ ~StopWhenIdle
    /\ Faults \subseteq {"timeout"} /\ "Stop" \in Commands

VARIABLES
    url,        \* CrawlTask::url, as the path it asks for
    seen,       \* CrawlContext::seen_paths
    links,      \* the links a handler has found, while it has any to go through
    done,       \* the reports of finished pages that main has received
    finished    \* main has seen every page and taken the server's statistics

crawlVars == <<url, seen, links, done, finished>>
allVars   == <<runtimeVars, siteVars, crawlVars>>

NoUrl   == <<"none", 0>>
Waiting == <<NoUrl>>      \* a handler that waits for its page

\* main marks the home page before it spawns the runtime.
CrawlInit ==
    /\ Init /\ queued = {} /\ StatsInit /\ SiteInit
    /\ url = [t \in Tasks |-> NoUrl]
    /\ seen = {Home} /\ links = [t \in Tasks |-> <<>>]
    /\ done = 0 /\ finished = FALSE

Seed(t) ==
    /\ t \in ExternalTasks /\ known = {}
    /\ ExternalEnqueue(t)
    /\ url' = [url EXCEPT ![t] = Home]
    /\ UNCHANGED <<statsVars, siteVars, seen, links, done, finished>>

\* client.get(url).send()
HandlerRequests(t) ==
    /\ worker[t].st = "running" /\ links[t] = <<>>
    /\ Request(t, url[t])
    /\ links' = [links EXCEPT ![t] = Waiting]
    /\ UNCHANGED <<runtimeVars, url, seen, done, finished>>

HandlerReceives(t) ==
    /\ Answer(t)
    /\ links' = [links EXCEPT ![t] = BlogLinks(url[t], Posts)]
    /\ UNCHANGED <<runtimeVars, url, seen, done, finished>>

Loaded(t) == worker[t].st = "running" /\ links[t] \notin {<<>>, Waiting}

\* The links mark_seen is still true for; the handler goes through them in order.
Unseen(t) == {i \in DOMAIN links[t] : links[t][i] \notin seen}

\* Mutant: a page is marked when it is crawled, not when it is found.
HandlerMarksOwn(t) ==
    /\ Loaded(t) /\ Fresh \ ExternalTasks # {}
    /\ \E i \in Unseen(t) :
          /\ \A j \in Unseen(t) : i <= j
          /\ LET c == CHOOSE c \in Fresh \ ExternalTasks : TRUE
             IN  HandlerEnqueues(t, c) /\ url' = [url EXCEPT ![c] = links[t][i]]
    /\ seen' = seen \cup {url[t]}
    /\ UNCHANGED <<statsVars, siteVars, links, done, finished>>

\* The first of them is marked, and enqueued.
HandlerMarks(t) ==
    /\ Loaded(t) /\ Fresh \ ExternalTasks # {}
    /\ \E i \in Unseen(t) :
          /\ \A j \in Unseen(t) : i <= j
          /\ LET c == CHOOSE c \in Fresh \ ExternalTasks : TRUE
             IN  HandlerEnqueues(t, c) /\ url' = [url EXCEPT ![c] = links[t][i]]
          /\ seen' = seen \cup {links[t][i]}
    /\ UNCHANGED <<statsVars, siteVars, links, done, finished>>

HandlerResumes(t) ==
    /\ HandlerEnqueued(t)
    /\ UNCHANGED <<statsVars, siteVars, crawlVars>>

\* Nothing is left to enqueue: report the page, return Ok.
HandlerDone(t) ==
    /\ Loaded(t) /\ Unseen(t) = {}
    /\ Complete(t, TRUE)
    /\ done' = done + 1 /\ links' = [links EXCEPT ![t] = <<>>]
    /\ UNCHANGED <<statsVars, siteVars, url, seen, finished>>

\* The timeout drops the handler and with it the connection; a connection that breaks
\* ends the handler just so.  Another error there is not: a blog has no dead link
\* (EveryPageLinked), so every answer is a page.
HandlerTimesOut(t) ==
    /\ TimeOut(t)
    /\ IF conn[t] \in {Closed, Idle} THEN UNCHANGED siteVars ELSE Disconnect(t)
    /\ links' = [links EXCEPT ![t] = <<>>]
    /\ UNCHANGED <<statsVars, url, seen, done, finished>>

ServerLogs(c) == Log(c) /\ UNCHANGED <<runtimeVars, crawlVars>>

Handler(t) ==
    \/ HandlerRequests(t) \/ HandlerReceives(t) \/ HandlerMarks(t)
    \/ HandlerResumes(t) \/ HandlerDone(t)

Future(t) ==
    \/ Handler(t) \/ ServerLogs(t)
    \/ (SendCall(t) \/ CountedSendResult(t)) /\ UNCHANGED <<siteVars, crawlVars>>

Runtime == (CountedDispatcher \/ Collect) /\ UNCHANGED <<siteVars, crawlVars>>

\* main, once it has received a report for every page.
MainChecks ==
    /\ done = Cardinality(Pages) /\ ~finished
    /\ CopyLog(Main) \/ CopyPaths(Main)
    /\ finished' = (conn'[Main] = Closed)
    /\ UNCHANGED <<runtimeVars, url, seen, links, done>>

MainStops ==
    /\ finished /\ SendCommand("Stop")
    /\ UNCHANGED <<statsVars, siteVars, crawlVars>>

\* Once the runtime has shut down, so does the server.
MainLeaves ==
    /\ finished /\ pc = "exited"
    /\ Shutdown
    /\ UNCHANGED <<runtimeVars, crawlVars>>

CrawlNext ==
    \/ Runtime \/ MainChecks \/ MainStops \/ MainLeaves
    \/ \E t \in Tasks : Seed(t) \/ Future(t) \/ HandlerTimesOut(t)

CrawlSpec == CrawlInit /\ [][CrawlNext]_allVars

\* Fairness: as for Mailbox, for the collector, the server's connections and main
\* too.  A timeout is never forced.
CrawlFairness ==
    /\ WF_allVars(CountedDispatcher /\ UNCHANGED <<siteVars, crawlVars>>)
    /\ WF_allVars(Collect /\ UNCHANGED <<siteVars, crawlVars>>)
    /\ WF_allVars(MainChecks) /\ WF_allVars(MainStops) /\ WF_allVars(MainLeaves)
    /\ \A t \in Tasks : WF_allVars(Seed(t)) /\ WF_allVars(Future(t))

FairCrawl == CrawlSpec /\ CrawlFairness

-----------------------------------------------------------------------------

\* The tasks whose handler was cut off or returned an error.
Failing ==
    dlq \cup {t \in Tasks : worker[t].st = "done" /\ ~worker[t].ok}
        \cup {r.task : r \in {r \in ToSet(resultCh) : ~r.ok}}
        \cup (IF pc = "handle" /\ ~hand.ok THEN {hand.task} ELSE {})

\* A page that is marked as seen is never marked again, so somebody must have a task
\* for it: only a handler that was cut off between the mark and the enqueue leaves one
\* without.
SeenIsPursued ==
    Failing = {} /\ known # {} => seen \subseteq {url[t] : t \in known \cup Children}

\* A page is asked for once, however many handlers find a link to it at once; and what
\* main checks before it returns holds: every page was completed and seen, and the
\* server's statistics say that each was asked for exactly once.
CrawledOnce ==
    /\ \A p \in Pages : perPath[p] <= 1
    /\ finished =>
           /\ seen = Pages
           /\ \A p \in Pages : taken.paths[p] = 1 /\ taken.log[p] = 1

\* The crawl of the blog completes, and first the runtime shuts down and then the
\* server, unless a handler runs into its timeout.
CrawlCompletes == <>((pc = "exited" /\ ~listening) \/ dlq # {})

=============================================================================
