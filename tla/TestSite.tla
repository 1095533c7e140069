------------------------------ MODULE TestSite ------------------------------
(***************************************************************************)
(* The local web site of capp-testkit (lib.rs): the link graphs of its     *)
(* scenarios, and the server that counts every request before it answers   *)
(* it.  A request is counted under two mutexes, one after the other, and   *)
(* a snapshot of the statistics reads under the same two in the opposite   *)
(* order, while other connections go on in between.                        *)
(*                                                                         *)
(* A path is a pair of a name and a number; the page number of a category  *)
(* is the query of its link.                                               *)
(***************************************************************************)
EXTENDS Integers, Graphs

CONSTANTS
    Conns,         \* the connections to the server
    SitePaths,     \* the paths they ask for
    MaxRequests    \* how many requests a behaviour contains

StatsPath == <<"stats", 0>>

ASSUME SiteAssumption ==
    IsFiniteSet(Conns) /\ StatsPath \in SitePaths /\ MaxRequests \in Nat

-----------------------------------------------------------------------------
(* The scenarios: the links of a page in their order, or NotFound.         *)

NotFound == <<<<"not found", 0>>>>

Home    == <<"home", 0>>
Archive == <<"archive", 0>>
Post(n) == <<"post", n>>
PostsUpTo(n) == [i \in 1 .. n |-> Post(i)]
PostIf(c, n) == IF c THEN <<Post(n)>> ELSE <<>>

BlogPages(posts) == {Home, Archive} \cup ToSet(PostsUpTo(posts))

BlogHome(posts) ==
    <<Archive>> \o PostsUpTo(Min({posts, 5})) \o PostIf(posts > 5, posts)

BlogArchive(posts) == <<Home>> \o PostsUpTo(posts)

BlogPost(n, posts) ==
    <<Home, Archive>> \o PostIf(n > 1, n - 1) \o PostIf(n < posts, n + 1)
                      \o PostIf(n + 2 <= posts, n + 2) \o PostIf(n > 2, n - 2)

BlogLinks(p, posts) ==
    CASE p = Home -> BlogHome(posts)
      [] p = Archive -> BlogArchive(posts)
      [] p[1] = "post" /\ p[2] \in 1 .. posts -> BlogPost(p[2], posts)
      [] OTHER -> NotFound

Categories == {"widgets", "gadgets"}
Item(c, n) == <<"item " \o c, n>>

CatalogPages ==
    {Home} \cup (Categories \X {1, 2}) \cup {Item(c, n) : c \in Categories, n \in 1 .. 3}

\* A category answers any query but page=2 with its first page.
CategoryLinks(c, n) ==
    IF n = 2 THEN <<Home, <<c, 1>>, Item(c, 3)>>
             ELSE <<Home, Item(c, 1), Item(c, 2), <<c, 2>>>>

CatalogLinks(p) ==
    CASE p = Home -> <<<<"widgets", 1>>, <<"gadgets", 1>>>>
      [] p[1] \in Categories -> CategoryLinks(p[1], p[2])
      [] \E c \in Categories : p \in {Item(c, n) : n \in 1 .. 3} ->
            <<Home, <<CHOOSE c \in Categories : p = Item(c, p[2]), 1>>>>
      [] OTHER -> NotFound

\* The infinite site parses any path it can as a depth (u64, here below 2^bits) and
\* takes 0 for the others; past the end the addition wraps, or panics in a debug build.
InfiniteLinks(p, bits) ==
    LET depth == IF p[1] = "page" /\ p[2] < 2 ^ bits THEN p[2] ELSE 0
    IN  <<<<"page", (depth + 1) % 2 ^ bits>>, <<"page", (depth + 2) % 2 ^ bits>>>>

\* The pages of a site and the links between them.
SiteGraph(linksOf) ==
    [node |-> DOMAIN linksOf,
     edge |-> UNION {{p} \X ToSet(linksOf[p]) : p \in DOMAIN linksOf}]

Crawlable(g) == IsDirectedGraph(g) /\ Descendants(g, Home) \cup {Home} = g.node

\* A blog of any size has no dead link, and neither has the catalog: a crawl that
\* starts at the home page finds every page and asks for no other.  The infinite site
\* leads ever deeper, until the depth overflows.
EveryPageLinked ==
    /\ \A posts \in 1 .. 7 :
          Crawlable(SiteGraph([p \in BlogPages(posts) |-> BlogLinks(p, posts)]))
    /\ Crawlable(SiteGraph([p \in CatalogPages |-> CatalogLinks(p)]))
    /\ \A depth \in 0 .. 5 : \A p \in ToSet(InfiniteLinks(<<"page", depth>>, 3)) :
          p[2] > depth

-----------------------------------------------------------------------------
(* The server.                                                             *)

VARIABLES
    listening,   \* the server's task still accepts connections
    perPath,     \* State::per_path
    requestLog,  \* State::request_log, as the number of entries for each path
    conn,        \* what each connection is at
    answered,    \* history: how many requests of each path were answered
    taken        \* the last snapshot, with the requests that were answered before it

siteVars == <<listening, perPath, requestLog, conn, answered, taken>>

NoRequests == [p \in SitePaths |-> 0]
Total(counts) == FoldFunction(+, 0, counts)

\* A connection is closed, or idle, or its request is in per_path, or in both, or it
\* has copied the log for a snapshot and goes back to where it was.
Closed == [st |-> "closed"]
Idle   == [st |-> "idle"]
Counted(p) == [st |-> "counted", path |-> p]
Logged(p)  == [st |-> "logged", path |-> p]
Copied(log, before, back) ==
    [st |-> "copied", log |-> log, before |-> before, back |-> back]

SiteInit ==
    /\ listening = TRUE
    /\ perPath = NoRequests /\ requestLog = NoRequests /\ answered = NoRequests
    /\ conn = [c \in Conns |-> Closed]
    /\ taken = [log |-> NoRequests, paths |-> NoRequests, before |-> NoRequests]

\* The handle's shutdown(), or its drop: nobody is accepted any more, and those who
\* are connected are served to their end.
Shutdown ==
    /\ listening
    /\ listening' = FALSE
    /\ UNCHANGED <<perPath, requestLog, conn, answered, taken>>

\* A request on an idle connection, or on a new one that is accepted; the first half
\* of State::record, under the mutex of per_path ...
Request(c, p) ==
    /\ conn[c] = Idle \/ (conn[c] = Closed /\ listening)
    /\ Total(perPath) < MaxRequests
    /\ perPath' = [perPath EXCEPT ![p] = @ + 1]
    /\ conn' = [conn EXCEPT ![c] = Counted(p)]
    /\ UNCHANGED <<listening, requestLog, answered, taken>>

\* ... and the second, under that of request_log.
Log(c) ==
    /\ conn[c].st = "counted"
    /\ requestLog' = [requestLog EXCEPT ![conn[c].path] = @ + 1]
    /\ conn' = [conn EXCEPT ![c] = Logged(conn[c].path)]
    /\ UNCHANGED <<listening, perPath, answered, taken>>

\* Mutant: a request may be answered before it is in the log.
AnswerUnlogged(c) ==
    /\ conn[c].st \in {"counted", "logged"}
    /\ answered' = [answered EXCEPT ![conn[c].path] = @ + 1]
    /\ conn' = [conn EXCEPT ![c] = Idle]
    /\ UNCHANGED <<listening, perPath, requestLog, taken>>

\* A request is answered: with its page, with 404, or with 405 if it is not a GET,
\* also one for the statistics.
Answer(c) ==
    /\ conn[c].st = "logged"
    /\ answered' = [answered EXCEPT ![conn[c].path] = @ + 1]
    /\ conn' = [conn EXCEPT ![c] = Idle]
    /\ UNCHANGED <<listening, perPath, requestLog, taken>>

\* State::snapshot, of a GET of the statistics or of the handle's stats(), which
\* needs no connection: copy the log ...
CopyLog(c) ==
    /\ conn[c] \in {Closed, Logged(StatsPath)}
    /\ conn' = [conn EXCEPT ![c] =
          Copied(requestLog, answered, IF @ = Closed THEN Closed ELSE Idle)]
    /\ UNCHANGED <<listening, perPath, requestLog, answered, taken>>

\* ... then per_path.
CopyPaths(c) ==
    /\ conn[c].st = "copied"
    /\ taken' = [log |-> conn[c].log, paths |-> perPath, before |-> conn[c].before]
    /\ conn' = [conn EXCEPT ![c] = @.back]
    /\ UNCHANGED <<listening, perPath, requestLog, answered>>

\* The client goes away: hyper drops the handler wherever it is.
Disconnect(c) ==
    /\ conn[c] # Closed
    /\ conn' = [conn EXCEPT ![c] = Closed]
    /\ UNCHANGED <<listening, perPath, requestLog, answered, taken>>

SiteNext ==
    \/ Shutdown
    \/ \E c \in Conns :
        \/ \E p \in SitePaths : Request(c, p)
        \/ Log(c) \/ Answer(c) \/ CopyLog(c) \/ CopyPaths(c) \/ Disconnect(c)

\* However a snapshot is torn by the requests that come in between, a request in its
\* log is in its counts, and a request that was answered before is in both.
SnapshotConsistent ==
    \A p \in SitePaths :
        taken.before[p] <= taken.log[p] /\ taken.log[p] <= taken.paths[p]

=============================================================================
