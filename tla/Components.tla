----------------------------- MODULE Components -----------------------------
(***************************************************************************)
(* The smaller parts side by side: the in-memory queue, the test site, the *)
(* proxies of a client, the sorting of links and the keys of the round-    *)
(* robin queue.  They share no state, so a behaviour is one of any of      *)
(* them, and only that part moves.                                         *)
(***************************************************************************)
EXTENDS MemoryQueue, TestSite, ProxyClient, LinkRouter, RoundRobinKeys

VARIABLE part   \* the one that moves

partVars == <<memoryVars, siteVars, proxyVars, linkVars, keyspace, part>>

PartsInit ==
    /\ part \in {"queue", "site", "proxies", "links", "keys"}
    /\ MemoryInit /\ SiteInit /\ ProxyInit /\ LinkInit /\ KeysInit

PartsNext ==
    \/ /\ part = "queue" /\ MemoryNext
       /\ UNCHANGED <<siteVars, proxyVars, linkVars, keyspace, part>>
    \/ /\ part = "site" /\ SiteNext
       /\ UNCHANGED <<memoryVars, proxyVars, linkVars, keyspace, part>>
    \/ /\ part = "proxies" /\ ProxyNext
       /\ UNCHANGED <<memoryVars, siteVars, linkVars, keyspace, part>>
    \/ /\ part = "links" /\ LinkNext
       /\ UNCHANGED <<memoryVars, siteVars, proxyVars, keyspace, part>>
    \/ /\ part = "keys" /\ KeysNext
       /\ UNCHANGED <<memoryVars, siteVars, proxyVars, linkVars, part>>

PartsSpec == PartsInit /\ [][PartsNext]_partVars

=============================================================================
