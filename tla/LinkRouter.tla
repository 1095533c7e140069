------------------------------ MODULE LinkRouter ------------------------------
(***************************************************************************)
(* What a crawler does with the links of a page: UrlList (capp-urls) drops *)
(* duplicates and filters by pattern and by site, and Router (capp-router) *)
(* sorts what is left into categories by its rules.                        *)
(*                                                                         *)
(* A pattern, be it a string, a regex of a filter or a regex of a rule, is *)
(* the set of what it matches: whole URLs for a filter, host and path for  *)
(* a rule.                                                                 *)
(***************************************************************************)
EXTENDS Integers, SequencesExt

CONSTANTS
    Links,       \* the lists of links that pages have
    Domains,     \* the hosts that are names; the others are addresses, or NoHost
    Middlewares, \* the chain a list goes through
    RegexRules   \* the rules that are added to the router, in order

NoHost == "none"   \* of a data: or mailto: URL

\* Lists are sequences, and a middleware is one of three kinds.
ASSUME LinkAssumption ==
    /\ \A links \in Links : links \in Seq(ToSet(links))
    /\ Middlewares \in Seq(ToSet(Middlewares)) /\ RegexRules \in Seq(ToSet(RegexRules))
    /\ \A m \in ToSet(Middlewares) :
          \/ m.kind = "dedup"
          \/ m.kind = "pattern" /\ m.include \in BOOLEAN
          \/ m.kind = "site" /\ m.sameSite \in BOOLEAN

-----------------------------------------------------------------------------
(* UrlList.                                                                *)

MatchesAny(patterns, x) == \E P \in patterns : x \in P

\* DeduplicateMiddleware: the first of equal URLs stays.
Deduplicate(urls) ==
    FoldLeft(LAMBDA out, u : IF u \in ToSet(out) THEN out ELSE Append(out, u), <<>>, urls)

\* What is in a set stays, in order.
Among(urls, kept) ==
    FoldLeft(LAMBDA out, u : IF u \in kept THEN Append(out, u) ELSE out, <<>>, urls)

\* StringPatternMiddleware and RegexFilterMiddleware.
Filter(urls, patterns, include) ==
    Among(urls, {u \in ToSet(urls) : MatchesAny(patterns, u) <=> include})

\* SiteFilterMiddleware: the host decides, and no host equals no host.
SiteFilter(urls, base, sameSite) ==
    Among(urls, {u \in ToSet(urls) : (u.host = base.host) <=> sameSite})

Process(urls, m) ==
    CASE m.kind = "dedup" -> Deduplicate(urls)
      [] m.kind = "pattern" -> Filter(urls, m.patterns, m.include)
      [] m.kind = "site" -> SiteFilter(urls, m.base, m.sameSite)

Apply(urls, middlewares) == FoldLeft(Process, urls, middlewares)

-----------------------------------------------------------------------------
(* Router.                                                                 *)

\* Router::add_regex_rule: a rule with a pattern that does not compile is an error and
\* is not added, and the rules that are there stay.
AddRegexRule(rules, rule) == IF rule.compiles THEN Append(rules, rule) ELSE rules

Rules == FoldLeft(AddRegexRule, <<>>, RegexRules)

\* RegexRule::classify: a URL without a domain name fits no rule.
Fits(rule, u) ==
    /\ u.host \in Domains
    /\ MatchesAny(rule.allow, <<u.host, u.path>>)
    /\ ~MatchesAny(rule.except, <<u.host, u.path>>)

Fitting(u) == {i \in DOMAIN Rules : Fits(Rules[i], u)}

\* URLClassifier::classify: the first rule that fits names the category.
Category(u) == Rules[Min(Fitting(u))].name

\* Mutant: a category that is met again starts over.
EnterAnew(classified, name, u) ==
    IF \E i \in 1 .. Len(classified) : classified[i].name = name
    THEN [i \in 1 .. Len(classified) |->
             IF classified[i].name = name THEN [classified[i] EXCEPT !.urls = <<u>>]
                                          ELSE classified[i]]
    ELSE Append(classified, [name |-> name, urls |-> <<u>>])

\* The map keeps the order in which its categories were met.
Enter(classified, name, u) ==
    IF \E i \in 1 .. Len(classified) : classified[i].name = name
    THEN [i \in 1 .. Len(classified) |->
             IF classified[i].name = name THEN [classified[i] EXCEPT !.urls = Append(@, u)]
                                          ELSE classified[i]]
    ELSE Append(classified, [name |-> name, urls |-> <<u>>])

ClassifyUrls(urls) ==
    FoldLeft(LAMBDA out, u : IF Fitting(u) = {} THEN out ELSE Enter(out, Category(u), u),
             <<>>, urls)

-----------------------------------------------------------------------------

VARIABLES
    found,    \* the links of the page
    sorted    \* ClassifiedURLs: categories with their URLs, in order

linkVars == <<found, sorted>>

LinkInit == found = <<>> /\ sorted = <<>>

SortLinks ==
    /\ found = <<>>
    /\ found' \in Links \ {<<>>}
    /\ sorted' = ClassifyUrls(Apply(found', Middlewares))

LinkNext == SortLinks

\* Whether a middleware lets a URL pass, seen on its own.
Passes(m, u) ==
    CASE m.kind = "dedup"   -> TRUE
      [] m.kind = "pattern" -> m.include = (\E P \in m.patterns : u \in P)
      [] m.kind = "site"    -> m.sameSite = (u.host = m.base.host)

\* The positions of the links that come through, of equal links only the first one if
\* the chain removes duplicates.
Surviving(links) ==
    {p \in DOMAIN links :
        \A m \in ToSet(Middlewares) :
            /\ Passes(m, links[p])
            /\ m.kind = "dedup" => \A q \in 1 .. p - 1 : links[q] # links[p]}

\* The rules a URL is subject to, and the positions of the links of a category.
RulesFor(u) ==
    {i \in DOMAIN RegexRules : RegexRules[i].compiles /\ Fits(RegexRules[i], u)}

Belonging(links, name) ==
    {p \in Surviving(links) :
        /\ RulesFor(links[p]) # {}
        /\ RegexRules[Min(RulesFor(links[p]))].name = name}

\* A sequence is what another one has at some positions, in order.
InOrder(part, whole, positions) ==
    \E at \in [DOMAIN part -> positions] :
        /\ \A p \in positions : \E j \in DOMAIN part : at[j] = p
        /\ \A j, k \in DOMAIN part : j < k => at[j] < at[k]
        /\ \A j \in DOMAIN part : part[j] = whole[at[j]]

Sorts(links, categories) ==
    /\ \A p \in Surviving(links) :
          RulesFor(links[p]) # {} =>
             \E i \in DOMAIN categories : p \in Belonging(links, categories[i].name)
    /\ \A i \in DOMAIN categories :
          LET positions == Belonging(links, categories[i].name)
          IN  /\ positions # {} /\ InOrder(categories[i].urls, links, positions)
              /\ i > 1 => Min(Belonging(links, categories[i - 1].name)) < Min(positions)

\* Every link that passes the filters and fits a rule is in one place, the category of
\* the first such rule that compiles; nothing else is anywhere; and within a category,
\* as among the categories, the order is that of the page.
LinksSorted == Sorts(found, sorted)

=============================================================================
