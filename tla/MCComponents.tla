---------------------------- MODULE MCComponents ----------------------------
(* Components on small instances, and the facts about values that need no  *)
(* behaviour: the link graphs of the test site, and the queue keys.        *)
EXTENDS Components, TLC

Symmetry == Permutations(Tasks) \cup Permutations(Clients) \cup Permutations(Conns)

MCPaths == {Home, StatsPath}

-----------------------------------------------------------------------------
(* Configurations: ranges, one of them inverted and one past the last      *)
(* port, lists and single URIs, one of them named twice, entries that are  *)
(* no strings, and without what they need.                                 *)

Str(uri) == [kind |-> "string", value |-> uri]
Arr(vs)  == [kind |-> "array", value |-> vs]
Num(n)   == [kind |-> "int", value |-> n]
Bool(b)  == [kind |-> "bool", value |-> b]
Uri(host, ports) == [host |-> host, ports |-> ports]

HttpConfig(proxy) ==
    Table([http |-> Table([timeout |-> Num(2), connect_timeout |-> Num(1), proxy |-> proxy])])

Ports    == Str(Uri("p", <<1, 3>>))
Inverted == Str(Uri("q", <<2, 1>>))
TooLarge == Str(Uri("r", <<3, 9>>))
Single   == Str(Uri("s", <<2>>))

MCProxies ==
    {Table([use |-> Bool(TRUE), uris |-> Arr(vs), uri |-> Single]) :
        vs \in {<<>>, <<Ports, Single>>, <<Inverted, Single>>, <<Num(1), TooLarge, Single>>,
               <<Ports, Str(Uri("p", <<2>>))>>}}
    \cup {Table([use |-> Bool(u), uri |-> uri]) :
            u \in BOOLEAN, uri \in {Ports, Inverted, Single, Num(1)}}
    \cup {Missing, Table([uri |-> Ports]), Table([use |-> Num(1), uri |-> Ports])}

MCConfigs ==
    {HttpConfig(p) : p \in MCProxies}
    \cup {Table([http |-> Table([timeout |-> Num(2), proxy |-> Table([use |-> Bool(TRUE), uri |-> Ports])])]),
          Table([http |-> Table([timeout |-> Num(-1), connect_timeout |-> Num(1)])])}

-----------------------------------------------------------------------------
(* Links: two sites, a host that is no name, a URL without a host, and a   *)
(* pair that differs in the query alone.                                   *)

Link(host, path, query) == [host |-> host, path |-> path, query |-> query]

MCUrls ==
    {Link("a", "x", 0), Link("a", "x", 1), Link("a", "y", 0), Link("a", "z", 0),
     Link("b", "x", 0), Link("ip", "x", 0), Link(NoHost, "x", 0)}

MCLinks == UNION {[1 .. n -> MCUrls] : n \in 0 .. 4}

MCDomains == {"a", "b"}

MCMiddlewares ==
    <<[kind |-> "site", base |-> Link("b", "y", 0), sameSite |-> FALSE],
      [kind |-> "dedup"],
      [kind |-> "pattern", include |-> TRUE,
       patterns |-> {{Link("a", "z", 0)}, {u \in MCUrls : u.path # "z"}}],
      [kind |-> "pattern", include |-> FALSE, patterns |-> {{Link("a", "w", 0)}}]>>

\* The second rule takes what the first excepts, the third would take what the last
\* takes, if it compiled; the first and the last share their name.
MCRules ==
    <<[name |-> "one", compiles |-> TRUE, except |-> {{<<"a", "y">>}},
       allow |-> {{<<"a", "x">>, <<"a", "y">>}, {<<"ip", "x">>, <<NoHost, "x">>}}],
      [name |-> "two", compiles |-> TRUE, except |-> {},
       allow |-> {{<<"a", "x">>, <<"a", "y">>}}],
      [name |-> "three", compiles |-> FALSE, except |-> {}, allow |-> {{<<"a", "z">>}}],
      [name |-> "one", compiles |-> TRUE, except |-> {}, allow |-> {{<<"a", "z">>}}]>>

-----------------------------------------------------------------------------

ASSUME SiteFact == EveryPageLinked

\* Every tag that fits and some ids, with two values for a byte.
SmallTags == UNION {[1 .. n -> Byte] : n \in 0 .. MaxLength}
SmallIds  == [1 .. IdLength -> Byte]

=============================================================================
