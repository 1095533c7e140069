----------------------------- MODULE ProxyClient -----------------------------
(***************************************************************************)
(* From a TOML configuration to the proxies of an HTTP client (capp-config:*)
(* config.rs, proxy.rs, http.rs): the lookup of a key, the expansion of    *)
(* port ranges, the provider that hands out the proxies in turn, the       *)
(* client that is built with one picked at random and keeps it, and its    *)
(* fetches, which are tried again with a growing pause until time is up.   *)
(*                                                                         *)
(* A URI is a host and what follows it: one port, or two for "{1-2}".  The *)
(* text around them is left out.                                           *)
(***************************************************************************)
EXTENDS Integers, SequencesExt

CONSTANTS
    Configs,    \* the configuration files
    MaxPort,    \* the largest u16 (65535)
    MaxGets,    \* how many proxies a behaviour hands out
    Limits,     \* the max_elapsed_time of a fetch: 30 s with its content, 15 min without
    MaxInterval \* the max_interval between two attempts, 10 s

ASSUME ProxyAssumption ==
    MaxPort \in Nat /\ MaxGets \in Nat /\ Limits \subseteq Nat /\ MaxInterval \in Nat \ {0}

-----------------------------------------------------------------------------
(* TOML values: a kind, and what a value of that kind holds.               *)

Table(m)  == [kind |-> "table", value |-> m]
Missing   == [kind |-> "missing"]

Field(v, k) ==
    IF v.kind = "table" /\ k \in DOMAIN v.value THEN v.value[k] ELSE Missing

\* Configurable::get_config_value: the keys between the dots.
Lookup(config, keys) == FoldLeft(Field, config, keys)

-----------------------------------------------------------------------------
(* The configured proxies.                                                 *)

At(host, port) == [host |-> host, ports |-> <<port>>]

\* Mutant: an inverted range is expanded to nothing.
ExpandUnchecked(uri) ==
    IF Len(uri.ports) = 2 /\ uri.ports[2] <= MaxPort
    THEN [i \in 1 .. uri.ports[2] - uri.ports[1] + 1 |->
             At(uri.host, uri.ports[1] + i - 1)]
    ELSE <<uri>>

\* A range that cannot be parsed, or that is inverted, stays as it is written.
Expand(uri) ==
    IF /\ Len(uri.ports) = 2
       /\ uri.ports[1] <= uri.ports[2] /\ uri.ports[2] <= MaxPort
    THEN [i \in 1 .. uri.ports[2] - uri.ports[1] + 1 |->
             At(uri.host, uri.ports[1] + i - 1)]
    ELSE <<uri>>

\* ProxyConfig::from_config: a list of URIs hides a single one, an entry that is no
\* string is skipped, and a missing or odd `use` means that there is no config.
NoProxies == [use |-> FALSE, uris |-> <<>>]

Values(cfg) ==
    IF Field(cfg, "uris").kind = "array" THEN Field(cfg, "uris").value
    ELSE <<Field(cfg, "uri")>>

ExpandValue(v) == IF v.kind = "string" THEN Expand(v.value) ELSE <<>>

Enabled(cfg) == Field(cfg, "use").kind = "bool" /\ Field(cfg, "use").value

ProxyConfig(cfg) ==
    IF Enabled(cfg)
    THEN [use |-> TRUE,
          uris |-> FlattenSeq([i \in DOMAIN Values(cfg) |-> ExpandValue(Values(cfg)[i])])]
    ELSE NoProxies

\* What TOML files hold, as far as this section goes: an array is a sequence, and a URI
\* has what follows its host.
ASSUME ConfigAssumption ==
    \A config \in Configs :
        LET vs == Values(Lookup(config, <<"http", "proxy">>))
        IN  /\ config.kind # "missing" /\ vs \in Seq(ToSet(vs))
            /\ \A v \in ToSet(vs) : v.kind = "string" =>
                  v.value.ports \in Seq(Nat) /\ Len(v.value.ports) \in {1, 2}

-----------------------------------------------------------------------------

VARIABLES
    config,   \* the file in use, Missing before it is loaded
    turn,     \* RoundRobinProxyProvider::current, counted from 0
    given,    \* history: the proxies that were handed out
    client,   \* what the HTTP client uses: "none" is built, or it is connected
              \* directly, or its building panicked, or the proxy it has
    fetch     \* a fetch with the client: when its attempt begins, or when it ended

proxyVars == <<config, turn, given, client, fetch>>

Direct   == [host |-> "direct", ports |-> <<>>]
Panicked == [host |-> "panicked", ports |-> <<>>]
NoClient == [host |-> "none", ports |-> <<>>]

NoFetch == [st |-> "none"]

ProxyInit ==
    /\ config = Missing /\ turn = 0 /\ given = <<>>
    /\ client = NoClient /\ fetch = NoFetch

Http    == Lookup(config, <<"http">>)
Section == Lookup(config, <<"http", "proxy">>)
Proxies == ProxyConfig(Section)

LoadConfig ==
    /\ config.kind = "missing"
    /\ config' \in Configs
    /\ UNCHANGED <<turn, given, client, fetch>>

NextTurn == (turn + 1) % Len(Proxies.uris)

\* RoundRobinProxyProvider::get_proxy, under its mutex.
GetProxy ==
    /\ config.kind # "missing" /\ Proxies.uris # <<>> /\ Len(given) < MaxGets
    /\ given' = Append(given, Proxies.uris[turn + 1])
    /\ turn' = NextTurn
    /\ UNCHANGED <<config, client, fetch>>

\* HttpClientParams::from_config wants two numbers of seconds.
IsSeconds(v) == v.kind = "int" /\ v.value \in Nat
HasTimeouts == IsSeconds(Field(Http, "timeout")) /\ IsSeconds(Field(Http, "connect_timeout"))

\* A URI that is no URI makes Proxy::all fail.
Usable(uri) == Len(uri.ports) < 2

\* from_config and build_http_client: any proxy of the RandomProxyProvider, or none if
\* it has none; what is missing or unusable panics.
BuildClient ==
    /\ config.kind # "missing" /\ client = NoClient
    /\ \/ ~HasTimeouts /\ client' = Panicked
       \/ HasTimeouts /\ Proxies.uris = <<>> /\ client' = Direct
       \/ /\ HasTimeouts
          /\ \E uri \in ToSet(Proxies.uris) :
                client' = (IF Usable(uri) THEN uri ELSE Panicked)
    /\ UNCHANGED <<config, turn, given, fetch>>

StartFetch ==
    /\ client \notin {NoClient, Panicked} /\ fetch = NoFetch
    /\ \E limit \in Limits : fetch' = [st |-> "trying", at |-> 0, limit |-> limit]
    /\ UNCHANGED <<config, turn, given, client>>

\* The client's own timeout ends an attempt, its body included.
AttemptTime == 0 .. Field(Http, "timeout").value

\* The builders leave the randomization factor of backoff at one half.  It is applied
\* after the cap, so a pause may be half as long again as the longest interval.
MaxPause == (3 * MaxInterval + 1) \div 2

\* An answer ends the fetch, whatever its status is.
FetchAnswered ==
    /\ fetch.st = "trying"
    /\ \E d \in AttemptTime : fetch' = [fetch EXCEPT !.st = "answered", !.at = @ + d]
    /\ UNCHANGED <<config, turn, given, client>>

\* Mutant: the pause is not counted.
FetchFailsLate ==
    /\ fetch.st = "trying"
    /\ \E d \in AttemptTime, pause \in 1 .. MaxPause :
          fetch' = IF fetch.at + d <= fetch.limit
                   THEN [fetch EXCEPT !.at = @ + d + pause]
                   ELSE [fetch EXCEPT !.at = @ + d, !.st = "failed"]
    /\ UNCHANGED <<config, turn, given, client>>

\* Any error, of the connection or in the middle of a body, counts as transient: it is
\* tried again after a pause, unless the pause would pass the limit.
FetchFails ==
    /\ fetch.st = "trying"
    /\ \E d \in AttemptTime, pause \in 1 .. MaxPause :
          fetch' = IF fetch.at + d + pause <= fetch.limit
                   THEN [fetch EXCEPT !.at = @ + d + pause]
                   ELSE [fetch EXCEPT !.at = @ + d, !.st = "failed"]
    /\ UNCHANGED <<config, turn, given, client>>

ProxyNext ==
    LoadConfig \/ GetProxy \/ BuildClient \/ StartFetch \/ FetchAnswered \/ FetchFails

-----------------------------------------------------------------------------

\* The addresses that a value of the configuration names, port by port, those of all
\* values, and how many values name one.
Named(v) ==
    LET uri   == v.value
        ports == {p \in 0 .. MaxPort : Len(uri.ports) = 2 /\ uri.ports[2] <= MaxPort
                                          /\ uri.ports[1] <= p /\ p <= uri.ports[2]}
    IN  IF v.kind # "string" THEN {}
        ELSE IF ports = {} THEN {uri} ELSE {At(uri.host, p) : p \in ports}

Addresses ==
    IF Enabled(Section) THEN UNION {Named(v) : v \in ToSet(Values(Section))} ELSE {}

TimesNamed(a) ==
    Cardinality({i \in DOMAIN Values(Section) : a \in Named(Values(Section)[i])})

\* How often an address was handed out.
Uses(a) == Cardinality({i \in DOMAIN given : given[i] = a})

\* Every address the configuration names takes its turn, in every round as often as it
\* is named, and only a configuration that names none lets a client go out without a
\* proxy: a mistake in one, like an inverted range, stops the client instead of being
\* dropped.
EveryProxyUsed ==
    config.kind # "missing" =>
        /\ \E rounds \in 0 .. Len(given) :
              \A a \in Addresses : /\ Uses(a) >= rounds * TimesNamed(a)
                                   /\ Uses(a) <= (rounds + 1) * TimesNamed(a)
        /\ ToSet(given) \subseteq Addresses
        /\ client = Direct => Addresses = {}

\* A fetch is over one timeout after its limit at the latest, however its attempts end,
\* and it gives up no earlier than the longest pause before the limit.
FetchEndsInTime ==
    fetch # NoFetch =>
        /\ fetch.at <= fetch.limit + Field(Http, "timeout").value
        /\ fetch.st = "failed" => fetch.at + MaxPause > fetch.limit

=============================================================================
