------------------------------ MODULE Fetcher ------------------------------
(***************************************************************************)
(* One fetch of a page: web_research's fetch tool under its limit per turn *)
(* (fetch_gate.py), HardenedFetcher (broker/net/fetcher.py) and what it    *)
(* keeps: robots.txt rules, the rate limiter, the session cache, the       *)
(* clients, one per host, and the record of what was read in the turn.     *)
(*                                                                         *)
(* A turn services one call at a time, so there is one fetch; it awaits    *)
(* the network at every hop and the total time limit, or the end of the    *)
(* turn, may cut it at any await.  A URL is a model value with a host; what*)
(* a server answers is chosen by the server.                               *)
(***************************************************************************)
EXTENDS Naturals, Sequences, SequencesExt

CONSTANTS
  Hosts, Urls, Host,
  MaxFetches,     \* MAX_FETCHES_PER_TURN
  MaxRedirects,   \* MAX_REDIRECTS
  MaxClients,     \* DEFAULT_MAX_CLIENTS
  CacheSize,      \* DEFAULT_CACHE_SIZE
  Interval,       \* DEFAULT_MIN_INTERVAL_S
  Unset, Unreachable

ASSUME FetcherAssumption ==
  /\ Host \in [Urls -> Hosts]
  /\ MaxFetches \in Nat /\ MaxRedirects \in Nat /\ Interval \in Nat
  /\ MaxClients \in Nat \ {0} /\ CacheSize \in Nat \ {0}
  /\ \A S \in SUBSET Urls : S \notin {Unset, Unreachable}

VARIABLES
  inTurn,         \* a turn is in progress
  fetches,        \* FetchGate.fetches
  place,          \* where the fetch is: idle, robots, rate, page, extract, closed
  wait,           \* what it awaits of the network: a connection, a close, an answer
  url,            \* the page asked for
  current,        \* the URL of the current hop
  hops,           \* hops behind it
  evicted,        \* the host whose evicted client is being closed
  (* kept by the process *)
  rules,          \* RobotsCache._parsers: the URLs a host disallows
  cooldown,       \* RateLimiter: what is left of the interval of a host
  pool,           \* ClientRegistry._clients, oldest first
  cache,          \* SessionCache._store: URL and domain, oldest first
  domains,        \* FetchedDomains._domains
  (* history, read by the properties only *)
  said,           \* what a host last said of its rules
  read            \* the hosts whose content the model got in this turn

fetchVars   == <<place, wait, url, current, hops, evicted>>
keptVars    == <<rules, cooldown, pool, cache, domains>>
historyVars == <<said, read>>
webVars     == <<inTurn, fetches, fetchVars, keptVars, historyVars>>

Rules == SUBSET Urls
Places == {"idle", "robots", "rate", "page", "extract", "closed"}

\* The state has the types of the fields it stands for.
FetchOK ==
  /\ fetches \in 0 .. MaxFetches
  /\ place \in Places /\ wait \in {"none", "connect", "close", "answer"}
  /\ wait # "none" <=> place \in {"robots", "page"}
  /\ url \in Urls \cup {Unset} /\ current \in Urls \cup {Unset}
  /\ hops \in 0 .. MaxRedirects /\ evicted \in Hosts \cup {Unset}

KeptOK ==
  /\ rules \in [Hosts -> Rules \cup {Unset}] /\ cooldown \in [Hosts -> 0 .. Interval]
  /\ pool \in Seq(Hosts) /\ cache \in Seq([url : Urls, domain : Hosts])
  /\ domains \subseteq Hosts /\ read \subseteq Hosts
  /\ said \in [Hosts -> Rules \cup {Unset, Unreachable}]

WebTypeOK == inTurn \in BOOLEAN /\ FetchOK /\ KeptOK

WebInit ==
  /\ inTurn = FALSE /\ fetches = 0
  /\ place = "idle" /\ wait = "none" /\ url = Unset /\ current = Unset /\ hops = 0
  /\ evicted = Unset
  /\ rules = [h \in Hosts |-> Unset] /\ cooldown = [h \in Hosts |-> 0]
  /\ pool = <<>> /\ cache = <<>> /\ domains = {}
  /\ said = [h \in Hosts |-> Unset] /\ read = {}

-----------------------------------------------------------------------------
(* The turn *)

\* Mutated form: only the gate.
NewTurnKeepingDomains ==
  /\ ~inTurn /\ place # "closed" /\ inTurn' = TRUE
  /\ fetches' = 0 /\ read' = {}
  /\ UNCHANGED <<fetchVars, rules, cooldown, pool, cache, domains, said>>

\* new_turn_voice fires the turn hooks: the plugin resets its gate, the broker
\* its record.
NewTurn ==
  /\ ~inTurn /\ place # "closed" /\ inTurn' = TRUE
  /\ fetches' = 0 /\ domains' = {} /\ read' = {}
  /\ UNCHANGED <<fetchVars, rules, cooldown, pool, cache, said>>

\* The fetch is over; a close under way is cut with it, and its client never closed.
Stops(where) ==
  /\ place' = where /\ wait' = "none" /\ url' = Unset /\ current' = Unset /\ hops' = 0
  /\ evicted' = Unset

Over == Stops("idle")

\* The turn ends, or is cut with the fetch it awaits.
EndTurn ==
  /\ inTurn /\ inTurn' = FALSE
  /\ Over
  /\ UNCHANGED <<fetches, keptVars, said, read>>

\* asyncio.timeout(total_budget_s)
BudgetEnds ==
  /\ place \notin {"idle", "closed"}
  /\ Over
  /\ UNCHANGED <<inTurn, fetches, keptVars, said, read>>

\* close: the teardown releases every client, and the loop ends with the turn.
Close ==
  /\ place # "closed" /\ inTurn' = FALSE
  /\ Stops("closed") /\ pool' = <<>>
  /\ UNCHANGED <<fetches, rules, cooldown, cache, domains, said, read>>

\* Time passes.
Tick ==
  /\ \E h \in Hosts : cooldown[h] > 0
  /\ cooldown' = [h \in Hosts |-> IF cooldown[h] = 0 THEN 0 ELSE cooldown[h] - 1]
  /\ UNCHANGED <<inTurn, fetches, fetchVars, rules, pool, cache, domains, said, read>>

-----------------------------------------------------------------------------
(* What the fetcher keeps *)

\* move_to_end: the entries behind e close up, and e was used last.
KeyIndex(s, e) == CHOOSE i \in DOMAIN s : s[i] = e
Used(s, e) ==
  [i \in DOMAIN s |-> CASE i < KeyIndex(s, e) -> s[i]
                       [] i = Len(s)          -> e
                       [] OTHER               -> s[i + 1]]
Newest(s, n) == IF Len(s) > n THEN Tail(s) ELSE s

Cached(u) == {e \in Range(cache) : e.url = u}

\* The page is the tool's result and its domain is on record.
Reads(domain, origin) ==
  /\ domains' = domains \cup {domain}
  /\ read' = read \cup {origin}

-----------------------------------------------------------------------------
(* The fetch *)

\* WebResearchPlugin._fetch: the gate counts the fetch before it is made.
Asks(u) ==
  /\ inTurn /\ place = "idle" /\ fetches < MaxFetches
  /\ fetches' = fetches + 1

\* The session cache has it, robots.txt and the rate limit unasked.
CacheHit(u) ==
  /\ Asks(u)
  /\ \E e \in Cached(u) :
       /\ cache' = Used(cache, e)
       /\ Reads(e.domain, e.domain)
  /\ UNCHANGED <<inTurn, fetchVars, rules, cooldown, pool, said>>

Hop(u, n) == wait' = "connect" /\ current' = u /\ hops' = n

\* RobotsCache.refusal, with rules: disallowed, or on to the rate limiter.
Checked(u, disallowed) ==
  IF u \in disallowed
  THEN place' = "idle" /\ url' = Unset
  ELSE place' = "rate" /\ url' = u

Starts(u) ==
  /\ Asks(u) /\ Cached(u) = {}
  /\ IF rules[Host[u]] = Unset
     THEN place' = "robots" /\ Hop(u, 0) /\ url' = u
     ELSE Checked(u, rules[Host[u]]) /\ UNCHANGED <<wait, current, hops>>
  /\ UNCHANGED <<inTurn, evicted, keptVars, historyVars>>

\* RateLimiter.acquire sleeps out the interval and takes the slot.
RateAllows ==
  /\ place = "rate" /\ cooldown[Host[url]] = 0
  /\ cooldown' = [cooldown EXCEPT ![Host[url]] = Interval]
  /\ place' = "page" /\ Hop(url, 0)
  /\ UNCHANGED <<inTurn, fetches, url, evicted, rules, pool, cache, domains, said, read>>

\* Mutated form: the client just made is the one to go.
EvictsNewest ==
  IF Len(pool) >= MaxClients
  THEN pool' = pool /\ evicted' = Host[current] /\ wait' = "close"
  ELSE pool' = Append(pool, Host[current]) /\ evicted' = Unset /\ wait' = "answer"

\* ClientRegistry.acquire for a new host: the oldest client is taken out, and
\* its close is awaited.
Acquires ==
  IF Len(pool) >= MaxClients
  THEN /\ pool' = Append(Tail(pool), Host[current])
       /\ evicted' = Head(pool) /\ wait' = "close"
  ELSE /\ pool' = Append(pool, Host[current])
       /\ evicted' = Unset /\ wait' = "answer"

\* PinnedTransport._issue: the address is good, a client is there or is made.
Connects ==
  /\ wait = "connect"
  /\ IF Host[current] \in Range(pool)
     THEN pool' = Used(pool, Host[current]) /\ wait' = "answer" /\ UNCHANGED evicted
     ELSE Acquires
  /\ UNCHANGED <<inTurn, fetches, place, url, current, hops, rules, cooldown, cache,
                 domains, historyVars>>

CloseReturns ==
  /\ wait = "close" /\ wait' = "answer" /\ evicted' = Unset
  /\ UNCHANGED <<inTurn, fetches, place, url, current, hops, keptVars, historyVars>>

\* A redirect is followed to any URL, on any host, while hops are left; the rules
\* of that host are not looked at, and no slot of its rate limit is taken.
Redirected(u) ==
  /\ wait = "answer" /\ hops < MaxRedirects
  /\ Hop(u, hops + 1)
  /\ UNCHANGED <<inTurn, place, fetches, url, evicted, keptVars, historyVars>>

-----------------------------------------------------------------------------
(* What robots.txt says *)

Said(answer) == said' = [said EXCEPT ![Host[url]] = answer]

\* Rules, or leave to read everything: a 4xx, an unparsable or too large file,
\* an address of our own refusal, too many redirects.  Kept for the process.
RobotsSays(disallowed) ==
  /\ place = "robots" /\ wait \in {"connect", "answer"}
  /\ wait = "connect" => disallowed = {}
  /\ Said(disallowed)
  /\ rules' = [rules EXCEPT ![Host[url]] = disallowed]
  /\ Checked(url, disallowed)
  /\ wait' = "none" /\ current' = Unset /\ hops' = 0
  /\ UNCHANGED <<inTurn, fetches, evicted, cooldown, pool, cache, domains, read>>

\* Mutated form: an outage is kept as leave to read everything.
RobotsUnreachableKept ==
  /\ place = "robots" /\ wait \in {"connect", "answer"}
  /\ Said(Unreachable)
  /\ rules' = [rules EXCEPT ![Host[url]] = {}]
  /\ Over
  /\ UNCHANGED <<inTurn, fetches, cooldown, pool, cache, domains, read>>

\* A 5xx or a network failure refuses this page, and is not kept.
RobotsUnreachable ==
  /\ place = "robots" /\ wait \in {"connect", "answer"}
  /\ Said(Unreachable)
  /\ Over
  /\ UNCHANGED <<inTurn, fetches, keptVars, read>>

-----------------------------------------------------------------------------
(* What the page says *)

\* A refused or unresolved address, a failure, a page too large, one redirect
\* too many, a status that is no success, a type that is not read, or HTML with
\* nothing to read in it: a note, and nothing is kept.
PageFails ==
  /\ place \in {"page", "extract"} /\ wait # "close"
  /\ Over
  /\ UNCHANGED <<inTurn, fetches, keptVars, said, read>>

\* HTML goes to a thread for its readable text.
PageIsHtml ==
  /\ place = "page" /\ wait = "answer" /\ place' = "extract" /\ wait' = "none"
  /\ UNCHANGED <<inTurn, fetches, url, current, hops, evicted, keptVars, historyVars>>

\* It is kept, and recorded with the host it came from.
PageRead ==
  /\ place \in {"page", "extract"} /\ wait \in {"answer", "none"}
  /\ cache' = Newest(Append(cache, [url |-> url, domain |-> Host[current]]), CacheSize)
  /\ Reads(Host[current], Host[current])
  /\ Over
  /\ UNCHANGED <<inTurn, fetches, rules, cooldown, pool, said>>

-----------------------------------------------------------------------------

FetchStep ==
  \/ RateAllows \/ Connects \/ CloseReturns
  \/ \E u \in Urls : Redirected(u)
  \/ \E disallowed \in Rules : RobotsSays(disallowed)
  \/ RobotsUnreachable
  \/ PageFails \/ PageIsHtml \/ PageRead

WebNext ==
  \/ NewTurn \/ EndTurn \/ BudgetEnds \/ Close \/ Tick
  \/ \E u \in Urls : CacheHit(u) \/ Starts(u)
  \/ FetchStep

WebSpec == WebInit /\ [][WebNext]_webVars

-----------------------------------------------------------------------------
(* Properties *)

\* The record the badge is drawn from is exactly the hosts whose content the
\* model got in this turn, through redirects, cached pages, cut fetches and
\* whatever the turns before read (FetchedDomains, HardenedFetcher).
BadgeIsTrue == inTurn => domains = read

\* A page the model asks for is on its way, or is served from the cache, only if the
\* last that its host said of its rules allows it: not unasked, not on an outage,
\* and not on rules that forbid it (RobotsCache).  This is said of the page that is
\* asked for; where it redirects to is followed without asking.
PagesAreAllowed ==
  \A u \in Urls :
    (place \in {"rate", "page", "extract"} /\ url = u) \/ Cached(u) # {}
      => said[Host[u]] \notin {Unset, Unreachable} /\ u \notin said[Host[u]]

\* A request goes out through the client of its own host, which was not evicted
\* meanwhile; there is one client for a host and never more than the limit
\* (ClientRegistry).
OneClientPerHost ==
  /\ wait = "answer" => Host[current] \in Range(pool)
  /\ Len(pool) <= MaxClients /\ IsInjective(pool)
=============================================================================
