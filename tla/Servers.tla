------------------------------ MODULE Servers ------------------------------
(***************************************************************************)
(* The server lists of the VPN providers: the singletons of                *)
(* services/vpn.py, the cache of providers/base.py with its TTL, the       *)
(* updater that refreshes it in the background, and the routes of          *)
(* routes/provider.py that read it.  Every fetch is an await: another      *)
(* request, the updater and the health route run in the middle of it, and  *)
(* a fetch that began earlier may end later.                               *)
(*                                                                         *)
(* The provider's API is external: it answers with any part of its         *)
(* catalogue, or fails, within the client's timeout.  Ages are counted up  *)
(* to Old, after which they make no difference.                            *)
(* A definition X_Y before X is X with the plausible defect Y.             *)
(***************************************************************************)
EXTENDS Naturals

CONSTANTS
  Requests,    \* requests that may run at the same time
  Catalogue,   \* the servers the provider's API may list
  Filters,     \* filters a client may ask for
  Endpoints,   \* values of the state file vpn_endpoint, without the port
  None,        \* no value in a filter; nothing asked
  Supported,   \* meta.supports_server_list
  Accounts,    \* meta.supports_account_check
  Ttl,         \* PROVIDER_CACHE_TTL
  Interval,    \* server_list_update_interval
  Patience     \* no call of the API takes longer than this

Old == Ttl + Patience

ASSUME ServersAssumption ==
  /\ Ttl \in Nat /\ Interval \in Nat /\ Patience \in Nat
  /\ Interval > 0 /\ Patience < Ttl
  /\ Supported \in BOOLEAN /\ Accounts \in BOOLEAN

VARIABLES
  live,      \* the provider has its instance in _instances
  cache,     \* _server_cache if there is one, how old what it says is, and
             \* how old _cache_time
  request,   \* what each request waits for
  answer,    \* the last answer to a request, and how old what it says was
  health,    \* the request to /vpn/provider-health
  updater    \* the task of ServerListUpdater

vars == <<live, cache, request, answer, health, updater>>

Empty == [is |-> FALSE, servers |-> {}, age |-> Old, stamp |-> Old]
Idle == [op |-> "none", arg |-> None, waited |-> 0]
NoAnswer == [from |-> "nowhere", servers |-> {}, age |-> Old]
NoHealth == [at |-> "idle", waited |-> 0, fresh |-> FALSE]

\* start(): the task exists only when the setting is on, and it sleeps first.
Started(on) == [on |-> on, at |-> IF on THEN "sleeping" ELSE "off", waited |-> 0]

Init ==
  /\ live = FALSE
  /\ cache = Empty
  /\ request = [r \in Requests |-> Idle]
  /\ answer = NoAnswer
  /\ health = NoHealth
  /\ \E on \in BOOLEAN : updater = Started(on)

-----------------------------------------------------------------------------
\* What a list is turned into.

\* _fetch_servers(): servers out of service are left out.
Parsed(reply) == {s \in reply : s.active}

\* _filter_servers(): a criterion that is None says nothing, owned_only says
\* nothing when it is FALSE, the others ask for a value.
Filtered(servers, f) ==
  {s \in servers :
     /\ f.country # None => s.country = f.country
     /\ f.owned_only = TRUE => s.owned = TRUE
     /\ f.p2p # None => s.p2p = f.p2p
     /\ f.max_load # None => s.load <= f.max_load}

\* get_server_info(): the server whose address is the endpoint's.
At(servers, endpoint) == {s \in servers : s.ipv4 = endpoint}

\* What the request makes of the list it got.
Serve(op, arg, servers) ==
  IF op = "list" THEN Filtered(servers, arg) ELSE At(servers, arg)

Fresh == cache.is /\ cache.stamp < Ttl

\* The list a fetch has brought: `taken` is its age, `since` that of the
\* time written to _cache_time.
Store(servers, taken, since) ==
  cache' = [is |-> TRUE, servers |-> servers, age |-> taken, stamp |-> since]

-----------------------------------------------------------------------------
\* GET /vpn/servers and /vpn/server, as far as the first await: get_provider()
\* makes the instance, and a list within its TTL is answered at once.
Ask(r, op, arg) ==
  /\ request[r] = Idle
  /\ live' = TRUE
  /\ \/ /\ Fresh
        /\ answer' = [from |-> "cache", age |-> cache.age,
                      servers |-> Serve(op, arg, cache.servers)]
        /\ UNCHANGED request
     \/ /\ ~Fresh
        /\ request' = [request EXCEPT ![r] = [op |-> op, arg |-> arg, waited |-> 0]]
        /\ UNCHANGED answer
  /\ UNCHANGED <<cache, health, updater>>

List(r) == \E f \in Filters : Ask(r, "list", f)

ServerInfo(r) == \E e \in Endpoints : Ask(r, "info", e)

\* The API has answered some time after it was asked: the list is stored with
\* the time read before the await.
Fetched(r) ==
  /\ request[r] # Idle
  /\ \E reply \in SUBSET Catalogue, taken \in 0..request[r].waited :
       /\ Store(Parsed(reply), taken, request[r].waited)
       /\ answer' = [from |-> "api", age |-> taken,
                     servers |-> Serve(request[r].op, request[r].arg, Parsed(reply))]
  /\ request' = [request EXCEPT ![r] = Idle]
  /\ UNCHANGED <<live, health, updater>>

NotFetched_Restamps(r) ==
  /\ request[r] # Idle
  /\ cache' = IF cache.is THEN [cache EXCEPT !.stamp = 0] ELSE cache
  /\ answer' = [from |-> "failure", age |-> cache.age,
                servers |-> Serve(request[r].op, request[r].arg, cache.servers)]
  /\ request' = [request EXCEPT ![r] = Idle]
  /\ UNCHANGED <<live, health, updater>>

\* The fetch has failed: what is in the cache by now, however old.
NotFetched(r) ==
  /\ request[r] # Idle
  /\ answer' = [from |-> "failure", age |-> cache.age,
                servers |-> Serve(request[r].op, request[r].arg, cache.servers)]
  /\ request' = [request EXCEPT ![r] = Idle]
  /\ UNCHANGED <<live, cache, health, updater>>

-----------------------------------------------------------------------------
\* GET /vpn/provider-health: a ping, the state of the cache, the account.
HealthAsked ==
  /\ health.at = "idle"
  /\ live' = TRUE
  /\ health' = [at |-> "ping", waited |-> 0, fresh |-> FALSE]
  /\ UNCHANGED <<cache, request, answer, updater>>

HealthRead_NoTtl ==
  [at |-> IF Accounts THEN "account" ELSE "replied", waited |-> 0, fresh |-> cache.is]

\* The ping has been answered or has failed, and the cache is read.
HealthRead ==
  [at |-> IF Accounts THEN "account" ELSE "replied", waited |-> 0, fresh |-> Fresh]

HealthPinged ==
  /\ health.at = "ping"
  /\ health' = HealthRead
  /\ UNCHANGED <<live, cache, request, answer, updater>>

\* get_account_info() has returned an account or None.
HealthAccount ==
  /\ health.at = "account"
  /\ health' = [health EXCEPT !.at = "replied"]
  /\ UNCHANGED <<live, cache, request, answer, updater>>

HealthReplied ==
  /\ health.at = "replied"
  /\ health' = NoHealth
  /\ UNCHANGED <<live, cache, request, answer, updater>>

\* GET /vpn/check and /vpn/account ask the API and keep nothing of it.
Check ==
  /\ live' = TRUE
  /\ UNCHANGED <<cache, request, answer, health, updater>>

-----------------------------------------------------------------------------
\* _run(): the sleep is over.  refresh_provider_server_list() passes over a
\* provider without an instance, refresh_cache() over one without a list.
Wake ==
  /\ updater.at = "sleeping" /\ updater.waited = Interval
  /\ updater' = [updater EXCEPT !.waited = 0,
                   !.at = IF live /\ Supported THEN "refreshing" ELSE "sleeping"]
  /\ UNCHANGED <<live, cache, request, answer, health>>

Refreshed ==
  /\ updater.at = "refreshing"
  /\ \E reply \in SUBSET Catalogue, taken \in 0..updater.waited : Store(Parsed(reply), taken, 0)
  /\ updater' = [updater EXCEPT !.at = "sleeping", !.waited = 0]
  /\ UNCHANGED <<live, request, answer, health>>

NotRefreshed_GivesUp ==
  /\ updater.at = "refreshing"
  /\ updater' = [updater EXCEPT !.at = "off", !.waited = 0]
  /\ UNCHANGED <<live, cache, request, answer, health>>

\* A failure is 0 servers, and the loop goes on.
NotRefreshed ==
  /\ updater.at = "refreshing"
  /\ updater' = [updater EXCEPT !.at = "sleeping", !.waited = 0]
  /\ UNCHANGED <<live, cache, request, answer, health>>

\* stop() and start() of the next process: the lists were only in memory.
Restart ==
  /\ live' = FALSE /\ cache' = Empty
  /\ request' = [r \in Requests |-> Idle]
  /\ answer' = NoAnswer
  /\ health' = NoHealth
  /\ \E on \in BOOLEAN : updater' = Started(on)

-----------------------------------------------------------------------------
Older(age) == IF age < Old THEN age + 1 ELSE Old

Waiting(at) == at \in {"ping", "account", "refreshing"}

\* A unit of time, in which no call exceeds its timeout and a reply that is
\* ready is sent.
Tick ==
  /\ \A r \in Requests : request[r] # Idle => request[r].waited < Patience
  /\ Waiting(health.at) => health.waited < Patience
  /\ health.at # "replied"
  /\ Waiting(updater.at) => updater.waited < Patience
  /\ cache' = [cache EXCEPT !.age = Older(cache.age), !.stamp = Older(cache.stamp)]
  /\ request' = [r \in Requests |-> IF request[r] = Idle THEN Idle
                   ELSE [request[r] EXCEPT !.waited = @ + 1]]
  /\ health' = IF Waiting(health.at) THEN [health EXCEPT !.waited = @ + 1] ELSE health
  /\ updater' = IF Waiting(updater.at) \/ (updater.at = "sleeping" /\ updater.waited < Interval)
                THEN [updater EXCEPT !.waited = @ + 1] ELSE updater
  /\ UNCHANGED <<live, answer>>

UpdaterStep == Wake \/ Refreshed \/ NotRefreshed

RequestStep(r) == Fetched(r) \/ NotFetched(r)

HealthStep == HealthPinged \/ HealthAccount \/ HealthReplied

Next ==
  \/ \E r \in Requests : List(r) \/ ServerInfo(r) \/ RequestStep(r)
  \/ HealthAsked \/ HealthStep \/ Check
  \/ UpdaterStep
  \/ Restart \/ Tick

\* Time passes however many requests there are, and the event loop runs what
\* is due.
Fairness ==
  /\ SF_vars(Tick) /\ WF_vars(UpdaterStep) /\ WF_vars(HealthStep)
  /\ \A r \in Requests : WF_vars(RequestStep(r))

Spec == Init /\ [][Next]_vars

FairSpec == Spec /\ Fairness

-----------------------------------------------------------------------------
Servers == {s \in Catalogue : s.active}

TypeOK ==
  /\ live \in BOOLEAN
  /\ cache \in [is : BOOLEAN, servers : SUBSET Servers, age : 0..Old, stamp : 0..Old]
  /\ request \in [Requests -> [op : {"none", "list", "info"},
                               arg : Filters \cup Endpoints \cup {None}, waited : 0..Patience]]
  /\ answer \in [from : {"nowhere", "cache", "api", "failure"},
                 servers : SUBSET Servers, age : 0..Old]
  /\ health \in [at : {"idle", "ping", "account", "replied"}, waited : 0..Patience,
                 fresh : BOOLEAN]
  /\ updater \in [on : BOOLEAN, at : {"off", "sleeping", "refreshing"},
                  waited : 0..(Interval + Patience)]

\* What is answered from the cache, or by the API, was true at most Ttl and
\* the length of one fetch ago: neither a failed fetch nor one that ends
\* after a later one makes an old list look new (base.py:248-259, 315-319).
RecentAnswers ==
  answer.from \in {"cache", "api"} => answer.age < Old

\* cache_fresh is computed before the account is asked for: when it is sent,
\* the list it speaks of is at most one call past its TTL (provider.py:187-217).
HealthRecent ==
  health.at = "replied" /\ health.fresh => cache.is /\ cache.stamp < Old

\* Where the updater is on, an instance that exists is refreshed again and
\* again, whatever its API answers, until the process ends
\* (server_updater.py:54-74).
KeepsRefreshing ==
  Supported => (live /\ updater.on ~> updater.at = "refreshing" \/ ~live)
=============================================================================
