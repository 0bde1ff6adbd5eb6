---------------------------- MODULE CacheProofs -----------------------------
(***************************************************************************)
(* Theorems about two caches, that of the server lists in module Servers   *)
(* and that of the DNS server in module Dns.                               *)
(*                                                                         *)
(* Servers: the argument is about two clocks.  What a list says is at most *)
(* one call of the API older than the time it is stamped with, and a       *)
(* verdict of the health route is at most one call older than the stamp it *)
(* was made from.                                                          *)
(*                                                                         *)
(* Dns: the dictionary is in the order of age because a name is stored     *)
(* only when it is not there.                                              *)
(***************************************************************************)
EXTENDS Servers, Dns, SequenceTheorems, TLAPS

(* A list that is within its TTL says nothing older than that and a fetch. *)
StampTellsAge == cache.stamp < Ttl => cache.age <= cache.stamp + Patience

(* Between the verdict of the health route and its reply the cache may     *)
(* only age, for as long as the account is waited for.                     *)
VerdictHolds ==
  health.at \in {"account", "replied"} /\ health.fresh
    => cache.is /\ cache.stamp < Ttl + health.waited

(* A refresh has been waited for no longer than a call may take.           *)
UpdaterInTime == updater.at = "refreshing" => updater.waited <= Patience

IInv == TypeOK /\ UpdaterInTime /\ StampTellsAge /\ VerdictHolds /\ RecentAnswers

LEMMA ServersNumbers ==
  /\ Ttl \in Nat /\ Patience \in Nat /\ Interval \in Nat /\ Old \in Nat
  /\ Old = Ttl + Patience /\ Patience < Ttl /\ Interval > 0
BY ServersAssumption DEF Old

LEMMA OlderBounds ==
  ASSUME NEW age \in 0..Old
  PROVE  /\ Older(age) \in 0..Old /\ age <= Older(age) /\ Older(age) <= age + 1
         /\ Older(age) < Ttl => Older(age) = age + 1
BY ServersNumbers DEF Older

(* Parsing and serving only choose among the servers of the catalogue.     *)
LEMMA ServedAreServers ==
  /\ \A reply \in SUBSET Catalogue : Parsed(reply) \in SUBSET Servers
  /\ \A op, arg : \A S \in SUBSET Servers : Serve(op, arg, S) \in SUBSET Servers
BY DEF Parsed, Servers, Serve, Filtered, At

-----------------------------------------------------------------------------
(* Type correctness. *)

UpdaterType == [on : BOOLEAN, at : {"off", "sleeping", "refreshing"},
                waited : 0..(Interval + Patience)]

LEMMA StartedType == \A b \in BOOLEAN : Started(b) \in UpdaterType
<1> SUFFICES ASSUME NEW b \in BOOLEAN PROVE Started(b) \in UpdaterType
  OBVIOUS
<1>1. 0 \in 0..(Interval + Patience)
  BY ServersNumbers
<1>2. CASE b
  BY <1>1, <1>2 DEF Started, UpdaterType
<1>3. CASE ~b
  BY <1>1, <1>3 DEF Started, UpdaterType
<1> QED BY <1>2, <1>3

(* The updater goes on to `at`. *)
LEMMA UpdaterGoesOn ==
  ASSUME TypeOK, NEW at \in {"off", "sleeping", "refreshing"},
         updater' = [updater EXCEPT !.waited = 0, !.at = at]
  PROVE  updater' \in UpdaterType /\ UpdaterInTime'
<1>1. 0 \in 0..(Interval + Patience) /\ 0 <= Patience
  BY ServersNumbers
<1>2. updater \in UpdaterType
  BY DEF TypeOK, UpdaterType
<1>3. updater'.waited = 0
  BY <1>2 DEF UpdaterType
<1> QED BY <1>1, <1>2, <1>3 DEF UpdaterType, UpdaterInTime

LEMMA IdleType == Idle \in [op : {"none", "list", "info"},
                           arg : Filters \cup Endpoints \cup {None}, waited : 0..Patience]
<1>1. 0 \in 0..Patience
  BY ServersNumbers
<1> QED BY <1>1 DEF Idle

(* The values of a process that has just started. *)
LEMMA FirstValues ==
  /\ Empty \in [is : BOOLEAN, servers : SUBSET Servers, age : 0..Old, stamp : 0..Old]
  /\ NoAnswer \in [from : {"nowhere", "cache", "api", "failure"},
                   servers : SUBSET Servers, age : 0..Old]
  /\ NoHealth \in [at : {"idle", "ping", "account", "replied"}, waited : 0..Patience,
                   fresh : BOOLEAN]
<1>1. Old \in 0..Old /\ 0 \in 0..Patience
  BY ServersNumbers
<1>2. Empty \in [is : BOOLEAN, servers : SUBSET Servers, age : 0..Old, stamp : 0..Old]
  BY <1>1 DEF Empty
<1>3. NoAnswer \in [from : {"nowhere", "cache", "api", "failure"},
                    servers : SUBSET Servers, age : 0..Old]
  BY <1>1 DEF NoAnswer
<1>4. NoHealth \in [at : {"idle", "ping", "account", "replied"}, waited : 0..Patience,
                    fresh : BOOLEAN]
  BY <1>1 DEF NoHealth
<1> QED BY <1>2, <1>3, <1>4

LEMMA TypeInit == Init => TypeOK
<1> SUFFICES ASSUME Init PROVE TypeOK
  OBVIOUS
<1>1. /\ live \in BOOLEAN
      /\ cache \in [is : BOOLEAN, servers : SUBSET Servers, age : 0..Old, stamp : 0..Old]
      /\ answer \in [from : {"nowhere", "cache", "api", "failure"},
                     servers : SUBSET Servers, age : 0..Old]
  BY FirstValues DEF Init
<1>2. request \in [Requests -> [op : {"none", "list", "info"},
                      arg : Filters \cup Endpoints \cup {None}, waited : 0..Patience]]
  BY IdleType DEF Init
<1>3. health \in [at : {"idle", "ping", "account", "replied"}, waited : 0..Patience,
                  fresh : BOOLEAN]
  BY FirstValues DEF Init
<1>4. \A b \in BOOLEAN : Started(b) \in UpdaterType
  BY StartedType
<1> QED BY <1>1, <1>2, <1>3, <1>4 DEF Init, TypeOK, UpdaterType

LEMMA TypeAsk ==
  ASSUME TypeOK, NEW r \in Requests, NEW op \in {"list", "info"},
         NEW arg \in Filters \cup Endpoints, Ask(r, op, arg)
  PROVE  TypeOK'
<1>1. Serve(op, arg, cache.servers) \in SUBSET Servers
  BY ServedAreServers DEF TypeOK
<1>2. answer' \in [from : {"nowhere", "cache", "api", "failure"},
                   servers : SUBSET Servers, age : 0..Old]
  BY <1>1 DEF Ask, TypeOK
<1>3. request' \in [Requests -> [op : {"none", "list", "info"},
                       arg : Filters \cup Endpoints \cup {None}, waited : 0..Patience]]
  BY ServersNumbers DEF Ask, TypeOK
<1> QED BY <1>2, <1>3 DEF Ask, TypeOK

(* The end of a request: the slot is free again. *)
LEMMA TypeReleased ==
  ASSUME TypeOK, NEW r \in Requests, request' = [request EXCEPT ![r] = Idle]
  PROVE  request' \in [Requests -> [op : {"none", "list", "info"},
                          arg : Filters \cup Endpoints \cup {None}, waited : 0..Patience]]
BY ServersNumbers DEF TypeOK, Idle

LEMMA TypeFetched ==
  ASSUME TypeOK, NEW r \in Requests, Fetched(r)
  PROVE  TypeOK'
<1>1. PICK reply \in SUBSET Catalogue, taken \in 0..request[r].waited :
        /\ Store(Parsed(reply), taken, request[r].waited)
        /\ answer' = [from |-> "api", age |-> taken,
                      servers |-> Serve(request[r].op, request[r].arg, Parsed(reply))]
  BY DEF Fetched
<1>2. /\ Parsed(reply) \in SUBSET Servers
      /\ Serve(request[r].op, request[r].arg, Parsed(reply)) \in SUBSET Servers
  BY ServedAreServers
<1>3. request[r].waited \in 0..Old /\ taken \in 0..Old
  BY ServersNumbers DEF TypeOK
<1>4. cache' \in [is : BOOLEAN, servers : SUBSET Servers, age : 0..Old, stamp : 0..Old]
  BY <1>1, <1>2, <1>3 DEF Store
<1>5. answer' \in [from : {"nowhere", "cache", "api", "failure"},
                   servers : SUBSET Servers, age : 0..Old]
  BY <1>1, <1>2, <1>3
<1> QED BY <1>4, <1>5, TypeReleased DEF Fetched, TypeOK

LEMMA TypeNotFetched ==
  ASSUME TypeOK, NEW r \in Requests, NotFetched(r)
  PROVE  TypeOK'
<1>1. Serve(request[r].op, request[r].arg, cache.servers) \in SUBSET Servers
  BY ServedAreServers DEF TypeOK
<1>2. answer' \in [from : {"nowhere", "cache", "api", "failure"},
                   servers : SUBSET Servers, age : 0..Old]
  BY <1>1 DEF NotFetched, TypeOK
<1> QED BY <1>2, TypeReleased DEF NotFetched, TypeOK

LEMMA TypeHealth ==
  ASSUME TypeOK, HealthAsked \/ HealthStep \/ Check
  PROVE  TypeOK'
<1>1. Fresh \in BOOLEAN
  BY DEF Fresh, TypeOK
<1>2. health' \in [at : {"idle", "ping", "account", "replied"}, waited : 0..Patience,
                   fresh : BOOLEAN]
  <2>1. CASE HealthAsked
    BY <2>1, ServersNumbers DEF HealthAsked
  <2>2. CASE HealthPinged
    <3>1. CASE Accounts
      BY <1>1, <2>2, <3>1, ServersNumbers DEF HealthPinged, HealthRead
    <3>2. CASE ~Accounts
      BY <1>1, <2>2, <3>2, ServersNumbers DEF HealthPinged, HealthRead
    <3> QED BY <3>1, <3>2
  <2>3. CASE HealthAccount
    <3>1. health \in [at : {"idle", "ping", "account", "replied"}, waited : 0..Patience,
                      fresh : BOOLEAN]
      BY DEF TypeOK
    <3> QED BY <2>3, <3>1 DEF HealthAccount
  <2>4. CASE HealthReplied
    BY <2>4, FirstValues DEF HealthReplied
  <2>5. CASE Check
    BY <2>5 DEF Check, TypeOK
  <2> QED BY <2>1, <2>2, <2>3, <2>4, <2>5 DEF HealthStep
<1>3. live' \in BOOLEAN /\ UNCHANGED <<cache, request, answer, updater>>
  BY DEF HealthAsked, HealthStep, HealthPinged, HealthAccount, HealthReplied, Check, TypeOK
<1> QED BY <1>2, <1>3 DEF TypeOK

LEMMA TypeUpdater ==
  ASSUME TypeOK, UpdaterInTime, UpdaterStep
  PROVE  TypeOK' /\ UpdaterInTime'
<1>1. CASE Wake
  <2>1. updater' \in UpdaterType /\ UpdaterInTime'
    <3>1. CASE live /\ Supported
      BY <1>1, <3>1, UpdaterGoesOn DEF Wake
    <3>2. CASE ~(live /\ Supported)
      BY <1>1, <3>2, UpdaterGoesOn DEF Wake
    <3> QED BY <3>1, <3>2
  <2> QED BY <1>1, <2>1 DEF Wake, TypeOK, UpdaterType
<1>2. CASE Refreshed
  <2>1. PICK reply \in SUBSET Catalogue, taken \in 0..updater.waited :
          Store(Parsed(reply), taken, 0)
    BY <1>2 DEF Refreshed
  <2>2. Parsed(reply) \in SUBSET Servers /\ taken \in 0..Old
    BY <1>2, ServersNumbers, ServedAreServers DEF Refreshed, TypeOK, UpdaterInTime
  <2>3. cache' \in [is : BOOLEAN, servers : SUBSET Servers, age : 0..Old, stamp : 0..Old]
    BY <2>1, <2>2, ServersNumbers DEF Store
  <2>4. updater' \in UpdaterType /\ UpdaterInTime'
    BY <1>2, UpdaterGoesOn DEF Refreshed
  <2> QED BY <1>2, <2>3, <2>4 DEF Refreshed, TypeOK, UpdaterType
<1>3. CASE NotRefreshed
  <2>1. updater' \in UpdaterType /\ UpdaterInTime'
    BY <1>3, UpdaterGoesOn DEF NotRefreshed
  <2> QED BY <1>3, <2>1 DEF NotRefreshed, TypeOK, UpdaterType
<1> QED BY <1>1, <1>2, <1>3 DEF UpdaterStep

LEMMA TypeRestart ==
  ASSUME Restart
  PROVE  TypeOK' /\ UpdaterInTime'
<1>1. /\ live' \in BOOLEAN
      /\ cache' \in [is : BOOLEAN, servers : SUBSET Servers, age : 0..Old, stamp : 0..Old]
      /\ answer' \in [from : {"nowhere", "cache", "api", "failure"},
                      servers : SUBSET Servers, age : 0..Old]
  BY FirstValues DEF Restart
<1>2. request' \in [Requests -> [op : {"none", "list", "info"},
                       arg : Filters \cup Endpoints \cup {None}, waited : 0..Patience]]
  BY IdleType DEF Restart
<1>3. health' \in [at : {"idle", "ping", "account", "replied"}, waited : 0..Patience,
                   fresh : BOOLEAN]
  BY FirstValues DEF Restart
<1>4. updater' \in UpdaterType /\ updater'.at # "refreshing"
  BY StartedType DEF Restart, Started
<1> QED BY <1>1, <1>2, <1>3, <1>4 DEF TypeOK, UpdaterType, UpdaterInTime

LEMMA TypeTick ==
  ASSUME TypeOK, UpdaterInTime, Tick
  PROVE  TypeOK' /\ UpdaterInTime'
<1>1. cache' \in [is : BOOLEAN, servers : SUBSET Servers, age : 0..Old, stamp : 0..Old]
  <2>1. Older(cache.age) \in 0..Old /\ Older(cache.stamp) \in 0..Old
    BY OlderBounds DEF TypeOK
  <2> QED BY <2>1 DEF Tick, TypeOK
<1>2. request' \in [Requests -> [op : {"none", "list", "info"},
                        arg : Filters \cup Endpoints \cup {None}, waited : 0..Patience]]
  BY ServersNumbers DEF Tick, TypeOK, Idle
<1>3. health' \in [at : {"idle", "ping", "account", "replied"}, waited : 0..Patience,
                   fresh : BOOLEAN]
  BY ServersNumbers DEF Tick, TypeOK, Waiting
<1>4. /\ updater' \in [on : BOOLEAN, at : {"off", "sleeping", "refreshing"},
                       waited : 0..(Interval + Patience)]
      /\ UpdaterInTime'
  BY ServersNumbers DEF Tick, TypeOK, Waiting, UpdaterInTime
<1> QED BY <1>1, <1>2, <1>3, <1>4 DEF Tick, TypeOK

LEMMA TypeNext ==
  ASSUME TypeOK, UpdaterInTime, [Next]_vars
  PROVE  TypeOK' /\ UpdaterInTime'
<1>1. CASE \E r \in Requests : List(r) \/ ServerInfo(r) \/ RequestStep(r)
  <2>1. PICK r \in Requests : List(r) \/ ServerInfo(r) \/ RequestStep(r)
    BY <1>1
  <2>2. TypeOK'
    BY <2>1, TypeAsk, TypeFetched, TypeNotFetched DEF List, ServerInfo, RequestStep
  <2>3. UNCHANGED updater
    BY <2>1 DEF List, ServerInfo, Ask, RequestStep, Fetched, NotFetched
  <2> QED BY <2>2, <2>3 DEF UpdaterInTime
<1>2. CASE HealthAsked \/ HealthStep \/ Check
  <2>1. UNCHANGED updater
    BY <1>2 DEF HealthAsked, HealthStep, HealthPinged, HealthAccount, HealthReplied, Check
  <2> QED BY <1>2, <2>1, TypeHealth DEF UpdaterInTime
<1>3. CASE UNCHANGED vars
  BY <1>3 DEF vars, TypeOK, UpdaterInTime
<1> QED BY <1>1, <1>2, <1>3, TypeUpdater, TypeRestart, TypeTick DEF Next

(* Every variable keeps its type, and no refresh outlasts its timeout.     *)
THEOREM TypeCorrect == Spec => [](TypeOK /\ UpdaterInTime)
<1>1. Init => TypeOK /\ UpdaterInTime
  BY TypeInit DEF Init, Started, UpdaterInTime
<1>2. TypeOK /\ UpdaterInTime /\ [Next]_vars => (TypeOK /\ UpdaterInTime)'
  BY TypeNext
<1> QED BY <1>1, <1>2, PTL DEF Spec

-----------------------------------------------------------------------------
(* The two clocks. *)

LEMMA StampNext ==
  ASSUME TypeOK, UpdaterInTime, StampTellsAge, [Next]_vars
  PROVE  StampTellsAge'
<1>1. ASSUME NEW r \in Requests, Fetched(r) PROVE StampTellsAge'
  <2>1. PICK reply \in SUBSET Catalogue, taken \in 0..request[r].waited :
          Store(Parsed(reply), taken, request[r].waited)
    BY <1>1 DEF Fetched
  <2> QED BY <2>1, ServersNumbers DEF Store, StampTellsAge, TypeOK
<1>2. CASE Refreshed
  <2>1. PICK reply \in SUBSET Catalogue, taken \in 0..updater.waited :
          Store(Parsed(reply), taken, 0)
    BY <1>2 DEF Refreshed
  <2>2. taken <= Patience
    BY <1>2, ServersNumbers DEF Refreshed, UpdaterInTime, TypeOK
  <2> QED BY <2>1, <2>2, ServersNumbers DEF Store, StampTellsAge, TypeOK
<1>3. CASE Tick
  <2>1. cache'.age = Older(cache.age) /\ cache'.stamp = Older(cache.stamp)
    BY <1>3 DEF Tick, TypeOK
  <2>2. cache.age \in 0..Old /\ cache.stamp \in 0..Old
    BY DEF TypeOK
  <2> QED BY <2>1, <2>2, OlderBounds, ServersNumbers DEF StampTellsAge
<1>4. CASE Restart
  BY <1>4, ServersNumbers DEF Restart, Empty, StampTellsAge
<1>5. CASE UNCHANGED cache
  BY <1>5 DEF StampTellsAge
<1>6. \/ UNCHANGED cache \/ Refreshed \/ Tick \/ Restart
      \/ \E r \in Requests : Fetched(r)
  BY DEF Next, List, ServerInfo, Ask, RequestStep, NotFetched, HealthAsked, HealthStep,
         HealthPinged, HealthAccount, HealthReplied, Check, UpdaterStep, Wake, NotRefreshed,
         vars
<1> QED BY <1>1, <1>2, <1>3, <1>4, <1>5, <1>6

(* What is answered was in the cache within its TTL, or was just fetched. *)
LEMMA AnswerNext ==
  ASSUME TypeOK, UpdaterInTime, StampTellsAge, RecentAnswers, [Next]_vars
  PROVE  RecentAnswers'
<1>1. ASSUME NEW r \in Requests, NEW op, NEW arg, Ask(r, op, arg) PROVE RecentAnswers'
  <2>1. CASE UNCHANGED answer
    BY <2>1 DEF RecentAnswers
  <2>2. CASE /\ Fresh
             /\ answer' = [from |-> "cache", age |-> cache.age,
                           servers |-> Serve(op, arg, cache.servers)]
    <3>1. cache.age < Old
      BY <2>2, ServersNumbers DEF Fresh, StampTellsAge, TypeOK
    <3> QED BY <2>2, <3>1 DEF RecentAnswers
  <2> QED BY <1>1, <2>1, <2>2 DEF Ask
<1>2. ASSUME NEW r \in Requests, Fetched(r) PROVE RecentAnswers'
  <2>1. PICK reply \in SUBSET Catalogue, taken \in 0..request[r].waited :
          answer' = [from |-> "api", age |-> taken,
                     servers |-> Serve(request[r].op, request[r].arg, Parsed(reply))]
    BY <1>2 DEF Fetched
  <2>2. taken < Old
    BY ServersNumbers DEF TypeOK
  <2> QED BY <2>1, <2>2 DEF RecentAnswers
<1>3. ASSUME NEW r \in Requests, NotFetched(r) PROVE RecentAnswers'
  BY <1>3 DEF NotFetched, RecentAnswers
<1>4. CASE Restart
  BY <1>4 DEF Restart, NoAnswer, RecentAnswers
<1>5. CASE UNCHANGED answer
  BY <1>5 DEF RecentAnswers
<1>6. \/ UNCHANGED answer \/ Restart
      \/ \E r \in Requests : List(r) \/ ServerInfo(r) \/ Fetched(r) \/ NotFetched(r)
  BY DEF Next, RequestStep, HealthAsked, HealthStep, HealthPinged, HealthAccount,
         HealthReplied, Check, UpdaterStep, Wake, Refreshed, NotRefreshed, Tick, vars
<1> QED BY <1>1, <1>2, <1>3, <1>4, <1>5, <1>6 DEF List, ServerInfo

LEMMA VerdictNext ==
  ASSUME TypeOK, UpdaterInTime, VerdictHolds, [Next]_vars
  PROVE  VerdictHolds'
<1>1. ASSUME NEW r \in Requests, Fetched(r) PROVE VerdictHolds'
  <2>1. PICK reply \in SUBSET Catalogue, taken \in 0..request[r].waited :
          Store(Parsed(reply), taken, request[r].waited)
    BY <1>1 DEF Fetched
  <2>2. UNCHANGED health /\ health.waited \in Nat /\ request[r].waited <= Patience
    BY <1>1, ServersNumbers DEF Fetched, TypeOK
  <2>3. cache'.is /\ cache'.stamp < Ttl + health'.waited
    BY <2>1, <2>2, ServersNumbers DEF Store, TypeOK
  <2> QED BY <2>3 DEF VerdictHolds
<1>2. CASE Refreshed
  <2>1. cache'.is /\ cache'.stamp = 0 /\ UNCHANGED health /\ health.waited \in Nat
    BY <1>2, ServersNumbers DEF Refreshed, Store, TypeOK
  <2> QED BY <2>1, ServersNumbers DEF VerdictHolds
<1>3. CASE Tick
  <2>1. cache'.is = cache.is /\ cache'.stamp = Older(cache.stamp)
    BY <1>3 DEF Tick, TypeOK
  <2>2. health'.at = "account" => health.at = "account" /\ health'.waited = health.waited + 1
                                 /\ health'.fresh = health.fresh
    BY <1>3 DEF Tick, Waiting, TypeOK
  <2>3. health'.at # "replied"
    BY <1>3 DEF Tick, Waiting, TypeOK
  <2>4. Older(cache.stamp) <= cache.stamp + 1 /\ Older(cache.stamp) \in Nat
    BY OlderBounds DEF TypeOK
  <2>5. cache.stamp \in Nat /\ health.waited \in Nat
    BY DEF TypeOK
  <2>6. CASE health'.at = "account" /\ health'.fresh
    <3>1. cache.is /\ cache.stamp < Ttl + health.waited
      BY <2>2, <2>6 DEF VerdictHolds
    <3> QED BY <2>1, <2>2, <2>4, <2>5, <2>6, <3>1, ServersNumbers DEF VerdictHolds
  <2> QED BY <2>3, <2>6 DEF VerdictHolds
<1>4. CASE Restart
  BY <1>4 DEF Restart, NoHealth, VerdictHolds
<1>5. CASE HealthAsked \/ HealthReplied
  BY <1>5 DEF HealthAsked, HealthReplied, NoHealth, VerdictHolds
<1>6. CASE HealthPinged
  <2>1. UNCHANGED cache /\ health'.waited = 0 /\ health'.fresh = Fresh
    BY <1>6 DEF HealthPinged, HealthRead
  <2>2. Fresh => cache.is /\ cache.stamp < Ttl + 0
    BY ServersNumbers DEF Fresh, TypeOK
  <2> QED BY <2>1, <2>2 DEF VerdictHolds
<1>7. CASE HealthAccount
  BY <1>7 DEF HealthAccount, VerdictHolds, TypeOK
<1>8. CASE UNCHANGED <<cache, health>>
  BY <1>8 DEF VerdictHolds
<1>9. \/ UNCHANGED <<cache, health>> \/ Refreshed \/ Tick \/ Restart \/ HealthAsked
      \/ HealthReplied \/ HealthPinged \/ HealthAccount \/ \E r \in Requests : Fetched(r)
  BY DEF Next, List, ServerInfo, Ask, RequestStep, NotFetched, HealthStep, Check, UpdaterStep,
         Wake, NotRefreshed, vars
<1> QED BY <1>1, <1>2, <1>3, <1>4, <1>5, <1>6, <1>7, <1>8, <1>9

-----------------------------------------------------------------------------
LEMMA Inductive == Spec => []IInv
<1>1. Init => IInv
  BY TypeInit, ServersNumbers
     DEF IInv, Init, Started, UpdaterInTime, StampTellsAge, Empty, VerdictHolds, NoHealth,
         RecentAnswers, NoAnswer
<1>2. IInv /\ [Next]_vars => IInv'
  BY TypeNext, StampNext, AnswerNext, VerdictNext DEF IInv
<1> QED BY <1>1, <1>2, PTL DEF Spec

(* No answer says anything older than a TTL and the length of a fetch,     *)
(* whatever fetches overlap, fail or end out of order.                     *)
THEOREM AnswersRecent == Spec => []RecentAnswers
<1>1. IInv => RecentAnswers
  BY DEF IInv
<1> QED BY <1>1, Inductive, PTL

(* A list the health route calls fresh is there when the reply is sent,    *)
(* and past its TTL by no more than the call for the account.              *)
THEOREM VerdictRecent == Spec => []HealthRecent
<1>1. IInv => HealthRecent
  BY ServersNumbers DEF IInv, VerdictHolds, HealthRecent, TypeOK
<1> QED BY <1>1, Inductive, PTL

-----------------------------------------------------------------------------
(* Dns: the cache. *)

(* The dictionary of the cache: one entry per name, by age, the oldest     *)
(* first.                                                                  *)
OnePerName(s) == \A i, j \in 1..Len(s) : s[i].name = s[j].name => i = j
ByAge(s) == \A i, j \in 1..Len(s) : i <= j => s[i].age >= s[j].age

CacheInv(s) ==
  /\ s \in Seq(Entries) /\ Len(s) <= CacheSize
  /\ OnePerName(s) /\ ByAge(s)

DnsRestType ==
  /\ blocked \subseteq Names
  /\ since \in 0..Longest + 1
  /\ interval \in Numbers
  /\ on \subseteq Lists /\ every \in Intervals
  /\ loop \in {"boot", "download", "sleep"}
  /\ todo \subseteq Lists /\ (todo # {} <=> loop = "download")
  /\ fetched \subseteq Names
  /\ listening \in BOOLEAN
  /\ queries \in Seq(Questions) /\ Len(queries) <= MaxQueries

LastType == last \in [asked : Questions \cup {Nothing}, got : Entries \cup {Refused, Lost}]

DnsInv == CacheInv(answers) /\ DnsRestType /\ LastType /\ NoStaleAnswer

(* The constants that are numbers.                                         *)
LEMMA DnsNumbers ==
  /\ Cap \in Nat /\ Floor \in Nat /\ 0 < Floor /\ Floor <= Cap
  /\ CacheSize \in Nat /\ MaxQueries \in Nat /\ Longest \in Nat
BY DnsAssumption

(* What is known of a list of entries.                                     *)
LEMMA SeqEntry ==
  ASSUME NEW s \in Seq(Entries)
  PROVE  /\ Len(s) \in Nat /\ DOMAIN s = 1..Len(s)
         /\ \A i \in 1..Len(s) :
              /\ s[i] \in Entries /\ s[i].name \in Names
              /\ s[i].age \in Nat /\ s[i].age <= Cap + 1
              /\ s[i].ttl \in Lives
<1>1. s \in [1..Len(s) -> Entries]
  BY LenProperties
<1>2. \A e \in Entries : e.name \in Names /\ e.age \in 0..Cap + 1 /\ e.ttl \in Lives
  BY DEF Entries
<1>3. \A i \in 1..Len(s) : s[i] \in Entries
  BY <1>1
<1> QED BY <1>1, <1>2, <1>3, LenProperties, DnsNumbers

(* Without an entry the others keep their order. *)
LEMMA WithoutAnEntry ==
  ASSUME CacheInv(answers), NEW k \in 1..Len(answers)
  PROVE  /\ CacheInv(Without(k)) /\ Len(Without(k)) = Len(answers) - 1
         /\ \A j \in 1..Len(Without(k)) :
              \E i \in 1..Len(answers) \ {k} : Without(k)[j] = answers[i]
<1> DEFINE n == Len(answers)
           at(j) == IF j < k THEN j ELSE j + 1
           s == Without(k)
<1>1. n \in Nat /\ n <= CacheSize /\ \A i \in 1..n : answers[i] \in Entries
  BY SeqEntry DEF CacheInv
<1>2. k \in Nat /\ k >= 1 /\ k <= n
  BY <1>1
<1>3. n - 1 \in Nat /\ \A j \in 1..n - 1 : at(j) \in 1..n /\ at(j) # k
  BY <1>1, <1>2
<1>4. \A j \in 1..n - 1 : s[j] = answers[at(j)]
  BY DEF Without
<1>5. s \in [1..n - 1 -> Entries]
  <2>1. \A j \in 1..n - 1 : (IF j < k THEN answers[j] ELSE answers[j + 1]) \in Entries
    BY <1>1, <1>2
  <2> QED BY <2>1 DEF Without
<1>6. s \in Seq(Entries) /\ Len(s) = n - 1
  <2> HIDE DEF s, n
  <2>1. s \in Seq(Entries)
    BY <1>3, <1>5, IsASeq
  <2>2. DOMAIN s = 1..n - 1
    BY <1>5
  <2> QED BY <2>1, <2>2, <1>3, LenProperties
<1>7. OnePerName(s)
  <2> SUFFICES ASSUME NEW i \in 1..n - 1, NEW j \in 1..n - 1, s[i].name = s[j].name
               PROVE  i = j
    BY <1>6 DEF OnePerName
  <2>1. answers[at(i)].name = answers[at(j)].name
    BY <1>4
  <2>2. at(i) = at(j)
    <3> HIDE DEF at, s
    <3> QED BY <2>1, <1>3 DEF CacheInv, OnePerName
  <2> QED BY <2>2, <1>1, <1>2
<1>8. ByAge(s)
  <2> SUFFICES ASSUME NEW i \in 1..n - 1, NEW j \in 1..n - 1, i <= j
               PROVE  s[i].age >= s[j].age
    BY <1>6 DEF ByAge
  <2>1. at(i) <= at(j)
    BY <1>1, <1>2
  <2>2. answers[at(i)].age >= answers[at(j)].age
    <3> HIDE DEF at, s
    <3> QED BY <2>1, <1>3 DEF CacheInv, ByAge
  <2> QED BY <2>2, <1>4
<1>9. \A j \in 1..n - 1 : \E i \in 1..n \ {k} : s[j] = answers[i]
  <2> HIDE DEF at, s
  <2> QED BY <1>3, <1>4
<1>10. n - 1 <= CacheSize
  BY <1>1, DnsNumbers
<1> HIDE DEF s, n
<1>11. CacheInv(s)
  BY <1>6, <1>7, <1>8, <1>10 DEF CacheInv
<1> QED BY <1>6, <1>9, <1>11 DEF s, n

(* get leaves no entry of a name it found none for. *)
LEMMA PurgedIs ==
  ASSUME CacheInv(answers), NEW n \in Names, Lookup(n) = {}
  PROVE  /\ CacheInv(Purged(n))
         /\ \A j \in 1..Len(Purged(n)) : Purged(n)[j].name # n
<1>1. CASE \E i \in 1..Len(answers) : answers[i].name = n /\ Expired(answers[i])
  <2> DEFINE k == CHOOSE i \in 1..Len(answers) : answers[i].name = n
  <2>1. k \in 1..Len(answers) /\ answers[k].name = n
    BY <1>1
  <2>2. Purged(n) = Without(k)
    BY <1>1 DEF Purged
  <2> HIDE DEF k
  <2>3. /\ CacheInv(Without(k))
        /\ \A j \in 1..Len(Without(k)) :
             \E i \in 1..Len(answers) \ {k} : Without(k)[j] = answers[i]
    BY <2>1, WithoutAnEntry
  <2>4. \A i \in 1..Len(answers) \ {k} : answers[i].name # n
    BY <2>1 DEF CacheInv, OnePerName
  <2> QED BY <2>2, <2>3, <2>4
<1>2. CASE ~ \E i \in 1..Len(answers) : answers[i].name = n /\ Expired(answers[i])
  <2>1. Purged(n) = answers
    BY <1>2 DEF Purged
  <2>2. \A j \in 1..Len(answers) : answers[j].name # n
    BY <1>2 DEF Lookup
  <2> QED BY <2>1, <2>2
<1> QED BY <1>1, <1>2

(* The oldest makes room. *)
LEMMA TailIs ==
  ASSUME NEW s, CacheInv(s), s # <<>>
  PROVE  /\ CacheInv(Tail(s)) /\ Len(Tail(s)) = Len(s) - 1
         /\ \A j \in 1..Len(Tail(s)) : j + 1 \in 1..Len(s) /\ Tail(s)[j] = s[j + 1]
<1>1. s \in Seq(Entries) /\ Len(s) \in Nat /\ Len(s) <= CacheSize
  BY SeqEntry DEF CacheInv
<1>2. /\ Tail(s) \in Seq(Entries) /\ Len(Tail(s)) = Len(s) - 1
      /\ \A j \in 1..Len(Tail(s)) : Tail(s)[j] = s[j + 1]
  BY <1>1, HeadTailProperties
<1>3. \A j \in 1..Len(Tail(s)) : j \in Nat /\ j + 1 \in 1..Len(s)
  BY <1>1, <1>2
<1>4. OnePerName(Tail(s)) /\ ByAge(Tail(s))
  <2> SUFFICES ASSUME NEW i \in 1..Len(Tail(s)), NEW j \in 1..Len(Tail(s))
               PROVE  /\ Tail(s)[i].name = Tail(s)[j].name => i = j
                      /\ i <= j => Tail(s)[i].age >= Tail(s)[j].age
    BY DEF OnePerName, ByAge
  <2>1. /\ i \in Nat /\ j \in Nat /\ i + 1 \in 1..Len(s) /\ j + 1 \in 1..Len(s)
        /\ Tail(s)[i] = s[i + 1] /\ Tail(s)[j] = s[j + 1]
    BY <1>2, <1>3
  <2>2. s[i + 1].name = s[j + 1].name => i + 1 = j + 1
    BY <2>1 DEF CacheInv, OnePerName
  <2>3. i + 1 <= j + 1 => s[i + 1].age >= s[j + 1].age
    BY <2>1 DEF CacheInv, ByAge
  <2> QED BY <2>1, <2>2, <2>3
<1>5. Len(Tail(s)) <= CacheSize
  BY <1>1, <1>2, DnsNumbers
<1> QED BY <1>2, <1>3, <1>4, <1>5 DEF CacheInv

(* put, for a name that is not there, adds the youngest at the end. *)
LEMMA PutIs ==
  ASSUME NEW s, CacheInv(s), NEW e \in Entries, e.age = 0, CacheSize > 0,
         \A j \in 1..Len(s) : s[j].name # e.name
  PROVE  CacheInv(Put(s, e))
<1> DEFINE room == IF Len(s) >= CacheSize THEN Tail(s) ELSE s
<1>0. Len(s) \in Nat /\ CacheSize \in Nat /\ Len(s) <= CacheSize
  BY SeqEntry, DnsNumbers DEF CacheInv
<1>1. /\ CacheInv(room) /\ Len(room) < CacheSize
      /\ \A j \in 1..Len(room) : room[j].name # e.name
  <2>1. CASE Len(s) >= CacheSize
    <3>1. s # <<>>
      BY <2>1, <1>0
    <3>2. room = Tail(s)
      BY <2>1
    <3> HIDE DEF room
    <3> QED BY <3>1, <3>2, <1>0, TailIs
  <2>2. CASE Len(s) < CacheSize
    <3>1. room = s
      BY <2>2, <1>0
    <3> HIDE DEF room
    <3> QED BY <2>2, <3>1
  <2> QED BY <1>0, <2>1, <2>2
<1>2. Put(s, e) = Append(room, e)
  BY <1>1 DEF Put
<1> HIDE DEF room
<1>3. /\ room \in Seq(Entries) /\ Len(room) \in Nat
      /\ \A j \in 1..Len(room) : room[j].age \in Nat
  BY <1>1, SeqEntry DEF CacheInv
<1> DEFINE t == Append(room, e)
<1>4. /\ t \in Seq(Entries) /\ Len(t) = Len(room) + 1
      /\ \A j \in 1..Len(room) : t[j] = room[j]
      /\ t[Len(room) + 1] = e
  BY <1>3, AppendProperties
<1> HIDE DEF t
<1>5. OnePerName(t)
  <2> SUFFICES ASSUME NEW i \in 1..Len(t), NEW j \in 1..Len(t), t[i].name = t[j].name
               PROVE  i = j
    BY DEF OnePerName
  <2>1. CASE i \in 1..Len(room) /\ j \in 1..Len(room)
    BY <1>1, <1>4, <2>1 DEF CacheInv, OnePerName
  <2>2. CASE i = Len(room) + 1
    BY <1>1, <1>3, <1>4, <2>2
  <2>3. CASE j = Len(room) + 1
    BY <1>1, <1>3, <1>4, <2>3
  <2> QED BY <1>3, <1>4, <2>1, <2>2, <2>3
<1>6. ByAge(t)
  <2> SUFFICES ASSUME NEW i \in 1..Len(t), NEW j \in 1..Len(t), i <= j
               PROVE  t[i].age >= t[j].age
    BY DEF ByAge
  <2>1. CASE j \in 1..Len(room)
    <3>1. i \in 1..Len(room)
      BY <1>3, <1>4, <2>1
    <3> QED BY <3>1, <2>1, <1>1, <1>4 DEF CacheInv, ByAge
  <2>2. CASE j = Len(room) + 1
    <3>1. t[j].age = 0
      BY <1>4, <2>2
    <3>2. t[i].age \in Nat
      BY <1>4, SeqEntry
    <3> QED BY <3>1, <3>2
  <2> QED BY <1>3, <1>4, <2>1, <2>2
<1>7. Len(t) <= CacheSize
  BY <1>0, <1>1, <1>3, <1>4
<1>8. CacheInv(t)
  BY <1>4, <1>5, <1>6, <1>7 DEF CacheInv
<1> QED BY <1>2, <1>8 DEF t

(* As time passes all entries age, up to one more than the cap. *)
LEMMA CacheAges ==
  ASSUME CacheInv(answers), DnsTick
  PROVE  CacheInv(answers')
<1> DEFINE n == Len(answers)
           older(i) == [answers[i] EXCEPT !.age = UpTo(@, Cap + 1)]
<1>0. Cap \in Nat
  BY DnsNumbers
<1>1. n \in Nat /\ n <= CacheSize /\ \A i \in 1..n :
        /\ answers[i] \in Entries
        /\ answers[i].age \in Nat /\ answers[i].age <= Cap + 1
  BY SeqEntry DEF CacheInv
<1>2. answers' = [i \in 1..n |-> older(i)]
  BY DEF DnsTick
<1>3. \A i \in 1..n :
        /\ older(i) \in Entries /\ older(i).name = answers[i].name
        /\ older(i).age = UpTo(answers[i].age, Cap + 1)
  <2> TAKE i \in 1..n
  <2>1. UpTo(answers[i].age, Cap + 1) \in 0..Cap + 1
    BY <1>0, <1>1 DEF UpTo
  <2>2. answers[i] \in Entries
    BY <1>1
  <2> QED BY <2>1, <2>2 DEF Entries
<1>4. answers' \in [1..n -> Entries]
  <2> HIDE DEF older
  <2> QED BY <1>2, <1>3
<1>5. answers' \in Seq(Entries) /\ Len(answers') = n
  <2> HIDE DEF older, n
  <2>1. answers' \in Seq(Entries)
    BY <1>1, <1>4, IsASeq
  <2> QED BY <2>1, <1>1, <1>4, LenProperties
<1>6. \A i \in 1..n : /\ answers'[i].name = answers[i].name
                      /\ answers'[i].age = UpTo(answers[i].age, Cap + 1)
  <2> HIDE DEF older
  <2> QED BY <1>2, <1>3
<1>7. OnePerName(answers')
  BY <1>5, <1>6 DEF OnePerName, CacheInv
<1>8. ByAge(answers')
  <2> SUFFICES ASSUME NEW i \in 1..n, NEW j \in 1..n, i <= j
               PROVE  answers'[i].age >= answers'[j].age
    BY <1>5 DEF ByAge
  <2>1. answers[i].age >= answers[j].age
    BY DEF CacheInv, ByAge
  <2> QED BY <2>1, <1>0, <1>1, <1>6 DEF UpTo
<1> QED BY <1>1, <1>5, <1>7, <1>8 DEF CacheInv

(* A query is handled: the cache keeps its order, and what is answered is  *)
(* for the name that was asked and fresh.                                  *)
LEMMA HandleKeeps ==
  ASSUME DnsInv, Handle
  PROVE  /\ CacheInv(answers') /\ LastType' /\ NoStaleAnswer'
         /\ queries # <<>> /\ Head(queries) \in Questions /\ queries' = Tail(queries)
<1> DEFINE q == Head(queries)
<1>1. queries # <<>> /\ queries \in Seq(Questions) /\ queries' = Tail(queries)
  BY DEF Handle, DnsInv, DnsRestType
<1>2. q \in Questions
  BY <1>1, HeadTailProperties
<1>3. q.name \in Names /\ q.qtype \in Types
  BY <1>2 DEF Questions
<1>4. \/ Blocked(q)
      \/ Cached(q)
      \/ Upstream(q)
  BY DEF Handle
<1>5. CacheInv(answers)
  BY DEF DnsInv
<1>6. {Refused, Lost} \cap Entries = {}
  BY DnsAssumption
<1> HIDE DEF q
<1>7. ASSUME NEW got \in {Refused, Lost}, Answer(q, got)
      PROVE  LastType' /\ NoStaleAnswer'
  <2>1. last' = [asked |-> q, got |-> got]
    BY <1>7 DEF Answer
  <2>2. LastType'
    BY <1>2, <2>1 DEF LastType
  <2>3. last'.got \notin Entries
    BY <1>6, <1>7, <2>1
  <2> QED BY <2>2, <2>3 DEF NoStaleAnswer
<1>8. ASSUME NEW e \in Entries, e.name = q.name, ~Expired(e), Answer(q, e)
      PROVE  LastType' /\ NoStaleAnswer'
  <2>1. last' = [asked |-> q, got |-> e]
    BY <1>8 DEF Answer
  <2>2. LastType'
    BY <1>2, <2>1 DEF LastType
  <2>3. e.age <= Keep(e.ttl)
    <3>1. e.age \in Nat /\ e.ttl \in Lives
      BY DnsNumbers DEF Entries
    <3>2. Keep(e.ttl) \in Nat
      BY <3>1, DnsAssumption DEF Keep, Lives
    <3> QED BY <3>1, <3>2, <1>8 DEF Expired
  <2> QED BY <1>8, <2>1, <2>2, <2>3 DEF NoStaleAnswer, Keep
<1>9. CASE Blocked(q)
  BY <1>1, <1>2, <1>5, <1>7, <1>9 DEF Blocked, q
<1>10. CASE Cached(q)
  <2>1. PICK i \in Lookup(q.name) : Answer(q, answers[i]) /\ UNCHANGED answers
    BY <1>10 DEF Cached
  <2>2. i \in 1..Len(answers) /\ answers[i].name = q.name /\ ~Expired(answers[i])
    BY <2>1 DEF Lookup
  <2>3. answers[i] \in Entries
    BY <2>2, <1>5, SeqEntry DEF CacheInv
  <2> QED BY <1>1, <1>2, <1>5, <1>8, <2>1, <2>2, <2>3 DEF q
<1>11. CASE Upstream(q)
  <2>1. Lookup(q.name) = {}
    BY <1>11 DEF Upstream
  <2>2. /\ CacheInv(Purged(q.name))
        /\ \A j \in 1..Len(Purged(q.name)) : Purged(q.name)[j].name # q.name
    BY <1>3, <1>5, <2>1, PurgedIs
  <2>3. CASE Answer(q, Refused) /\ answers' = Purged(q.name)
    BY <1>1, <1>2, <1>7, <2>2, <2>3 DEF q
  <2>4. ASSUME NEW ttl \in Lives, NEW e,
               e = [name |-> q.name, qtype |-> q.qtype, ttl |-> ttl, age |-> 0],
               IF CacheSize = 0 THEN Answer(q, Lost) /\ UNCHANGED answers
               ELSE Answer(q, e) /\ answers' = Put(Purged(q.name), e)
        PROVE  CacheInv(answers') /\ LastType' /\ NoStaleAnswer'
    <3>1. CASE CacheSize = 0
      <4>1. Answer(q, Lost) /\ answers' = answers
        BY <2>4, <3>1
      <4> QED BY <1>5, <1>7, <4>1
    <3>2. CASE CacheSize # 0
      <4>1. Answer(q, e) /\ answers' = Put(Purged(q.name), e) /\ CacheSize > 0
        BY <2>4, <3>2, DnsNumbers
      <4>2. e \in Entries /\ e.name = q.name /\ e.age = 0
        BY <1>3, <2>4, DnsNumbers DEF Entries
      <4>3. ~Expired(e)
        <5>1. Keep(ttl) \in Nat
          BY DnsAssumption DEF Keep, Lives
        <5> QED BY <2>4, <5>1 DEF Expired
      <4>4. CacheInv(answers')
        BY <2>2, <4>1, <4>2, PutIs
      <4> QED BY <1>8, <4>1, <4>2, <4>3, <4>4
    <3> QED BY <3>1, <3>2
  <2> QED BY <1>1, <1>2, <1>11, <2>3, <2>4 DEF Upstream, q
<1> QED BY <1>4, <1>9, <1>10, <1>11

(* What is no query and no time that passes leaves cache and answer alone. *)
LEMMA RestKeeps ==
  ASSUME DnsInv, UNCHANGED <<answers, last>>
  PROVE  CacheInv(answers') /\ LastType' /\ NoStaleAnswer'
BY DEF DnsInv, LastType, NoStaleAnswer

(* A list that was downloaded, or failed, leaves the types as they are.    *)
LEMMA DownloadType ==
  ASSUME DnsRestType, NEW l \in Lists, NEW got \in SUBSET Names, Download(l, got)
  PROVE  DnsRestType'
<1>1. 0 \in 0..Longest + 1
  BY DnsNumbers
<1>2. todo' = todo \ {l} /\ fetched' \subseteq Names /\ todo' \subseteq Lists
  BY DEF Download, DnsRestType
<1>3. CASE todo' = {}
  BY <1>1, <1>2, <1>3 DEF Download, DnsRestType, settings
<1>4. CASE todo' # {}
  BY <1>1, <1>2, <1>4 DEF Download, DnsRestType, settings
<1> QED BY <1>3, <1>4

LEMMA DnsRestTypeNext ==
  ASSUME DnsInv, [DnsNext]_dnsVars
  PROVE  DnsRestType'
<1> USE DEF lists, settings
<1>0. DnsRestType
  BY DEF DnsInv
<1>1. ASSUME NEW q \in Questions, Receive(q)
      PROVE  DnsRestType'
  <2>1. queries' \in Seq(Questions) /\ Len(queries') = Len(queries) + 1
    BY <1>0, <1>1, AppendProperties DEF Receive, DnsRestType
  <2>2. Len(queries') <= MaxQueries
    BY <1>0, <1>1, <2>1, DnsNumbers, LenProperties DEF Receive, DnsRestType
  <2> QED BY <1>0, <1>1, <2>1, <2>2 DEF Receive, DnsRestType
<1>2. CASE Handle
  <2>1. queries # <<>> /\ queries' = Tail(queries)
    BY <1>2, HandleKeeps
  <2>2. queries' \in Seq(Questions) /\ Len(queries') = Len(queries) - 1
    BY <1>0, <2>1, HeadTailProperties DEF DnsRestType
  <2>3. Len(queries') <= MaxQueries
    BY <1>0, <2>2, DnsNumbers, LenProperties DEF DnsRestType
  <2> QED BY <1>0, <1>2, <2>2, <2>3 DEF Handle, DnsRestType
<1>3. CASE Refresh
  <2>1. interval' \in Numbers
    BY <1>0, <1>3 DEF Refresh, DnsRestType, Numbers
  <2>2. CASE on = {}
    BY <1>0, <1>3, <2>1, <2>2 DEF Refresh, DnsRestType
  <2>3. CASE on # {}
    BY <1>0, <1>3, <2>1, <2>3 DEF Refresh, DnsRestType
  <2> QED BY <2>2, <2>3
<1>4. ASSUME NEW l \in Lists, Downloaded(l) \/ Failed(l)
      PROVE  DnsRestType'
  <2>1. Blocks[l] \in SUBSET Names /\ {} \in SUBSET Names
    BY DnsAssumption
  <2> QED BY <1>0, <1>4, <2>1, DownloadType DEF Downloaded, Failed
<1>5. CASE ChangeSettings
  BY <1>0, <1>5 DEF ChangeSettings, DnsRestType
<1>6. CASE DnsTick
  <2>1. since' \in 0..Longest + 1
    BY <1>0, <1>6, DnsNumbers DEF DnsTick, DnsRestType, UpTo
  <2> QED BY <1>0, <1>6, <2>1 DEF DnsTick, DnsRestType
<1>7. CASE UNCHANGED dnsVars
  BY <1>0, <1>7 DEF dnsVars, DnsRestType
<1> QED BY <1>1, <1>2, <1>3, <1>4, <1>5, <1>6, <1>7 DEF DnsNext

LEMMA DnsInvNext ==
  ASSUME DnsInv, [DnsNext]_dnsVars
  PROVE  DnsInv'
<1>1. CacheInv(answers') /\ LastType' /\ NoStaleAnswer'
  <2>1. CASE Handle
    BY <2>1, HandleKeeps
  <2>2. CASE DnsTick
    <3>1. CacheInv(answers')
      BY <2>2, CacheAges DEF DnsInv
    <3>2. last' = last
      BY <2>2 DEF DnsTick
    <3> QED BY <3>1, <3>2 DEF DnsInv, LastType, NoStaleAnswer
  <2>3. CASE UNCHANGED <<answers, last>>
    BY <2>3, RestKeeps
  <2> QED BY <2>1, <2>2, <2>3
      DEF DnsNext, Receive, Refresh, Downloaded, Failed, Download, ChangeSettings, dnsVars
<1>2. CacheInv(answers)'
  BY <1>1 DEF CacheInv, OnePerName, ByAge
<1> QED BY <1>1, <1>2, DnsRestTypeNext DEF DnsInv

LEMMA DnsInvInit == DnsInit => DnsInv
<1> SUFFICES ASSUME DnsInit PROVE DnsInv
  OBVIOUS
<1>1. <<>> \in Seq(Entries) /\ <<>> \in Seq(Questions) /\ Len(<<>>) = 0
  OBVIOUS
<1>2. CacheInv(answers)
  BY <1>1, DnsNumbers DEF DnsInit, CacheInv, OnePerName, ByAge
<1>3. DnsRestType
  <2>1. Longest + 1 \in 0..Longest + 1 /\ Len(queries) <= MaxQueries
    BY <1>1, DnsNumbers DEF DnsInit
  <2> QED BY <1>1, <2>1 DEF DnsInit, DnsRestType
<1>4. LastType
  BY DEF DnsInit, LastType
<1>5. NoStaleAnswer
  BY DnsAssumption DEF DnsInit, NoStaleAnswer
<1> QED BY <1>2, <1>3, <1>4, <1>5 DEF DnsInv

LEMMA DnsInvariant == DnsSpec => []DnsInv
BY DnsInvInit, DnsInvNext, PTL DEF DnsSpec

(* Every state of the DNS server has the declared type: the cache has no   *)
(* more than maxsize entries and one for a name (dns.py:39-64).            *)
THEOREM DnsTypeCorrect == DnsSpec => []DnsTypeOK
<1>1. DnsInv => DnsTypeOK
  BY DEF DnsInv, CacheInv, OnePerName, DnsRestType, LastType, DnsTypeOK
<1> QED BY <1>1, DnsInvariant, PTL

(* The entry that is first in the dictionary is the oldest, so that it is  *)
(* the oldest answer that put evicts (dns.py:61-64): a name is put only    *)
(* after get found none for it, and get has dropped what was expired.      *)
THEOREM OldestMakesRoom == DnsSpec => []OldestFirst
<1>1. DnsInv => OldestFirst
  BY DEF DnsInv, CacheInv, ByAge, OldestFirst
<1> QED BY <1>1, DnsInvariant, PTL

(* No answer is older than its lifetime, within the floor and the cap, and *)
(* every answer is for the name that was asked (dns.py:45-64, 190-201).    *)
THEOREM AnswersAreFresh == DnsSpec => []NoStaleAnswer
<1>1. DnsInv => NoStaleAnswer
  BY DEF DnsInv
<1> QED BY <1>1, DnsInvariant, PTL

(* A blocked name is refused even when its answer is cached, and no other  *)
(* is kept from its cached answer (dns.py:258-271).                        *)
THEOREM ListsComeFirst == DnsSpec => BlocklistFirst
<1>1. ASSUME DnsInv, DnsNext, queries' # queries, Len(queries') < Len(queries)
      PROVE  LET n == Head(queries).name IN
             /\ n \in blocked => last'.got = Refused
             /\ n \notin blocked /\ Lookup(n) # {}
                  => \E i \in Lookup(n) : last'.got = answers[i]
  <2>1. ASSUME NEW q \in Questions, Receive(q) PROVE FALSE
    <3>1. Len(queries') = Len(queries) + 1 /\ Len(queries) \in Nat
      BY <2>1, AppendProperties, LenProperties DEF Receive, DnsInv, DnsRestType
    <3> QED BY <1>1, <3>1
  <2>2. Handle
    BY <1>1, <2>1 DEF DnsNext, Refresh, Downloaded, Failed, Download, ChangeSettings, DnsTick
  <2> QED BY <2>2 DEF Handle, Blocked, Cached, Upstream, Answer
<1>2. DnsInv /\ [DnsNext]_dnsVars =>
        [queries' # queries /\ Len(queries') < Len(queries) =>
           LET n == Head(queries).name IN
           /\ n \in blocked => last'.got = Refused
           /\ n \notin blocked /\ Lookup(n) # {}
                => \E i \in Lookup(n) : last'.got = answers[i]]_dnsVars
  BY <1>1
<1> QED BY <1>2, DnsInvariant, PTL DEF DnsSpec, BlocklistFirst
=============================================================================
