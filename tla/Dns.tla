-------------------------------- MODULE Dns ---------------------------------
(***************************************************************************)
(* The DNS server of api/services/dns.py: the answer cache, the blocklists *)
(* with their refresh loop, and the path of a query through both to the    *)
(* upstream resolvers.  resolve() calls dnspython without an await, so a   *)
(* query is one step of the event loop; a refresh of the blocklists awaits *)
(* every download, and queries are answered in between.                    *)
(*                                                                         *)
(* Upstreams, list servers and the settings file are external.  Time is    *)
(* kept as what is left of it, or how long ago, so that it has no bound.   *)
(* A definition X_Y before X is X with the plausible defect Y.  Names that *)
(* module Servers has too begin with Dns: CacheProofs extends both.        *)
(***************************************************************************)
EXTENDS Naturals, Sequences

CONSTANTS
  Names,       \* domain names
  Types,       \* query types
  Ttls,        \* lifetimes upstream gives its records
  Nothing,     \* no question; an answer without records
  Refused,     \* an NXDOMAIN made here
  Lost,        \* no answer: _handle raised
  Floor, Cap,  \* _extract_ttl: at least 30 s, at most 300 s
  CacheSize,   \* maxsize of the cache
  Lists,       \* the blocklists
  Rank,        \* the order they are downloaded in
  Blocks,      \* the names on each of them
  Intervals,   \* values of dns_blocklist_refresh_interval, Invalid for no number
  Invalid,
  Longest,     \* the longest of them
  MaxQueries   \* bound on datagrams waiting for their task

Numbers == Intervals \ {Invalid}

Lives == Ttls \cup {Nothing}
Questions == [name : Names, qtype : Types]

(* An entry: the question it answered, the lifetime upstream gave it, and  *)
(* its age.                                                                *)
Entries == [name : Names, qtype : Types, ttl : Lives, age : 0..Cap + 1]

ASSUME DnsAssumption ==
  /\ Ttls \subseteq Nat /\ Nothing \notin Nat
  /\ Floor \in Nat /\ Cap \in Nat /\ Floor <= Cap /\ Floor > 0
  /\ {CacheSize, MaxQueries} \subseteq Nat
  /\ {Refused, Lost} \cap Entries = {}
  /\ Rank \in [Lists -> Nat]
  /\ Blocks \in [Lists -> SUBSET Names]
  /\ Invalid \notin Nat /\ Numbers \subseteq Nat
  /\ Longest \in Numbers /\ \A n \in Numbers : n <= Longest

VARIABLES
  answers,    \* the entries of DNSCache._cache, the oldest first
  blocked,    \* BlocklistManager._blocked
  since,      \* time since _last_refresh, up to one more than any interval
  interval,   \* _refresh_interval
  on,         \* settings: the lists that are switched on
  every,      \* settings: dns_blocklist_refresh_interval
  loop,       \* where run() is: boot, download or sleep
  todo,       \* lists a refresh has still to download
  fetched,    \* the names it has downloaded
  listening,  \* the socket is open
  queries,    \* datagrams received whose _handle has not run
  last        \* the last query handled, and what came of it

dnsVars == <<answers, blocked, since, interval, on, every, loop, todo, fetched, listening,
             queries, last>>
lists == <<blocked, since, interval, loop, todo, fetched, listening>>
settings == <<on, every>>

DnsTypeOK ==
  /\ answers \in Seq(Entries) /\ Len(answers) <= CacheSize
  /\ \A i, j \in 1..Len(answers) : answers[i].name = answers[j].name => i = j
  /\ blocked \subseteq Names
  /\ since \in 0..Longest + 1
  /\ interval \in Numbers
  /\ on \subseteq Lists /\ every \in Intervals
  /\ loop \in {"boot", "download", "sleep"}
  /\ todo \subseteq Lists /\ (todo # {} <=> loop = "download")
  /\ fetched \subseteq Names
  /\ listening \in BOOLEAN
  /\ queries \in Seq(Questions) /\ Len(queries) <= MaxQueries
  /\ last \in [asked : Questions \cup {Nothing}, got : Entries \cup {Refused, Lost}]

DnsInit ==
  /\ answers = <<>>
  /\ blocked = {} /\ since = Longest + 1 /\ interval \in Numbers
  /\ on \in SUBSET Lists /\ every \in Intervals
  /\ loop = "boot" /\ todo = {} /\ fetched = {}
  /\ listening = FALSE
  /\ queries = <<>>
  /\ last = [asked |-> Nothing, got |-> Refused]

-----------------------------------------------------------------------------
(* The cache. *)

Keep(ttl) == IF ttl = Nothing \/ ttl > Cap THEN Cap ELSE IF ttl < Floor THEN Floor ELSE ttl

Expired_OneLate(e) == e.age > Keep(e.ttl) + 1

Expired(e) == e.age > Keep(e.ttl)

(* get: an expired entry is dropped by the query that finds it. *)
Lookup(n) == {i \in 1..Len(answers) : answers[i].name = n /\ ~Expired(answers[i])}

Without(i) == [j \in 1..Len(answers) - 1 |-> IF j < i THEN answers[j] ELSE answers[j + 1]]

Purged(n) ==
  IF \E i \in 1..Len(answers) : answers[i].name = n /\ Expired(answers[i])
  THEN Without(CHOOSE i \in 1..Len(answers) : answers[i].name = n) ELSE answers

(* put: the first entry makes room; a name that is there keeps its place. *)
Put(entries, e) ==
  LET room == IF Len(entries) >= CacheSize THEN Tail(entries) ELSE entries
  IN  IF \E i \in 1..Len(room) : room[i].name = e.name
      THEN [i \in 1..Len(room) |-> IF room[i].name = e.name THEN e ELSE room[i]]
      ELSE Append(room, e)

-----------------------------------------------------------------------------
(* Queries. *)

Receive(q) ==
  /\ listening /\ Len(queries) < MaxQueries
  /\ queries' = Append(queries, q)
  /\ UNCHANGED <<answers, lists, settings, last>>

Answer(q, got) == last' = [asked |-> q, got |-> got]

Blocked(q) == q.name \in blocked /\ Answer(q, Refused) /\ UNCHANGED answers

Cached(q) ==
  \E i \in Lookup(q.name) : Answer(q, answers[i]) /\ UNCHANGED answers

(* An upstream answers, and the answer is cached: with no room for any,    *)
(* put raises.  Or none does.                                              *)
Upstream(q) ==
  /\ Lookup(q.name) = {}
  /\ \/ \E ttl \in Lives :
          LET e == [name |-> q.name, qtype |-> q.qtype, ttl |-> ttl, age |-> 0]
          IN IF CacheSize = 0 THEN Answer(q, Lost) /\ UNCHANGED answers
             ELSE Answer(q, e) /\ answers' = Put(Purged(q.name), e)
     \/ Answer(q, Refused) /\ answers' = Purged(q.name)

Handle_CacheFirst ==
  /\ queries # <<>> /\ queries' = Tail(queries)
  /\ LET q == Head(queries) IN
     \/ Cached(q)
     \/ Lookup(q.name) = {} /\ Blocked(q)
     \/ q.name \notin blocked /\ Upstream(q)
  /\ UNCHANGED <<lists, settings>>

(* handle_query: blocklist, cache, upstream. *)
Handle ==
  /\ queries # <<>> /\ queries' = Tail(queries)
  /\ LET q == Head(queries) IN
     \/ Blocked(q)
     \/ q.name \notin blocked /\ (Cached(q) \/ Upstream(q))
  /\ UNCHANGED <<lists, settings>>

-----------------------------------------------------------------------------
(* The loop of run() and its refresh. *)

NeedsRefresh == since > interval

(* _refresh_blocklists: settings are read again; with every list off there *)
(* is nothing to download, and the lists in force stay.                    *)
Refresh ==
  /\ loop = "boot" \/ (loop = "sleep" /\ NeedsRefresh)
  /\ interval' = IF every = Invalid THEN interval ELSE every
  /\ todo' = on
  /\ fetched' = {}
  /\ loop' = IF on = {} THEN "sleep" ELSE "download"
  /\ listening' = (listening \/ on = {})
  /\ UNCHANGED <<answers, blocked, since, settings, queries, last>>

Download_OverBlocked(l, got) ==
  /\ loop = "download"
  /\ l \in todo /\ \A k \in todo : Rank[l] <= Rank[k]
  /\ todo' = todo \ {l}
  /\ fetched' = fetched \cup got
  /\ IF todo' # {} THEN UNCHANGED <<blocked, since, loop, listening>>
     ELSE blocked' = blocked \cup fetched' /\ since' = 0 /\ loop' = "sleep" /\ listening' = TRUE
  /\ UNCHANGED <<answers, interval, settings, queries, last>>

(* One list has been downloaded, or failed and adds nothing.  After the    *)
(* last, what was downloaded takes the place of the lists in force.        *)
Download(l, got) ==
  /\ loop = "download"
  /\ l \in todo /\ \A k \in todo : Rank[l] <= Rank[k]
  /\ todo' = todo \ {l}
  /\ fetched' = fetched \cup got
  /\ IF todo' # {} THEN UNCHANGED <<blocked, since, loop, listening>>
     ELSE blocked' = fetched' /\ since' = 0 /\ loop' = "sleep" /\ listening' = TRUE
  /\ UNCHANGED <<answers, interval, settings, queries, last>>

Downloaded(l) == Download(l, Blocks[l])
Failed(l) == Download(l, {})

-----------------------------------------------------------------------------
ChangeSettings ==
  /\ on' \in SUBSET Lists /\ every' \in Intervals
  /\ UNCHANGED <<answers, lists, queries, last>>

UpTo(n, bound) == IF n < bound THEN n + 1 ELSE bound

DnsTick ==
  /\ answers' = [i \in 1..Len(answers) |-> [answers[i] EXCEPT !.age = UpTo(@, Cap + 1)]]
  /\ since' = UpTo(since, Longest + 1)
  /\ UNCHANGED <<blocked, interval, loop, todo, fetched, listening, settings, queries, last>>

DnsNext ==
  \/ \E q \in Questions : Receive(q)
  \/ Handle \/ Refresh
  \/ \E l \in Lists : Downloaded(l) \/ Failed(l)
  \/ ChangeSettings \/ DnsTick

DnsSpec == DnsInit /\ [][DnsNext]_dnsVars

(* The event loop goes on, time passes, and a list that is asked for again *)
(* and again is delivered at last.                                         *)
DnsFairness ==
  /\ WF_dnsVars(Handle) /\ WF_dnsVars(DnsTick) /\ WF_dnsVars(Refresh)
  /\ \A l \in Lists : WF_dnsVars(Failed(l)) /\ SF_dnsVars(Downloaded(l))

DnsFairSpec == DnsSpec /\ DnsFairness

-----------------------------------------------------------------------------
(* A name on the lists in force is refused, be it in the cache or not, and *)
(* other names are never refused by them.                                  *)
BlocklistFirst ==
  [][queries' # queries /\ Len(queries') < Len(queries) =>
       LET n == Head(queries).name IN
       /\ n \in blocked => last'.got = Refused
       /\ n \notin blocked /\ Lookup(n) # {} => \E i \in Lookup(n) : last'.got = answers[i]]_dnsVars

(* What makes room is the oldest answer (dns.py:61-63): the order of a      *)
(* dictionary is the order of age only while no name is stored again that  *)
(* is still there.                                                         *)
OldestFirst == \A i, j \in 1..Len(answers) : i <= j => answers[i].age >= answers[j].age

(* An answer is for the name that was asked, and no older than upstream    *)
(* allows, or than the floor for records that live shorter.                *)
NoStaleAnswer ==
  last.got \in Entries =>
    /\ last.got.name = last.asked.name
    /\ last.got.age <= IF last.got.ttl = Nothing \/ last.got.ttl > Cap THEN Cap
                       ELSE IF last.got.ttl < Floor THEN Floor ELSE last.got.ttl

InForce(l) == Blocks[l] \subseteq blocked
Only(l) == Blocks[l] \ UNION {Blocks[k] : k \in Lists \ {l}}

(* The settings of the blocklists take effect without a restart, though    *)
(* not "immediately" (TECHNICAL_PRIMER.md, Hot-Reload): run() reads them   *)
(* again only when a refresh is due.  In the end a list switched on is in  *)
(* force, and one switched off is not while another stays on.  Switching   *)
(* the last one off has no effect: the lists in force stay as they are     *)
(* until some list is on again.                                            *)
ListsFollowSettings ==
  /\ \A l \in Lists :
       /\ l \in on ~> (l \notin on \/ InForce(l))
       /\ (l \notin on /\ on # {}) ~> (l \in on \/ on = {} \/ blocked \cap Only(l) = {})
  /\ [][on = {} /\ todo = {} => blocked' = blocked]_dnsVars
=============================================================================
