----------------------------- MODULE ApiProofs ------------------------------
(***************************************************************************)
(* Theorems about two modules of the API, Bridge and Auth.                 *)
(*                                                                         *)
(* Bridge: for any number of clients and any room, a broadcast of the MQTT *)
(* thread reaches every client it found, as long as none is removed while  *)
(* it iterates over the list.                                              *)
(*                                                                         *)
(* Auth: the list of attempts is pruned by one call and appended to by the *)
(* next, and lost with the process.  However far back one begins to count, *)
(* every password compared since is on that list or was forgotten by a     *)
(* restart since, and no restart forgets more of them than the limit.      *)
(***************************************************************************)
EXTENDS Bridge, Auth, SequenceTheorems, FiniteSetTheorems, WellFoundedInduction, TLAPS

(* The list of clients is all that the iteration depends on. *)
ListType ==
  /\ clients \in Seq(Clients)
  /\ next \in Nat \ {0}

RestType ==
  /\ loop \in {"down", "free", "joining"}
  /\ link \in {"none", "refused", "trying", "up"}
  /\ session \in BOOLEAN /\ available \in {"none", "online", "offline"}
  /\ state \in States /\ topic \in States \cup {None}
  /\ thread \in {"none", "idle", "announcing", "awaiting", "telling", "replying"}
  /\ watched \in BOOLEAN /\ overtaken \in BOOLEAN
  /\ due \subseteq Clients /\ overlap \in BOOLEAN
  /\ job \in {"none", "queued", "done"}
  /\ queue \in [Clients -> 0..Room]
  /\ stream \in [Clients -> {"away", "opening", "open", "gone", "abandoned"}]

(* Whoever has not been reached is still ahead of the iteration, and       *)
(* nobody waits to be reached but while one is under way.  A process that  *)
(* is down has no thread.                                                  *)
Ahead(c) == \E i \in next..Len(clients) : clients[i] = c

DueIsAhead ==
  /\ loop = "down" => thread = "none"
  /\ thread \notin {"telling", "replying"} => due = {}
  /\ thread = "telling" /\ ~overlap => \A c \in due : Ahead(c)
  /\ thread = "replying" /\ ~overlap => due = {}

KeepsBroadcast ==
  /\ UNCHANGED <<thread, clients, next, due, overlap>>
  /\ loop' = "down" => loop = "down"

Inv == ListType /\ RestType /\ DueIsAhead

-----------------------------------------------------------------------------
LEMMA WithoutOne ==
  ASSUME NEW s \in Seq(Clients), NEW i \in 1..Len(s)
  PROVE  SubSeq(s, 1, i - 1) \o SubSeq(s, i + 1, Len(s)) \in Seq(Clients)
<1>1. Len(s) \in Nat /\ \A j \in 1..Len(s) : s[j] \in Clients
  BY LenProperties, ElementOfSeq
<1>2. SubSeq(s, 1, i - 1) \in Seq(Clients)
  BY <1>1, SubSeqProperties
<1>3. SubSeq(s, i + 1, Len(s)) \in Seq(Clients)
  BY <1>1, SubSeqProperties
<1> QED BY <1>2, <1>3, ConcatProperties

LEMMA ListNext ==
  ASSUME ListType, [Next]_vars
  PROVE  ListType'
<1>1. CASE Joined \/ Exit
  <2>1. clients' = <<>> /\ next' = 1
    BY <1>1 DEF Joined, Exit, Down
  <2> QED BY <2>1, EmptySeq DEF ListType
<1>2. ASSUME NEW c \in Clients, Subscribe(c) PROVE ListType'
  BY <1>2 DEF Subscribe, ListType, telling
<1>3. ASSUME NEW c \in Clients, Remove(c) PROVE ListType'
  <2>1. PICK i \in DOMAIN clients :
          clients' = SubSeq(clients, 1, i - 1) \o SubSeq(clients, i + 1, Len(clients))
    BY <1>3 DEF Remove
  <2>2. i \in 1..Len(clients)
    BY LenProperties DEF ListType
  <2>3. clients' \in Seq(Clients)
    BY <2>1, <2>2, WithoutOne DEF ListType
  <2> QED BY <1>3, <2>3 DEF Remove, ListType
<1>4. CASE CommandTells \/ Tell \/ Reply
  BY <1>4 DEF CommandTells, Tell, Reply, ListType, streams
<1>5. CASE UNCHANGED <<clients, next>>
  BY <1>5 DEF ListType
<1>6. \/ UNCHANGED <<clients, next>> \/ Joined \/ Exit \/ CommandTells \/ Tell \/ Reply
      \/ \E c \in Clients : Subscribe(c) \/ Remove(c)
  BY DEF Next, ThreadStep, Start, OnConnect, OnDisconnect, BrokerDrops, PublishState, Stop,
         CommandAwaits, RunJob, Command, AwaitEnds, TimedOut, Told, Open, Deliver, Leave,
         Announce, Broadcast, Change, Configure, vars, telling, streams
<1> QED BY <1>1, <1>2, <1>3, <1>4, <1>5, <1>6

LEMMA PutType ==
  ASSUME RestType, NEW c \in Clients
  PROVE  Put(c) \in 0..Room
BY BridgeAssumption DEF RestType, Put

LEMMA RestNext ==
  ASSUME ListType, RestType, [Next]_vars
  PROVE  RestType'
<1>1. CASE Start \/ OnConnect \/ Announce \/ OnDisconnect \/ BrokerDrops \/ PublishState \/ Stop
  <2>1. CASE Start \/ OnConnect \/ Announce
    BY <2>1 DEF Start, OnConnect, Announce, RestType, broker, telling, streams
  <2>2. CASE OnDisconnect \/ BrokerDrops
    BY <2>2 DEF OnDisconnect, BrokerDrops, RestType, broker, telling, streams
  <2>3. CASE PublishState \/ Stop
    BY <2>3 DEF PublishState, Stop, Shown, RestType, broker, telling, streams
  <2> QED BY <1>1, <2>1, <2>2, <2>3
<1>2. CASE Joined \/ Exit
  <2>1. 0 \in 0..Room
    BY BridgeAssumption
  <2> QED BY <1>2, <2>1 DEF Joined, Exit, Down, RestType, broker
<1>3. CASE CommandAwaits \/ RunJob \/ Command \/ AwaitEnds \/ TimedOut \/ Told \/ Reply
  BY <1>3 DEF CommandAwaits, RunJob, Command, AwaitEnds, TimedOut, Told, Reply, Shown, RestType,
              broker, telling, streams
<1>4. CASE CommandTells
  <2>1. Registered \subseteq Clients
    BY ElementOfSeq DEF ListType, Registered
  <2> QED BY <1>4, <2>1 DEF CommandTells, RestType, broker, streams
<1>5. CASE Tell
  <2>1. clients[next] \in Clients
    BY <1>5, ElementOfSeq DEF Tell, ListType
  <2>2. Put(clients[next]) \in 0..Room
    BY <2>1, PutType
  <2> QED BY <1>5, <2>1, <2>2 DEF Tell, RestType, broker
<1>6. ASSUME NEW c \in Clients, Subscribe(c) \/ Open(c) \/ Deliver(c) \/ Leave(c) \/ Remove(c)
      PROVE  RestType'
  <2>1. 0 \in 0..Room
    BY BridgeAssumption
  <2>2. queue' \in [Clients -> 0..Room]
    BY <1>6, <2>1, BridgeAssumption DEF Subscribe, Open, Deliver, Leave, Remove, RestType
  <2>3. stream' \in [Clients -> {"away", "opening", "open", "gone", "abandoned"}]
    BY <1>6 DEF Subscribe, Open, Deliver, Leave, Remove, RestType
  <2>4. UNCHANGED <<loop, link, state, topic, thread, job, due, session, available, watched, overtaken>>
    BY <1>6 DEF Subscribe, Open, Deliver, Leave, Remove, broker, telling
  <2>5. overlap' \in BOOLEAN
    <3>1. CASE Subscribe(c) \/ Open(c) \/ Deliver(c) \/ Leave(c)
      BY <3>1 DEF Subscribe, Open, Deliver, Leave, telling, RestType
    <3>2. CASE Remove(c)
      BY <3>2 DEF Remove, RestType
    <3> QED BY <1>6, <3>1, <3>2
  <2> QED BY <2>2, <2>3, <2>4, <2>5 DEF RestType
<1>7. CASE Broadcast
  BY <1>7, PutType DEF Broadcast, RestType, broker, telling
<1>8. CASE Change \/ Configure
  <2>1. CASE Change
    BY <2>1 DEF Change, RestType, broker, telling, streams
  <2>2. CASE Configure
    <3>1. watched' \in BOOLEAN
      BY <2>2 DEF Configure
    <3> QED BY <2>2, <3>1 DEF Configure, RestType, telling, streams
  <2> QED BY <1>8, <2>1, <2>2
<1>9. CASE UNCHANGED vars
  BY <1>9 DEF vars, RestType
<1> QED BY <1>1, <1>2, <1>3, <1>4, <1>5, <1>6, <1>7, <1>8, <1>9 DEF Next, ThreadStep

-----------------------------------------------------------------------------
(* The iteration. *)

LEMMA DueTell ==
  ASSUME ListType, DueIsAhead, Tell
  PROVE  DueIsAhead'
<1>1. thread = "telling" /\ thread' = "telling" /\ next' = next + 1
      /\ UNCHANGED <<clients, overlap, loop>>
      /\ due' = due \ {clients[next]} /\ next <= Len(clients)
  BY DEF Tell
<1>2. ASSUME NEW c \in due', ~overlap PROVE Ahead(c)'
  <2>1. c \in due /\ c # clients[next]
    BY <1>1, <1>2
  <2>2. PICK i \in next..Len(clients) : clients[i] = c
    BY <1>1, <1>2, <2>1 DEF DueIsAhead, Ahead
  <2>3. i \in next + 1..Len(clients)
    BY <2>1, <2>2, LenProperties DEF ListType
  <2> QED BY <1>1, <2>2, <2>3 DEF Ahead
<1> QED BY <1>1, <1>2 DEF DueIsAhead

(* A client that subscribes comes last, and moves nobody. *)
LEMMA DueSubscribe ==
  ASSUME ListType, DueIsAhead, NEW c \in Clients, Subscribe(c)
  PROVE  DueIsAhead'
<1>1. clients' = Append(clients, c) /\ UNCHANGED <<thread, next, due, overlap, loop>>
  BY DEF Subscribe, telling
<1>2. ASSUME NEW k \in due, Ahead(k) PROVE Ahead(k)'
  <2>1. PICK i \in next..Len(clients) : clients[i] = k
    BY <1>2 DEF Ahead
  <2>2. i \in next..Len(clients') /\ clients'[i] = k
    BY <1>1, <2>1, LenProperties DEF ListType
  <2> QED BY <1>1, <2>2 DEF Ahead
<1> QED BY <1>1, <1>2 DEF DueIsAhead

LEMMA DueNext ==
  ASSUME ListType, RestType, DueIsAhead, [Next]_vars
  PROVE  DueIsAhead'
<1>1. CASE CommandTells
  <2>1. \A k \in Registered : \E i \in 1..Len(clients) : clients[i] = k
    BY LenProperties DEF ListType, Registered
  <2>2. /\ thread' = "telling" /\ next' = 1 /\ due' = Registered /\ UNCHANGED clients
        /\ loop' # "down"
    BY <1>1 DEF CommandTells, Receive, streams
  <2> QED BY <2>1, <2>2 DEF DueIsAhead, Ahead
<1>2. CASE Tell
  BY <1>2, DueTell
<1>3. CASE Told
  <2>1. thread = "telling" /\ next > Len(clients) /\ UNCHANGED <<due, overlap, loop>>
        /\ thread' = "replying"
    BY <1>3 DEF Told, telling
  <2>2. \A c \in due : ~Ahead(c)
    BY <2>1, LenProperties DEF Ahead, ListType
  <2> QED BY <2>1, <2>2 DEF DueIsAhead
<1>4. CASE Reply \/ Joined \/ Exit
  BY <1>4 DEF Reply, Joined, Exit, Down, DueIsAhead
<1>5. ASSUME NEW c \in Clients, Subscribe(c) PROVE DueIsAhead'
  BY <1>5, DueSubscribe
<1>6. ASSUME NEW c \in Clients, Remove(c) PROVE DueIsAhead'
  BY <1>6 DEF Remove, DueIsAhead, RestType
<1>7. CASE Start \/ OnConnect \/ Announce \/ CommandAwaits \/ Command \/ AwaitEnds \/ TimedOut
  <2>1. /\ UNCHANGED <<due, overlap>> /\ thread' # "telling" /\ loop' # "down"
        /\ thread \notin {"telling", "replying"} \/ thread' = thread
    BY <1>7
       DEF Start, OnConnect, Announce, CommandAwaits, Command, AwaitEnds, TimedOut, Receive,
           telling, DueIsAhead
  <2>2. thread \notin {"telling", "replying"}
    BY <1>7 DEF Start, OnConnect, Announce, CommandAwaits, Command, AwaitEnds, TimedOut, Receive,
                DueIsAhead
  <2> QED BY <2>1, <2>2 DEF DueIsAhead
<1>8. CASE KeepsBroadcast
  BY <1>8 DEF KeepsBroadcast, DueIsAhead, Ahead
<1>9. CASE OnDisconnect \/ BrokerDrops \/ PublishState \/ Stop \/ RunJob
           \/ Broadcast \/ Change \/ Configure \/ UNCHANGED vars
  <2>1. KeepsBroadcast
    BY <1>9 DEF OnDisconnect, BrokerDrops, PublishState, Stop, RunJob, Broadcast,
                Change, Configure, vars, telling, streams, KeepsBroadcast
  <2> QED BY <1>8, <2>1
<1>10. ASSUME NEW c \in Clients, Open(c) \/ Deliver(c) \/ Leave(c) PROVE DueIsAhead'
  <2>1. KeepsBroadcast
    BY <1>10 DEF Open, Deliver, Leave, telling, KeepsBroadcast
  <2> QED BY <1>8, <2>1
<1> QED
  BY <1>1, <1>2, <1>3, <1>4, <1>5, <1>6, <1>7, <1>9, <1>10 DEF Next, ThreadStep

-----------------------------------------------------------------------------
LEMMA InvInit == Init => Inv
<1> SUFFICES ASSUME Init PROVE Inv
  OBVIOUS
<1>1. ListType
  BY EmptySeq DEF Init, ListType
<1>2. 0 \in 0..Room
  BY BridgeAssumption
<1>3. RestType
  BY <1>2 DEF Init, RestType
<1>4. DueIsAhead
  BY DEF Init, DueIsAhead
<1> QED BY <1>1, <1>3, <1>4 DEF Inv

LEMMA Invariant == Spec => []Inv
<1>1. Inv /\ [Next]_vars => Inv'
  BY ListNext, RestNext, DueNext DEF Inv
<1> QED BY <1>1, InvInit, PTL DEF Spec

(* Every state of the bridge has the declared type: no queue ever holds    *)
(* more than its room.                                                     *)
THEOREM TypeCorrect == Spec => []TypeOK
<1>1. Inv => TypeOK
  BY DEF Inv, ListType, RestType, TypeOK
<1> QED BY <1>1, Invariant, PTL

(* A broadcast of the MQTT thread reaches every client that was registered *)
(* when it began, unless one is removed meanwhile.                         *)
THEOREM EveryoneIsTold == Spec => []AllTold
<1>1. Inv => AllTold
  BY DEF Inv, DueIsAhead, AllTold
<1> QED BY <1>1, Invariant, PTL

-----------------------------------------------------------------------------
(* Auth: lists of times. *)

(* A nonempty set of numbers has a least one. *)
LEMMA Least ==
  ASSUME NEW T \in SUBSET Nat, T # {}
  PROVE  \E k \in T : \A i \in T : k <= i
<1> DEFINE R == OpToRel(<, Nat)
<1>1. IsWellFoundedOn(R, Nat)
  BY NatLessThanWellFounded
<1>2. PICK k \in T : \A i \in T : ~ (<<i, k>> \in R)
  <2> HIDE DEF R
  <2> QED BY <1>1, WFMin
<1>3. ASSUME NEW i \in T PROVE ~ (i < k)
  BY <1>2 DEF OpToRel
<1>4. ASSUME NEW i \in T PROVE k <= i
  <2>1. i \in Nat /\ k \in Nat
    OBVIOUS
  <2> HIDE DEF R
  <2> QED BY <1>3, <2>1
<1> QED BY <1>4

Ages == 0..Window

(* The latest come last. *)
Ordered(s) == \A i, j \in 1..Len(s) : i <= j => s[j] <= s[i]

(* k is where the times within the window begin. *)
Begins(s, k) ==
  /\ \A i \in 1..k - 1 : s[i] >= Window
  /\ k <= Len(s) => s[k] < Window

(* What is known of a list of times.                                       *)
LEMMA AgesAreNumbers ==
  ASSUME NEW s \in Seq(Ages)
  PROVE  /\ Len(s) \in Nat /\ Window \in Nat \ {0} /\ DOMAIN s = 1..Len(s)
         /\ \A i \in 1..Len(s) : s[i] \in Ages /\ s[i] \in Nat /\ s[i] <= Window
<1>1. s \in [1..Len(s) -> Ages]
  BY LenProperties
<1>2. Window \in Nat \ {0}
  BY AuthAssumption
<1> QED BY <1>1, <1>2, LenProperties DEF Ages

(* The times within the window begin somewhere, be it behind the last.     *)
LEMMA BeginsSomewhere ==
  ASSUME NEW s \in Seq(Ages)
  PROVE  \E k \in 1..Len(s) + 1 : Begins(s, k)
<1> DEFINE T == {k \in 1..Len(s) : s[k] < Window}
<1>1. /\ Len(s) \in Nat /\ Window \in Nat
      /\ \A i \in 1..Len(s) : s[i] \in Nat
  BY AgesAreNumbers
<1>3. CASE T = {}
  <2>1. Begins(s, Len(s) + 1)
    BY <1>1, <1>3 DEF Begins
  <2> QED BY <1>1, <2>1
<1>4. CASE T # {}
  <2>1. PICK k \in T : \A i \in T : k <= i
    <3>1. T \in SUBSET Nat
      BY <1>1
    <3> HIDE DEF T
    <3> QED BY <1>4, <3>1, Least
  <2>2. Begins(s, k)
    BY <1>1, <2>1 DEF Begins
  <2> QED BY <1>1, <2>2
<1> QED BY <1>3, <1>4

(* They begin at one place only.                                           *)
LEMMA BeginsOnce ==
  ASSUME NEW s \in Seq(Ages), NEW k \in 1..Len(s) + 1, NEW n \in 1..Len(s) + 1,
         Begins(s, k), Begins(s, n)
  PROVE  k = n
BY AgesAreNumbers DEF Begins

(* What is recent is the part of the list from where it begins.            *)
LEMMA RecentIs ==
  ASSUME NEW s \in Seq(Ages), NEW k \in 1..Len(s) + 1, Begins(s, k)
  PROVE  Recent(s) = SubSeq(s, k, Len(s))
<1> DEFINE n == CHOOSE n \in 1..Len(s) + 1 :
                  /\ \A i \in 1..n - 1 : s[i] >= Window
                  /\ n <= Len(s) => s[n] < Window
<1>1. n \in 1..Len(s) + 1 /\ Begins(s, n)
  BY BeginsSomewhere DEF Begins
<1>2. n = k
  BY <1>1, BeginsOnce
<1> QED BY <1>2 DEF Recent

-----------------------------------------------------------------------------
(* What is recent has the right length and elements, in the same order. *)
LEMMA RecentType ==
  ASSUME NEW s \in Seq(Ages)
  PROVE  /\ Recent(s) \in Seq(Ages) /\ Len(Recent(s)) <= Len(s)
         /\ (Ordered(s) => Ordered(Recent(s)) /\ \A i \in 1..Len(Recent(s)) : Recent(s)[i] < Window)
<1>1. PICK k \in 1..Len(s) + 1 : Begins(s, k)
  BY BeginsSomewhere
<1>2. Recent(s) = SubSeq(s, k, Len(s))
  BY <1>1, RecentIs
<1>3. Len(s) \in Nat /\ Window \in Nat /\ \A i \in 1..Len(s) : s[i] \in Ages /\ s[i] \in Nat
  BY AgesAreNumbers
<1>4. /\ SubSeq(s, k, Len(s)) \in Seq(Ages)
      /\ Len(SubSeq(s, k, Len(s))) = Len(s) - k + 1
      /\ \A i \in 1..Len(s) - k + 1 : SubSeq(s, k, Len(s))[i] = s[k + i - 1]
  BY <1>3, SubSeqProperties
<1>5. ASSUME Ordered(s)
      PROVE  Ordered(Recent(s)) /\ \A i \in 1..Len(Recent(s)) : Recent(s)[i] < Window
  <2>1. ASSUME NEW i \in 1..Len(s) - k + 1
        PROVE  k + i - 1 \in 1..Len(s) /\ s[k + i - 1] < Window
    <3>1. k \in 1..Len(s) /\ k + i - 1 \in 1..Len(s) /\ k <= k + i - 1
      BY <1>3
    <3>2. s[k + i - 1] <= s[k] /\ s[k] < Window
      BY <1>1, <1>5, <3>1 DEF Ordered, Begins
    <3> QED BY <1>3, <3>1, <3>2
  <2>2. ASSUME NEW i \in 1..Len(s) - k + 1, NEW j \in 1..Len(s) - k + 1, i <= j
        PROVE  s[k + j - 1] <= s[k + i - 1]
    <3>1. k + i - 1 <= k + j - 1
      BY <1>3, <2>2
    <3> QED BY <1>5, <2>1, <3>1 DEF Ordered
  <2> QED BY <1>2, <1>4, <2>1, <2>2 DEF Ordered
<1>6. Len(Recent(s)) <= Len(s)
  BY <1>2, <1>3, <1>4
<1> QED BY <1>2, <1>4, <1>5, <1>6

(* A time grows older up to the window.                                    *)
LEMMA OlderIs ==
  ASSUME NEW age \in Ages
  PROVE  /\ Older(age, Window) \in Ages /\ age <= Older(age, Window)
         /\ (age < Window => Older(age, Window) = age + 1)
         /\ (age >= Window => Older(age, Window) = Window)
<1>1. Window \in Nat
  BY AuthAssumption
<1> QED BY <1>1 DEF Ages, Older

(* Of two times the older one stays so.                                    *)
LEMMA OlderOrder ==
  ASSUME NEW a \in Ages, NEW b \in Ages, a <= b
  PROVE  Older(a, Window) <= Older(b, Window)
<1>1. Window \in Nat
  BY AuthAssumption
<1> QED BY <1>1 DEF Ages, Older

(* A list whose times have grown older is one in the same order.           *)
LEMMA AgedType ==
  ASSUME NEW s \in Seq(Ages)
  PROVE  /\ Aged(s) \in Seq(Ages) /\ Len(Aged(s)) = Len(s)
         /\ \A i \in 1..Len(s) : Aged(s)[i] = Older(s[i], Window)
         /\ (Ordered(s) => Ordered(Aged(s)))
<1>1. Len(s) \in Nat /\ DOMAIN s = 1..Len(s) /\ \A i \in 1..Len(s) : s[i] \in Ages
  BY AgesAreNumbers
<1>2. Aged(s) = [i \in 1..Len(s) |-> Older(s[i], Window)]
  BY <1>1 DEF Aged
<1>3. Aged(s) \in Seq(Ages) /\ Len(Aged(s)) = Len(s)
  <2>1. \A i \in 1..Len(s) : Older(s[i], Window) \in Ages
    BY <1>1, OlderIs
  <2> QED BY <1>1, <1>2, <2>1
<1>4. Ordered(s) => Ordered(Aged(s))
  BY <1>1, <1>2, <1>3, OlderOrder DEF Ordered
<1> QED BY <1>1, <1>2, <1>3, <1>4

(* An attempt that has left the window does not come back: it is the same  *)
(* to forget it now or with those that leave later.                        *)
LEMMA RecentAged ==
  ASSUME NEW s \in Seq(Ages), Ordered(s)
  PROVE  Recent(Aged(Recent(s))) = Recent(Aged(s))
<1>1. PICK k \in 1..Len(s) + 1 : Begins(s, k)
  BY BeginsSomewhere
<1>2. PICK n \in 1..Len(s) + 1 : Begins(Aged(s), n)
  BY BeginsSomewhere, AgedType
<1> DEFINE r == Recent(s)
<1>3. /\ Len(s) \in Nat /\ Window \in Nat /\ k \in Nat /\ n \in Nat
      /\ \A i \in 1..Len(s) : s[i] \in Ages /\ s[i] \in Nat
  BY AgesAreNumbers
<1>4. Aged(s) \in Seq(Ages) /\ Len(Aged(s)) = Len(s)
      /\ \A i \in 1..Len(s) : Aged(s)[i] = Older(s[i], Window)
  BY AgedType
<1>5. k <= n
  <2> SUFFICES ASSUME n < k PROVE FALSE
    BY <1>3
  <2>1. n \in 1..Len(s) /\ n \in 1..k - 1
    BY <1>3
  <2>2. s[n] >= Window
    BY <1>1, <2>1 DEF Begins
  <2>3. Aged(s)[n] < Window
    BY <1>2, <1>4, <2>1 DEF Begins
  <2>4. Aged(s)[n] = Window
    BY <1>3, <1>4, <2>1, <2>2, OlderIs
  <2> QED BY <1>3, <2>3, <2>4
<1>6. r = SubSeq(s, k, Len(s)) /\ r \in Seq(Ages) /\ Len(r) = Len(s) - k + 1
      /\ \A i \in 1..Len(r) : r[i] = s[k + i - 1]
  <2>1. r = SubSeq(s, k, Len(s))
    BY <1>1, RecentIs
  <2> QED BY <1>3, <2>1, SubSeqProperties
<1>7. Aged(r) \in Seq(Ages) /\ Len(Aged(r)) = Len(s) - k + 1
      /\ \A i \in 1..Len(r) : Aged(r)[i] = Aged(s)[k + i - 1]
  <2>1. Aged(r) \in Seq(Ages) /\ Len(Aged(r)) = Len(r)
        /\ \A i \in 1..Len(r) : Aged(r)[i] = Older(r[i], Window)
    BY <1>6, AgedType
  <2>2. \A i \in 1..Len(r) : k + i - 1 \in 1..Len(s)
    BY <1>3, <1>6
  <2> QED BY <1>4, <1>6, <2>1, <2>2
<1> DEFINE m == n - k + 1
<1>8. m \in 1..Len(Aged(r)) + 1 /\ Begins(Aged(r), m)
  <2>1. m \in 1..Len(Aged(r)) + 1
    BY <1>3, <1>5, <1>7
  <2>2. ASSUME NEW i \in 1..m - 1 PROVE Aged(r)[i] >= Window
    <3>1. i \in 1..Len(r) /\ k + i - 1 \in 1..n - 1
      BY <1>3, <1>5, <1>6
    <3> QED BY <1>2, <1>7, <3>1 DEF Begins
  <2>3. ASSUME m <= Len(Aged(r)) PROVE Aged(r)[m] < Window
    <3>1. m \in 1..Len(r) /\ k + m - 1 = n /\ n <= Len(Aged(s))
      BY <1>3, <1>4, <1>5, <1>6, <1>7, <2>3
    <3> QED BY <1>2, <1>7, <3>1 DEF Begins
  <2> QED BY <2>1, <2>2, <2>3 DEF Begins
<1>9. Recent(Aged(r)) = SubSeq(Aged(r), m, Len(Aged(r)))
  BY <1>7, <1>8, RecentIs
<1>10. Recent(Aged(s)) = SubSeq(Aged(s), n, Len(s))
  BY <1>2, <1>4, RecentIs
<1>11. SubSeq(Aged(r), m, Len(Aged(r))) = SubSeq(Aged(s), n, Len(s))
  <2> DEFINE x == SubSeq(Aged(r), m, Len(Aged(r)))
             y == SubSeq(Aged(s), n, Len(s))
  <2>1. \A i \in 1..Len(s) : Aged(s)[i] \in Ages
    BY <1>4, AgesAreNumbers
  <2>2. \A i \in 1..Len(Aged(r)) : Aged(r)[i] \in Ages
    BY <1>7, AgesAreNumbers
  <2>3. x \in Seq(Ages) /\ Len(x) = Len(s) - n + 1
        /\ \A i \in 1..Len(s) - n + 1 : x[i] = Aged(r)[m + i - 1]
    <3>1. Len(Aged(r)) - m + 1 = Len(s) - n + 1 /\ m \in Int /\ Len(Aged(r)) \in Int
          /\ m >= 1
      BY <1>3, <1>5, <1>7
    <3> HIDE DEF m
    <3>2. \A i \in m..Len(Aged(r)) : Aged(r)[i] \in Ages
      BY <2>2, <3>1
    <3>3. /\ x \in Seq(Ages)
          /\ Len(x) = IF m <= Len(Aged(r)) THEN Len(Aged(r)) - m + 1 ELSE 0
          /\ \A i \in 1..Len(Aged(r)) - m + 1 : x[i] = Aged(r)[m + i - 1]
      BY <3>1, <3>2, SubSeqProperties
    <3> QED BY <1>3, <3>1, <3>3
  <2>4. y \in Seq(Ages) /\ Len(y) = Len(s) - n + 1
        /\ \A i \in 1..Len(s) - n + 1 : y[i] = Aged(s)[n + i - 1]
    <3>1. \A i \in n..Len(s) : Aged(s)[i] \in Ages
      BY <1>3, <2>1
    <3>2. /\ y \in Seq(Ages)
          /\ Len(y) = IF n <= Len(s) THEN Len(s) - n + 1 ELSE 0
          /\ \A i \in 1..Len(s) - n + 1 : y[i] = Aged(s)[n + i - 1]
      BY <1>3, <3>1, SubSeqProperties
    <3> QED BY <1>3, <3>2
  <2>5. ASSUME NEW i \in 1..Len(s) - n + 1 PROVE x[i] = y[i]
    <3>1. m + i - 1 \in 1..Len(r) /\ k + (m + i - 1) - 1 = n + i - 1
      BY <1>3, <1>5, <1>6
    <3> QED BY <1>7, <2>3, <2>4, <3>1
  <2>6. x = y
    <3> HIDE DEF x, y
    <3> QED BY <2>3, <2>4, <2>5, SeqEqual
  <2> QED BY <2>6
<1> QED BY <1>9, <1>10, <1>11

(* Where everything is within the window nothing is forgotten. *)
LEMMA RecentFresh ==
  ASSUME NEW s \in Seq(Ages), \A i \in 1..Len(s) : s[i] < Window
  PROVE  Recent(s) = s
<1>1. Len(s) \in Nat
  BY AgesAreNumbers
<1>2. 1 \in 1..Len(s) + 1 /\ Begins(s, 1)
  BY <1>1 DEF Begins
<1>3. Recent(s) = SubSeq(s, 1, Len(s))
  BY <1>2, RecentIs
<1> QED BY <1>3, SubSeqFull

(* An attempt made now is recent.                                          *)
LEMMA AppendNow ==
  ASSUME NEW s \in Seq(Ages), Ordered(s), \A i \in 1..Len(s) : s[i] < Window
  PROVE  /\ Append(s, 0) \in Seq(Ages) /\ Len(Append(s, 0)) = Len(s) + 1
         /\ Ordered(Append(s, 0)) /\ Recent(Append(s, 0)) = Append(s, 0)
<1>1. Len(s) \in Nat /\ Window \in Nat \ {0} /\ 0 \in Ages
      /\ \A i \in 1..Len(s) : s[i] \in Nat
  BY AgesAreNumbers DEF Ages
<1>2. /\ Append(s, 0) \in Seq(Ages) /\ Len(Append(s, 0)) = Len(s) + 1
      /\ \A i \in 1..Len(s) : Append(s, 0)[i] = s[i]
      /\ Append(s, 0)[Len(s) + 1] = 0
  BY <1>1, AppendProperties
<1>3. \A i \in 1..Len(s) + 1 : i \in 1..Len(s) \/ i = Len(s) + 1
  BY <1>1
<1>4. \A i \in 1..Len(s) + 1 : Append(s, 0)[i] < Window
  BY <1>1, <1>2, <1>3
<1>5. Ordered(Append(s, 0))
  <2>1. ASSUME NEW i \in 1..Len(s) + 1, NEW j \in 1..Len(s) + 1, i <= j
        PROVE  Append(s, 0)[j] <= Append(s, 0)[i]
    <3>1. CASE j = Len(s) + 1
      BY <1>1, <1>2, <1>3, <3>1
    <3>2. CASE j \in 1..Len(s)
      <4>1. i \in 1..Len(s)
        BY <1>1, <2>1, <3>2
      <4> QED BY <1>2, <2>1, <3>2, <4>1 DEF Ordered
    <3> QED BY <1>3, <3>1, <3>2
  <2> QED BY <1>2, <2>1 DEF Ordered
<1>6. Recent(Append(s, 0)) = Append(s, 0)
  BY <1>2, <1>4, RecentFresh
<1> QED BY <1>2, <1>5, <1>6

LEMMA NoTimes == <<>> \in Seq(Ages) /\ Len(<<>>) = 0 /\ Ordered(<<>>) /\ Recent(<<>>) = <<>>
<1>1. <<>> \in Seq(Ages) /\ Len(<<>>) = 0
  BY EmptySeq
<1>2. \A i \in 1..Len(<<>>) : <<>>[i] < Window
  BY <1>1
<1>3. Recent(<<>>) = <<>>
  BY <1>1, <1>2, RecentFresh
<1> QED BY <1>1, <1>3 DEF Ordered

-----------------------------------------------------------------------------
LEMMA CountTo ==
  ASSUME NEW n \in Nat
  PROVE  IsFiniteSet(1..n) /\ Cardinality(1..n) = n
<1>1. IsFiniteSet(1..n) /\ Cardinality(1..n) = IF 1 > n THEN 0 ELSE n - 1 + 1
  BY FS_Interval
<1> QED BY <1>1

(* How many times of a list are younger than x. *)
YoungerThan(s, x) == {i \in 1..Len(s) : s[i] < x}

Within(s, x) == Cardinality(YoungerThan(s, x))

LEMMA WithinType ==
  ASSUME NEW s \in Seq(Ages), NEW x \in Ages
  PROVE  /\ IsFiniteSet(YoungerThan(s, x)) /\ Within(s, x) \in Nat /\ Within(s, x) <= Len(s)
         /\ (x = 0 => Within(s, x) = 0)
<1>1. Len(s) \in Nat /\ x \in Nat /\ \A i \in 1..Len(s) : s[i] \in Nat
  BY AgesAreNumbers DEF Ages
<1>2. IsFiniteSet(1..Len(s)) /\ Cardinality(1..Len(s)) = Len(s)
  BY <1>1, CountTo
<1>3. YoungerThan(s, x) \in SUBSET (1..Len(s))
  BY DEF YoungerThan
<1>4. /\ IsFiniteSet(YoungerThan(s, x))
      /\ Cardinality(YoungerThan(s, x)) <= Cardinality(1..Len(s))
  BY <1>2, <1>3, FS_Subset
<1>5. Cardinality(YoungerThan(s, x)) \in Nat
  BY <1>4, FS_CardinalityType
<1>6. ASSUME x = 0 PROVE Within(s, x) = 0
  <2>1. YoungerThan(s, x) = {}
    BY <1>1, <1>6 DEF YoungerThan
  <2> QED BY <2>1, FS_EmptySet DEF Within
<1> QED BY <1>2, <1>4, <1>5, <1>6 DEF Within

(* Of a list of young times all are counted. *)
LEMMA WithinAll ==
  ASSUME NEW s \in Seq(Ages), \A i \in 1..Len(s) : s[i] < Window
  PROVE  Within(s, Window) = Len(s)
<1>1. Len(s) \in Nat
  BY AgesAreNumbers
<1>2. YoungerThan(s, Window) = 1..Len(s)
  BY DEF YoungerThan
<1> QED BY <1>1, <1>2, CountTo DEF Within

LEMMA WithinAppended ==
  ASSUME NEW s \in Seq(Ages), NEW x \in Ages, x # 0
  PROVE  Within(Append(s, 0), x) = Within(s, x) + 1
<1>1. Len(s) \in Nat /\ x \in Nat /\ 0 \in Ages
  BY AgesAreNumbers DEF Ages
<1>2. /\ Len(Append(s, 0)) = Len(s) + 1 /\ Append(s, 0)[Len(s) + 1] = 0
      /\ \A i \in 1..Len(s) : Append(s, 0)[i] = s[i]
  BY <1>1, AppendProperties
<1>3. 1..Len(s) + 1 = 1..Len(s) \cup {Len(s) + 1}
  BY <1>1
<1>4. YoungerThan(Append(s, 0), x) = YoungerThan(s, x) \cup {Len(s) + 1}
  BY <1>1, <1>2, <1>3 DEF YoungerThan
<1>5. Len(s) + 1 \notin YoungerThan(s, x)
  BY <1>1 DEF YoungerThan
<1>6. IsFiniteSet(YoungerThan(s, x))
  BY WithinType
<1> QED BY <1>4, <1>5, <1>6, FS_AddElement DEF Within

LEMMA WithinAged ==
  ASSUME NEW s \in Seq(Ages), NEW x \in Ages, x # 0
  PROVE  x - 1 \in Ages /\ Within(Aged(s), x) = Within(s, x - 1)
<1>1. Len(s) \in Nat /\ x \in Nat /\ Window \in Nat /\ x <= Window
      /\ \A i \in 1..Len(s) : s[i] \in Ages /\ s[i] \in Nat
  BY AgesAreNumbers DEF Ages
<1>2. Len(Aged(s)) = Len(s) /\ \A i \in 1..Len(s) : Aged(s)[i] = Older(s[i], Window)
  BY AgedType
<1>3. ASSUME NEW i \in 1..Len(s) PROVE Older(s[i], Window) < x <=> s[i] < x - 1
  BY <1>1, OlderIs
<1>4. YoungerThan(Aged(s), x) = YoungerThan(s, x - 1)
  BY <1>2, <1>3 DEF YoungerThan
<1> QED BY <1>1, <1>4 DEF Within, Ages

(* What is dropped from a list was not young. *)
LEMMA WithinRecent ==
  ASSUME NEW s \in Seq(Ages), NEW x \in Ages
  PROVE  Within(Recent(s), x) = Within(s, x)
<1>1. PICK k \in 1..Len(s) + 1 : Begins(s, k)
  BY BeginsSomewhere
<1>2. Len(s) \in Nat /\ x \in Nat /\ Window \in Nat /\ x <= Window
      /\ \A i \in 1..Len(s) : s[i] \in Ages /\ s[i] \in Nat
  BY AgesAreNumbers DEF Ages
<1>3. /\ Recent(s) \in Seq(Ages) /\ Len(Recent(s)) = Len(s) - k + 1
      /\ \A i \in 1..Len(s) - k + 1 : Recent(s)[i] = s[k + i - 1]
  <2>1. Recent(s) = SubSeq(s, k, Len(s)) /\ k \in Nat
    BY <1>1, RecentIs
  <2> QED BY <1>2, <2>1, SubSeqProperties
<1> DEFINE B == YoungerThan(Recent(s), x)
           A == YoungerThan(s, x)
           f == [i \in B |-> k + i - 1]
<1>4. ASSUME NEW i \in B PROVE i \in Int /\ k + i - 1 \in A
  BY <1>2, <1>3 DEF YoungerThan
<1>5. ASSUME NEW j \in A PROVE \E i \in B : k + i - 1 = j
  <2>1. j \in 1..Len(s) /\ s[j] < Window
    BY <1>2 DEF YoungerThan
  <2>2. j \notin 1..k - 1
    BY <1>1, <1>2, <2>1 DEF Begins
  <2>3. j - k + 1 \in B /\ k + (j - k + 1) - 1 = j
    BY <1>2, <1>3, <2>1, <2>2 DEF YoungerThan
  <2> QED BY <2>3
<1>6. f \in Bijection(B, A)
  <2> HIDE DEF A, B
  <2>1. f \in [B -> A]
    BY <1>4
  <2>2. \A i, j \in B : f[i] = f[j] => i = j
    BY <1>2, <1>4
  <2>3. \A j \in A : \E i \in B : f[i] = j
    BY <1>5
  <2> QED BY <2>1, <2>2, <2>3 DEF Bijection, Injection, Surjection, IsInjective
<1>7. IsFiniteSet(B)
  BY <1>3, WithinType
<1>8. Cardinality(B) = Cardinality(A)
  <2> HIDE DEF A, B, f
  <2> QED BY <1>6, <1>7, FS_Bijection DEF ExistsBijection
<1> QED BY <1>8 DEF Within

-----------------------------------------------------------------------------
(* The limit on attempts.  s are the attempts the code counts for an       *)
(* address, t the passwords it compared, r the restarts: however long ago  *)
(* one begins to count, there are no more passwords than attempts on the   *)
(* list and MaxAttempts for each restart since.                            *)
Explained(s, t, r) ==
  /\ Ordered(s) /\ Len(Recent(s)) <= MaxAttempts
  /\ Ordered(t) /\ \A i \in 1..Len(t) : t[i] < Window
  /\ \A x \in Ages : Within(t, x) <= MaxAttempts * Within(r, x) + Within(s, x)

LEMMA AllowanceType ==
  ASSUME NEW n \in Nat
  PROVE  /\ MaxAttempts \in Nat /\ MaxAttempts * n \in Nat
         /\ MaxAttempts * (n + 1) = MaxAttempts * n + MaxAttempts
<1>1. MaxAttempts \in Nat
  BY AuthAssumption
<1>2. \A k, l \in Nat : k * l \in Nat
  OBVIOUS
<1>3. MaxAttempts * (n + 1) = MaxAttempts * n + MaxAttempts
  BY <1>1
<1> QED BY <1>1, <1>2, <1>3

LEMMA AllowanceGrows ==
  ASSUME NEW n \in Nat, NEW m \in Nat, n <= m
  PROVE  MaxAttempts * n <= MaxAttempts * m
BY AuthAssumption

(* An attempt that is let through is added to the list and to the          *)
(* passwords compared alike.                                               *)
LEMMA ExplainedCounted ==
  ASSUME NEW s \in Seq(Ages), NEW t \in Seq(Ages), NEW r \in Seq(Ages),
         Explained(s, t, r), Len(Recent(s)) < MaxAttempts
  PROVE  /\ Append(Recent(s), 0) \in Seq(Ages) /\ Append(t, 0) \in Seq(Ages)
         /\ Explained(Append(Recent(s), 0), Append(t, 0), r)
<1> DEFINE p == Recent(s)
<1>1. p \in Seq(Ages) /\ Ordered(p) /\ \A i \in 1..Len(p) : p[i] < Window
  BY RecentType DEF Explained
<1>2. /\ Append(p, 0) \in Seq(Ages) /\ Len(Append(p, 0)) = Len(p) + 1
      /\ Ordered(Append(p, 0)) /\ Recent(Append(p, 0)) = Append(p, 0)
  BY <1>1, AppendNow
<1>3. Append(t, 0) \in Seq(Ages) /\ Ordered(Append(t, 0)) /\ Recent(Append(t, 0)) = Append(t, 0)
  BY AppendNow DEF Explained
<1>4. \A i \in 1..Len(Append(t, 0)) : Append(t, 0)[i] < Window
  BY <1>3, RecentType
<1>5. Len(Recent(Append(p, 0))) <= MaxAttempts
  <2>1. Len(p) \in Nat /\ MaxAttempts \in Nat
    BY <1>1, AgesAreNumbers, AuthAssumption
  <2> QED BY <1>2, <2>1
<1>6. ASSUME NEW x \in Ages
      PROVE  Within(Append(t, 0), x) <= MaxAttempts * Within(r, x) + Within(Append(p, 0), x)
  <2>1. /\ Within(t, x) \in Nat /\ Within(r, x) \in Nat /\ Within(s, x) \in Nat
        /\ Within(Append(p, 0), x) \in Nat /\ MaxAttempts * Within(r, x) \in Nat
    BY <1>2, WithinType, AllowanceType
  <2>2. CASE x = 0
    <3>1. Within(Append(t, 0), x) = 0
      BY <1>3, <2>2, WithinType
    <3> QED BY <2>1, <3>1
  <2>3. CASE x # 0
    <3>1. Within(Append(t, 0), x) = Within(t, x) + 1
      BY <2>3, WithinAppended
    <3>2. Within(Append(p, 0), x) = Within(s, x) + 1
      BY <1>1, <2>3, WithinAppended, WithinRecent
    <3>3. Within(t, x) <= MaxAttempts * Within(r, x) + Within(s, x)
      BY DEF Explained
    <3> QED BY <2>1, <3>1, <3>2, <3>3
  <2> QED BY <2>2, <2>3
<1> QED BY <1>2, <1>3, <1>4, <1>5, <1>6 DEF Explained

(* Pruning forgets nothing that counts. *)
LEMMA ExplainedPruned ==
  ASSUME NEW s \in Seq(Ages), NEW t \in Seq(Ages), NEW r \in Seq(Ages), Explained(s, t, r)
  PROVE  Recent(s) \in Seq(Ages) /\ Explained(Recent(s), t, r)
<1>1. Recent(s) \in Seq(Ages) /\ Ordered(Recent(s))
      /\ \A i \in 1..Len(Recent(s)) : Recent(s)[i] < Window
  BY RecentType DEF Explained
<1>2. Recent(Recent(s)) = Recent(s)
  BY <1>1, RecentFresh
<1> QED BY <1>1, <1>2, WithinRecent DEF Explained

(* A restart forgets at most MaxAttempts attempts that count. *)
LEMMA ExplainedRestart ==
  ASSUME NEW s \in Seq(Ages), NEW t \in Seq(Ages), NEW r \in Seq(Ages), Explained(s, t, r)
  PROVE  Explained(<<>>, t, Append(r, 0))
<1>1. ASSUME NEW x \in Ages
      PROVE  Within(t, x) <= MaxAttempts * Within(Append(r, 0), x) + Within(<<>>, x)
  <2>1. 0 \in Ages /\ Append(r, 0) \in Seq(Ages)
    BY AgesAreNumbers, AppendProperties DEF Ages
  <2>2. /\ Within(t, x) \in Nat /\ Within(r, x) \in Nat /\ Within(s, x) \in Nat
        /\ Within(Append(r, 0), x) \in Nat /\ Within(<<>>, x) \in Nat
    BY <2>1, NoTimes, WithinType
  <2>3. Within(s, x) <= MaxAttempts
    <3>1. Recent(s) \in Seq(Ages) /\ Len(Recent(s)) \in Nat /\ Len(Recent(s)) <= MaxAttempts
      BY RecentType, AgesAreNumbers DEF Explained
    <3>2. Within(Recent(s), x) = Within(s, x) /\ Within(Recent(s), x) <= Len(Recent(s))
      BY <3>1, WithinRecent, WithinType
    <3> QED BY <2>2, <3>1, <3>2, AuthAssumption
  <2>4. CASE x = 0
    <3>1. Within(t, x) = 0
      BY <2>4, WithinType
    <3>2. MaxAttempts * Within(Append(r, 0), x) \in Nat
      BY <2>2, AllowanceType
    <3> QED BY <2>2, <3>1, <3>2
  <2>5. CASE x # 0
    <3>1. Within(Append(r, 0), x) = Within(r, x) + 1
      BY <2>5, WithinAppended
    <3>2. /\ MaxAttempts * (Within(r, x) + 1) = MaxAttempts * Within(r, x) + MaxAttempts
          /\ MaxAttempts \in Nat /\ MaxAttempts * Within(r, x) \in Nat
      BY <2>2, AllowanceType
    <3>3. Within(t, x) <= MaxAttempts * Within(r, x) + Within(s, x)
      BY DEF Explained
    <3>4. MaxAttempts * Within(Append(r, 0), x) = MaxAttempts * Within(r, x) + MaxAttempts
      BY <3>1, <3>2
    <3> DEFINE before == MaxAttempts * Within(r, x)
               after == MaxAttempts * Within(Append(r, 0), x)
    <3>5. /\ before \in Nat /\ after = before + MaxAttempts /\ MaxAttempts \in Nat
          /\ Within(t, x) <= before + Within(s, x)
      BY <3>2, <3>3, <3>4
    <3> HIDE DEF before, after
    <3>6. Within(t, x) <= after + Within(<<>>, x)
      BY <2>2, <2>3, <3>5
    <3> QED BY <3>6 DEF after
  <2> QED BY <2>4, <2>5
<1>2. MaxAttempts \in Nat
  BY AuthAssumption
<1> QED BY <1>1, <1>2, NoTimes DEF Explained

(* As time passes everything grows older alike. *)
LEMMA ExplainedAged ==
  ASSUME NEW s \in Seq(Ages), NEW t \in Seq(Ages), NEW r \in Seq(Ages), Explained(s, t, r)
  PROVE  /\ Aged(s) \in Seq(Ages) /\ Recent(Aged(t)) \in Seq(Ages)
         /\ Explained(Aged(s), Recent(Aged(t)), Recent(Aged(r)))
<1>1. Aged(s) \in Seq(Ages) /\ Ordered(Aged(s))
  BY AgedType DEF Explained
<1>2. Aged(t) \in Seq(Ages) /\ Ordered(Aged(t)) /\ Aged(r) \in Seq(Ages)
  BY AgedType DEF Explained
<1>3. Recent(Aged(t)) \in Seq(Ages) /\ Ordered(Recent(Aged(t)))
      /\ \A i \in 1..Len(Recent(Aged(t))) : Recent(Aged(t))[i] < Window
  BY <1>2, RecentType
<1>4. Len(Recent(Aged(s))) <= MaxAttempts
  <2>1. Recent(s) \in Seq(Ages)
    BY RecentType
  <2>2. Aged(Recent(s)) \in Seq(Ages) /\ Len(Aged(Recent(s))) = Len(Recent(s))
    BY <2>1, AgedType
  <2>3. Len(Recent(Aged(Recent(s)))) <= Len(Recent(s))
    BY <2>2, RecentType
  <2>4. Recent(Aged(Recent(s))) = Recent(Aged(s)) /\ Len(Recent(s)) <= MaxAttempts
    BY RecentAged DEF Explained
  <2>5. Recent(Aged(s)) \in Seq(Ages)
    BY <1>1, RecentType
  <2>6. Len(Recent(Aged(s))) \in Nat /\ Len(Recent(s)) \in Nat /\ MaxAttempts \in Nat
    BY <2>1, <2>5, AgesAreNumbers, AuthAssumption
  <2> QED BY <2>3, <2>4, <2>6
<1>5. ASSUME NEW x \in Ages
      PROVE  Within(Recent(Aged(t)), x)
               <= MaxAttempts * Within(Recent(Aged(r)), x) + Within(Aged(s), x)
  <2>1. /\ Within(Recent(Aged(t)), x) = Within(Aged(t), x)
        /\ Within(Recent(Aged(r)), x) = Within(Aged(r), x)
    BY <1>2, WithinRecent
  <2>2. CASE x = 0
    <3>1. Within(Aged(t), x) = 0 /\ Within(Aged(r), x) = 0 /\ Within(Aged(s), x) = 0
      BY <1>1, <1>2, <2>2, WithinType
    <3>2. MaxAttempts \in Nat
      BY AuthAssumption
    <3> QED BY <2>1, <3>1, <3>2
  <2>3. CASE x # 0
    <3>1. /\ x - 1 \in Ages /\ Within(Aged(t), x) = Within(t, x - 1)
          /\ Within(Aged(r), x) = Within(r, x - 1) /\ Within(Aged(s), x) = Within(s, x - 1)
      BY <2>3, WithinAged
    <3> QED BY <2>1, <3>1 DEF Explained
  <2> QED BY <2>2, <2>3
<1> QED BY <1>1, <1>3, <1>4, <1>5 DEF Explained

(* No more passwords than the limit, and the limit again for each restart. *)
LEMMA ExplainedLimited ==
  ASSUME NEW s \in Seq(Ages), NEW t \in Seq(Ages), NEW r \in Seq(Ages), Explained(s, t, r)
  PROVE  Len(t) <= MaxAttempts * (Len(r) + 1)
<1>1. Window \in Ages
  BY AuthAssumption DEF Ages
<1>2. Recent(s) \in Seq(Ages) /\ Len(Recent(s)) <= MaxAttempts
  BY RecentType DEF Explained
<1>3. Len(Recent(s)) \in Nat /\ Len(r) \in Nat /\ Len(t) \in Nat
  BY <1>2, AgesAreNumbers
<1>4. Len(t) <= MaxAttempts * Within(r, Window) + Within(s, Window)
  BY <1>1, WithinAll DEF Explained
<1>5. Within(s, Window) \in Nat /\ Within(s, Window) <= Len(Recent(s))
  <2>1. Within(s, Window) = Within(Recent(s), Window)
    BY <1>1, WithinRecent
  <2> QED BY <1>1, <1>2, <2>1, WithinType
<1>6. Within(r, Window) \in Nat /\ Within(r, Window) <= Len(r)
  BY <1>1, WithinType
<1>7. /\ MaxAttempts \in Nat /\ MaxAttempts * Within(r, Window) \in Nat
      /\ MaxAttempts * Len(r) \in Nat
      /\ MaxAttempts * Within(r, Window) <= MaxAttempts * Len(r)
  BY <1>3, <1>6, AllowanceType, AllowanceGrows
<1>8. MaxAttempts * (Len(r) + 1) = MaxAttempts * Len(r) + MaxAttempts
  BY <1>3, AllowanceType
<1> QED BY <1>2, <1>3, <1>4, <1>5, <1>7, <1>8

-----------------------------------------------------------------------------
Tracked ==
  /\ attempts \in [Addresses -> Seq(Ages)]
  /\ tries \in [Addresses -> Seq(Ages)]
  /\ restarts \in Seq(Ages)
  /\ \A a \in Addresses : Explained(attempts[a], tries[a], restarts)

LEMMA TrackedCounted ==
  ASSUME Tracked, NEW b \in Browsers, Counted(b), restarts' = restarts
  PROVE  Tracked'
<1> DEFINE a == From[b]
           s == Append(Recent(attempts[a]), 0)
           t == Append(tries[a], 0)
<1>1. a \in Addresses
  BY AuthAssumption
<1>2. Len(Recent(attempts[a])) < MaxAttempts
  <2>1. Recent(attempts[a]) \in Seq(Ages)
    BY <1>1, RecentType DEF Tracked
  <2>2. Len(Recent(attempts[a])) \in Nat /\ MaxAttempts \in Nat
    BY <2>1, AgesAreNumbers, AuthAssumption
  <2> QED BY <2>2 DEF Counted, Limited, Pruned
<1>3. s \in Seq(Ages) /\ t \in Seq(Ages) /\ Explained(s, t, restarts)
  BY <1>1, <1>2, ExplainedCounted DEF Tracked
<1>4. attempts' = [attempts EXCEPT ![a] = s] /\ tries' = [tries EXCEPT ![a] = t]
  BY DEF Counted, Pruned
<1> HIDE DEF s, t
<1> QED BY <1>3, <1>4 DEF Tracked

LEMMA TrackedTooMany ==
  ASSUME Tracked, NEW b \in Browsers, TooMany(b)
  PROVE  Tracked'
<1> DEFINE a == From[b]
           s == Recent(attempts[a])
<1>1. a \in Addresses
  BY AuthAssumption
<1>2. s \in Seq(Ages) /\ Explained(s, tries[a], restarts)
  BY <1>1, ExplainedPruned DEF Tracked
<1>3. attempts' = [attempts EXCEPT ![a] = s] /\ tries' = tries /\ restarts' = restarts
  BY DEF TooMany, Pruned, config
<1> HIDE DEF s
<1> QED BY <1>2, <1>3 DEF Tracked

LEMMA TrackedNext ==
  ASSUME Tracked, [AuthNext]_authVars
  PROVE  Tracked'
<1>1. CASE Restart
  <2>1. /\ attempts' = [a \in Addresses |-> <<>>] /\ tries' = tries
        /\ restarts' = Append(restarts, 0)
    BY <1>1 DEF Restart
  <2>2. restarts' \in Seq(Ages)
    BY <2>1, AgesAreNumbers, AppendProperties DEF Tracked, Ages
  <2>3. \A a \in Addresses : Explained(<<>>, tries[a], Append(restarts, 0))
    BY ExplainedRestart DEF Tracked
  <2> QED BY <2>1, <2>2, <2>3, NoTimes DEF Tracked
<1>2. CASE Tick
  <2>1. /\ attempts' = [a \in Addresses |-> Aged(attempts[a])]
        /\ tries' = [a \in Addresses |-> Recent(Aged(tries[a]))]
        /\ restarts' = Recent(Aged(restarts))
    BY <1>2 DEF Tick
  <2>2. restarts' \in Seq(Ages)
    BY <2>1, AgedType, RecentType DEF Tracked
  <2>3. ASSUME NEW a \in Addresses
        PROVE  /\ Aged(attempts[a]) \in Seq(Ages) /\ Recent(Aged(tries[a])) \in Seq(Ages)
               /\ Explained(Aged(attempts[a]), Recent(Aged(tries[a])), Recent(Aged(restarts)))
    BY ExplainedAged DEF Tracked
  <2> QED BY <2>1, <2>2, <2>3 DEF Tracked
<1>3. CASE UNCHANGED <<attempts, tries, restarts>>
  BY <1>3 DEF Tracked
<1>4. ASSUME NEW b \in Browsers, WrongPassword(b) \/ TooManySessions(b) \/ LoggedIn(b)
      PROVE  Tracked'
  BY <1>4, TrackedCounted DEF WrongPassword, TooManySessions, LoggedIn, config
<1>5. ASSUME NEW b \in Browsers, TooMany(b) PROVE Tracked'
  BY <1>5, TrackedTooMany
<1>6. ASSUME NEW b \in Browsers, Anonymous(b) \/ Logout(b) \/ Me(b) \/ Call(b) \/ Forget(b)
      PROVE  UNCHANGED <<attempts, tries, restarts>>
  BY <1>6 DEF Anonymous, Logout, Me, Call, Forget, config
<1> QED BY <1>1, <1>2, <1>3, <1>4, <1>5, <1>6 DEF AuthNext, authVars

-----------------------------------------------------------------------------
(* The store of sessions. *)

SessionsType ==
  /\ sessions \in [Tokens -> 0..MaxAge \cup {Absent}]
  /\ cookie \in [Browsers -> Tokens \cup {Absent}]

(* No more sessions are kept than MAX_SESSIONS, good or not. *)
StoreBounded == Cardinality(Stored(sessions)) <= MaxSessions

RestTypeOfAuth ==
  /\ required \in BOOLEAN /\ key \in BOOLEAN
  /\ reply \in {"none", "anonymous", "limited", "wrong", "full", "in", "out", "user",
                "passed", "unauthorised"}

LEMMA StoredFinite ==
  ASSUME NEW store, NEW T \in SUBSET Stored(store)
  PROVE  /\ IsFiniteSet(Stored(store)) /\ IsFiniteSet(T)
         /\ Cardinality(T) \in Nat /\ Cardinality(Stored(store)) \in Nat
         /\ Cardinality(T) <= Cardinality(Stored(store))
<1>1. Stored(store) \in SUBSET Tokens /\ IsFiniteSet(Tokens)
  BY AuthAssumption DEF Stored
<1>2. IsFiniteSet(Stored(store))
  BY <1>1, FS_Subset
<1>3. IsFiniteSet(T) /\ Cardinality(T) <= Cardinality(Stored(store))
  BY <1>2, FS_Subset
<1> QED BY <1>2, <1>3, FS_CardinalityType

(* Sweeping leaves the good sessions, as they are. *)
LEMMA SweptIs ==
  ASSUME SessionsType
  PROVE  /\ Swept \in [Tokens -> 0..MaxAge \cup {Absent}]
         /\ Stored(Swept) = Live /\ Live \subseteq Stored(sessions)
         /\ \A t \in Live : Swept[t] = sessions[t]
BY DEF SessionsType, Swept, Stored, Live

(* There is always a token nobody has. *)
LEMMA NewTokenIs ==
  ASSUME SessionsType, StoreBounded
  PROVE  /\ NewToken \in Tokens /\ sessions[NewToken] = Absent
         /\ \A b \in Browsers : cookie[b] # NewToken
<1> DEFINE held == {cookie[b] : b \in Browsers}
           used == Stored(sessions) \cup held
<1>1. IsFiniteSet(held) /\ Cardinality(held) <= Cardinality(Browsers)
  <2>1. cookie \in Surjection(Browsers, held)
    BY DEF SessionsType, Surjection
  <2> QED BY <2>1, AuthAssumption, FS_Surjection
<1>2. IsFiniteSet(Stored(sessions))
  BY StoredFinite
<1>3. /\ IsFiniteSet(used)
      /\ Cardinality(used)
           = Cardinality(Stored(sessions)) + Cardinality(held)
               - Cardinality(Stored(sessions) \cap held)
  BY <1>1, <1>2, FS_Union
<1>4. IsFiniteSet(Stored(sessions) \cap held)
  BY <1>2, FS_Intersection
<1>5. Cardinality(used) < Cardinality(Tokens)
  <2>1. /\ Cardinality(held) \in Nat /\ Cardinality(Stored(sessions)) \in Nat
        /\ Cardinality(Stored(sessions) \cap held) \in Nat
        /\ Cardinality(Browsers) \in Nat /\ Cardinality(Tokens) \in Nat
    BY <1>1, <1>2, <1>4, AuthAssumption, FS_CardinalityType
  <2>2. /\ Cardinality(Tokens) > MaxSessions + Cardinality(Browsers)
        /\ MaxSessions \in Nat
    BY AuthAssumption
  <2> HIDE DEF used, held
  <2> QED BY <1>1, <1>3, <2>1, <2>2 DEF StoreBounded
<1>6. \E t \in Tokens : t \notin used
  <2> SUFFICES ASSUME Tokens \subseteq used PROVE FALSE
    OBVIOUS
  <2>1. Cardinality(Tokens) <= Cardinality(used)
    <3> HIDE DEF used
    <3> QED BY <1>3, FS_Subset
  <2>2. Cardinality(Tokens) \in Nat /\ Cardinality(used) \in Nat
    BY <1>3, AuthAssumption, FS_CardinalityType
  <2> QED BY <1>5, <2>1, <2>2
<1>7. \E t \in Tokens : sessions[t] = Absent /\ \A b \in Browsers : cookie[b] # t
  BY <1>6 DEF Stored
<1> QED BY <1>7 DEF NewToken

(* Logging out and being looked at only take a session away. *)
LEMMA Removed ==
  ASSUME SessionsType, StoreBounded, NEW b \in Browsers,
         sessions' = [t \in Tokens |-> IF t = cookie[b] THEN Absent ELSE sessions[t]]
  PROVE  sessions' \in [Tokens -> 0..MaxAge \cup {Absent}] /\ StoreBounded'
<1>1. sessions' \in [Tokens -> 0..MaxAge \cup {Absent}]
  BY DEF SessionsType
<1>2. Stored(sessions') \in SUBSET Stored(sessions)
  BY DEF SessionsType, Stored
<1>3. /\ Cardinality(Stored(sessions')) <= Cardinality(Stored(sessions))
      /\ Cardinality(Stored(sessions')) \in Nat /\ Cardinality(Stored(sessions)) \in Nat
  BY <1>2, StoredFinite
<1>4. MaxSessions \in Nat
  BY AuthAssumption
<1> QED BY <1>1, <1>3, <1>4 DEF StoreBounded

LEMMA StoreLoggedIn ==
  ASSUME SessionsType, StoreBounded, NEW b \in Browsers, LoggedIn(b)
  PROVE  SessionsType' /\ StoreBounded'
<1>1. NewToken \in Tokens /\ sessions[NewToken] = Absent
  BY NewTokenIs
<1>2. /\ sessions' = [Swept EXCEPT ![NewToken] = 0]
      /\ cookie' = [cookie EXCEPT ![b] = NewToken]
      /\ Cardinality(Live) < MaxSessions
  BY SweptIs DEF LoggedIn
<1>3. 0 \in 0..MaxAge /\ MaxSessions \in Nat /\ Absent \notin Nat
  BY AuthAssumption
<1>4. SessionsType'
  BY <1>1, <1>2, <1>3, SweptIs DEF SessionsType
<1>5. Stored(sessions') = Live \cup {NewToken}
  <2>1. \A t \in Tokens : sessions'[t] = IF t = NewToken THEN 0 ELSE Swept[t]
    BY <1>1, <1>2, SweptIs
  <2>2. Live = {t \in Tokens : Swept[t] # Absent}
    BY SweptIs DEF Stored
  <2> QED BY <1>1, <1>3, <2>1, <2>2 DEF Stored
<1>6. IsFiniteSet(Live) /\ Cardinality(Live) \in Nat
  BY SweptIs, StoredFinite
<1>7. Cardinality(Live \cup {NewToken}) <= Cardinality(Live) + 1
  BY <1>6, FS_AddElement
<1>8. Cardinality(Stored(sessions')) \in Nat
  BY StoredFinite
<1>9. Cardinality(Stored(sessions')) <= MaxSessions
  <2> DEFINE n == Cardinality(Live)
             m == Cardinality(Stored(sessions'))
  <2>1. n < MaxSessions /\ n \in Nat /\ m \in Nat /\ MaxSessions \in Nat /\ m <= n + 1
    BY <1>2, <1>3, <1>5, <1>6, <1>7, <1>8
  <2> HIDE DEF n, m
  <2>2. m <= MaxSessions
    BY <2>1
  <2> QED BY <2>2 DEF m
<1> QED BY <1>4, <1>9 DEF StoreBounded

LEMMA StoreNext ==
  ASSUME SessionsType, StoreBounded, [AuthNext]_authVars
  PROVE  SessionsType' /\ StoreBounded'
<1>1. CASE Restart
  <2>1. Stored(sessions') = {}
    BY <1>1 DEF Restart, Stored
  <2>2. Cardinality(Stored(sessions')) = 0 /\ 0 <= MaxSessions
    BY <2>1, FS_EmptySet, AuthAssumption
  <2> QED BY <1>1, <2>2 DEF Restart, SessionsType, StoreBounded
<1>2. CASE Tick
  <2>1. MaxAge \in Nat /\ Absent \notin Nat
    BY AuthAssumption
  <2>2. sessions' = [t \in Tokens |->
           IF sessions[t] = Absent THEN Absent ELSE Older(sessions[t], MaxAge)]
        /\ cookie' = cookie
    BY <1>2 DEF Tick
  <2>3. \A t \in Tokens : sessions[t] # Absent => Older(sessions[t], MaxAge) \in 0..MaxAge
    BY <2>1 DEF SessionsType, Older
  <2>4. SessionsType'
    BY <2>2, <2>3 DEF SessionsType
  <2>5. Stored(sessions') = Stored(sessions)
    BY <2>1, <2>2, <2>3 DEF Stored
  <2> QED BY <2>4, <2>5 DEF StoreBounded
<1>3. CASE UNCHANGED <<sessions, cookie>>
  BY <1>3 DEF SessionsType, StoreBounded
<1>4. ASSUME NEW b \in Browsers, TooManySessions(b) PROVE SessionsType' /\ StoreBounded'
  <2>1. sessions' = Swept /\ cookie' = cookie
    BY <1>4 DEF TooManySessions
  <2>2. Stored(sessions') \in SUBSET Stored(sessions)
    BY <2>1, SweptIs
  <2>3. /\ Cardinality(Stored(sessions')) <= Cardinality(Stored(sessions))
        /\ Cardinality(Stored(sessions')) \in Nat /\ Cardinality(Stored(sessions)) \in Nat
    BY <2>2, StoredFinite
  <2>4. MaxSessions \in Nat
    BY AuthAssumption
  <2> QED BY <2>1, <2>3, <2>4, SweptIs DEF SessionsType, StoreBounded
<1>5. ASSUME NEW b \in Browsers, LoggedIn(b) PROVE SessionsType' /\ StoreBounded'
  BY <1>5, StoreLoggedIn
<1>6. ASSUME NEW b \in Browsers, Logout(b) PROVE SessionsType' /\ StoreBounded'
  BY <1>6, Removed DEF Logout, SessionsType
<1>7. ASSUME NEW b \in Browsers, Me(b) \/ Call(b) PROVE SessionsType' /\ StoreBounded'
  <2>1. \/ UNCHANGED sessions
        \/ sessions' = [t \in Tokens |-> IF t = cookie[b] THEN Absent ELSE sessions[t]]
    BY <1>7 DEF Me, Call, CheckAuth
  <2>2. cookie' = cookie
    BY <1>7 DEF Me, Call
  <2>3. CASE UNCHANGED sessions
    BY <2>2, <2>3 DEF SessionsType, StoreBounded
  <2>4. CASE sessions' = [t \in Tokens |-> IF t = cookie[b] THEN Absent ELSE sessions[t]]
    BY <2>2, <2>4, Removed DEF SessionsType
  <2> QED BY <2>1, <2>3, <2>4
<1>8. ASSUME NEW b \in Browsers, Forget(b) PROVE SessionsType' /\ StoreBounded'
  BY <1>8 DEF Forget, SessionsType, StoreBounded
<1>9. ASSUME NEW b \in Browsers, Anonymous(b) \/ TooMany(b) \/ WrongPassword(b)
      PROVE  UNCHANGED <<sessions, cookie>>
  BY <1>9 DEF Anonymous, TooMany, WrongPassword, config
<1> QED
  BY <1>1, <1>2, <1>3, <1>4, <1>5, <1>6, <1>7, <1>8, <1>9 DEF AuthNext, authVars

LEMMA RestTypeNext ==
  ASSUME RestTypeOfAuth, [AuthNext]_authVars
  PROVE  RestTypeOfAuth'
<1>1. CASE Restart \/ Tick \/ UNCHANGED authVars
  BY <1>1 DEF Restart, Tick, authVars, RestTypeOfAuth
<1>2. ASSUME NEW b \in Browsers,
             \/ Anonymous(b) \/ TooMany(b) \/ WrongPassword(b) \/ TooManySessions(b)
             \/ LoggedIn(b) \/ Logout(b) \/ Forget(b)
      PROVE  RestTypeOfAuth'
  BY <1>2 DEF Anonymous, TooMany, WrongPassword, TooManySessions, LoggedIn, Logout, Forget,
              config, RestTypeOfAuth
<1>3. ASSUME NEW b \in Browsers, Me(b) \/ Call(b) PROVE RestTypeOfAuth'
  BY <1>3 DEF Me, Call, CheckAuth, config, RestTypeOfAuth
<1> QED BY <1>1, <1>2, <1>3 DEF AuthNext

(* Whoever is turned away for the number of sessions found that many good  *)
(* ones, and nothing else is answered with "full".                         *)
LEMMA RefusedNext ==
  ASSUME SessionsType, RefusedOnlyWhenFull, [AuthNext]_authVars
  PROVE  RefusedOnlyWhenFull'
<1>1. ASSUME NEW b \in Browsers, TooManySessions(b) PROVE RefusedOnlyWhenFull'
  <2>1. sessions' = Swept /\ Cardinality(Live) >= MaxSessions
    BY <1>1, SweptIs DEF TooManySessions
  <2>2. Live' = Live
    <3>1. Live' = {t \in Stored(Swept) : Swept[t] < MaxAge}
      BY <2>1 DEF Live
    <3>2. Live = {t \in Live : sessions[t] < MaxAge}
      BY DEF Live
    <3> QED BY <3>1, <3>2, SweptIs
  <2> QED BY <2>1, <2>2 DEF RefusedOnlyWhenFull
<1>2. CASE UNCHANGED authVars
  BY <1>2 DEF authVars, RefusedOnlyWhenFull, Live, Stored
<1>3. CASE Restart \/ Tick
  BY <1>3 DEF Restart, Tick, RefusedOnlyWhenFull
<1>4. ASSUME NEW b \in Browsers,
             \/ Anonymous(b) \/ TooMany(b) \/ WrongPassword(b)
             \/ LoggedIn(b) \/ Logout(b) \/ Me(b) \/ Call(b) \/ Forget(b)
      PROVE  reply' # "full"
  BY <1>4 DEF Anonymous, TooMany, WrongPassword, LoggedIn, Logout, Me, Call, Forget, CheckAuth
<1> QED BY <1>1, <1>2, <1>3, <1>4 DEF AuthNext, RefusedOnlyWhenFull

-----------------------------------------------------------------------------
AuthInv == Tracked /\ SessionsType /\ StoreBounded /\ RestTypeOfAuth /\ RefusedOnlyWhenFull

LEMMA AuthInvInit == AuthInit => AuthInv
<1> SUFFICES ASSUME AuthInit PROVE AuthInv
  OBVIOUS
<1>1. Tracked
  <2>1. Explained(<<>>, <<>>, <<>>)
    <3>1. MaxAttempts \in Nat
      BY AuthAssumption
    <3>2. \A x \in Ages : Within(<<>>, x) \in Nat /\ Within(<<>>, x) <= 0
      BY NoTimes, WithinType
    <3>3. \A x \in Ages : MaxAttempts * Within(<<>>, x) \in Nat
      BY <3>2, AllowanceType
    <3> QED BY <3>1, <3>2, <3>3, NoTimes DEF Explained
  <2> QED BY <2>1, NoTimes DEF AuthInit, Tracked
<1>2. Stored(sessions) = {}
  BY DEF AuthInit, Stored
<1>3. StoreBounded
  BY <1>2, FS_EmptySet, AuthAssumption DEF StoreBounded
<1>4. SessionsType /\ RestTypeOfAuth /\ RefusedOnlyWhenFull
  BY DEF AuthInit, SessionsType, RestTypeOfAuth, RefusedOnlyWhenFull
<1> QED BY <1>1, <1>3, <1>4 DEF AuthInv

LEMMA AuthInvariant == AuthSpec => []AuthInv
<1>1. AuthInv /\ [AuthNext]_authVars => AuthInv'
  BY TrackedNext, StoreNext, RestTypeNext, RefusedNext DEF AuthInv
<1> QED BY <1>1, AuthInvInit, PTL DEF AuthSpec

(* Every state of the login has the declared type (auth.py:18-28).         *)
THEOREM AuthTypeCorrect == AuthSpec => []AuthTypeOK
<1>1. AuthInv => AuthTypeOK
  BY DEF AuthInv, Tracked, Ages, SessionsType, RestTypeOfAuth, AuthTypeOK
<1> QED BY <1>1, AuthInvariant, PTL

(* For any number of addresses, window, limit and restarts, no address has *)
(* more passwords compared within a window than LOGIN_MAX_ATTEMPTS for     *)
(* each life the API had in it (_check_rate_limit and login,               *)
(* auth.py:131-160): the list is pruned and appended to by one call after  *)
(* another, and lost with the process, while the guesses stay made.        *)
THEOREM GuessesAreLimited == AuthSpec => []GuessesLimited
<1>1. AuthInv => GuessesLimited
  BY ExplainedLimited DEF AuthInv, Tracked, GuessesLimited
<1> QED BY <1>1, AuthInvariant, PTL

(* The session store never holds more than MAX_SESSIONS sessions           *)
(* (auth.py:163-172), be they good or past their time.                     *)
THEOREM StoreIsBounded == AuthSpec => []StoreBounded
<1>1. AuthInv => StoreBounded
  BY DEF AuthInv
<1> QED BY <1>1, AuthInvariant, PTL

(* The right password is refused for want of room only when MAX_SESSIONS   *)
(* sessions are in use (auth.py:163-168).                                  *)
THEOREM RefusedWhenFull == AuthSpec => []RefusedOnlyWhenFull
<1>1. AuthInv => RefusedOnlyWhenFull
  BY DEF AuthInv
<1> QED BY <1>1, AuthInvariant, PTL
=============================================================================
