------------------------------ MODULE Bridge -------------------------------
(***************************************************************************)
(* The two ways out of the API process: the MQTT client of                 *)
(* services/mqtt.py, which runs on a thread of its own, and the event      *)
(* streams of routes/events.py, which run on the event loop.  They meet in *)
(* three places: a command of MQTT broadcasts to the streams from its      *)
(* thread, one that is a coroutine is handed to the loop and waited for,   *)
(* and the shutdown of the loop joins the thread.                          *)
(*                                                                         *)
(* The broker, its retained topics and its last will are external, and so  *)
(* are the clients of the streams.  Events are counted, not named.         *)
(* A definition X_Y before X is X with the plausible defect Y.             *)
(***************************************************************************)
EXTENDS Naturals, Sequences

CONSTANTS
  Clients,    \* clients that may open a stream
  Room,       \* the size of a client's queue
  States,     \* what the state files may say
  None        \* nothing published yet

ASSUME BridgeAssumption == Room \in Nat \ {0} /\ None \notin States

VARIABLES
  loop,       \* the event loop: down, free, or in loop_stop()
  link,       \* the client's side of the connection: none, refused, trying, up
  session,    \* the broker's side of it
  available,  \* the retained topic `available`
  state,      \* the state files
  topic,      \* the retained topic `state`
  thread,     \* the MQTT thread: none, idle, announcing, awaiting, telling, replying
  next,       \* telling: the index of the iteration over _clients
  due,        \* telling: the clients it has found registered and not reached
  overlap,    \* telling: a client has been removed since it began
  job,        \* the coroutine handed to the loop: none, queued, done
  clients,    \* _clients
  queue,      \* events in the queue of each client
  stream,     \* each client: away, opening, open, gone, abandoned
  watched,    \* GET /health publishes for a caller who shows no key
  overtaken   \* the goodbye of stop() came before the greeting of the same connection

vars == <<loop, link, session, available, state, topic, thread, next, due, overlap, job,
          clients, queue, stream, watched, overtaken>>
broker == <<session, available, watched, overtaken>>
telling == <<next, due, overlap>>
streams == <<clients, queue, stream>>

Registered == {clients[i] : i \in DOMAIN clients}

\* The process is not running: nothing of it but what the broker keeps.
Down ==
  /\ loop' = "down" /\ link' = "none" /\ thread' = "none" /\ job' = "none"
  /\ next' = 1 /\ due' = {} /\ overlap' = FALSE
  /\ clients' = <<>>
  /\ queue' = [c \in Clients |-> 0]
  /\ stream' = [c \in Clients |-> "away"]

Init ==
  /\ loop = "down" /\ link = "none" /\ thread = "none" /\ job = "none"
  /\ next = 1 /\ due = {} /\ overlap = FALSE
  /\ clients = <<>>
  /\ queue = [c \in Clients |-> 0]
  /\ stream = [c \in Clients |-> "away"]
  /\ session = FALSE /\ available = "none" /\ overtaken = FALSE
  /\ watched \in BOOLEAN
  /\ state \in States /\ topic = None

-----------------------------------------------------------------------------
\* The connection to the broker.

\* start(): connect() raises and nothing tries again, or the thread starts.
Start ==
  /\ loop = "down"
  /\ loop' = "free"
  /\ \/ link' = "refused" /\ UNCHANGED thread
     \/ link' = "trying" /\ thread' = "idle"
  /\ UNCHANGED <<broker, state, topic, telling, job, streams>>

\* _on_connect() with reason 0: _connected is set.  A session the broker still
\* had is taken over.
OnConnect ==
  /\ loop = "free" /\ thread = "idle" /\ link = "trying"
  /\ link' = "up" /\ session' = TRUE
  /\ thread' = "announcing" /\ overtaken' = FALSE
  /\ UNCHANGED <<loop, available, watched, state, topic, telling, job, streams>>

\* Then it publishes online; the loop may have run stop() meanwhile.
Announce ==
  /\ thread = "announcing"
  /\ thread' = "idle"
  /\ available' = IF session THEN "online" ELSE available
  /\ overtaken' = (loop = "joining")
  /\ UNCHANGED <<loop, link, session, watched, state, topic, telling, job, streams>>

\* _on_disconnect().
OnDisconnect ==
  /\ loop = "free" /\ thread = "idle" /\ link = "up"
  /\ link' = "trying"
  /\ UNCHANGED <<loop, broker, state, topic, thread, telling, job, streams>>

\* The broker finds a session broken and publishes its will.
BrokerDrops ==
  /\ session
  /\ session' = FALSE /\ available' = "offline"
  /\ UNCHANGED <<loop, link, watched, overtaken, state, topic, thread, telling, job, streams>>

\* publish_state(): what is published without a session is lost.
Shown == IF link = "up" /\ session THEN state ELSE topic

PublishState_Connecting ==
  /\ loop = "free" /\ link = "trying"
  /\ topic' = Shown
  /\ UNCHANGED <<loop, link, broker, state, thread, telling, job, streams>>

\* GET /health publishes the state, once setup is done and for a caller who
\* gets past the login and the key.
PublishState ==
  /\ loop = "free" /\ link = "up"
  /\ topic' = Shown
  /\ UNCHANGED <<loop, link, broker, state, thread, telling, job, streams>>

Stop_SaysNothing ==
  /\ loop = "free" /\ link = "up"
  /\ loop' = "joining"
  /\ UNCHANGED <<link, broker, state, topic, thread, telling, job, streams>>

\* stop() while connected: offline is published and the thread joined, by the
\* event loop.  The thread ends after the callback it is in.
Stop ==
  /\ loop = "free" /\ link = "up"
  /\ available' = IF session THEN "offline" ELSE available
  /\ loop' = "joining"
  /\ UNCHANGED <<link, session, watched, overtaken, state, topic, thread, telling, job, streams>>

\* The thread has ended: a clean disconnect, for which there is no will.
Joined ==
  /\ loop = "joining" /\ thread = "idle"
  /\ session' = FALSE
  /\ Down
  /\ UNCHANGED <<available, watched, overtaken, state, topic>>

\* stop() while not connected leaves the thread to the end of the process; a
\* crash leaves all to it.
Exit ==
  /\ loop # "down"
  /\ Down
  /\ UNCHANGED <<broker, state, topic>>

-----------------------------------------------------------------------------
\* _on_message() on the MQTT thread.  A command it does not know is refused
\* and leaves nothing behind.
Receive == loop = "free" /\ thread = "idle" /\ link = "up" /\ session

\* A coroutine (qbt_pause, qbt_resume): run_coroutine_threadsafe().
CommandAwaits ==
  /\ Receive
  /\ thread' = "awaiting" /\ job' = "queued"
  /\ UNCHANGED <<loop, link, broker, state, topic, telling, streams>>

RunJob ==
  /\ loop = "free" /\ job = "queued"
  /\ job' = "done"
  /\ UNCHANGED <<loop, link, broker, state, topic, thread, telling, streams>>

AwaitEnds ==
  /\ thread = "awaiting" /\ job = "done"
  /\ thread' = "replying"
  /\ UNCHANGED <<loop, link, broker, state, topic, telling, job, streams>>

TimedOut_Never == FALSE /\ UNCHANGED vars

\* future.result(timeout=10) raises; the coroutine stays with the loop.
TimedOut ==
  /\ thread = "awaiting"
  /\ thread' = "replying"
  /\ UNCHANGED <<loop, link, broker, state, topic, telling, job, streams>>

\* vpn_restart, vpn_disconnect: broadcast() iterates over _clients on the
\* thread, which the loop changes meanwhile.
CommandTells ==
  /\ Receive
  /\ thread' = "telling"
  /\ next' = 1 /\ due' = Registered /\ overlap' = FALSE
  /\ state' \in States
  /\ UNCHANGED <<loop, link, broker, topic, job, streams>>

\* put_nowait(): a full queue drops the event.
Put(c) == IF queue[c] < Room THEN queue[c] + 1 ELSE queue[c]

Tell_UntilFull ==
  /\ thread = "telling" /\ next <= Len(clients)
  /\ IF queue[clients[next]] < Room
     THEN /\ queue' = [queue EXCEPT ![clients[next]] = @ + 1]
          /\ due' = due \ {clients[next]}
          /\ next' = next + 1
     ELSE next' = Len(clients) + 1 /\ UNCHANGED <<queue, due>>
  /\ UNCHANGED <<loop, link, broker, state, topic, thread, overlap, job, clients, stream>>

Tell ==
  /\ thread = "telling" /\ next <= Len(clients)
  /\ queue' = [queue EXCEPT ![clients[next]] = Put(clients[next])]
  /\ due' = due \ {clients[next]}
  /\ next' = next + 1
  /\ UNCHANGED <<loop, link, broker, state, topic, thread, overlap, job, clients, stream>>

Told ==
  /\ thread = "telling" /\ next > Len(clients)
  /\ thread' = "replying"
  /\ UNCHANGED <<loop, link, broker, state, topic, telling, job, streams>>

\* Any other command (the killswitch, qbt_restart).
Command ==
  /\ Receive
  /\ thread' = "replying" /\ state' \in States
  /\ UNCHANGED <<loop, link, broker, topic, telling, job, streams>>

\* The result and the state are published.
Reply ==
  /\ thread = "replying"
  /\ thread' = "idle"
  /\ topic' = Shown
  /\ due' = {} /\ next' = 1 /\ overlap' = FALSE
  /\ UNCHANGED <<loop, link, broker, state, job, streams>>

-----------------------------------------------------------------------------
\* GET /events: the queue is appended before the generator runs.
Subscribe(c) ==
  /\ loop = "free" /\ stream[c] = "away"
  /\ clients' = Append(clients, c)
  /\ queue' = [queue EXCEPT ![c] = 0]
  /\ stream' = [stream EXCEPT ![c] = "opening"]
  /\ UNCHANGED <<loop, link, broker, state, topic, thread, telling, job>>

\* generate() is entered; or the client is gone before it is, and its finally
\* is never reached.
Open(c) ==
  /\ loop = "free" /\ stream[c] = "opening"
  /\ \E s \in {"open", "abandoned"} : stream' = [stream EXCEPT ![c] = s]
  /\ UNCHANGED <<loop, link, broker, state, topic, thread, telling, job, clients, queue>>

Deliver(c) ==
  /\ loop = "free" /\ stream[c] = "open" /\ queue[c] > 0
  /\ queue' = [queue EXCEPT ![c] = @ - 1]
  /\ UNCHANGED <<loop, link, broker, state, topic, thread, telling, job, clients, stream>>

Leave(c) ==
  /\ stream[c] = "open"
  /\ stream' = [stream EXCEPT ![c] = "gone"]
  /\ UNCHANGED <<loop, link, broker, state, topic, thread, telling, job, clients, queue>>

\* The cancelled generator's finally.
Remove(c) ==
  /\ loop = "free" /\ stream[c] = "gone"
  /\ \E i \in DOMAIN clients :
       /\ clients[i] = c
       /\ clients' = SubSeq(clients, 1, i - 1) \o SubSeq(clients, i + 1, Len(clients))
  /\ queue' = [queue EXCEPT ![c] = 0]
  /\ stream' = [stream EXCEPT ![c] = "away"]
  /\ overlap' = (overlap \/ thread = "telling")
  /\ UNCHANGED <<loop, link, broker, state, topic, thread, next, due, job>>

\* broadcast() on the event loop.
Broadcast ==
  /\ loop = "free"
  /\ queue' = [c \in Clients |-> IF c \in Registered THEN Put(c) ELSE queue[c]]
  /\ UNCHANGED <<loop, link, broker, state, topic, thread, telling, job, clients, stream>>

\* A script, a route or the watchdog writes state files.
Change ==
  /\ state' \in States
  /\ UNCHANGED <<loop, link, broker, topic, thread, telling, job, streams>>

\* Setup is completed; a login or a key is asked for, or no more.
Configure ==
  /\ watched' = ~watched
  /\ UNCHANGED <<loop, link, session, available, overtaken, state, topic, thread, telling,
                 job, streams>>

ThreadStep == Announce \/ AwaitEnds \/ TimedOut \/ Tell \/ Told \/ Reply

Next ==
  \/ Start \/ OnConnect \/ OnDisconnect \/ BrokerDrops \/ PublishState \/ Stop \/ Joined \/ Exit
  \/ CommandAwaits \/ RunJob \/ CommandTells \/ Command \/ ThreadStep
  \/ \E c \in Clients : Subscribe(c) \/ Open(c) \/ Deliver(c) \/ Leave(c) \/ Remove(c)
  \/ Broadcast \/ Change \/ Configure

\* Both threads go on; the broker finds out about a process that is gone; the
\* HEALTHCHECK of the container, which knows no key, asks for /health.
Fairness ==
  /\ WF_vars(ThreadStep) /\ WF_vars(RunJob) /\ WF_vars(Joined)
  /\ WF_vars(loop = "down" /\ BrokerDrops)
  /\ WF_vars(watched /\ PublishState)

Spec == Init /\ [][Next]_vars

FairSpec == Spec /\ Fairness

-----------------------------------------------------------------------------
TypeOK ==
  /\ loop \in {"down", "free", "joining"}
  /\ link \in {"none", "refused", "trying", "up"}
  /\ session \in BOOLEAN /\ available \in {"none", "online", "offline"}
  /\ state \in States /\ topic \in States \cup {None}
  /\ thread \in {"none", "idle", "announcing", "awaiting", "telling", "replying"}
  /\ watched \in BOOLEAN /\ overtaken \in BOOLEAN
  /\ next \in Nat \ {0} /\ due \subseteq Clients /\ overlap \in BOOLEAN
  /\ job \in {"none", "queued", "done"}
  /\ clients \in Seq(Clients)
  /\ queue \in [Clients -> 0..Room]
  /\ stream \in [Clients -> {"away", "opening", "open", "gone", "abandoned"}]

\* A broadcast of the MQTT thread reaches every client that was registered
\* when it began, unless one is removed meanwhile: a full queue costs its own
\* client the event and nobody else (events.py:28-32).
AllTold == thread = "replying" /\ ~overlap => due = {}

\* The shutdown ends, though the loop waits for the thread and the thread may
\* wait for the loop (mqtt.py:74-79, 137).
StopEnds == loop = "joining" ~> loop = "down"

\* Home Assistant is not left with a device that is shown as available and
\* whose process is gone, however it went (mqtt.py:57-62, 77), with one
\* exception: the goodbye of stop() overtook the greeting of a connection just
\* made, and a clean disconnect has no will to put that right (mqtt.py:84-86).
AvailabilityFollows ==
  loop = "down" ~> available # "online" \/ loop # "down" \/ overtaken

\* A state that lasts is shown, for as long as there is a connection and
\* whoever asks for the health of the container needs no key: nothing but that
\* request and the reply to a command publishes (health.py:50-55,
\* mqtt.py:149-173).
StateShown ==
  \A s \in States :
    state = s /\ link = "up" /\ session /\ watched
      ~> topic = s \/ state # s \/ link # "up" \/ ~session \/ ~watched
=============================================================================
