------------------------------- MODULE Proxy --------------------------------
(***************************************************************************)
(* The three proxies, HttpProxyService, SocksProxyService and              *)
(* ShadowsocksService: one handler task per client, from accept through    *)
(* the handshake to a relay of two pipe tasks, and the service around it.  *)
(* A behaviour is of one service.  Every await is a point where the other  *)
(* tasks, the peers and the timeouts come in.                              *)
(*                                                                         *)
(* Clients, targets and the transports of asyncio are external: closing a  *)
(* transport stops it from reading and lets what was written drain; a      *)
(* transport nobody refers to any more is aborted.                         *)
(* A definition X_Y before X is X with the plausible defect Y.             *)
(***************************************************************************)
EXTENDS Naturals, Sequences

CONSTANTS
  Kinds,      \* which services: "http", "socks", "shadowsocks"
  Conns,      \* connections of the clients, each made once
  MaxSaid,    \* bound on the chunks an end of a connection says
  HighWater   \* chunks the write buffer of a transport holds before drain waits

Dirs == {"up", "down"}            \* client to target, target to client
Sides == {"client", "target"}
From(d) == IF d = "up" THEN "client" ELSE "target"
To(d) == IF d = "up" THEN "target" ELSE "client"

ASSUME ProxyAssumption ==
  /\ Kinds \subseteq {"http", "socks", "shadowsocks"} /\ Kinds # {}
  /\ {MaxSaid, HighWater} \subseteq Nat

VARIABLES
  kind,         \* the service
  required,     \* it has a user or a password configured
  members,      \* connections whose client knows them
  server,       \* self._server: none yet, starting, listening, closed
  file,         \* its state file
  connections,  \* self._connections
  pc,           \* where the handler of a connection is
  peer,         \* the far end: not there, open, fin (sends no more), gone
  closed,       \* our transport to that end is closed
  said,         \* chunks the source of a direction has sent
  inbox,        \* received and not read yet
  initial,      \* Shadowsocks: data that came with the address
  outbox,       \* written and not yet at the destination
  heard,        \* what the destination has received
  pipe          \* the task of a direction

vars == <<kind, required, members, server, file, connections, pc, peer, closed, said, inbox,
          initial, outbox, heard, pipe>>
service == <<kind, required, members, server, file>>
data == <<said, inbox, initial, outbox, heard>>

Handshake == {"request", "headers", "auth", "address", "connecting", "reply", "initial"}

TypeOK ==
  /\ kind \in Kinds
  /\ required \in BOOLEAN
  /\ members \subseteq Conns
  /\ server \in {"none", "starting", "listening", "closed"}
  /\ file \in {"unset", "running", "error", "disabled"}
  /\ connections \in Nat
  /\ pc \in [Conns -> Handshake \cup {"none", "relay", "ended"}]
  /\ peer \in [Conns -> [Sides -> {"none", "open", "fin", "gone"}]]
  /\ closed \in [Conns -> [Sides -> BOOLEAN]]
  /\ said \in [Conns -> [Dirs -> Nat]]
  /\ inbox \in [Conns -> [Dirs -> Seq(Nat)]]
  /\ initial \in [Conns -> Seq(Nat)]
  /\ outbox \in [Conns -> [Dirs -> Seq(Nat)]]
  /\ heard \in [Conns -> [Dirs -> Seq(Nat)]]
  /\ pipe \in [Conns -> [Dirs -> {"none", "read", "drain", "cancelled", "done"}]]

Init ==
  /\ kind \in Kinds
  /\ required \in BOOLEAN /\ (kind = "shadowsocks" => required)
  /\ members \in SUBSET Conns
  /\ server = "none" /\ file = "unset"
  /\ connections = 0
  /\ pc = [c \in Conns |-> "none"]
  /\ peer = [c \in Conns |-> [s \in Sides |-> "none"]]
  /\ closed = [c \in Conns |-> [s \in Sides |-> FALSE]]
  /\ said = [c \in Conns |-> [d \in Dirs |-> 0]]
  /\ inbox = [c \in Conns |-> [d \in Dirs |-> <<>>]]
  /\ initial = [c \in Conns |-> <<>>]
  /\ outbox = [c \in Conns |-> [d \in Dirs |-> <<>>]]
  /\ heard = [c \in Conns |-> [d \in Dirs |-> <<>>]]
  /\ pipe = [c \in Conns |-> [d \in Dirs |-> "none"]]

-----------------------------------------------------------------------------
(* The service. *)

Start ==
  /\ server = "none" /\ file = "unset" /\ server' = "starting"
  /\ UNCHANGED <<kind, required, members, file, connections, pc, peer, closed, data, pipe>>

(* _start: the port is bound, or taken by someone else. *)
Bind ==
  /\ server = "starting"
  /\ \/ server' = "listening" /\ file' = "running"
     \/ server' = "none" /\ file' = "error"
  /\ UNCHANGED <<kind, required, members, connections, pc, peer, closed, data, pipe>>

(* stop(): no new client; those served are left to end. *)
Stop ==
  /\ server \in {"none", "listening"} /\ file # "unset"
  /\ server' = "closed" /\ file' = "disabled"
  /\ UNCHANGED <<kind, required, members, connections, pc, peer, closed, data, pipe>>

-----------------------------------------------------------------------------
(* The handler, up to the relay. *)

Authorised(c) == ~required \/ c \in members

GoTo(c, point) == pc' = [pc EXCEPT ![c] = point]

(* The finally clause.  Shadowsocks closes both transports; the others     *)
(* leave the target to the relay's pipe, or without one to the collector.  *)
Leave(c) ==
  /\ GoTo(c, "ended")
  /\ connections' = connections - 1
  /\ closed' = [closed EXCEPT ![c].client = TRUE,
                              ![c].target = @ \/ kind = "shadowsocks" \/ pipe[c].up = "none"]

Accept(c) ==
  /\ server = "listening" /\ pc[c] = "none"
  /\ GoTo(c, "request")
  /\ connections' = connections + 1
  /\ peer' = [peer EXCEPT ![c].client = "open"]
  /\ UNCHANGED <<service, closed, data, pipe>>

(* HTTP: the request line, and the port or its default. *)
Request(c) ==
  /\ kind = "http" /\ pc[c] = "request"
  /\ GoTo(c, "headers")
  /\ UNCHANGED <<service, connections, peer, closed, data, pipe>>

(* HTTP: the headers up to a blank line, or up to the end of a client that *)
(* has left; then the credentials.                                         *)
Headers(c) ==
  /\ kind = "http" /\ pc[c] = "headers"
  /\ Authorised(c)
  /\ GoTo(c, "connecting")
  /\ UNCHANGED <<service, connections, peer, closed, data, pipe>>

Greeting_NoAuth(c) ==
  /\ kind = "socks" /\ pc[c] = "request"
  /\ GoTo(c, "address")
  /\ UNCHANGED <<service, connections, peer, closed, data, pipe>>

(* SOCKS: version and methods; the proxy picks the method it needs. *)
Greeting(c) ==
  /\ kind = "socks" /\ pc[c] = "request"
  /\ GoTo(c, IF required THEN "auth" ELSE "address")
  /\ UNCHANGED <<service, connections, peer, closed, data, pipe>>

Authenticate(c) ==
  /\ kind = "socks" /\ pc[c] = "auth"
  /\ c \in members
  /\ GoTo(c, "address")
  /\ UNCHANGED <<service, connections, peer, closed, data, pipe>>

(* SOCKS: the command CONNECT and its address. *)
Address(c) ==
  /\ kind = "socks" /\ pc[c] = "address"
  /\ GoTo(c, "connecting")
  /\ UNCHANGED <<service, connections, peer, closed, data, pipe>>

(* Shadowsocks: the salt and the first chunk, which the password decrypts: *)
(* an address, and with it perhaps the first of the data.                  *)
FirstChunk(c) ==
  /\ kind = "shadowsocks" /\ pc[c] = "request"
  /\ c \in members
  /\ GoTo(c, "connecting")
  /\ \/ UNCHANGED <<inbox, initial>>
     \/ /\ inbox[c].up # <<>>
        /\ initial' = [initial EXCEPT ![c] = <<Head(inbox[c].up)>>]
        /\ inbox' = [inbox EXCEPT ![c].up = Tail(@)]
  /\ UNCHANGED <<service, connections, peer, closed, said, outbox, heard, pipe>>

(* Every early return of a handshake: a message that is malformed or asks  *)
(* for what is not offered, wrong credentials, an end of file, 30 seconds  *)
(* without a message, a target that cannot be reached.                     *)
GiveUp(c) ==
  /\ pc[c] \in {"request", "headers", "auth", "address", "connecting"}
  /\ Leave(c)
  /\ UNCHANGED <<service, peer, data, pipe>>

(* open_connection returns; the answer to the client is written. *)
Connected(c) ==
  /\ pc[c] = "connecting"
  /\ GoTo(c, "reply")
  /\ peer' = [peer EXCEPT ![c].target = "open"]
  /\ UNCHANGED <<service, connections, closed, data, pipe>>

StartPipes(c) == pipe' = [pipe EXCEPT ![c] = [d \in Dirs |-> "read"]]

Reply_ForgetsInitial(c) ==
  /\ pc[c] = "reply"
  /\ \/ /\ peer[c].client # "gone"
        /\ UNCHANGED <<connections, closed>>
        /\ initial' = [initial EXCEPT ![c] = <<>>]
        /\ GoTo(c, "relay") /\ StartPipes(c)
     \/ /\ peer[c].client = "gone"
        /\ Leave(c)
        /\ UNCHANGED <<initial, pipe>>
  /\ UNCHANGED <<service, peer, said, inbox, outbox, heard>>

(* drain() of the answer: it raises when the client has been lost.         *)
(* Shadowsocks then writes what came with the address.                     *)
Reply(c) ==
  /\ pc[c] = "reply"
  /\ \/ /\ peer[c].client # "gone"
        /\ UNCHANGED <<connections, closed>>
        /\ IF initial[c] = <<>>
           THEN GoTo(c, "relay") /\ StartPipes(c) /\ UNCHANGED <<initial, outbox>>
           ELSE /\ GoTo(c, "initial")
                /\ outbox' = [outbox EXCEPT ![c].up = @ \o initial[c]]
                /\ initial' = [initial EXCEPT ![c] = <<>>]
                /\ UNCHANGED pipe
     \/ /\ peer[c].client = "gone"
        /\ Leave(c)
        /\ UNCHANGED <<initial, outbox, pipe>>
  /\ UNCHANGED <<service, peer, said, inbox, heard>>

Drained(c, d) == Len(outbox[c][d]) <= HighWater

Initial(c) ==
  /\ pc[c] = "initial"
  /\ \/ /\ peer[c].target # "gone" /\ Drained(c, "up")
        /\ GoTo(c, "relay") /\ StartPipes(c)
        /\ UNCHANGED <<connections, closed>>
     \/ /\ peer[c].target = "gone"
        /\ Leave(c)
        /\ UNCHANGED pipe
  /\ UNCHANGED <<service, peer, data>>

-----------------------------------------------------------------------------
(* The relay. *)

(* read() returns: the chunk is written to the other transport.  A closed  *)
(* transport takes nothing any more.                                       *)
Pump(c, d) ==
  /\ pipe[c][d] = "read" /\ inbox[c][d] # <<>>
  /\ inbox' = [inbox EXCEPT ![c][d] = Tail(@)]
  /\ outbox' = IF closed[c][To(d)] THEN outbox
               ELSE [outbox EXCEPT ![c][d] = Append(@, Head(inbox[c][d]))]
  /\ pipe' = [pipe EXCEPT ![c][d] = "drain"]
  /\ UNCHANGED <<service, connections, pc, peer, closed, said, initial, heard>>

(* drain() returns once the buffer is low. *)
PumpOn(c, d) ==
  /\ pipe[c][d] = "drain" /\ Drained(c, d)
  /\ pipe' = [pipe EXCEPT ![c][d] = "read"]
  /\ UNCHANGED <<service, connections, pc, peer, closed, data>>

(* Shadowsocks waits 30 seconds for a chunk, in the relay as well. *)
Silent(c, d) == kind = "shadowsocks" /\ d = "up" /\ inbox[c].up = <<>>

PipeEnd_LeavesOpen(c, d) ==
  /\ \/ /\ pipe[c][d] = "read"
        /\ \/ inbox[c][d] = <<>> /\ (peer[c][From(d)] = "fin" \/ closed[c][From(d)])
           \/ peer[c][From(d)] = "gone"
           \/ Silent(c, d)
     \/ pipe[c][d] = "drain" /\ peer[c][To(d)] = "gone"
     \/ pipe[c][d] = "cancelled"
  /\ pipe' = [pipe EXCEPT ![c][d] = "done"]
  /\ UNCHANGED <<service, connections, pc, peer, closed, data>>

(* read() returns the end of file or raises, drain() raises, or the task   *)
(* is cancelled: in every case the destination's transport is closed.      *)
PipeEnd(c, d) ==
  /\ \/ /\ pipe[c][d] = "read"
        /\ \/ inbox[c][d] = <<>> /\ (peer[c][From(d)] = "fin" \/ closed[c][From(d)])
           \/ peer[c][From(d)] = "gone"
           \/ Silent(c, d)
     \/ pipe[c][d] = "drain" /\ peer[c][To(d)] = "gone"
     \/ pipe[c][d] = "cancelled"
  /\ closed' = [closed EXCEPT ![c][To(d)] = TRUE]
  /\ pipe' = [pipe EXCEPT ![c][d] = "done"]
  /\ UNCHANGED <<service, connections, pc, peer, data>>

RelayEnd_CancelsNone(c) ==
  /\ pc[c] = "relay" /\ \E d \in Dirs : pipe[c][d] = "done"
  /\ Leave(c)
  /\ UNCHANGED <<service, peer, data, pipe>>

(* asyncio.wait returns at the first pipe that is done; the other one is   *)
(* cancelled and the handler leaves.                                       *)
RelayEnd(c) ==
  /\ pc[c] = "relay" /\ \E d \in Dirs : pipe[c][d] = "done"
  /\ pipe' = [pipe EXCEPT ![c] =
                [d \in Dirs |-> IF @[d] = "done" THEN "done" ELSE "cancelled"]]
  /\ Leave(c)
  /\ UNCHANGED <<service, peer, data>>

-----------------------------------------------------------------------------
(* Clients and targets.  What an end says to a transport that is closed is *)
(* not received.                                                           *)

Say(c, d) ==
  /\ peer[c][From(d)] = "open" /\ ~closed[c][From(d)]
  /\ said[c][d] < MaxSaid
  /\ said' = [said EXCEPT ![c][d] = @ + 1]
  /\ inbox' = [inbox EXCEPT ![c][d] = Append(@, said[c][d] + 1)]
  /\ UNCHANGED <<service, connections, pc, peer, closed, initial, outbox, heard, pipe>>

Hear(c, d) ==
  /\ outbox[c][d] # <<>> /\ peer[c][To(d)] \in {"open", "fin"}
  /\ heard' = [heard EXCEPT ![c][d] = Append(@, Head(outbox[c][d]))]
  /\ outbox' = [outbox EXCEPT ![c][d] = Tail(@)]
  /\ UNCHANGED <<service, connections, pc, peer, closed, said, inbox, initial, pipe>>

(* It sends no more, or it is gone with all it had not read. *)
Depart(c, s) ==
  /\ \/ peer[c][s] = "open" /\ peer' = [peer EXCEPT ![c][s] = "fin"]
     \/ peer[c][s] \in {"open", "fin"} /\ peer' = [peer EXCEPT ![c][s] = "gone"]
  /\ UNCHANGED <<service, connections, pc, closed, data, pipe>>

-----------------------------------------------------------------------------
HandlerStep(c) ==
  \/ Request(c) \/ Headers(c)
  \/ Greeting(c) \/ Authenticate(c) \/ Address(c)
  \/ FirstChunk(c)
  \/ GiveUp(c) \/ Connected(c) \/ Reply(c) \/ Initial(c) \/ RelayEnd(c)

PipeStep(c, d) == Pump(c, d) \/ PumpOn(c, d) \/ PipeEnd(c, d)

Next ==
  \/ Start \/ Bind \/ Stop
  \/ \E c \in Conns :
       \/ Accept(c) \/ HandlerStep(c)
       \/ \E d \in Dirs : PipeStep(c, d) \/ Say(c, d) \/ Hear(c, d)
       \/ \E s \in Sides : Depart(c, s)

Spec == Init /\ [][Next]_vars

(* The event loop runs what is ready, timeouts fire, and an end that is    *)
(* there reads what it is sent.  Nobody has to say anything or to leave.   *)
Fairness ==
  \A c \in Conns :
    /\ WF_vars(HandlerStep(c))
    /\ \A d \in Dirs : WF_vars(PipeStep(c, d)) /\ WF_vars(Hear(c, d))

FairSpec == Spec /\ Fairness

-----------------------------------------------------------------------------
(* Whatever an end said is at the other end, on its way there, or was      *)
(* never read: in order, nothing twice, and nothing read is thrown away by *)
(* closing a transport too early.                                          *)
Numbers(n) == [i \in 1..n |-> i]

ReadIsWritten ==
  \A c \in Conns, d \in Dirs :
    heard[c][d] \o outbox[c][d] \o (IF d = "up" THEN initial[c] ELSE <<>>) \o inbox[c][d]
      = Numbers(said[c][d])

(* When no client is counted, nothing is left of any: every transport is   *)
(* closed, or the cancelled pipe that closes it is about to run.           *)
LeavesNothing ==
  /\ \A c \in Conns : pc[c] = "ended" =>
       closed[c].client /\ (closed[c].target \/ pipe[c].up = "cancelled")
  /\ connections = 0 => \A c \in Conns :
       /\ pc[c] \in {"none", "ended"}
       /\ \A d \in Dirs : pipe[c][d] \notin {"read", "drain"}

EndedByAnEnd(c) == \E s \in Sides : peer[c][s] # "open"

(* Once a client is gone, or either end of a relay has finished, nothing   *)
(* of the connection stays open.                                           *)
Over(c) == pc[c] = "ended" /\ closed[c].client /\ closed[c].target

EndsWithItsEnds ==
  \A c \in Conns :
    (peer[c].client = "gone" \/ (pc[c] = "relay" /\ EndedByAnEnd(c))) ~> Over(c)

(* Every service is a tunnel between the client and the target: opened for *)
(* those who hold the credentials, in order, nothing twice.                *)
T == INSTANCE Tunnel WITH
       allowed <- IF required THEN members ELSE Conns,
       open <- {c \in Conns : peer[c].target # "none"}

IsATunnel == T!Spec
=============================================================================
