---------------------------- MODULE ProxyProofs ----------------------------
(***************************************************************************)
(* Theorems about module Proxy: nothing that was read is lost, nothing of  *)
(* a connection is left behind, and every service implements Tunnel.       *)
(***************************************************************************)
EXTENDS Proxy, SequenceTheorems, FiniteSetTheorems, TLAPS

DataType ==
  /\ said \in [Conns -> [Dirs -> Nat]]
  /\ inbox \in [Conns -> [Dirs -> Seq(Nat)]]
  /\ initial \in [Conns -> Seq(Nat)]
  /\ outbox \in [Conns -> [Dirs -> Seq(Nat)]]
  /\ heard \in [Conns -> [Dirs -> Seq(Nat)]]

Points == Handshake \cup {"none", "relay", "ended"}
PeerStates == {"none", "open", "fin", "gone"}
PipeStates == {"none", "read", "drain", "cancelled", "done"}

LifeType ==
  /\ pc \in [Conns -> Points]
  /\ closed \in [Conns -> [Sides -> BOOLEAN]]
  /\ pipe \in [Conns -> [Dirs -> PipeStates]]

ServiceType ==
  /\ kind \in Kinds
  /\ required \in BOOLEAN
  /\ members \subseteq Conns
  /\ server \in {"none", "starting", "listening", "closed"}
  /\ file \in {"unset", "running", "error", "disabled"}
  /\ peer \in [Conns -> [Sides -> PeerStates]]

(* How the handler, the transports and the pipes of a connection belong    *)
(* together: before the relay nothing is closed and no pipe runs; during   *)
(* it both pipes do, until one is done; a pipe that has ended has closed   *)
(* its destination, and one that has not finds it open.                    *)
Early == Handshake \cup {"none"}

Sound(at, shut, task) ==
  /\ at \in Early => \A d \in Dirs : task[d] = "none" /\ ~shut[To(d)]
  /\ at = "relay" => \A d \in Dirs : task[d] \in {"read", "drain", "done"}
  /\ at = "ended" =>
       /\ \A d \in Dirs : task[d] \notin {"read", "drain"}
       /\ shut["client"] /\ (shut["target"] \/ task["up"] = "cancelled")
  /\ \A d \in Dirs : shut[To(d)] => task[d] \notin {"read", "drain"}
  /\ task["up"] = "done" => shut["target"]

Life == \A c \in Conns : Sound(pc[c], closed[c], pipe[c])

-----------------------------------------------------------------------------
(* Sequences. *)

LEMMA Regrouped ==
  ASSUME NEW h \in Seq(Nat), NEW o \in Seq(Nat), NEW r \in Seq(Nat)
  PROVE  h \o (o \o r) = h \o o \o r
<1>1. /\ h \o o \in Seq(Nat) /\ o \o r \in Seq(Nat)
      /\ h \o o \o r \in Seq(Nat) /\ h \o (o \o r) \in Seq(Nat)
  BY ConcatProperties
<1>2. Len(h) \in Nat /\ Len(o) \in Nat /\ Len(r) \in Nat
  BY LenProperties
<1>3. /\ Len(h \o o \o r) = Len(h) + Len(o) + Len(r)
      /\ Len(h \o (o \o r)) = Len(h) + Len(o) + Len(r)
  BY <1>1, <1>2, ConcatProperties
<1>4. ASSUME NEW i \in 1..Len(h \o o \o r)
      PROVE  (h \o o \o r)[i] = (h \o (o \o r))[i]
  BY <1>1, <1>2, <1>3, ConcatProperties
<1> QED BY <1>1, <1>3, <1>4, SeqEqual

LEMMA HearSeq ==
  ASSUME NEW h \in Seq(Nat), NEW o \in Seq(Nat), o # <<>>
  PROVE  Append(h, Head(o)) \o Tail(o) = h \o o
<1>1. /\ Head(o) \in Nat /\ Tail(o) \in Seq(Nat) /\ Len(Tail(o)) = Len(o) - 1
      /\ \A i \in 1..Len(Tail(o)) : Tail(o)[i] = o[i + 1]
      /\ Len(o) \in Nat \ {0} /\ Len(h) \in Nat /\ Head(o) = o[1]
  BY HeadTailProperties, EmptySeq, LenProperties
<1>2. Append(h, Head(o)) \o Tail(o) \in Seq(Nat) /\ h \o o \in Seq(Nat)
  BY <1>1, ConcatProperties
<1>3. Len(Append(h, Head(o)) \o Tail(o)) = Len(h \o o)
  BY <1>1, ConcatProperties
<1>4. ASSUME NEW i \in 1..Len(h \o o)
      PROVE  (Append(h, Head(o)) \o Tail(o))[i] = (h \o o)[i]
  BY <1>1, ConcatProperties
<1> QED BY <1>2, <1>3, <1>4, SeqEqual

LEMMA SaySeq ==
  ASSUME NEW s \in Seq(Nat), NEW b \in Seq(Nat), NEW x \in Nat
  PROVE  s \o Append(b, x) = Append(s \o b, x)
<1>1. /\ Len(s) \in Nat /\ Len(b) \in Nat /\ s \o b \in Seq(Nat) /\ Append(b, x) \in Seq(Nat)
      /\ Len(s \o b) = Len(s) + Len(b)
  BY ConcatProperties, LenProperties
<1>2. Append(s \o b, x) \in Seq(Nat) /\ s \o Append(b, x) \in Seq(Nat)
  BY <1>1, ConcatProperties
<1>3. Len(s \o Append(b, x)) = Len(Append(s \o b, x))
  BY <1>1, ConcatProperties
<1>4. ASSUME NEW i \in 1..Len(s \o Append(b, x))
      PROVE  (s \o Append(b, x))[i] = Append(s \o b, x)[i]
  BY <1>1, <1>3, ConcatProperties
<1> QED BY <1>2, <1>3, <1>4, SeqEqual

LEMMA TakeSeq ==
  ASSUME NEW s \in Seq(Nat), NEW b \in Seq(Nat), b # <<>>
  PROVE  s \o <<Head(b)>> \o Tail(b) = s \o b
<1>1. Head(b) \in Nat /\ Tail(b) \in Seq(Nat) /\ <<Head(b)>> \in Seq(Nat)
  BY HeadTailProperties
<1>2. s \o <<Head(b)>> = Append(s, Head(b))
  BY <1>1
<1> QED BY <1>2, HearSeq

LEMMA PumpSeq ==
  ASSUME NEW h \in Seq(Nat), NEW o \in Seq(Nat), NEW b \in Seq(Nat), b # <<>>
  PROVE  h \o Append(o, Head(b)) \o <<>> \o Tail(b) = h \o o \o b
<1>1. Head(b) \in Nat /\ h \o o \in Seq(Nat)
  BY HeadTailProperties, ConcatProperties
<1>2. h \o Append(o, Head(b)) = Append(h \o o, Head(b))
  BY <1>1, SaySeq
<1>3. Append(h \o o, Head(b)) \in Seq(Nat)
  BY <1>1
<1>4. Append(h \o o, Head(b)) \o <<>> = Append(h \o o, Head(b))
  BY <1>3, ConcatEmptySeq
<1>5. Append(h \o o, Head(b)) \o Tail(b) = h \o o \o b
  BY <1>1, HearSeq
<1> QED BY <1>2, <1>4, <1>5

LEMMA NumbersGrow ==
  ASSUME NEW n \in Nat
  PROVE  /\ Numbers(n) \in Seq(Nat) /\ Len(Numbers(n)) = n
         /\ \A i \in 1..n : Numbers(n)[i] = i
         /\ Numbers(n + 1) = Append(Numbers(n), n + 1)
<1>1. \A m \in Nat : /\ Numbers(m) \in Seq(Nat) /\ Len(Numbers(m)) = m
                     /\ \A i \in 1..m : Numbers(m)[i] = i
  BY DEF Numbers
<1>2. Append(Numbers(n), n + 1) \in Seq(Nat) /\ Len(Append(Numbers(n), n + 1)) = n + 1
  BY <1>1
<1>3. \A i \in 1..n + 1 : Numbers(n + 1)[i] = Append(Numbers(n), n + 1)[i]
  BY <1>1
<1>4. Numbers(n + 1) \in Seq(Nat) /\ Len(Numbers(n + 1)) = n + 1
  BY <1>1
<1> QED BY <1>1, <1>2, <1>3, <1>4, SeqEqual

(* What is first on its way is the next to be heard. *)
LEMMA NextHeard ==
  ASSUME NEW h \in Seq(Nat), NEW o \in Seq(Nat), NEW r \in Seq(Nat), NEW b \in Seq(Nat),
         NEW n \in Nat, o # <<>>, h \o o \o r \o b = Numbers(n)
  PROVE  Len(h) < n /\ Head(o) = Len(h) + 1
<1>1. /\ Len(o) \in Nat \ {0} /\ Len(h) \in Nat /\ Len(r) \in Nat /\ Len(b) \in Nat
      /\ Head(o) = o[1]
  BY EmptySeq, LenProperties
<1>2. /\ h \o o \in Seq(Nat) /\ Len(h \o o) = Len(h) + Len(o)
      /\ (h \o o)[Len(h) + 1] = o[1]
  BY <1>1, ConcatProperties
<1>3. /\ h \o o \o r \in Seq(Nat) /\ Len(h \o o \o r) = Len(h) + Len(o) + Len(r)
      /\ (h \o o \o r)[Len(h) + 1] = o[1]
  BY <1>1, <1>2, ConcatProperties
<1>4. /\ Len(h \o o \o r \o b) = Len(h) + Len(o) + Len(r) + Len(b)
      /\ (h \o o \o r \o b)[Len(h) + 1] = o[1]
  BY <1>1, <1>3, ConcatProperties
<1>5. Len(h) + Len(o) + Len(r) + Len(b) = n
  BY <1>4, NumbersGrow
<1>6. Len(h) + 1 \in 1..n
  BY <1>1, <1>5
<1>7. Numbers(n)[Len(h) + 1] = Len(h) + 1
  BY <1>6, NumbersGrow
<1> QED BY <1>1, <1>4, <1>6, <1>7

-----------------------------------------------------------------------------
(* Type correctness. *)

LEMMA DirsAre == "up" \in Dirs /\ "down" \in Dirs /\ \A d \in Dirs : d = "up" \/ d = "down"
BY DEF Dirs

LEMMA FirstChunkType ==
  ASSUME DataType, NEW c \in Conns, FirstChunk(c)
  PROVE  DataType'
<1>1. CASE UNCHANGED <<inbox, initial>>
  BY <1>1 DEF FirstChunk, DataType
<1>2. CASE /\ inbox[c].up # <<>>
           /\ initial' = [initial EXCEPT ![c] = <<Head(inbox[c].up)>>]
           /\ inbox' = [inbox EXCEPT ![c].up = Tail(@)]
  <2>1. inbox[c].up \in Seq(Nat)
    BY DirsAre DEF DataType
  <2>2. Head(inbox[c].up) \in Nat /\ Tail(inbox[c].up) \in Seq(Nat)
    BY <1>2, <2>1, HeadTailProperties
  <2>3. <<Head(inbox[c].up)>> \in Seq(Nat)
    BY <2>2
  <2>4. initial' \in [Conns -> Seq(Nat)]
    BY <1>2, <2>3 DEF DataType
  <2>5. inbox' \in [Conns -> [Dirs -> Seq(Nat)]]
    BY <1>2, <2>2 DEF DataType
  <2> QED BY <2>4, <2>5 DEF FirstChunk, DataType
<1> QED BY <1>1, <1>2 DEF FirstChunk

LEMMA ReplyType ==
  ASSUME DataType, NEW c \in Conns, Reply(c)
  PROVE  DataType'
<1>1. CASE UNCHANGED <<initial, outbox>>
  BY <1>1 DEF Reply, DataType
<1>2. CASE /\ outbox' = [outbox EXCEPT ![c].up = @ \o initial[c]]
           /\ initial' = [initial EXCEPT ![c] = <<>>]
  <2>1. outbox[c].up \in Seq(Nat) /\ initial[c] \in Seq(Nat) /\ <<>> \in Seq(Nat)
    BY DirsAre DEF DataType
  <2>2. outbox[c].up \o initial[c] \in Seq(Nat)
    BY <2>1, ConcatProperties
  <2>3. initial' \in [Conns -> Seq(Nat)]
    BY <1>2, <2>1 DEF DataType
  <2>4. outbox' \in [Conns -> [Dirs -> Seq(Nat)]]
    BY <1>2, <2>2 DEF DataType
  <2> QED BY <2>3, <2>4 DEF Reply, DataType
<1> QED BY <1>1, <1>2 DEF Reply

LEMMA DataKept ==
  ASSUME DataType, NEW c \in Conns, NEW d \in Dirs
  PROVE  Pump(c, d) \/ Say(c, d) \/ Hear(c, d) => DataType'
<1>1. CASE Pump(c, d)
  <2>1. Head(inbox[c][d]) \in Nat /\ Tail(inbox[c][d]) \in Seq(Nat)
    BY <1>1, HeadTailProperties DEF DataType, Pump
  <2>2. inbox' \in [Conns -> [Dirs -> Seq(Nat)]] /\ UNCHANGED <<said, initial, heard>>
    BY <1>1, <2>1 DEF Pump, DataType
  <2>3. outbox' \in [Conns -> [Dirs -> Seq(Nat)]]
    BY <1>1, <2>1 DEF Pump, DataType
  <2> QED BY <2>2, <2>3 DEF DataType
<1>2. CASE Say(c, d)
  BY <1>2 DEF Say, DataType
<1>3. CASE Hear(c, d)
  <2>1. Head(outbox[c][d]) \in Nat /\ Tail(outbox[c][d]) \in Seq(Nat)
    BY <1>3, HeadTailProperties DEF DataType, Hear
  <2> QED BY <1>3, <2>1 DEF Hear, DataType
<1> QED BY <1>1, <1>2, <1>3

(* Steps by what they do with the data. *)
LEMMA DataSteps ==
  ASSUME [Next]_vars
  PROVE  \/ UNCHANGED data
         \/ \E c \in Conns : FirstChunk(c) \/ Reply(c)
         \/ \E c \in Conns, d \in Dirs : Pump(c, d) \/ Say(c, d) \/ Hear(c, d)
BY DEF Next, Start, Bind, Stop, Accept, HandlerStep, PipeStep, Request, Headers, Greeting,
       Authenticate, Address, GiveUp, Connected, Initial, RelayEnd, PumpOn, PipeEnd, Depart,
       vars, data

LEMMA DataNext ==
  ASSUME DataType, [Next]_vars
  PROVE  DataType'
<1>1. CASE UNCHANGED data
  BY <1>1 DEF DataType, data
<1>2. CASE \E c \in Conns : FirstChunk(c) \/ Reply(c)
  BY <1>2, FirstChunkType, ReplyType
<1>3. CASE \E c \in Conns, d \in Dirs : Pump(c, d) \/ Say(c, d) \/ Hear(c, d)
  BY <1>3, DataKept
<1> QED BY <1>1, <1>2, <1>3, DataSteps

-----------------------------------------------------------------------------
(* The life of a connection. *)

LEMMA SidesAre ==
  /\ "client" \in Sides /\ "target" \in Sides /\ To("up") = "target" /\ To("down") = "client"
  /\ \A d \in Dirs : To(d) \in Sides /\ From(d) \in Sides
  /\ \A d, e \in Dirs : To(d) = To(e) => d = e
BY DEF Sides, Dirs, To, From

(* A step of one connection keeps the others. *)
LEMMA OneChanges ==
  ASSUME LifeType, Life, NEW c \in Conns, NEW at \in Points,
         NEW shut \in [Sides -> BOOLEAN], NEW task \in [Dirs -> PipeStates],
         Sound(at, shut, task),
         pc' = [pc EXCEPT ![c] = at],
         closed' = [closed EXCEPT ![c] = shut],
         pipe' = [pipe EXCEPT ![c] = task]
  PROVE  LifeType' /\ Life'
<1>1. LifeType'
  BY DEF LifeType
<1>2. ASSUME NEW k \in Conns PROVE Sound(pc'[k], closed'[k], pipe'[k])
  <2>1. CASE k = c
    BY <2>1 DEF LifeType
  <2>2. CASE k # c
    <3>1. pc'[k] = pc[k] /\ closed'[k] = closed[k] /\ pipe'[k] = pipe[k]
      BY <2>2 DEF LifeType
    <3> QED BY <3>1 DEF Life
  <2> QED BY <2>1, <2>2
<1> QED BY <1>1, <1>2 DEF Life

LEMMA SameAs ==
  ASSUME LifeType, NEW c \in Conns
  PROVE  /\ pc[c] \in Points /\ closed[c] \in [Sides -> BOOLEAN]
         /\ pipe[c] \in [Dirs -> PipeStates]
         /\ UNCHANGED pc => pc' = [pc EXCEPT ![c] = pc[c]]
         /\ UNCHANGED closed => closed' = [closed EXCEPT ![c] = closed[c]]
         /\ UNCHANGED pipe => pipe' = [pipe EXCEPT ![c] = pipe[c]]
BY DEF LifeType

(* The handshake goes on. *)
LEMMA LifeGoesOn ==
  ASSUME LifeType, Life, NEW c \in Conns, NEW at \in Early, pc[c] \in Early,
         GoTo(c, at), UNCHANGED <<closed, pipe>>
  PROVE  LifeType' /\ Life'
<1>1. Sound(pc[c], closed[c], pipe[c]) /\ at \in Points
  BY DEF Life, Early, Points
<1>2. Sound(at, closed[c], pipe[c])
  BY <1>1, DirsAre DEF Sound, Early, Handshake
<1> QED BY <1>1, <1>2, SameAs, OneChanges DEF GoTo

(* The handler leaves before the relay. *)
LEMMA LifeLeaves ==
  ASSUME LifeType, Life, NEW c \in Conns, pc[c] \in Early, Leave(c), UNCHANGED pipe
  PROVE  LifeType' /\ Life'
<1> DEFINE shut == [closed[c] EXCEPT !["client"] = TRUE, !["target"] = TRUE]
<1>1. Sound(pc[c], closed[c], pipe[c]) /\ "ended" \in Points
  BY DEF Life, Points
<1>2. pipe[c]["up"] = "none" /\ pipe[c]["down"] = "none"
  BY <1>1, DirsAre DEF Sound
<1>3. closed' = [closed EXCEPT ![c] = shut] /\ shut \in [Sides -> BOOLEAN]
  BY <1>2, SameAs, SidesAre DEF Leave, LifeType
<1>4. Sound("ended", shut, pipe[c])
  BY <1>2, SameAs, DirsAre, SidesAre DEF Sound, Early, Handshake
<1> QED BY <1>1, <1>3, <1>4, SameAs, OneChanges DEF Leave, GoTo

(* The relay begins. *)
LEMMA LifeRelays ==
  ASSUME LifeType, Life, NEW c \in Conns, pc[c] \in Early,
         GoTo(c, "relay"), StartPipes(c), UNCHANGED closed
  PROVE  LifeType' /\ Life'
<1> DEFINE task == [d \in Dirs |-> "read"]
<1>1. Sound(pc[c], closed[c], pipe[c]) /\ "relay" \in Points /\ task \in [Dirs -> PipeStates]
  BY DEF Life, Points, PipeStates
<1>2. Sound("relay", closed[c], task)
  BY <1>1, DirsAre DEF Sound, Early, Handshake
<1> QED BY <1>1, <1>2, SameAs, OneChanges DEF GoTo, StartPipes

LEMMA LifePumps ==
  ASSUME LifeType, Life, NEW c \in Conns, NEW d \in Dirs, Pump(c, d) \/ PumpOn(c, d)
  PROVE  LifeType' /\ Life'
<1>1. PICK state \in {"read", "drain"} :
        pipe[c][d] \in {"read", "drain"} /\ pipe' = [pipe EXCEPT ![c][d] = state]
  BY DEF Pump, PumpOn
<1> DEFINE task == [pipe[c] EXCEPT ![d] = state]
<1>2. Sound(pc[c], closed[c], pipe[c])
  BY DEF Life
<1>3. task \in [Dirs -> PipeStates] /\ pipe' = [pipe EXCEPT ![c] = task]
  BY <1>1, SameAs DEF PipeStates, LifeType
<1>4. Sound(pc[c], closed[c], task)
  BY <1>1, <1>2, SameAs, DirsAre, SidesAre DEF Sound
<1>5. UNCHANGED <<pc, closed>>
  BY DEF Pump, PumpOn
<1>6. pc[c] \in Points /\ closed[c] \in [Sides -> BOOLEAN]
  BY SameAs
<1>7. pc' = [pc EXCEPT ![c] = pc[c]] /\ closed' = [closed EXCEPT ![c] = closed[c]]
  BY <1>5, SameAs
<1> HIDE DEF task
<1> QED BY <1>3, <1>4, <1>6, <1>7, OneChanges

LEMMA LifePipeEnds ==
  ASSUME LifeType, Life, NEW c \in Conns, NEW d \in Dirs, PipeEnd(c, d)
  PROVE  LifeType' /\ Life'
<1> DEFINE task == [pipe[c] EXCEPT ![d] = "done"]
<1> DEFINE shut == [closed[c] EXCEPT ![To(d)] = TRUE]
<1>1. Sound(pc[c], closed[c], pipe[c]) /\ pipe[c][d] \in {"read", "drain", "cancelled"}
  BY DEF Life, PipeEnd
<1>2. task \in [Dirs -> PipeStates] /\ pipe' = [pipe EXCEPT ![c] = task]
  BY SameAs DEF PipeStates, LifeType, PipeEnd
<1>3. shut \in [Sides -> BOOLEAN] /\ closed' = [closed EXCEPT ![c] = shut]
  BY SameAs, SidesAre DEF LifeType, PipeEnd
<1>4. Sound(pc[c], shut, task)
  BY <1>1, SameAs, DirsAre, SidesAre DEF Sound, Early, Handshake
<1>5. pc[c] \in Points /\ pc' = [pc EXCEPT ![c] = pc[c]]
  BY SameAs DEF PipeEnd
<1> HIDE DEF task, shut
<1> QED BY <1>2, <1>3, <1>4, <1>5, OneChanges

LEMMA LifeRelayEnds ==
  ASSUME LifeType, Life, NEW c \in Conns, RelayEnd(c)
  PROVE  LifeType' /\ Life'
<1> DEFINE task == [d \in Dirs |-> IF pipe[c][d] = "done" THEN "done" ELSE "cancelled"]
<1> DEFINE shut == [closed[c] EXCEPT !["client"] = TRUE,
                                     !["target"] = @ \/ kind = "shadowsocks"]
<1>1. Sound(pc[c], closed[c], pipe[c]) /\ "ended" \in Points /\ pc[c] = "relay"
  BY DEF Life, Points, RelayEnd
<1>2. task \in [Dirs -> PipeStates] /\ pipe' = [pipe EXCEPT ![c] = task]
  BY SameAs DEF PipeStates, LifeType, RelayEnd
<1>3. pipe[c]["up"] # "none"
  BY <1>1, DirsAre DEF Sound
<1>4. shut \in [Sides -> BOOLEAN] /\ closed' = [closed EXCEPT ![c] = shut]
  BY <1>3, SameAs, SidesAre DEF LifeType, RelayEnd, Leave
<1>5. Sound("ended", shut, task)
  BY <1>1, SameAs, DirsAre, SidesAre DEF Sound, Early, Handshake
<1>6. pc' = [pc EXCEPT ![c] = "ended"]
  BY DEF RelayEnd, Leave, GoTo
<1> HIDE DEF task, shut
<1> QED BY <1>1, <1>2, <1>4, <1>5, <1>6, OneChanges

LEMMA LifeSteps ==
  ASSUME [Next]_vars
  PROVE  \/ UNCHANGED <<pc, closed, pipe>>
         \/ \E c \in Conns :
              /\ pc[c] \in Early
              /\ \/ UNCHANGED <<closed, pipe>> /\ \E at \in Early : GoTo(c, at)
                 \/ UNCHANGED pipe /\ Leave(c)
                 \/ UNCHANGED closed /\ GoTo(c, "relay") /\ StartPipes(c)
         \/ \E c \in Conns, d \in Dirs : Pump(c, d) \/ PumpOn(c, d) \/ PipeEnd(c, d)
         \/ \E c \in Conns : RelayEnd(c)
<1>1. \A c \in Conns :
        Accept(c) \/ Request(c) \/ Headers(c) \/ Greeting(c) \/ Authenticate(c) \/ Address(c)
          \/ FirstChunk(c) \/ Connected(c)
        => pc[c] \in Early /\ UNCHANGED <<closed, pipe>> /\ \E at \in Early : GoTo(c, at)
  BY DEF Accept, Request, Headers, Greeting, Authenticate, Address, FirstChunk, Connected,
         Early, Handshake
<1>2. \A c \in Conns :
        GiveUp(c) \/ Reply(c) \/ Initial(c)
        => /\ pc[c] \in Early
           /\ \/ UNCHANGED <<closed, pipe>> /\ \E at \in Early : GoTo(c, at)
              \/ UNCHANGED pipe /\ Leave(c)
              \/ UNCHANGED closed /\ GoTo(c, "relay") /\ StartPipes(c)
  BY DEF GiveUp, Reply, Initial, Early, Handshake, data
<1>3. CASE Start \/ Bind \/ Stop \/ UNCHANGED vars
  BY <1>3 DEF Start, Bind, Stop, vars
<1>4. CASE \E c \in Conns :
             \/ \E d \in Dirs : Say(c, d) \/ Hear(c, d)
             \/ \E s \in Sides : Depart(c, s)
  BY <1>4 DEF Say, Hear, Depart
<1> QED BY <1>1, <1>2, <1>3, <1>4 DEF Next, HandlerStep, PipeStep

LEMMA LifeNext ==
  ASSUME LifeType, Life, [Next]_vars
  PROVE  LifeType' /\ Life'
<1>1. CASE UNCHANGED <<pc, closed, pipe>>
  BY <1>1 DEF LifeType, Life
<1>2. ASSUME NEW c \in Conns, pc[c] \in Early,
             \/ UNCHANGED <<closed, pipe>> /\ \E at \in Early : GoTo(c, at)
             \/ UNCHANGED pipe /\ Leave(c)
             \/ UNCHANGED closed /\ GoTo(c, "relay") /\ StartPipes(c)
      PROVE  LifeType' /\ Life'
  BY <1>2, LifeGoesOn, LifeLeaves, LifeRelays
<1>3. ASSUME NEW c \in Conns, NEW d \in Dirs, Pump(c, d) \/ PumpOn(c, d) \/ PipeEnd(c, d)
      PROVE  LifeType' /\ Life'
  BY <1>3, LifePumps, LifePipeEnds
<1>4. ASSUME NEW c \in Conns, RelayEnd(c) PROVE LifeType' /\ Life'
  BY <1>4, LifeRelayEnds
<1> QED BY <1>1, <1>2, <1>3, <1>4, LifeSteps

LEMMA LifeInit ==
  ASSUME Init
  PROVE  LifeType /\ Life /\ DataType /\ ServiceType
<1>1. LifeType
  BY DEF Init, LifeType, Points, PipeStates
<1>2. ASSUME NEW c \in Conns PROVE Sound(pc[c], closed[c], pipe[c])
  <2>1. pc[c] = "none" /\ \A s \in Sides : ~closed[c][s]
    BY DEF Init
  <2>2. \A d \in Dirs : pipe[c][d] = "none"
    BY DEF Init
  <2> QED BY <2>1, <2>2, SidesAre, DirsAre DEF Sound, Early, Handshake
<1>3. DataType
  BY DEF Init, DataType
<1>4. ServiceType
  BY DEF Init, ServiceType, PeerStates
<1> QED BY <1>1, <1>2, <1>3, <1>4 DEF Life

LEMMA ServiceNext ==
  ASSUME ServiceType, [Next]_vars
  PROVE  ServiceType'
<1>1. CASE Start \/ Bind \/ Stop
  BY <1>1 DEF Start, Bind, Stop, ServiceType
<1>2. ASSUME NEW c \in Conns, Accept(c) \/ Connected(c) PROVE ServiceType'
  BY <1>2 DEF Accept, Connected, ServiceType, service, PeerStates
<1>3. ASSUME NEW c \in Conns, NEW s \in Sides, Depart(c, s) PROVE ServiceType'
  <2>1. PICK state \in PeerStates : peer' = [peer EXCEPT ![c][s] = state]
    BY <1>3 DEF Depart, PeerStates
  <2>2. peer' \in [Conns -> [Sides -> PeerStates]]
    BY <2>1 DEF ServiceType
  <2> QED BY <1>3, <2>2 DEF Depart, ServiceType, service
<1>4. CASE UNCHANGED <<service, peer>> \/ UNCHANGED vars
  BY <1>4 DEF ServiceType, service, vars
<1>5. ASSUME NEW c \in Conns, HandlerStep(c), ~Connected(c) PROVE UNCHANGED <<service, peer>>
  BY <1>5 DEF HandlerStep, Request, Headers, Greeting, Authenticate, Address, FirstChunk,
              GiveUp, Reply, Initial, RelayEnd
<1>6. ASSUME NEW c \in Conns, NEW d \in Dirs, PipeStep(c, d) \/ Say(c, d) \/ Hear(c, d)
      PROVE  UNCHANGED <<service, peer>>
  BY <1>6 DEF PipeStep, Pump, PumpOn, PipeEnd, Say, Hear
<1> QED BY <1>1, <1>2, <1>3, <1>4, <1>5, <1>6 DEF Next

-----------------------------------------------------------------------------
(* The connections that are counted. *)

Served == {c \in Conns : pc[c] \notin {"none", "ended"}}
Counted == IsFiniteSet(Served) /\ connections = Cardinality(Served)

LEMMA CountSteps ==
  ASSUME LifeType, [Next]_vars
  PROVE  \/ UNCHANGED connections /\ Served' = Served
         \/ \E c \in Conns : c \notin Served /\ Served' = Served \cup {c}
                           /\ connections' = connections + 1
         \/ \E c \in Conns : c \in Served /\ Served' = Served \ {c}
                           /\ connections' = connections - 1
<1>1. ASSUME NEW c \in Conns, Accept(c)
      PROVE  c \notin Served /\ Served' = Served \cup {c} /\ connections' = connections + 1
  BY <1>1 DEF Accept, GoTo, Served, LifeType
<1>2. ASSUME NEW c \in Conns, Leave(c), pc[c] \in Handshake \cup {"relay"}
      PROVE  c \in Served /\ Served' = Served \ {c} /\ connections' = connections - 1
  BY <1>2 DEF Leave, GoTo, Served, LifeType, Handshake
<1>3. ASSUME NEW c \in Conns, NEW at \in Handshake \cup {"relay"}, GoTo(c, at),
             pc[c] \in Handshake
      PROVE  Served' = Served
  BY <1>3 DEF GoTo, Served, LifeType, Handshake
<1>4. \A c \in Conns :
        GiveUp(c) \/ Reply(c) \/ Initial(c) \/ RelayEnd(c)
        => \/ Leave(c) /\ pc[c] \in Handshake \cup {"relay"}
           \/ /\ UNCHANGED connections /\ pc[c] \in Handshake
              /\ \E at \in Handshake \cup {"relay"} : GoTo(c, at)
  BY DEF GiveUp, Reply, Initial, RelayEnd, Handshake
<1>5. \A c \in Conns :
        Request(c) \/ Headers(c) \/ Greeting(c) \/ Authenticate(c) \/ Address(c)
          \/ FirstChunk(c) \/ Connected(c)
        => /\ UNCHANGED connections /\ pc[c] \in Handshake
           /\ \E at \in Handshake \cup {"relay"} : GoTo(c, at)
  BY DEF Request, Headers, Greeting, Authenticate, Address, FirstChunk, Connected, Handshake
<1>6. CASE UNCHANGED <<connections, pc>>
  BY <1>6 DEF Served
<1>7. \/ UNCHANGED <<connections, pc>>
      \/ \E c \in Conns : Accept(c) \/ HandlerStep(c)
  BY DEF Next, PipeStep, Start, Bind, Stop, Pump, PumpOn, PipeEnd, Say, Hear, Depart, vars
<1> QED BY <1>1, <1>2, <1>3, <1>4, <1>5, <1>6, <1>7 DEF HandlerStep

LEMMA CountNext ==
  ASSUME LifeType, Counted, [Next]_vars
  PROVE  Counted'
<1>1. ASSUME NEW c \in Conns, c \notin Served, Served' = Served \cup {c},
             connections' = connections + 1
      PROVE  Counted'
  BY <1>1, FS_AddElement DEF Counted
<1>2. ASSUME NEW c \in Conns, c \in Served, Served' = Served \ {c},
             connections' = connections - 1
      PROVE  Counted'
  BY <1>2, FS_RemoveElement DEF Counted
<1>3. CASE UNCHANGED connections /\ Served' = Served
  BY <1>3 DEF Counted
<1> QED BY <1>1, <1>2, <1>3, CountSteps

-----------------------------------------------------------------------------
(* Who is connected, and what waits where. *)

Serving == {"reply", "initial", "relay"}

(* A client is known before its target is asked for, and nothing is        *)
(* written or piped before the target is there.                            *)
Granted ==
  /\ kind = "shadowsocks" => required
  /\ \A c \in Conns :
       /\ peer[c]["target"] # "none" \/ pc[c] \in {"address", "connecting"} => Authorised(c)
       /\ pc[c] \in Serving => peer[c]["target"] # "none"
       /\ \A d \in Dirs :
            outbox[c][d] # <<>> \/ pipe[c][d] # "none" => peer[c]["target"] # "none"

(* The data that came with the address is written before the relay.        *)
Held ==
  \A c \in Conns : initial[c] # <<>> =>
    /\ pc[c] \in {"connecting", "reply", "ended"}
    /\ \A d \in Dirs : pipe[c][d] = "none"

LEMMA HeldNext ==
  ASSUME LifeType, Life, DataType, Held, [Next]_vars
  PROVE  Held'
<1>1. ASSUME NEW c \in Conns, FirstChunk(c) PROVE Held'
  <2>1. \A d \in Dirs : pipe[c][d] = "none"
    BY <1>1 DEF Life, Sound, Early, Handshake, FirstChunk
  <2> QED BY <1>1, <2>1 DEF Held, FirstChunk, GoTo, LifeType, DataType
<1>2. ASSUME NEW c \in Conns, Reply(c) PROVE Held'
  <2>1. CASE GoTo(c, "relay") /\ StartPipes(c) /\ initial[c] = <<>> /\ UNCHANGED initial
    <3>1. \A k \in Conns \ {c} : pc'[k] = pc[k] /\ pipe'[k] = pipe[k]
      BY <2>1 DEF GoTo, StartPipes, LifeType
    <3> QED BY <2>1, <3>1 DEF Held
  <2>2. CASE GoTo(c, "initial") /\ initial' = [initial EXCEPT ![c] = <<>>] /\ UNCHANGED pipe
    <3>1. initial'[c] = <<>> /\ \A k \in Conns \ {c} : pc'[k] = pc[k] /\ initial'[k] = initial[k]
      BY <2>2 DEF GoTo, LifeType, DataType
    <3> QED BY <2>2, <3>1 DEF Held
  <2>3. CASE GoTo(c, "ended") /\ UNCHANGED <<initial, pipe>>
    BY <2>3 DEF Held, GoTo, LifeType
  <2> QED BY <1>2, <2>1, <2>2, <2>3 DEF Reply, Leave
<1>3. ASSUME NEW c \in Conns,
             \/ Accept(c) \/ Request(c) \/ Headers(c) \/ Greeting(c) \/ Authenticate(c)
             \/ Address(c) \/ GiveUp(c) \/ Connected(c)
      PROVE  Held'
  <2>1. /\ UNCHANGED <<initial, pipe>>
        /\ \E at \in Points : GoTo(c, at) /\ (pc[c] = "connecting" => at \in {"reply", "ended"})
        /\ pc[c] \notin {"reply", "ended"}
    BY <1>3 DEF Accept, Request, Headers, Greeting, Authenticate, Address, GiveUp, Connected,
                Leave, Points, Handshake, data
  <2> QED BY <2>1 DEF Held, GoTo, LifeType, DataType
<1>4. ASSUME NEW c \in Conns, Initial(c) \/ RelayEnd(c) PROVE Held'
  <2>1. /\ pc[c] \in {"initial", "relay"} /\ UNCHANGED initial
        /\ \E at \in Points : GoTo(c, at)
    BY <1>4 DEF Initial, RelayEnd, Leave, Points, data
  <2>2. \E task \in [Dirs -> PipeStates] : pipe' = [pipe EXCEPT ![c] = task]
    BY <1>4, SameAs DEF Initial, RelayEnd, StartPipes, PipeStates
  <2>3. initial[c] = <<>>
    BY <2>1 DEF Held
  <2>4. \A k \in Conns \ {c} : pc'[k] = pc[k] /\ pipe'[k] = pipe[k]
    BY <2>1, <2>2 DEF GoTo, LifeType
  <2> QED BY <2>1, <2>3, <2>4 DEF Held
<1>5. ASSUME NEW c \in Conns, NEW d \in Dirs, PipeStep(c, d) PROVE Held'
  <2>1. pipe[c][d] # "none" /\ UNCHANGED <<initial, pc>>
    BY <1>5 DEF PipeStep, Pump, PumpOn, PipeEnd, data
  <2>2. \E state : pipe' = [pipe EXCEPT ![c][d] = state]
    BY <1>5 DEF PipeStep, Pump, PumpOn, PipeEnd
  <2>3. \A k \in Conns \ {c} : pipe'[k] = pipe[k]
    BY <2>2 DEF LifeType
  <2>4. initial[c] = <<>>
    BY <2>1 DEF Held
  <2> QED BY <2>1, <2>3, <2>4 DEF Held
<1>6. CASE UNCHANGED <<pc, initial, pipe>>
  BY <1>6 DEF Held
<1>7. \/ UNCHANGED <<pc, initial, pipe>>
      \/ \E c \in Conns : \/ Accept(c) \/ HandlerStep(c) \/ \E d \in Dirs : PipeStep(c, d)
  BY DEF Next, Start, Bind, Stop, Say, Hear, Depart, vars, data
<1> QED BY <1>1, <1>2, <1>3, <1>4, <1>5, <1>6, <1>7 DEF HandlerStep

-----------------------------------------------------------------------------
LEMMA UsersStay ==
  ASSUME [Next]_vars
  PROVE  UNCHANGED <<kind, required, members>> /\ \A c \in Conns : Authorised(c)' = Authorised(c)
<1>1. CASE Start \/ Bind \/ Stop \/ UNCHANGED vars
  BY <1>1 DEF Start, Bind, Stop, vars, Authorised
<1>2. CASE UNCHANGED service
  BY <1>2 DEF service, Authorised
<1>3. ASSUME NEW c \in Conns, HandlerStep(c) PROVE UNCHANGED service
  BY <1>3 DEF HandlerStep, Request, Headers, Greeting, Authenticate, Address, FirstChunk,
              GiveUp, Connected, Reply, Initial, RelayEnd
<1>4. ASSUME NEW c \in Conns, NEW d \in Dirs, PipeStep(c, d) \/ Say(c, d) \/ Hear(c, d)
      PROVE  UNCHANGED service
  BY <1>4 DEF PipeStep, Pump, PumpOn, PipeEnd, Say, Hear
<1>5. \A c \in Conns : Accept(c) \/ (\E s \in Sides : Depart(c, s)) => UNCHANGED service
  BY DEF Accept, Depart
<1> QED BY <1>1, <1>2, <1>3, <1>4, <1>5 DEF Next

(* A connection, as Granted sees it. *)
Grant(c) ==
  /\ peer[c]["target"] # "none" \/ pc[c] \in {"address", "connecting"} => Authorised(c)
  /\ pc[c] \in Serving => peer[c]["target"] # "none"
  /\ \A d \in Dirs : outbox[c][d] # <<>> \/ pipe[c][d] # "none" => peer[c]["target"] # "none"

LEMMA GrantOne ==
  ASSUME Granted, [Next]_vars, NEW c \in Conns, Grant(c)',
         \A k \in Conns \ {c} : /\ pc'[k] = pc[k] /\ peer'[k] = peer[k]
                                /\ outbox'[k] = outbox[k] /\ pipe'[k] = pipe[k]
  PROVE  Granted'
<1>1. ASSUME NEW k \in Conns \ {c} PROVE Grant(k)'
  <2>1. Grant(k) /\ Authorised(k)' = Authorised(k)
    BY UsersStay DEF Granted, Grant
  <2> QED BY <2>1 DEF Grant
<1>2. UNCHANGED <<kind, required>>
  BY UsersStay
<1> QED BY <1>1, <1>2 DEF Granted, Grant

(* The handshake, up to the target. *)
LEMMA GrantHandshake ==
  ASSUME LifeType, ServiceType, DataType, Granted, [Next]_vars, NEW c \in Conns,
         \/ Accept(c) \/ Request(c) \/ Headers(c) \/ Greeting(c) \/ Authenticate(c)
         \/ Address(c) \/ FirstChunk(c) \/ GiveUp(c) \/ Connected(c)
  PROVE  Granted'
<1>1. UNCHANGED <<outbox, pipe>>
  BY DEF Accept, Request, Headers, Greeting, Authenticate, Address, FirstChunk, GiveUp,
         Connected, data
<1>2. \E at \in Points : GoTo(c, at)
  BY DEF Accept, Request, Headers, Greeting, Authenticate, Address, FirstChunk, GiveUp,
         Connected, Leave, Points, Handshake
<1>3. \A k \in Conns \ {c} : pc'[k] = pc[k]
  BY <1>2 DEF GoTo, LifeType
<1>4. \A k \in Conns \ {c} : peer'[k] = peer[k]
  BY DEF Accept, Request, Headers, Greeting, Authenticate, Address, FirstChunk, GiveUp,
         Connected, ServiceType
<1>5. Authorised(c)' = Authorised(c) /\ Grant(c) /\ (kind = "shadowsocks" => required)
  BY UsersStay DEF Granted, Grant
<1>6. CASE Connected(c)
  <2>1. pc'[c] = "reply" /\ peer'[c]["target"] = "open"
    BY <1>6, SidesAre DEF Connected, GoTo, LifeType, ServiceType
  <2>2. Authorised(c)
    BY <1>5, <1>6 DEF Grant, Connected
  <2> QED BY <1>1, <1>3, <1>4, <1>5, <2>1, <2>2, GrantOne DEF Grant
<1>7. CASE ~Connected(c)
  <2>1. peer'[c]["target"] = peer[c]["target"]
    BY <1>7, SidesAre
       DEF Accept, Request, Headers, Greeting, Authenticate, Address, FirstChunk, GiveUp,
           ServiceType
  <2>2. pc'[c] \notin Serving /\ (pc'[c] \in {"address", "connecting"} => Authorised(c))
    BY <1>5, <1>7
       DEF Accept, Request, Headers, Greeting, Authenticate, Address, FirstChunk, GiveUp,
           Leave, GoTo, LifeType, Serving, Authorised, Grant
  <2> QED BY <1>1, <1>3, <1>4, <1>5, <2>1, <2>2, GrantOne DEF Grant
<1> QED BY <1>6, <1>7

(* Once the target is there, whatever the handler and the pipes write. *)
LEMMA GrantServed ==
  ASSUME LifeType, ServiceType, DataType, Granted, [Next]_vars, NEW c \in Conns,
         NEW d \in Dirs,
         \/ Reply(c) \/ Initial(c) \/ RelayEnd(c) \/ PipeStep(c, d) \/ Hear(c, d)
  PROVE  Granted'
<1>1. Grant(c) /\ Authorised(c)' = Authorised(c) /\ UNCHANGED peer
  BY UsersStay
     DEF Granted, Grant, Reply, Initial, RelayEnd, PipeStep, Pump, PumpOn, PipeEnd, Hear
<1>2. peer[c]["target"] # "none"
  BY <1>1
     DEF Grant, Reply, Initial, RelayEnd, PipeStep, Pump, PumpOn, PipeEnd, Hear, Serving
<1>3. UNCHANGED pc \/ \E at \in {"relay", "initial", "ended"} : GoTo(c, at)
  BY DEF Reply, Initial, RelayEnd, PipeStep, Pump, PumpOn, PipeEnd, Hear, Leave
<1>4. /\ pc'[c] \in {"address", "connecting"} => Authorised(c)
      /\ \A k \in Conns \ {c} : pc'[k] = pc[k]
  BY <1>1, <1>3 DEF Grant, GoTo, LifeType
<1>5. UNCHANGED outbox \/ \E o : \E e \in Dirs : outbox' = [outbox EXCEPT ![c][e] = o]
  BY DirsAre DEF Reply, Initial, RelayEnd, PipeStep, Pump, PumpOn, PipeEnd, Hear, data
<1>6. \A k \in Conns \ {c} : outbox'[k] = outbox[k]
  BY <1>5 DEF DataType
<1>7. \A k \in Conns \ {c} : pipe'[k] = pipe[k]
  BY DEF Reply, Initial, RelayEnd, PipeStep, Pump, PumpOn, PipeEnd, Hear, StartPipes,
         LifeType
<1> QED BY <1>1, <1>2, <1>4, <1>6, <1>7, GrantOne DEF Grant

LEMMA GrantEnds ==
  ASSUME LifeType, ServiceType, Granted, [Next]_vars, NEW c \in Conns, NEW s \in Sides,
         Depart(c, s)
  PROVE  Granted'
<1>1. PICK state \in PeerStates \ {"none"} :
        peer' = [peer EXCEPT ![c][s] = state] /\ peer[c][s] # "none"
  BY DEF Depart, PeerStates
<1>2. /\ \A k \in Conns \ {c} : peer'[k] = peer[k]
      /\ peer'[c]["target"] = "none" <=> peer[c]["target"] = "none"
  BY <1>1, SidesAre DEF ServiceType
<1>3. Grant(c) /\ Authorised(c)' = Authorised(c) /\ UNCHANGED <<pc, outbox, pipe>>
  BY UsersStay DEF Granted, Grant, Depart, data
<1> QED BY <1>2, <1>3, GrantOne DEF Grant

LEMMA GrantNext ==
  ASSUME LifeType, ServiceType, DataType, Granted, [Next]_vars
  PROVE  Granted'
<1>1. CASE Start \/ Bind \/ Stop \/ UNCHANGED vars
  <2>1. UNCHANGED <<kind, required, members>> /\ UNCHANGED <<pc, peer, outbox, pipe>>
    BY <1>1 DEF Start, Bind, Stop, vars, data
  <2> QED BY <2>1 DEF Granted, Authorised
<1>2. ASSUME NEW c \in Conns, NEW d \in Dirs, Say(c, d) PROVE Granted'
  <2>1. UNCHANGED <<pc, peer, outbox, pipe>>
    BY <1>2 DEF Say
  <2> QED BY <2>1, UsersStay DEF Granted
<1> QED BY <1>1, <1>2, GrantHandshake, GrantServed, GrantEnds, DirsAre DEF Next, HandlerStep

-----------------------------------------------------------------------------
(* Nothing that was read is lost. *)

Mid(c, d) == IF d = "up" THEN initial[c] ELSE <<>>
Stream(c, d) == heard[c][d] \o outbox[c][d] \o Mid(c, d) \o inbox[c][d]
Written(c, d) == Stream(c, d) = Numbers(said[c][d])

LEMMA StreamIs ==
  ASSUME DataType, NEW c \in Conns, NEW d \in Dirs
  PROVE  /\ heard[c][d] \in Seq(Nat) /\ outbox[c][d] \in Seq(Nat) /\ Mid(c, d) \in Seq(Nat)
         /\ inbox[c][d] \in Seq(Nat) /\ said[c][d] \in Nat
         /\ heard[c][d] \o outbox[c][d] \in Seq(Nat)
         /\ heard[c][d] \o outbox[c][d] \o Mid(c, d) \in Seq(Nat)
         /\ Mid(c, d) = <<>> => Stream(c, d) = heard[c][d] \o outbox[c][d] \o inbox[c][d]
<1>1. /\ heard[c][d] \in Seq(Nat) /\ outbox[c][d] \in Seq(Nat) /\ inbox[c][d] \in Seq(Nat)
      /\ said[c][d] \in Nat /\ initial[c] \in Seq(Nat) /\ <<>> \in Seq(Nat)
  BY DEF DataType
<1>2. Mid(c, d) \in Seq(Nat)
  BY <1>1 DEF Mid
<1>3. heard[c][d] \o outbox[c][d] \in Seq(Nat)
  BY <1>1, ConcatProperties
<1>4. heard[c][d] \o outbox[c][d] \o Mid(c, d) \in Seq(Nat)
  BY <1>2, <1>3, ConcatProperties
<1>5. heard[c][d] \o outbox[c][d] \o <<>> = heard[c][d] \o outbox[c][d]
  BY <1>3, ConcatEmptySeq
<1> QED BY <1>1, <1>2, <1>3, <1>4, <1>5 DEF Stream

(* A step of one direction keeps the others. *)
LEMMA WrittenOne ==
  ASSUME ReadIsWritten, NEW c \in Conns, NEW d \in Dirs, Written(c, d)',
         \A k \in Conns, e \in Dirs : (k # c \/ e # d) =>
           /\ heard'[k][e] = heard[k][e] /\ outbox'[k][e] = outbox[k][e]
           /\ Mid(k, e)' = Mid(k, e) /\ inbox'[k][e] = inbox[k][e] /\ said'[k][e] = said[k][e]
  PROVE  ReadIsWritten'
<1>1. ASSUME NEW k \in Conns, NEW e \in Dirs, k # c \/ e # d PROVE Written(k, e)'
  <2>1. Written(k, e)
    BY DEF ReadIsWritten, Written, Stream, Mid
  <2>2. Stream(k, e)' = Stream(k, e)
    BY <1>1 DEF Stream
  <2> QED BY <1>1, <2>1, <2>2 DEF Written, Numbers
<1>2. \A k \in Conns, e \in Dirs : Written(k, e)'
  BY <1>1
<1> QED BY <1>2 DEF ReadIsWritten, Written, Stream, Mid

LEMMA WrittenHere ==
  ASSUME ReadIsWritten, NEW c \in Conns, NEW d \in Dirs
  PROVE  Written(c, d)
BY DEF ReadIsWritten, Written, Stream, Mid

LEMMA WrittenSay ==
  ASSUME DataType, ReadIsWritten, NEW c \in Conns, NEW d \in Dirs, Say(c, d)
  PROVE  ReadIsWritten'
<1> DEFINE front == heard[c][d] \o outbox[c][d] \o Mid(c, d)
<1>1. /\ inbox'[c][d] = Append(inbox[c][d], said[c][d] + 1) /\ said'[c][d] = said[c][d] + 1
      /\ UNCHANGED <<heard, outbox, initial>>
  BY DEF Say, DataType
<1>2. Stream(c, d)' = front \o Append(inbox[c][d], said[c][d] + 1)
  BY <1>1 DEF Stream, Mid
<1>3. @ = Append(front \o inbox[c][d], said[c][d] + 1)
  <2>1. front \in Seq(Nat) /\ inbox[c][d] \in Seq(Nat) /\ said[c][d] \in Nat
    BY StreamIs
  <2>2. said[c][d] + 1 \in Nat
    BY <2>1
  <2> HIDE DEF front
  <2> QED BY <2>1, <2>2, SaySeq
<1>4. @ = Append(Numbers(said[c][d]), said[c][d] + 1)
  BY WrittenHere DEF Written, Stream
<1>5. @ = Numbers(said[c][d] + 1)
  BY StreamIs, NumbersGrow
<1>6. Written(c, d)'
  BY <1>1, <1>2, <1>3, <1>4, <1>5 DEF Written, Numbers
<1>7. \A k \in Conns, e \in Dirs : (k # c \/ e # d) =>
        inbox'[k][e] = inbox[k][e] /\ said'[k][e] = said[k][e]
  BY DEF Say, DataType
<1> QED BY <1>1, <1>6, <1>7, WrittenOne DEF Mid

LEMMA WrittenHear ==
  ASSUME DataType, ReadIsWritten, NEW c \in Conns, NEW d \in Dirs, Hear(c, d)
  PROVE  ReadIsWritten'
<1>1. /\ heard'[c][d] = Append(heard[c][d], Head(outbox[c][d]))
      /\ outbox'[c][d] = Tail(outbox[c][d]) /\ outbox[c][d] # <<>>
      /\ UNCHANGED <<inbox, initial, said>>
  BY DEF Hear, DataType
<1>2. heard'[c][d] \o outbox'[c][d] = heard[c][d] \o outbox[c][d]
  <2>1. heard[c][d] \in Seq(Nat) /\ outbox[c][d] \in Seq(Nat) /\ outbox[c][d] # <<>>
    BY <1>1, StreamIs
  <2>2. Append(heard[c][d], Head(outbox[c][d])) \o Tail(outbox[c][d]) = heard[c][d] \o outbox[c][d]
    BY <2>1, HearSeq
  <2> QED BY <1>1, <2>2
<1>3. Stream(c, d)' = Stream(c, d)
  BY <1>1, <1>2 DEF Stream, Mid
<1>4. Written(c, d)'
  BY <1>1, <1>3, WrittenHere DEF Written, Numbers
<1>5. \A k \in Conns, e \in Dirs : (k # c \/ e # d) =>
        heard'[k][e] = heard[k][e] /\ outbox'[k][e] = outbox[k][e]
  BY DEF Hear, DataType
<1> QED BY <1>1, <1>4, <1>5, WrittenOne DEF Mid

(* A pipe writes what it reads: its destination is open still, and nothing *)
(* that came with the address waits before it.                             *)
LEMMA WrittenPump ==
  ASSUME DataType, Life, Held, ReadIsWritten, NEW c \in Conns, NEW d \in Dirs, Pump(c, d)
  PROVE  ReadIsWritten'
<1>1. ~closed[c][To(d)]
  BY DEF Life, Sound, Pump
<1>2. Mid(c, d) = <<>>
  BY DEF Held, Pump, Mid
<1>3. /\ outbox'[c][d] = Append(outbox[c][d], Head(inbox[c][d]))
      /\ inbox'[c][d] = Tail(inbox[c][d]) /\ inbox[c][d] # <<>>
      /\ UNCHANGED <<heard, initial, said>>
  BY <1>1 DEF Pump, DataType
<1>4. Stream(c, d) = heard[c][d] \o outbox[c][d] \o inbox[c][d]
  BY <1>2, StreamIs
<1>5. Mid(c, d)' = <<>>
  BY <1>2, <1>3 DEF Mid
<1>6. Stream(c, d)' =
        heard[c][d] \o Append(outbox[c][d], Head(inbox[c][d])) \o <<>> \o Tail(inbox[c][d])
  BY <1>3, <1>5 DEF Stream
<1>7. @ = heard[c][d] \o outbox[c][d] \o inbox[c][d]
  <2>1. /\ heard[c][d] \in Seq(Nat) /\ outbox[c][d] \in Seq(Nat) /\ inbox[c][d] \in Seq(Nat)
        /\ inbox[c][d] # <<>>
    BY <1>3, StreamIs
  <2> QED BY <2>1, PumpSeq
<1>9. Written(c, d)'
  BY <1>3, <1>4, <1>6, <1>7, WrittenHere DEF Written, Numbers
<1>10. \A k \in Conns, e \in Dirs : (k # c \/ e # d) =>
         outbox'[k][e] = outbox[k][e] /\ inbox'[k][e] = inbox[k][e]
  BY <1>1 DEF Pump, DataType
<1> QED BY <1>3, <1>9, <1>10, WrittenOne DEF Mid

(* What came with the address waits where it was taken from. *)
LEMMA WrittenFirstChunk ==
  ASSUME DataType, Held, ReadIsWritten, NEW c \in Conns, FirstChunk(c)
  PROVE  ReadIsWritten'
<1>1. "up" \in Dirs /\ Mid(c, "up") = <<>> /\ UNCHANGED <<heard, outbox, said>>
  BY DirsAre DEF Held, FirstChunk, Mid
<1>2. CASE UNCHANGED <<inbox, initial>>
  BY <1>1, <1>2 DEF ReadIsWritten, Numbers
<1>3. CASE /\ inbox[c].up # <<>>
           /\ initial' = [initial EXCEPT ![c] = <<Head(inbox[c].up)>>]
           /\ inbox' = [inbox EXCEPT ![c].up = Tail(@)]
  <2>1. /\ Mid(c, "up")' = <<Head(inbox[c]["up"])>> /\ inbox'[c]["up"] = Tail(inbox[c]["up"])
        /\ inbox[c]["up"] # <<>>
    BY <1>1, <1>3 DEF Mid, DataType
  <2>2. Stream(c, "up") = heard[c]["up"] \o outbox[c]["up"] \o inbox[c]["up"]
    BY <1>1, StreamIs
  <2>3. Stream(c, "up")' = heard[c]["up"] \o outbox[c]["up"] \o <<Head(inbox[c]["up"])>>
                             \o Tail(inbox[c]["up"])
    BY <1>1, <2>1 DEF Stream
  <2>4. @ = heard[c]["up"] \o outbox[c]["up"] \o inbox[c]["up"]
    BY <1>1, <2>1, StreamIs, TakeSeq
  <2>5. Written(c, "up")'
    BY <1>1, <2>2, <2>3, <2>4, WrittenHere DEF Written, Numbers
  <2>6. \A k \in Conns, e \in Dirs : (k # c \/ e # "up") =>
          Mid(k, e)' = Mid(k, e) /\ inbox'[k][e] = inbox[k][e]
    BY <1>3 DEF Mid, DataType
  <2> QED BY <1>1, <2>5, <2>6, WrittenOne
<1> QED BY <1>2, <1>3 DEF FirstChunk

LEMMA WrittenReply ==
  ASSUME DataType, ReadIsWritten, NEW c \in Conns, Reply(c)
  PROVE  ReadIsWritten'
<1>1. "up" \in Dirs /\ UNCHANGED <<heard, inbox, said>>
  BY DirsAre DEF Reply
<1>2. CASE UNCHANGED <<initial, outbox>>
  BY <1>1, <1>2 DEF ReadIsWritten, Numbers
<1>3. CASE /\ outbox' = [outbox EXCEPT ![c].up = @ \o initial[c]]
           /\ initial' = [initial EXCEPT ![c] = <<>>]
  <2>1. /\ outbox'[c]["up"] = outbox[c]["up"] \o Mid(c, "up") /\ Mid(c, "up")' = <<>>
    BY <1>1, <1>3 DEF Mid, DataType
  <2>2. /\ heard[c]["up"] \in Seq(Nat) /\ outbox[c]["up"] \in Seq(Nat)
        /\ Mid(c, "up") \in Seq(Nat) /\ inbox[c]["up"] \in Seq(Nat)
        /\ heard[c]["up"] \o outbox[c]["up"] \o Mid(c, "up") \in Seq(Nat)
    BY <1>1, StreamIs
  <2>3. heard'[c]["up"] \o outbox'[c]["up"] = heard[c]["up"] \o outbox[c]["up"] \o Mid(c, "up")
    <3>1. heard[c]["up"] \o (outbox[c]["up"] \o Mid(c, "up"))
            = heard[c]["up"] \o outbox[c]["up"] \o Mid(c, "up")
      <4> DEFINE out == heard[c]["up"] old == outbox[c]["up"] mid == Mid(c, "up")
      <4>1. out \in Seq(Nat) /\ old \in Seq(Nat) /\ mid \in Seq(Nat)
        BY <2>2
      <4> HIDE DEF out, old, mid
      <4>2. out \o (old \o mid) = out \o old \o mid
        BY <4>1, Regrouped
      <4> QED BY <4>2 DEF out, old, mid
    <3>2. heard'[c]["up"] = heard[c]["up"]
      BY <1>1
    <3>3. heard'[c]["up"] \o outbox'[c]["up"]
            = heard[c]["up"] \o (outbox[c]["up"] \o Mid(c, "up"))
      BY <2>1, <3>2
    <3> QED BY <3>1, <3>3
  <2>4. heard'[c]["up"] \o outbox'[c]["up"] \o <<>> = heard'[c]["up"] \o outbox'[c]["up"]
    <3>1. heard'[c]["up"] \o outbox'[c]["up"] \in Seq(Nat)
      BY <2>2, <2>3
    <3> QED BY <3>1, ConcatEmptySeq
  <2>5. Stream(c, "up")' = Stream(c, "up")
    BY <1>1, <2>1, <2>3, <2>4 DEF Stream
  <2>6. Written(c, "up")'
    BY <1>1, <2>5, WrittenHere DEF Written, Numbers
  <2>7. \A k \in Conns, e \in Dirs : (k # c \/ e # "up") =>
          Mid(k, e)' = Mid(k, e) /\ outbox'[k][e] = outbox[k][e]
    BY <1>3 DEF Mid, DataType
  <2> QED BY <1>1, <2>6, <2>7, WrittenOne
<1> QED BY <1>2, <1>3 DEF Reply

LEMMA WrittenNext ==
  ASSUME DataType, Life, Held, ReadIsWritten, [Next]_vars
  PROVE  ReadIsWritten'
<1>1. CASE UNCHANGED data
  BY <1>1 DEF data, ReadIsWritten, Numbers
<1> QED
  BY <1>1, DataSteps, WrittenFirstChunk, WrittenReply, WrittenPump, WrittenSay, WrittenHear

-----------------------------------------------------------------------------
(* The invariant of all that follows. *)
Inv ==
  /\ LifeType /\ ServiceType /\ DataType
  /\ Life /\ Counted /\ Granted /\ Held /\ ReadIsWritten

LEMMA InvInit == Init => Inv
<1> SUFFICES ASSUME Init PROVE Inv
  OBVIOUS
<1>1. LifeType /\ Life /\ DataType /\ ServiceType
  BY LifeInit
<1>2. Served = {} /\ connections = 0
  BY DEF Init, Served
<1>3. Counted
  BY <1>2, FS_EmptySet DEF Counted
<1>4. Granted
  BY SidesAre DEF Init, Granted, Serving
<1>5. Held
  BY DEF Init, Held
<1>6. ASSUME NEW c \in Conns, NEW d \in Dirs PROVE Written(c, d)
  <2>1. /\ heard[c][d] = <<>> /\ outbox[c][d] = <<>> /\ Mid(c, d) = <<>> /\ inbox[c][d] = <<>>
        /\ said[c][d] = 0
    BY DEF Init, Mid
  <2>2. Stream(c, d) = <<>>
    BY <2>1, ConcatEmptySeq, EmptySeq DEF Stream
  <2>3. Numbers(0) \in Seq(Nat) /\ Len(Numbers(0)) = 0
    BY NumbersGrow
  <2>4. Numbers(0) = <<>>
    BY <2>3, EmptySeq
  <2> QED BY <2>1, <2>2, <2>4 DEF Written
<1>7. ReadIsWritten
  BY <1>6 DEF ReadIsWritten, Written, Stream, Mid
<1> QED BY <1>1, <1>3, <1>4, <1>5, <1>7 DEF Inv

LEMMA InvNext == Inv /\ [Next]_vars => Inv'
BY DataNext, LifeNext, ServiceNext, CountNext, GrantNext, HeldNext, WrittenNext DEF Inv

LEMMA Invariant == Spec => []Inv
BY InvInit, InvNext, PTL DEF Spec

(* Every state of the proxies has the declared type: the count of          *)
(* connections in particular is never negative.                            *)
THEOREM TypeCorrect == Spec => []TypeOK
<1>1. Inv => TypeOK
  <2> SUFFICES ASSUME Inv PROVE TypeOK
    OBVIOUS
  <2>1. connections \in Nat
    BY FS_CardinalityType DEF Inv, Counted
  <2> QED
    BY <2>1 DEF Inv, LifeType, ServiceType, DataType, TypeOK, Points, PeerStates, PipeStates
<1> QED BY <1>1, Invariant, PTL

(* Whatever an end said has arrived, is on its way or was never read, in   *)
(* order and once, whichever way a tunnel ends.                            *)
THEOREM NothingReadIsLost == Spec => []ReadIsWritten
<1>1. Inv => ReadIsWritten
  BY DEF Inv
<1> QED BY <1>1, Invariant, PTL

(* A connection that has ended has closed both transports or is about to,  *)
(* and with no connection counted no pipe runs.                            *)
THEOREM NothingIsLeft == Spec => []LeavesNothing
<1>1. Inv => LeavesNothing
  <2> SUFFICES ASSUME Inv PROVE LeavesNothing
    OBVIOUS
  <2>1. \A c \in Conns : Sound(pc[c], closed[c], pipe[c]) /\ pc[c] \in Points
    BY DEF Inv, Life, LifeType
  <2>2. ASSUME NEW c \in Conns, pc[c] = "ended"
        PROVE  closed[c].client /\ (closed[c].target \/ pipe[c].up = "cancelled")
    BY <2>1, <2>2 DEF Sound
  <2>3. ASSUME connections = 0, NEW c \in Conns
        PROVE  /\ pc[c] \in {"none", "ended"}
               /\ \A d \in Dirs : pipe[c][d] \notin {"read", "drain"}
    <3>1. Served = {}
      BY <2>3, FS_EmptySet DEF Inv, Counted
    <3>2. pc[c] \in {"none", "ended"}
      BY <3>1 DEF Served
    <3> QED BY <2>1, <3>2 DEF Sound, Early
  <2> QED BY <2>2, <2>3 DEF LeavesNothing
<1> QED BY <1>1, Invariant, PTL

-----------------------------------------------------------------------------
(* Every service is a tunnel. *)

Allowed == IF required THEN members ELSE Conns
Opened == {c \in Conns : peer[c].target # "none"}

LEMMA TunnelInit == Init => T!Init
BY SidesAre DEF Init, T!Init

LEMMA TunnelOpen ==
  ASSUME Inv, [Next]_vars, NEW c \in Conns, Connected(c)
  PROVE  T!Open(c)
<1>1. c \in Allowed
  BY DEF Inv, Granted, Connected, Authorised, Allowed
<1>2. UNCHANGED <<said, heard>> /\ Allowed' = Allowed
  BY UsersStay DEF Connected, data, Allowed
<1>3. Opened' = Opened \cup {c}
  BY SidesAre DEF Connected, Inv, ServiceType, Opened
<1> QED BY <1>1, <1>2, <1>3 DEF T!Open, Allowed, Opened

LEMMA TunnelSay ==
  ASSUME Inv, [Next]_vars, NEW c \in Conns, NEW d \in Dirs, Say(c, d)
  PROVE  T!Say(c, d)
<1>1. UNCHANGED <<heard, peer>> /\ Allowed' = Allowed
  BY UsersStay DEF Say, Allowed
<1> QED BY <1>1 DEF Say, T!Say, Allowed

(* The chunk that arrives is the next one of those said. *)
LEMMA TunnelHear ==
  ASSUME Inv, [Next]_vars, NEW c \in Conns, NEW d \in Dirs, Hear(c, d)
  PROVE  T!Hear(c, d)
<1>1. outbox[c][d] # <<>> /\ UNCHANGED <<said, peer>> /\ Allowed' = Allowed
  BY UsersStay DEF Hear, Allowed
<1>2. c \in Opened
  BY <1>1 DEF Inv, Granted, Opened
<1>3. Written(c, d)
  BY WrittenHere DEF Inv
<1>4. Len(heard[c][d]) < said[c][d] /\ Head(outbox[c][d]) = Len(heard[c][d]) + 1
  BY <1>1, <1>3, StreamIs, NextHeard DEF Inv, Written, Stream
<1>5. heard' = [heard EXCEPT ![c][d] = Append(@, Len(@) + 1)]
  BY <1>4 DEF Hear
<1> QED BY <1>1, <1>2, <1>4, <1>5 DEF T!Hear, Allowed, Opened

LEMMA TunnelStutters ==
  ASSUME Inv, [Next]_vars
  PROVE  \/ Allowed' = Allowed /\ Opened' = Opened /\ UNCHANGED <<said, heard>>
         \/ \E c \in Conns : Connected(c) \/ \E d \in Dirs : Say(c, d) \/ Hear(c, d)
<1>1. Allowed' = Allowed
  BY UsersStay DEF Allowed
<1>2. UNCHANGED peer => Opened' = Opened
  BY DEF Opened
<1>3. CASE Start \/ Bind \/ Stop \/ UNCHANGED vars
  <2>1. UNCHANGED <<peer, said, heard>>
    BY <1>3 DEF Start, Bind, Stop, vars, data
  <2> QED BY <1>1, <1>2, <2>1
<1>4. ASSUME NEW c \in Conns, HandlerStep(c), ~Connected(c)
      PROVE  UNCHANGED <<peer, said, heard>>
  BY <1>4 DEF HandlerStep, Request, Headers, Greeting, Authenticate, Address, FirstChunk,
              GiveUp, Reply, Initial, RelayEnd, data
<1>5. ASSUME NEW c \in Conns, NEW d \in Dirs, PipeStep(c, d)
      PROVE  UNCHANGED <<peer, said, heard>>
  BY <1>5 DEF PipeStep, Pump, PumpOn, PipeEnd, data
<1>6. ASSUME NEW c \in Conns, NEW s \in Sides, Depart(c, s)
      PROVE  Opened' = Opened /\ UNCHANGED <<said, heard>>
  <2>1. PICK state \in PeerStates \ {"none"} :
          peer' = [peer EXCEPT ![c][s] = state] /\ peer[c][s] # "none"
    BY <1>6 DEF Depart, PeerStates
  <2>2. \A k \in Conns : peer'[k]["target"] = "none" <=> peer[k]["target"] = "none"
    BY <2>1, SidesAre DEF Inv, ServiceType
  <2> QED BY <1>6, <2>2 DEF Depart, data, Opened
<1>7. ASSUME NEW c \in Conns, Accept(c)
      PROVE  Opened' = Opened /\ UNCHANGED <<said, heard>>
  <2>1. \A k \in Conns : peer'[k]["target"] = peer[k]["target"]
    BY <1>7, SidesAre DEF Accept, Inv, ServiceType
  <2> QED BY <1>7, <2>1 DEF Accept, data, Opened
<1> QED BY <1>1, <1>2, <1>3, <1>4, <1>5, <1>6, <1>7 DEF Next

(* The proxies implement Tunnel: a connection is opened for those who hold *)
(* the credentials alone, and what is said arrives in order, at most once. *)
THEOREM Implements == Spec => IsATunnel
<1>1. Inv /\ [Next]_vars => [T!Next]_<<Allowed, Opened, said, heard>>
  BY TunnelOpen, TunnelSay, TunnelHear, TunnelStutters DEF T!Next
<1>2. Inv /\ [Next]_vars =>
        [T!Next]_<<IF required THEN members ELSE Conns,
                   {c \in Conns : peer[c].target # "none"}, said, heard>>
  BY <1>1 DEF Allowed, Opened
<1> QED BY <1>2, TunnelInit, Invariant, PTL DEF Spec, IsATunnel, T!Spec
=============================================================================
