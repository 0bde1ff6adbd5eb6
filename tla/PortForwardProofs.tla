------------------------ MODULE PortForwardProofs ------------------------
(***************************************************************************)
(* Theorems about module PortForward.                                      *)
(***************************************************************************)
EXTENDS PortForward, SequenceTheorems, TLAPS

LEMMA Numbers ==
  /\ Lifetime \in Nat /\ Refresh \in Nat /\ HookTicks \in Nat
  /\ MaxStarts \in Nat /\ MaxRestarts \in Nat
BY PortAssumption

(* The list of tasks as a function. *)
LEMMA TasksFunction ==
  ASSUME TypeOK
  PROVE  /\ Len(tasks) \in Nat /\ Ids = DOMAIN tasks
         /\ tasks \in [Ids -> Tasks]
         /\ tasks # <<>> => Len(tasks) \in Ids /\ Newest \in Tasks
BY LenProperties, EmptySeq, ElementOfSeq DEF TypeOK, Ids, Newest

(* A change of one task. *)
LEMMA GoToType ==
  ASSUME TypeOK, NEW t \in Ids, NEW pc \in Points, NEW n \in 0..Refresh + HookTicks,
         GoTo(t, pc, n)
  PROVE  /\ tasks' \in Seq(Tasks) /\ Len(tasks') = Len(tasks)
         /\ tasks'[t] = [tasks[t] EXCEPT !.pc = pc, !.timer = n]
         /\ \A o \in Ids \ {t} : tasks'[o] = tasks[o]
<1> DEFINE e == [tasks[t] EXCEPT !.pc = pc, !.timer = n]
<1>1. tasks[t] \in Tasks /\ tasks \in Seq(Tasks)
  BY TasksFunction DEF TypeOK
<1>2. e \in Tasks
  BY <1>1 DEF Tasks
<1>3. tasks' = [tasks EXCEPT ![t] = e]
  BY <1>1, TasksFunction DEF GoTo
<1> HIDE DEF e
<1>4. /\ [tasks EXCEPT ![t] = e] \in Seq(Tasks)
      /\ Len([tasks EXCEPT ![t] = e]) = Len(tasks)
      /\ \A j \in 1..Len(tasks) : [tasks EXCEPT ![t] = e][j] = IF j = t THEN e ELSE tasks[j]
  BY <1>1, <1>2, ExceptSeq DEF Ids
<1> QED BY <1>3, <1>4 DEF Ids, e

(* A change of every task. *)
LEMMA EachType ==
  ASSUME TypeOK, NEW f \in [Ids -> Tasks]
  PROVE  f \in Seq(Tasks) /\ Len(f) = Len(tasks)
BY TasksFunction DEF Ids

(* start(): the new task is last and not cancelled, the others are done for. *)
LEMMA StartType ==
  ASSUME TypeOK, NEW g \in Gateways, Start(g)
  PROVE  /\ tasks' \in Seq(Tasks) /\ Len(tasks') = Len(tasks) + 1
         /\ tasks'[Len(tasks')] = [gw |-> g, pc |-> "request", cancelled |-> FALSE, timer |-> 0]
         /\ \A t \in Ids : tasks'[t] = [tasks[t] EXCEPT !.cancelled = Ongoing(t)]
<1> DEFINE f == [t \in Ids |-> [tasks[t] EXCEPT !.cancelled = Ongoing(t)]]
           new == [gw |-> g, pc |-> "request", cancelled |-> FALSE, timer |-> 0]
<1>1. f \in [Ids -> Tasks]
  <2> SUFFICES ASSUME NEW t \in Ids
               PROVE  [tasks[t] EXCEPT !.cancelled = Ongoing(t)] \in Tasks
    OBVIOUS
  <2>1. tasks[t] \in Tasks /\ Ongoing(t) \in BOOLEAN
    BY TasksFunction DEF Ongoing
  <2> QED BY <2>1 DEF Tasks
<1>2. f \in Seq(Tasks) /\ Len(f) = Len(tasks)
  BY <1>1, EachType
<1>3. new \in Tasks
  BY PortAssumption DEF Tasks, Points
<1>4. \A t \in Ids : f[t] = [tasks[t] EXCEPT !.cancelled = Ongoing(t)]
  OBVIOUS
<1>5. tasks' = Append(f, new)
  BY DEF Start
<1> HIDE DEF f, new
<1>6. /\ Append(f, new) \in Seq(Tasks) /\ Len(Append(f, new)) = Len(f) + 1
      /\ \A t \in 1..Len(f) : Append(f, new)[t] = f[t]
      /\ Append(f, new)[Len(f) + 1] = new
  BY <1>2, <1>3, AppendProperties
<1> QED BY <1>2, <1>4, <1>5, <1>6 DEF Ids, new

-----------------------------------------------------------------------------
(* Type correctness. *)

LEMMA TypeTask ==
  ASSUME TypeOK, NEW t \in Ids, TaskStep(t)
  PROVE  TypeOK'
<1>1. \A pc \in Points, n \in 0..Refresh + HookTicks :
        GoTo(t, pc, n) => tasks' \in Seq(Tasks) /\ Len(tasks') = Len(tasks)
  BY GoToType
<1>2. {0, Refresh, HookTicks} \subseteq 0..Refresh + HookTicks
  BY PortAssumption
<1>3. Points = {"request", "bind", "spawn", "hook", "sleep", "ended"}
  BY DEF Points
<1> USE DEF TypeOK
<1>4. CASE Cancelled(t) \/ Rebind(t) \/ NotMapped(t) \/ HookEnds(t) \/ Wake(t)
  BY <1>1, <1>2, <1>3, <1>4 DEF Cancelled, Rebind, NotMapped, HookEnds, Wake, End
<1>5. CASE Signature(t) \/ NoSignature(t)
  BY <1>1, <1>2, <1>3, <1>5, TasksFunction, PortAssumption
     DEF Signature, NoSignature, End, Tasks
<1>6. CASE Bind(t)
  BY <1>1, <1>2, <1>3, <1>6 DEF Bind
<1>7. CASE Mapped(t)
  <2>1. gateway \in Gateways
    BY <1>7, TasksFunction DEF Mapped, Tasks
  <2>2. PICK p \in Ports :
          /\ grant' = [grant EXCEPT ![gateway] = p]
          /\ left' = [left EXCEPT ![gateway] = Lifetime]
          /\ IF p = port THEN UNCHANGED <<port, file>> /\ GoTo(t, "sleep", Refresh)
             ELSE /\ port' = p /\ file' = p
                  /\ IF HookScript THEN GoTo(t, "spawn", 0) ELSE GoTo(t, "sleep", Refresh)
    BY <1>7 DEF Mapped
  <2>3. tasks' \in Seq(Tasks) /\ Len(tasks') = Len(tasks)
    BY <1>1, <1>2, <1>3, <2>2
  <2>4. left' \in [Gateways -> 0..Lifetime] /\ grant' \in [Gateways -> Ports \cup {None}]
    BY <2>1, <2>2, PortAssumption
  <2>5. port' \in Ports \cup {None} /\ file' \in Ports \cup {None}
    BY <2>2
  <2> QED BY <1>7, <2>3, <2>4, <2>5 DEF Mapped
<1>8. CASE Spawned(t)
  BY <1>1, <1>2, <1>3, <1>8 DEF Spawned
<1> QED BY <1>4, <1>5, <1>6, <1>7, <1>8 DEF TaskStep

LEMMA LessType == \A n \in Nat : Less(n) \in Nat /\ Less(n) <= n /\ (n > 0 => Less(n) = n - 1)
BY DEF Less

(* Time passing. *)
LEMMA TickType ==
  ASSUME TypeOK, Tick
  PROVE  /\ tasks' \in Seq(Tasks) /\ Len(tasks') = Len(tasks)
         /\ \A t \in Ids : tasks'[t] = [tasks[t] EXCEPT !.timer = Less(@)]
         /\ left' \in [Gateways -> 0..Lifetime]
<1>1. \A t \in Ids : [tasks[t] EXCEPT !.timer = Less(@)] \in Tasks
  <2> SUFFICES ASSUME NEW t \in Ids PROVE [tasks[t] EXCEPT !.timer = Less(@)] \in Tasks
    OBVIOUS
  <2>1. tasks[t] \in Tasks /\ tasks[t].timer \in 0..Refresh + HookTicks
    BY TasksFunction DEF Tasks
  <2>2. Less(tasks[t].timer) \in 0..Refresh + HookTicks
    BY <2>1, PortAssumption, LessType
  <2> QED BY <2>1, <2>2 DEF Tasks
<1>2. tasks' \in [Ids -> Tasks]
  BY <1>1 DEF Tick
<1>3. \A g \in Gateways : Less(left[g]) \in 0..Lifetime
  BY PortAssumption, LessType DEF TypeOK
<1> QED BY <1>2, <1>3, EachType DEF Tick

LEMMA TypeNext == TypeOK /\ [Next]_vars => TypeOK'
<1> SUFFICES ASSUME TypeOK, [Next]_vars PROVE TypeOK'
  OBVIOUS
<1>1. ASSUME NEW g \in Gateways, Connect(g) PROVE TypeOK'
  <2>1. tasks' \in Seq(Tasks) /\ Len(tasks') = Len(tasks) + 1
    BY <1>1, StartType DEF Connect
  <2>2. Len(tasks') <= MaxStarts
    BY <1>1, <2>1, TasksFunction, PortAssumption DEF Connect
  <2> QED BY <1>1, <2>1, <2>2 DEF Connect, TypeOK
<1>2. CASE ConnectPlain
  BY <1>2 DEF ConnectPlain, TypeOK
<1>3. CASE Restart
  <2>1. \A t \in Ids : [tasks[t] EXCEPT !.pc = "ended", !.cancelled = FALSE, !.timer = 0]
                         \in Tasks
    <3> SUFFICES ASSUME NEW t \in Ids
                 PROVE  [tasks[t] EXCEPT !.pc = "ended", !.cancelled = FALSE, !.timer = 0]
                          \in Tasks
      OBVIOUS
    <3>1. tasks[t] \in Tasks /\ 0 \in 0..Refresh + HookTicks
      BY TasksFunction, PortAssumption
    <3> QED BY <3>1 DEF Tasks, Points
  <2>2. tasks' \in [Ids -> Tasks]
    BY <1>3, <2>1 DEF Restart
  <2>3. tasks' \in Seq(Tasks) /\ Len(tasks') = Len(tasks)
    BY <2>2, EachType
  <2>4. restarts < MaxRestarts /\ restarts' = restarts + 1
    BY <1>3 DEF Restart
  <2>5. restarts \in 0..MaxRestarts
    BY DEF TypeOK
  <2>6. restarts' \in 0..MaxRestarts
    BY <2>4, <2>5, Numbers
  <2> QED BY <1>3, <2>3, <2>6 DEF Restart, TypeOK
<1>4. CASE Tick
  BY <1>4, TickType DEF Tick, TypeOK
<1>5. CASE \E t \in Ids : TaskStep(t)
  BY <1>5, TypeTask
<1>6. CASE UNCHANGED vars
  BY <1>6 DEF vars, TypeOK
<1> QED BY <1>1, <1>2, <1>3, <1>4, <1>5, <1>6 DEF Next

LEMMA TypeInit == Init => TypeOK
BY EmptySeq, PortAssumption DEF Init, TypeOK

(* Every variable keeps its type, for any gateways, ports and time limits.  *)
THEOREM TypeCorrect == Spec => []TypeOK
BY TypeInit, TypeNext, PTL DEF Spec

-----------------------------------------------------------------------------
(* The list of tasks, and the mapping that is renewed in time. *)

LEMMA KeepInit == Init => KeepInv
BY TypeInit, PortAssumption DEF Init, KeepInv, ShapeInv, OldAreIdle, Ids, InTime, Keeping

(* A task that may act is the newest one, and acts on no other. *)
LEMMA OnlyNewestActs ==
  ASSUME ShapeInv, NEW t \in Ids, tasks[t].pc # "ended", ~tasks[t].cancelled
  PROVE  t = Len(tasks) /\ tasks # <<>>
<1>1. Len(tasks) \in Nat /\ t \in 1..Len(tasks)
  BY TasksFunction DEF ShapeInv, Ids
<1>2. ~(t < Len(tasks))
  BY DEF ShapeInv, OldAreIdle
<1>3. tasks # <<>>
  BY <1>1, EmptySeq
<1> QED BY <1>1, <1>2, <1>3

(* What a change of one task does to the shape of the list. *)
LEMMA GoToShape ==
  ASSUME ShapeInv, NEW t \in Ids, NEW pc \in Points, NEW n \in 0..Refresh + HookTicks,
         GoTo(t, pc, n), t = Len(tasks) \/ pc = "ended"
  PROVE  /\ OldAreIdle' /\ tasks' # <<>> /\ ~Newest'.cancelled
         /\ Newest'.gw = Newest.gw
         /\ t = Len(tasks) => Newest'.pc = pc /\ Newest'.timer = n
         /\ t # Len(tasks) => Newest' = Newest
<1>1. TypeOK /\ tasks # <<>> /\ Len(tasks) \in Ids /\ t \in Ids
  BY TasksFunction, EmptySeq DEF ShapeInv, TypeOK, Ids
<1>2. /\ Len(tasks') = Len(tasks)
      /\ tasks'[t] = [tasks[t] EXCEPT !.pc = pc, !.timer = n]
      /\ \A o \in Ids \ {t} : tasks'[o] = tasks[o]
  BY <1>1, GoToType
<1>3. \A o \in Ids : tasks[o] \in Tasks
  BY <1>1, TasksFunction
<1>4. /\ tasks'[t].pc = pc /\ tasks'[t].timer = n
      /\ tasks'[t].gw = tasks[t].gw /\ tasks'[t].cancelled = tasks[t].cancelled
  BY <1>1, <1>2, <1>3 DEF Tasks
<1>5. OldAreIdle'
  <2> SUFFICES ASSUME NEW o \in Ids', o < Len(tasks')
               PROVE  tasks'[o].cancelled \/ tasks'[o].pc = "ended"
    BY DEF OldAreIdle
  <2>1. o \in Ids /\ o < Len(tasks) /\ (tasks[o].cancelled \/ tasks[o].pc = "ended")
    BY <1>2 DEF ShapeInv, OldAreIdle, Ids
  <2>2. CASE o = t
    BY <1>1, <1>4, <2>1, <2>2
  <2>3. CASE o # t
    BY <1>2, <2>1, <2>3
  <2> QED BY <2>2, <2>3
<1>6. Newest' = tasks'[Len(tasks)] /\ tasks' # <<>>
  BY <1>1, <1>2 DEF Newest, Ids
<1> QED BY <1>1, <1>2, <1>4, <1>5, <1>6 DEF ShapeInv, Newest

(* A step of a task keeps the shape of the list. *)
LEMMA ShapeTask ==
  ASSUME ShapeInv, NEW t \in Ids, TaskStep(t)
  PROVE  /\ ShapeInv' /\ tasks # <<>> /\ tasks' # <<>> /\ Newest \in Tasks
         /\ Cancelled(t) => Newest' = Newest
         /\ ~Cancelled(t) => t = Len(tasks) /\ tasks[t] = Newest
         /\ \A pc \in Points, n \in 0..Refresh + HookTicks :
              ~Cancelled(t) /\ GoTo(t, pc, n)
                => Newest'.gw = Newest.gw /\ Newest'.pc = pc /\ Newest'.timer = n
<1>1. TypeOK /\ TypeOK' /\ t \in Ids
  BY TypeTask DEF ShapeInv
<1>2. {0, Refresh, HookTicks} \subseteq 0..Refresh + HookTicks
  BY Numbers
<1>3. {"bind", "hook", "sleep", "spawn", "request", "ended"} \subseteq Points
  BY DEF Points
<1>4. PICK pc \in Points, n \in 0..Refresh + HookTicks :
        GoTo(t, pc, n) /\ (Cancelled(t) => pc = "ended")
  <2>1. CASE Cancelled(t)
    BY <1>2, <1>3, <2>1 DEF Cancelled, End
  <2>2. CASE ~Cancelled(t)
    BY <1>2, <1>3, <2>2
       DEF TaskStep, Signature, NoSignature, Bind, Rebind, Mapped, NotMapped,
           Spawned, HookEnds, Wake, End
  <2> QED BY <2>1, <2>2
<1>5. tasks # <<>> /\ Newest \in Tasks /\ ~Newest.cancelled
  <2>1. tasks # <<>>
    BY <1>1, EmptySeq, TasksFunction DEF Ids
  <2> QED BY <1>1, <2>1, TasksFunction DEF ShapeInv
<1>6. Cancelled(t) => t # Len(tasks)
  BY <1>5 DEF Cancelled, Newest
<1>7. ~Cancelled(t) => t = Len(tasks) /\ tasks[t] = Newest
  <2> SUFFICES ASSUME ~Cancelled(t) PROVE t = Len(tasks)
    BY DEF Newest
  <2>1. tasks[t].pc # "ended" /\ ~tasks[t].cancelled
    BY DEF TaskStep, Signature, NoSignature, Bind, Rebind, Mapped, NotMapped, Spawned,
           HookEnds, Wake, At
  <2> QED BY <2>1, OnlyNewestActs
<1>8. ShapeInv' /\ tasks' # <<>> /\ (Cancelled(t) => Newest' = Newest)
  BY <1>1, <1>4, <1>6, <1>7, GoToShape DEF ShapeInv
<1>9. ASSUME NEW q \in Points, NEW m \in 0..Refresh + HookTicks, ~Cancelled(t), GoTo(t, q, m)
      PROVE  Newest'.gw = Newest.gw /\ Newest'.pc = q /\ Newest'.timer = m
  BY <1>7, <1>9, GoToShape
<1> QED BY <1>5, <1>7, <1>8, <1>9

(* A new connect waits for its gateway, an old task is cancelled or over. *)
LEMMA ShapeConnect ==
  ASSUME ShapeInv, NEW g \in Gateways, Connect(g)
  PROVE  ShapeInv' /\ Newest'.pc = "request"
<1>1. TypeOK /\ TypeOK'
  BY TypeNext DEF ShapeInv, Next
<1>2. /\ Len(tasks) \in Nat /\ Ids = 1..Len(tasks) /\ Len(tasks') = Len(tasks) + 1
      /\ tasks'[Len(tasks')] = [gw |-> g, pc |-> "request", cancelled |-> FALSE, timer |-> 0]
      /\ \A t \in Ids : tasks'[t] = [tasks[t] EXCEPT !.cancelled = Ongoing(t)]
  BY <1>1, TasksFunction, StartType DEF Connect, Ids
<1>3. Newest'.pc = "request" /\ ~Newest'.cancelled
  BY <1>2 DEF Newest
<1>4. OldAreIdle'
  <2> SUFFICES ASSUME NEW t \in Ids', t < Len(tasks')
               PROVE  tasks'[t].cancelled \/ tasks'[t].pc = "ended"
    BY DEF OldAreIdle
  <2>1. t \in Ids
    BY <1>2 DEF Ids
  <2>2. tasks[t] \in Tasks
    BY <1>1, <2>1, TasksFunction
  <2>3. tasks'[t].cancelled = Ongoing(t) /\ tasks'[t].pc = tasks[t].pc
    BY <1>2, <2>1, <2>2 DEF Tasks
  <2> QED BY <2>3 DEF Ongoing
<1> QED BY <1>1, <1>3, <1>4 DEF ShapeInv

(* A restart leaves no task running. *)
LEMMA ShapeRestart ==
  ASSUME ShapeInv, Restart
  PROVE  ShapeInv' /\ (tasks' # <<>> => Newest'.pc = "ended")
<1>1. TypeOK /\ TypeOK'
  BY TypeNext DEF ShapeInv, Next
<1>2. \A t \in Ids : tasks'[t] = [tasks[t] EXCEPT !.pc = "ended", !.cancelled = FALSE,
                                                  !.timer = 0]
  BY DEF Restart
<1>3. \A t \in Ids : tasks'[t].pc = "ended" /\ ~tasks'[t].cancelled
  BY <1>1, <1>2, TasksFunction DEF Tasks
<1>4. DOMAIN tasks' = Ids
  BY DEF Restart
<1>5. Ids' = Ids
  BY <1>1, <1>4, LenProperties DEF TypeOK, Ids
<1>6. OldAreIdle'
  BY <1>3, <1>5 DEF OldAreIdle
<1>7. tasks' # <<>> => Newest'.pc = "ended" /\ ~Newest'.cancelled
  <2> SUFFICES ASSUME tasks' # <<>>
               PROVE  Len(tasks') \in Ids'
    BY <1>3, <1>5 DEF Newest
  <2> QED BY <1>1, EmptySeq, LenProperties DEF TypeOK, Ids
<1> QED BY <1>1, <1>6, <1>7 DEF ShapeInv

(* A tick changes timers only. *)
LEMMA ShapeTick ==
  ASSUME ShapeInv, Tick
  PROVE  /\ ShapeInv'
         /\ tasks' # <<>> =>
              /\ tasks # <<>> /\ Len(tasks) \in Ids /\ Newest \in Tasks
              /\ Newest'.pc = Newest.pc /\ Newest'.gw = Newest.gw
              /\ Newest'.timer = Less(Newest.timer)
<1>1. TypeOK /\ TypeOK'
  BY TypeNext DEF ShapeInv, Next
<1>2. /\ Len(tasks') = Len(tasks) /\ Ids' = Ids
      /\ \A t \in Ids : tasks'[t] = [tasks[t] EXCEPT !.timer = Less(@)]
  BY <1>1, TickType DEF Ids
<1>3. \A t \in Ids : /\ tasks'[t].pc = tasks[t].pc /\ tasks'[t].gw = tasks[t].gw
                     /\ tasks'[t].cancelled = tasks[t].cancelled
                     /\ tasks'[t].timer = Less(tasks[t].timer)
  BY <1>1, <1>2, TasksFunction DEF Tasks
<1>4. OldAreIdle'
  BY <1>2, <1>3 DEF ShapeInv, OldAreIdle
<1>5. tasks' # <<>> => tasks # <<>> /\ Len(tasks) \in Ids /\ Newest \in Tasks
  BY <1>1, <1>2, EmptySeq, TasksFunction DEF TypeOK
<1>6. tasks' # <<>> => /\ Newest'.pc = Newest.pc /\ Newest'.gw = Newest.gw
                       /\ ~Newest'.cancelled /\ Newest'.timer = Less(Newest.timer)
  BY <1>2, <1>3, <1>5 DEF ShapeInv, Newest
<1> QED BY <1>1, <1>4, <1>5, <1>6 DEF ShapeInv

LEMMA ShapeNext == ShapeInv /\ [Next]_vars => ShapeInv'
<1> SUFFICES ASSUME ShapeInv, [Next]_vars PROVE ShapeInv'
  OBVIOUS
<1>1. CASE \E g \in Gateways : Connect(g)
  BY <1>1, ShapeConnect
<1>2. CASE ConnectPlain
  <2>1. TypeOK'
    BY <1>2, TypeNext DEF ShapeInv, Next
  <2> QED BY <1>2, <2>1 DEF ConnectPlain, ShapeInv, OldAreIdle, Ids, Newest
<1>3. CASE Restart
  BY <1>3, ShapeRestart
<1>4. CASE Tick
  BY <1>4, ShapeTick
<1>5. CASE \E t \in Ids : TaskStep(t)
  BY <1>5, ShapeTask
<1>6. CASE UNCHANGED vars
  BY <1>6 DEF vars, ShapeInv, TypeOK, OldAreIdle, Ids, Newest
<1> QED BY <1>1, <1>2, <1>3, <1>4, <1>5, <1>6 DEF Next

(* A replaced task publishes nothing: every step that changes the state     *)
(* file is one of the newest task, which belongs to the present tunnel.     *)
THEOREM NewestPublishes ==
  Spec => PublishedByNewest
<1> DEFINE Act == (file' # file) =>
       /\ Newest' # Newest /\ ~Newest.cancelled /\ Newest.gw = gateway
       /\ \A t \in Ids : t < Len(tasks) => tasks'[t] = tasks[t]
<1>1. ShapeInv /\ [Next]_vars => [Act]_vars
  <2> SUFFICES ASSUME ShapeInv, Next, file' # file PROVE Act
    BY DEF vars
  <2>1. PICK t \in Ids : Signature(t) \/ Mapped(t)
    BY DEF Next, TaskStep, Connect, ConnectPlain, Restart, Tick, Cancelled, NoSignature,
           Bind, Rebind, NotMapped, Spawned, HookEnds, Wake
  <2>2. At(t, "request") /\ tasks[t].gw = gateway
    BY <2>1 DEF Signature, Mapped
  <2>3. t = Len(tasks) /\ tasks # <<>> /\ TypeOK /\ t \in Ids
    BY <2>2, OnlyNewestActs DEF At, ShapeInv
  <2>4. \E pc \in Points, n \in 0..Refresh + HookTicks : pc # "request" /\ GoTo(t, pc, n)
    <3>1. {0, Refresh} \subseteq 0..Refresh + HookTicks
      BY Numbers
    <3>2. {"bind", "spawn", "sleep"} \subseteq Points
      BY DEF Points
    <3>3. GoTo(t, "bind", 0) \/ GoTo(t, "spawn", 0) \/ GoTo(t, "sleep", Refresh)
      BY <2>1 DEF Signature, Mapped
    <3> QED BY <3>1, <3>2, <3>3
  <2>5. PICK pc \in Points, n \in 0..Refresh + HookTicks :
          pc # "request" /\ GoTo(t, pc, n)
    BY <2>4
  <2>6. /\ Len(tasks') = Len(tasks)
        /\ tasks'[t] = [tasks[t] EXCEPT !.pc = pc, !.timer = n]
        /\ \A o \in Ids \ {t} : tasks'[o] = tasks[o]
    <3>1. TypeOK
      BY DEF ShapeInv
    <3> QED BY <2>5, <3>1, GoToType
  <2>7. tasks[t] \in Tasks /\ Len(tasks) \in Nat
    BY <2>3, TasksFunction
  <2>8. tasks'[t].pc = pc /\ tasks[t].pc = "request"
    BY <2>2, <2>6, <2>7 DEF Tasks, At
  <2>9. Newest' # Newest /\ ~Newest.cancelled /\ Newest.gw = gateway
    BY <2>2, <2>3, <2>5, <2>6, <2>8 DEF Newest, At
  <2>10. \A o \in Ids : o < Len(tasks) => tasks'[o] = tasks[o]
    BY <2>3, <2>6, <2>7 DEF Ids
  <2> QED BY <2>9, <2>10
<1>2. ShapeInv /\ [Next]_vars => ShapeInv'
  BY ShapeNext
<1>3. Init => ShapeInv
  BY KeepInit DEF KeepInv
<1> QED BY <1>1, <1>2, <1>3, PTL DEF Spec, PublishedByNewest

(* A step of a task keeps the invariant: the gateway's answer begins a      *)
(* lifetime, the end of the hook begins the wait for the refresh.           *)
LEMMA KeepTask ==
  ASSUME KeepInv, NEW t \in Ids, TaskStep(t)
  PROVE  KeepInv'
<1>1. TypeOK
  BY DEF KeepInv, ShapeInv
<1>2. {0, Refresh, HookTicks} \subseteq 0..Refresh + HookTicks
  BY Numbers
<1>3. {"bind", "hook", "sleep", "spawn", "request", "ended"} \subseteq Points
  BY DEF Points
<1>4. /\ ShapeInv' /\ tasks # <<>> /\ tasks' # <<>> /\ Newest \in Tasks
      /\ Cancelled(t) => Newest' = Newest
  BY ShapeTask DEF KeepInv
<1>5. CASE Cancelled(t)
  <2>1. UNCHANGED <<provider, gateway, port, file, grant, left, hooked>>
    BY <1>5 DEF Cancelled
  <2>2. Keeping' => Keeping
    BY <1>4, <1>5, <2>1 DEF Keeping
  <2> QED BY <1>4, <1>5, <2>1, <2>2 DEF KeepInv, InTime, Waited
<1> SUFFICES ASSUME ~Cancelled(t) PROVE KeepInv'
  BY <1>5
<1>6. \A pc \in Points, n \in 0..Refresh + HookTicks :
        GoTo(t, pc, n) => Newest'.gw = Newest.gw /\ Newest'.pc = pc /\ Newest'.timer = n
  BY ShapeTask DEF KeepInv
<1>7. tasks[t] = Newest
  BY ShapeTask DEF KeepInv
<1>8. CASE Signature(t) \/ NoSignature(t) \/ Bind(t) \/ Rebind(t)
  <2>1. provider' = "pia"
    BY <1>8 DEF Signature, NoSignature, Bind, Rebind
  <2> QED BY <1>4, <2>1 DEF KeepInv, InTime, Keeping
<1>9. CASE Mapped(t)
  <2>1. PICK p \in Ports :
          /\ grant' = [grant EXCEPT ![gateway] = p]
          /\ left' = [left EXCEPT ![gateway] = Lifetime]
          /\ IF p = port THEN UNCHANGED <<port, file>> /\ GoTo(t, "sleep", Refresh)
             ELSE /\ port' = p /\ file' = p
                  /\ IF HookScript THEN GoTo(t, "spawn", 0) ELSE GoTo(t, "sleep", Refresh)
    BY <1>9 DEF Mapped
  <2>2. /\ provider = "natpmp" /\ UNCHANGED <<provider, gateway>>
        /\ gateway = Newest.gw
    BY <1>7, <1>9 DEF Mapped
  <2>3. gateway \in Gateways
    BY <1>4, <2>2 DEF Tasks
  <2>4. grant'[gateway'] = p /\ left'[gateway'] = Lifetime
    BY <1>1, <2>1, <2>2, <2>3 DEF TypeOK
  <2>5. p # None
    BY PortAssumption
  <2>6. port' = p /\ file' = p
    BY <2>1, <2>2, <2>5 DEF KeepInv
  <2>7. GoTo(t, "spawn", 0) \/ GoTo(t, "sleep", Refresh)
    BY <2>1
  <2>8. \/ Newest'.pc = "spawn" /\ Newest'.timer = 0
        \/ Newest'.pc = "sleep" /\ Newest'.timer = Refresh
    BY <1>2, <1>3, <1>6, <2>7
  <2>9. /\ Newest'.pc = "spawn" => Newest'.timer = 0
        /\ Newest'.pc = "sleep" => Newest'.timer <= Refresh
        /\ left'[gateway'] + hooked' + Waited' >= Lifetime
    <3>1. hooked' = 0
      BY <1>9 DEF Mapped
    <3>2. Waited' = 0
      BY <2>8, Numbers DEF Waited
    <3> QED BY <2>4, <2>8, <3>1, <3>2, Numbers
  <2> QED BY <1>4, <2>4, <2>5, <2>6, <2>9 DEF KeepInv, InTime
<1>10. CASE NotMapped(t) \/ Wake(t)
  <2>1. UNCHANGED <<provider, gateway, port, file, grant, left>>
    BY <1>10 DEF NotMapped, Wake
  <2>2. Newest'.gw = Newest.gw
    BY <1>2, <1>3, <1>6, <1>10 DEF NotMapped, Wake
  <2>3. NotMapped(t) => Newest.gw \notin Reliable \/ Newest.gw # gateway
    BY <1>7 DEF NotMapped
  <2>4. Wake(t) => Newest'.pc = "request"
    BY <1>2, <1>3, <1>6 DEF Wake
  <2>5. ~Keeping'
    BY <1>10, <2>1, <2>2, <2>3, <2>4 DEF Keeping
  <2> QED BY <1>4, <2>1, <2>2, <2>5 DEF KeepInv, InTime
<1>11. CASE Spawned(t) \/ HookEnds(t)
  <2>1. UNCHANGED <<provider, gateway, port, file, grant, left, hooked>>
    BY <1>11 DEF Spawned, HookEnds
  <2>2. Newest'.gw = Newest.gw
    BY <1>2, <1>3, <1>6, <1>11 DEF Spawned, HookEnds
  <2>3. \/ Newest.pc = "spawn" /\ Newest'.pc = "hook" /\ Newest'.timer = HookTicks
        \/ Newest.pc = "hook" /\ Newest'.pc = "sleep" /\ Newest'.timer = Refresh
    BY <1>2, <1>3, <1>6, <1>7, <1>11 DEF Spawned, HookEnds, At
  <2>4. Keeping' => Keeping
    BY <1>4, <2>1, <2>2, <2>3 DEF Keeping
  <2>5. Waited = 0 /\ Waited' = 0
    BY <2>3, Numbers DEF Waited
  <2>6. /\ Newest'.pc = "spawn" => Newest'.timer = 0
        /\ Newest'.pc = "sleep" => Newest'.timer <= Refresh
    BY <2>3, Numbers
  <2> QED BY <1>4, <2>1, <2>4, <2>5, <2>6 DEF KeepInv, InTime
<1> QED BY <1>8, <1>9, <1>10, <1>11 DEF TaskStep

(* A tick takes from the mapping what it adds to the time in the hook or to *)
(* the part of the wait that is over.                                       *)
LEMMA KeepTick ==
  ASSUME KeepInv, Tick
  PROVE  KeepInv'
<1>1. TypeOK /\ ShapeInv'
  BY ShapeTick DEF KeepInv, ShapeInv
<1>2. tasks' # <<>> =>
        /\ tasks # <<>> /\ Len(tasks) \in Ids /\ Newest \in Tasks
        /\ Newest'.pc = Newest.pc /\ Newest'.gw = Newest.gw
        /\ Newest'.timer = Less(Newest.timer)
  BY ShapeTick DEF KeepInv
<1>3. UNCHANGED <<provider, gateway, port, file, grant>>
  BY DEF Tick
<1>4. ASSUME Keeping'
      PROVE  /\ Keeping
             /\ Newest'.pc = "spawn" => Newest'.timer = 0
             /\ Newest'.pc = "sleep" => Newest'.timer <= Refresh
             /\ left'[gateway] + hooked' + Waited' >= Lifetime
  <2>1. Keeping /\ tasks' # <<>> /\ gateway \in Gateways
    BY <1>2, <1>3, <1>4, PortAssumption DEF Keeping
  <2>2. Newest.timer \in Nat /\ Newest.timer > 0
    BY <1>2, <2>1, Numbers DEF Tick, Idle, Ongoing, Newest, Keeping, Tasks
  <2>3. left[gateway] \in Nat /\ left'[gateway] \in Nat /\ left'[gateway] >= left[gateway] - 1
    BY <1>1, <2>1, LessType DEF Tick, TypeOK, Less
  <2>4. Newest.timer # 0 => Newest.pc # "spawn"
    BY <2>1 DEF KeepInv, InTime
  <2>5. Newest.pc \in {"hook", "sleep"} /\ Newest'.timer = Newest.timer - 1
    BY <1>2, <2>1, <2>2, <2>4, LessType DEF Keeping
  <2>6. hooked \in Nat /\ hooked' \in {hooked, hooked + 1}
    BY <1>1 DEF Tick, TypeOK
  <2>7. Newest.pc = "hook" => hooked' = hooked + 1
    BY <1>2, <2>1 DEF Tick, At, Newest, KeepInv, ShapeInv
  <2>8. /\ Newest.pc = "sleep" => Newest.timer <= Refresh
        /\ left[gateway] + hooked + Waited >= Lifetime
    BY <2>1 DEF KeepInv, InTime
  <2>9. CASE Newest.pc = "hook"
    <3>1. Waited = 0 /\ Waited' = 0
      BY <1>2, <2>1, <2>9 DEF Waited
    <3> QED BY <1>2, <2>1, <2>3, <2>6, <2>7, <2>8, <2>9, <3>1, Numbers
  <2>10. CASE Newest.pc = "sleep"
    <3>1. Waited = Refresh - Newest.timer /\ Waited' = Refresh - (Newest.timer - 1)
      BY <1>2, <2>1, <2>5, <2>10 DEF Waited
    <3>2. left'[gateway] + hooked' + Waited' >= left[gateway] + hooked + Waited
      BY <2>2, <2>3, <2>6, <3>1, Numbers
    <3>3. left[gateway] + hooked + Waited \in Int /\ left'[gateway] + hooked' + Waited' \in Int
      BY <2>2, <2>3, <2>6, <3>1, Numbers
    <3>4. left'[gateway] + hooked' + Waited' >= Lifetime
      BY <2>8, <3>2, <3>3, Numbers
    <3>5. Newest'.pc = "sleep" /\ Newest'.timer <= Refresh
      BY <1>2, <2>1, <2>2, <2>5, <2>8, <2>10, Numbers
    <3> QED BY <2>1, <3>4, <3>5
  <2> QED BY <2>5, <2>9, <2>10
<1> QED BY <1>1, <1>2, <1>3, <1>4 DEF KeepInv, InTime

LEMMA KeepNext == KeepInv /\ [Next]_vars => KeepInv'
<1> SUFFICES ASSUME KeepInv, [Next]_vars PROVE KeepInv'
  OBVIOUS
<1>1. CASE \E g \in Gateways : Connect(g)
  <2>1. ShapeInv' /\ Newest'.pc = "request"
    BY <1>1, ShapeConnect DEF KeepInv
  <2> QED BY <1>1, <2>1 DEF KeepInv, InTime, Keeping, Connect
<1>2. CASE ConnectPlain
  <2>1. ShapeInv' /\ gateway' = None
    BY <1>2, ShapeNext DEF KeepInv, Next, ConnectPlain
  <2>2. gateway' \notin Reliable
    BY <2>1, PortAssumption
  <2> QED BY <1>2, <2>1, <2>2 DEF ConnectPlain, KeepInv, InTime, Keeping
<1>3. CASE Restart
  <2>1. ShapeInv' /\ (tasks' # <<>> => Newest'.pc = "ended") /\ port' = None
    BY <1>3, ShapeRestart DEF KeepInv, Restart
  <2> QED BY <2>1 DEF KeepInv, InTime, Keeping
<1>4. CASE Tick
  BY <1>4, KeepTick
<1>5. CASE \E t \in Ids : TaskStep(t)
  BY <1>5, KeepTask
<1>6. CASE UNCHANGED vars
  BY <1>6, ShapeNext DEF vars, KeepInv, InTime, Keeping, Newest, Waited
<1> QED BY <1>1, <1>2, <1>3, <1>4, <1>5, <1>6 DEF Next

(* The mapping of a reliable gateway lapses under the published port only   *)
(* after a hook that took what a refresh leaves of the lifetime or more,    *)
(* and the published port is the one granted last: for any gateways, any    *)
(* number of connects and any time limits.                                  *)
THEOREM MappingIsHeld == Spec => []MappingHeld
<1>1. KeepInv /\ [Next]_vars => KeepInv'
  BY KeepNext
<1>2. KeepInv => MappingHeld
  <2> SUFFICES ASSUME KeepInv, Keeping
               PROVE  grant[gateway] = file /\ (left[gateway] > 0 \/ Refresh + hooked >= Lifetime)
    BY DEF MappingHeld
  <2>1. tasks # <<>> /\ gateway \in Gateways /\ TypeOK
    BY PortAssumption DEF Keeping, KeepInv, ShapeInv
  <2>2. Newest.timer \in Nat /\ left[gateway] \in Nat /\ hooked \in Nat
    BY <2>1, TasksFunction, Numbers DEF Tasks, TypeOK
  <2>3. /\ file = port /\ grant[gateway] = port
        /\ left[gateway] + hooked + Waited >= Lifetime
    BY DEF KeepInv, InTime
  <2>4. Waited \in Int /\ Waited <= Refresh
    BY <2>2, Numbers DEF Waited
  <2> QED BY <2>2, <2>3, <2>4, Numbers
<1> QED BY KeepInit, <1>1, <1>2, PTL DEF Spec
=============================================================================
