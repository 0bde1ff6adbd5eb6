---------------------------- MODULE PortForward ----------------------------
(***************************************************************************)
(* Port forwarding: PortForwardService (PIA) and NatPMPService (Proton),   *)
(* with the hook script and the state file forwarded_port they share.  A   *)
(* successful connect to a server that forwards ports starts a task and    *)
(* cancels the one before it; each action is what a task does between two  *)
(* awaits.  One provider is configured for the life of the process.        *)
(*                                                                         *)
(* Gateways and the hook script are not part of the repository.  Time is   *)
(* counted in ticks, and passes only while no task of NAT-PMP has anything *)
(* to do: the event loop is much faster than a tick.  A refresh of PIA is  *)
(* a quarter of an hour away and is left untimed.                          *)
(* A definition X_Y before X is X with the plausible defect Y.             *)
(***************************************************************************)
EXTENDS Naturals, Sequences

CONSTANTS
  Gateways,     \* gateways of servers that forward ports
  Reliable,     \* those that answer every request of their own tunnel
  Ports,        \* ports they hand out
  None,         \* no port, no gateway
  Providers,    \* the providers that may be configured: "pia", "natpmp"
  Hook,         \* port_forward_hook is set
  Lifetime,     \* NATPMP_LIFETIME in ticks
  Refresh,      \* NATPMP_REFRESH_INTERVAL in ticks
  HookTicks,    \* SUBPROCESS_TIMEOUT_VPN, the longest a task waits for the hook script
  MaxStarts,    \* bound on connects
  MaxRestarts   \* bound on restarts of the API

ASSUME PortAssumption ==
  /\ Reliable \subseteq Gateways
  /\ None \notin Gateways \cup Ports
  /\ Providers \subseteq {"pia", "natpmp"} /\ Providers # {}
  /\ Hook \in BOOLEAN
  /\ {Lifetime, Refresh, HookTicks, MaxStarts, MaxRestarts} \subseteq Nat

VARIABLES
  provider,  \* config.vpn_provider
  gateway,   \* the gateway of the tunnel, None when its server forwards no port
  tasks,     \* every task start() has created, the newest last
  port,      \* self._port of the provider's service
  signed,    \* PIA: the gateway that signed self._payload, or None
  file,      \* state file forwarded_port
  grant,     \* the port each gateway forwards
  left,      \* ticks until it stops, 0 when it forwards nothing
  told,      \* the argument of the last hook call, None before the first
  hooked,    \* ticks spent waiting for the hook since a gateway last mapped a port
  restarts

vars == <<provider, gateway, tasks, port, signed, file, grant, left, told, hooked, restarts>>

Points == {"request", "bind", "spawn", "hook", "sleep", "ended"}

Tasks == [gw : Gateways, pc : Points, cancelled : BOOLEAN, timer : 0..Refresh + HookTicks]

TypeOK ==
  /\ provider \in Providers
  /\ gateway \in Gateways \cup {None}
  /\ tasks \in Seq(Tasks)
  /\ Len(tasks) <= MaxStarts
  /\ port \in Ports \cup {None}
  /\ signed \in Gateways \cup {None}
  /\ file \in Ports \cup {None}
  /\ grant \in [Gateways -> Ports \cup {None}]
  /\ left \in [Gateways -> 0..Lifetime]
  /\ told \in Ports \cup {None}
  /\ hooked \in Nat
  /\ restarts \in 0..MaxRestarts

Init ==
  /\ provider \in Providers
  /\ gateway = None
  /\ tasks = <<>>
  /\ port = None /\ signed = None /\ file = None
  /\ grant = [g \in Gateways |-> None]
  /\ left = [g \in Gateways |-> 0]
  /\ told = None
  /\ hooked = 0
  /\ restarts = 0

-----------------------------------------------------------------------------
Ids == 1..Len(tasks)

At(t, pc) == tasks[t].pc = pc /\ ~tasks[t].cancelled

GoTo(t, pc, timer) == tasks' = [tasks EXCEPT ![t].pc = pc, ![t].timer = timer]

End(t) == GoTo(t, "ended", 0)

(* pia.py asks for the service without a config: PIA has no hook script. *)
HookScript == Hook /\ provider = "natpmp"

Ongoing(t) == tasks[t].pc # "ended"

(* start(): self._task is the newest; a task that has ended stays ended. *)
Start_KeepsOld(g) ==
  tasks' = Append(tasks, [gw |-> g, pc |-> "request", cancelled |-> FALSE, timer |-> 0])

Start(g) ==
  tasks' = Append([t \in Ids |-> [tasks[t] EXCEPT !.cancelled = Ongoing(t)]],
                  [gw |-> g, pc |-> "request", cancelled |-> FALSE, timer |-> 0])

(* post_connect of a server that forwards ports. *)
Connect(g) ==
  /\ Len(tasks) < MaxStarts
  /\ gateway' = g
  /\ Start(g)
  /\ UNCHANGED <<provider, port, signed, file, grant, left, told, hooked, restarts>>

(* post_connect of any other server: the running task is left alone. *)
ConnectPlain ==
  /\ gateway' = None
  /\ UNCHANGED <<provider, tasks, port, signed, file, grant, left, told, hooked, restarts>>

(* CancelledError at the await; PIA calls its hook, which is not set. *)
Cancelled(t) ==
  /\ tasks[t].cancelled /\ Ongoing(t)
  /\ End(t)
  /\ UNCHANGED <<provider, gateway, port, signed, file, grant, left, told, hooked, restarts>>

(* A new process: the tasks and the service objects are gone, the state    *)
(* file and the tunnel are not.                                            *)
Restart ==
  /\ restarts < MaxRestarts /\ restarts' = restarts + 1
  /\ provider' \in Providers
  /\ tasks' = [t \in Ids |-> [tasks[t] EXCEPT !.pc = "ended", !.cancelled = FALSE,
                                              !.timer = 0]]
  /\ port' = None /\ signed' = None
  /\ UNCHANGED <<gateway, file, grant, left, told, hooked>>

-----------------------------------------------------------------------------
(* PIA. *)

(* getSignature, then _run up to the first bindPort. *)
Signature(t) ==
  /\ provider = "pia" /\ At(t, "request") /\ tasks[t].gw = gateway
  /\ signed' = gateway
  /\ \E p \in Ports : port' = p /\ file' = p
  /\ GoTo(t, "bind", 0)
  /\ UNCHANGED <<provider, gateway, grant, left, told, hooked, restarts>>

(* An error, no payload, one that cannot be decoded, or one without a      *)
(* port: the task is over.                                                 *)
NoSignature(t) ==
  /\ provider = "pia" /\ At(t, "request")
  /\ \/ UNCHANGED <<signed, port>>
     \/ signed' = None /\ UNCHANGED port
     \/ signed' = gateway /\ port' \in {port, None}
  /\ End(t)
  /\ UNCHANGED <<provider, gateway, file, grant, left, told, hooked, restarts>>

(* bindPort; a failure is tried again after the next interval. *)
Bind(t) ==
  /\ provider = "pia" /\ At(t, "bind")
  /\ \/ /\ gateway = tasks[t].gw /\ signed = gateway
        /\ grant' = [grant EXCEPT ![gateway] = port]
     \/ UNCHANGED grant
  /\ GoTo(t, "sleep", 0)
  /\ UNCHANGED <<provider, gateway, port, signed, file, left, told, hooked, restarts>>

Rebind(t) ==
  /\ provider = "pia" /\ At(t, "sleep")
  /\ GoTo(t, "bind", 0)
  /\ UNCHANGED <<provider, gateway, port, signed, file, grant, left, told, hooked, restarts>>

-----------------------------------------------------------------------------
(* NAT-PMP. *)

Mapped_OnceOnly(t) ==
  /\ provider = "natpmp" /\ At(t, "request") /\ tasks[t].gw = gateway
  /\ \E p \in Ports :
       /\ left[gateway] > 0 => p = grant[gateway]
       /\ grant' = [grant EXCEPT ![gateway] = p]
       /\ left' = [left EXCEPT ![gateway] = Lifetime]
       /\ IF port # None THEN UNCHANGED <<port, file>> /\ GoTo(t, "sleep", Refresh)
          ELSE /\ port' = p /\ file' = p
               /\ IF HookScript THEN GoTo(t, "spawn", 0) ELSE GoTo(t, "sleep", Refresh)
  /\ hooked' = 0
  /\ UNCHANGED <<provider, gateway, signed, told, restarts>>

(* The gateway answers: it renews its mapping, or makes one.  A port that  *)
(* differs from the last one is published and told to the hook.            *)
Mapped(t) ==
  /\ provider = "natpmp" /\ At(t, "request") /\ tasks[t].gw = gateway
  /\ \E p \in Ports :
       /\ left[gateway] > 0 => p = grant[gateway]
       /\ grant' = [grant EXCEPT ![gateway] = p]
       /\ left' = [left EXCEPT ![gateway] = Lifetime]
       /\ IF p = port THEN UNCHANGED <<port, file>> /\ GoTo(t, "sleep", Refresh)
          ELSE /\ port' = p /\ file' = p
               /\ IF HookScript THEN GoTo(t, "spawn", 0) ELSE GoTo(t, "sleep", Refresh)
  /\ hooked' = 0
  /\ UNCHANGED <<provider, gateway, signed, told, restarts>>

NotMapped_GivesUp(t) ==
  /\ provider = "natpmp" /\ At(t, "request")
  /\ tasks[t].gw \notin Reliable \/ tasks[t].gw # gateway
  /\ End(t)
  /\ UNCHANGED <<provider, gateway, port, signed, file, grant, left, told, hooked, restarts>>

NotMapped(t) ==
  /\ provider = "natpmp" /\ At(t, "request")
  /\ tasks[t].gw \notin Reliable \/ tasks[t].gw # gateway
  /\ GoTo(t, "sleep", Refresh)
  /\ UNCHANGED <<provider, gateway, port, signed, file, grant, left, told, hooked, restarts>>

(* create_subprocess_exec returns: the script runs with the new port. *)
Spawned(t) ==
  /\ At(t, "spawn")
  /\ told' = port
  /\ GoTo(t, "hook", HookTicks)
  /\ UNCHANGED <<provider, gateway, port, signed, file, grant, left, hooked, restarts>>

HookEnds(t) ==
  /\ At(t, "hook")
  /\ GoTo(t, "sleep", Refresh)
  /\ UNCHANGED <<provider, gateway, port, signed, file, grant, left, told, hooked, restarts>>

Wake(t) ==
  /\ provider = "natpmp" /\ At(t, "sleep") /\ tasks[t].timer = 0
  /\ GoTo(t, "request", 0)
  /\ UNCHANGED <<provider, gateway, port, signed, file, grant, left, told, hooked, restarts>>

-----------------------------------------------------------------------------
(* Nothing to do before the next tick. *)
Idle(t) ==
  \/ ~Ongoing(t)
  \/ ~tasks[t].cancelled /\ tasks[t].timer > 0
  \/ provider = "pia"

Less(n) == IF n = 0 THEN 0 ELSE n - 1

Tick ==
  /\ \A t \in Ids : Idle(t)
  /\ tasks' = [t \in Ids |-> [tasks[t] EXCEPT !.timer = Less(@)]]
  /\ left' = [g \in Gateways |-> Less(left[g])]
  /\ hooked' = IF \E t \in Ids : At(t, "hook") THEN hooked + 1 ELSE hooked
  /\ UNCHANGED <<provider, gateway, port, signed, file, grant, told, restarts>>

TaskStep(t) ==
  \/ Cancelled(t)
  \/ Signature(t) \/ NoSignature(t) \/ Bind(t) \/ Rebind(t)
  \/ Mapped(t) \/ NotMapped(t) \/ Spawned(t) \/ HookEnds(t) \/ Wake(t)

Next ==
  \/ \E g \in Gateways : Connect(g)
  \/ ConnectPlain \/ Restart \/ Tick
  \/ \E t \in Ids : TaskStep(t)

Spec == Init /\ [][Next]_vars

(* Tasks go on and time passes.  A gateway that keeps being asked answers  *)
(* at last; users connect when they like.                                  *)
Fairness ==
  /\ WF_vars(Tick)
  /\ \A t \in 1..MaxStarts :
       /\ WF_vars(t \in Ids /\ TaskStep(t))
       /\ SF_vars(t \in Ids /\ Mapped(t))

FairSpec == Spec /\ Fairness

-----------------------------------------------------------------------------
Newest == tasks[Len(tasks)]

(* A port is only ever published by the task of the latest connect: what a *)
(* replaced task still receives from its own gateway is not.               *)
PublishedByNewest ==
  [][(file' # file) =>
       /\ Newest' # Newest /\ ~Newest.cancelled /\ Newest.gw = gateway
       /\ \A t \in Ids : t < Len(tasks) => tasks'[t] = tasks[t]]_vars

(* The docstring of NatPMPService._run, "keep alive before lifetime        *)
(* expires": while the task of the latest connect runs and its tunnel      *)
(* stays, a reliable gateway forwards the published port.  The task awaits *)
(* the hook before it starts to wait for the refresh, so the mapping may   *)
(* lapse, but only when the hook took all that a refresh leaves of the     *)
(* lifetime; a port that was published is always the last one granted.     *)
Keeping == /\ provider = "natpmp" /\ tasks # <<>> /\ gateway \in Reliable
           /\ Newest.gw = gateway /\ Newest.pc \in {"spawn", "hook", "sleep"}

MappingHeld ==
  Keeping => /\ grant[gateway] = file
             /\ left[gateway] > 0 \/ Refresh + hooked >= Lifetime

(* Why: the replaced tasks are idle or cancelled, and what is gone of the  *)
(* mapping is the time in the hook and the part of the refresh that is     *)
(* over.                                                                   *)
OldAreIdle ==
  \A t \in Ids : t < Len(tasks) => tasks[t].cancelled \/ tasks[t].pc = "ended"

Waited == IF Newest.pc = "sleep" THEN Refresh - Newest.timer ELSE 0

InTime ==
  Keeping => /\ port # None /\ file = port /\ grant[gateway] = port
             /\ Newest.pc = "spawn" => Newest.timer = 0
             /\ Newest.pc = "sleep" => Newest.timer <= Refresh
             /\ left[gateway] + hooked + Waited >= Lifetime

ShapeInv == TypeOK /\ OldAreIdle /\ (tasks # <<>> => ~Newest.cancelled)

KeepInv ==
  /\ ShapeInv
  /\ provider = "natpmp" /\ port # None => file = port
  /\ InTime

(* Failed requests do not end NAT-PMP: while the tunnel stays, the port    *)
(* its gateway forwards is published in the end, again and again.          *)
Forwarded == gateway # None /\ left[gateway] > 0 /\ file = grant[gateway]

KeepsTrying ==
  \A g \in Gateways, n \in 0..MaxRestarts :
    (/\ provider = "natpmp" /\ restarts = n
     /\ tasks # <<>> /\ Newest.gw = g /\ gateway = g /\ Newest.pc # "ended")
      ~> (gateway # g \/ restarts # n \/ Forwarded)
=============================================================================
