------------------------------ MODULE Watchdog ------------------------------
(***************************************************************************)
(* The watchdog of api/services/watchdog.py with what shares its event     *)
(* loop: the control-plane handlers of api/routes/control.py, the settings *)
(* it re-reads on every tick, and the servers behind the configurations.   *)
(*                                                                         *)
(* `pc` is the point where the watchdog's task is.  At an await point the  *)
(* loop serves other requests; between two await points it does not, but   *)
(* the MQTT thread may still run a command, and servers change at will.    *)
(* Each command that is run as a process is a step of its own.             *)
(*                                                                         *)
(* A definition X_Y before X is X with the plausible defect Y; no action   *)
(* uses it.  README.md says which property notices which defect.           *)
(***************************************************************************)
EXTENDS Vpn, Naturals, FiniteSets

CONSTANTS
  Sidecars,      \* whether VPN_PROVIDER is gluetun, fixed when the container starts
  QbtEnabled,    \* QBT_ENABLED
  Thresholds,    \* values of reconnect_threshold the user may save
  Cooldowns,     \* values of cooldown_seconds, in check intervals
  Invalid,       \* a saved setting that int() rejects
  AutoValues,    \* values of auto_reconnect the user may save
  CanReject,     \* files whose bring-up command may fail
  MaxFails,      \* saturation of the failure counter
  MaxRequests,   \* bound on the user's requests
  MaxCrashes     \* bound on API restarts

ASSUME SettingsAssumption ==
  /\ Sidecars # {} /\ Sidecars \subseteq BOOLEAN
  /\ QbtEnabled \in BOOLEAN
  /\ Invalid \notin Nat
  /\ MaxFails \in Nat \ {0}
  /\ Thresholds # {} /\ Thresholds \subseteq (1..MaxFails) \cup {Invalid}
  /\ Cooldowns # {} /\ Cooldowns \subseteq Nat \cup {Invalid}
  /\ AutoValues # {} /\ AutoValues \subseteq BOOLEAN
  /\ CanReject \subseteq Files
  /\ {MaxRequests, MaxCrashes} \subseteq Nat
  /\ IsFiniteSet(Files)

VARIABLES
  pc,            \* where the watchdog's task is
  wdState,       \* _state
  wdFile,        \* state file watchdog_state
  fails,         \* _consecutive_failures, saturated at MaxFails
  tried,         \* _tried_configs; file names are distinct, so a set
  queue,         \* what is left of the local list `untried`
  passSize,      \* len(untried)
  trying,        \* the local config_file of _activate_config
  cooldownLeft,  \* check intervals until _cooldown_until
  vpn,           \* tunnels, files and killswitch, see Vpn
  server,        \* what each configuration's server does
  settings,      \* tunnelvision.yml, the keys the watchdog reads, and the mode
  raising,       \* where the loop is in bring_up_wireguard_file
  mqtt,          \* the type a restart of the MQTT thread has stopped, or None
  qbt,           \* torrents: running or paused
  requests,      \* user requests so far
  crashes        \* API restarts so far

loopVars == <<fails, tried, queue, passSize, trying, cooldownLeft>>
wdVars == <<pc, wdState, wdFile, loopVars>>
threads == <<raising, mqtt>>
envVars == <<server, settings, requests, crashes>>
vars == <<wdVars, vpn, threads, qbt, envVars>>

(* Points where the task has yielded to the loop... *)
AwaitPoints == {"boot", "wait", "restarted", "killed", "settle",
                "pausing", "resuming", "backoff"}
(* ...and points in the middle of a synchronous stretch. *)
SyncPoints == {"restart", "lifting", "spawning", "failover", "next", "raising"}

(* The next step of bring_up_wireguard_file. *)
Steps == {"none", "write", "up", "fence"}

NotRaising == [step |-> "none", file |-> None, handler |-> FALSE]

Settings == [threshold : Thresholds, cooldown : Cooldowns, auto : AutoValues,
             sidecar : Sidecars]

TypeOK ==
  /\ pc \in AwaitPoints \cup SyncPoints
  /\ {wdState, wdFile} \subseteq {"idle", "monitoring", "degraded",
                        "reconnecting", "failing_over", "cooldown"}
  /\ fails \in 0..MaxFails
  /\ tried \in SUBSET Files /\ queue \in SUBSET Files
  /\ passSize \in Nat
  /\ trying \in Files \cup {None}
  /\ cooldownLeft \in Nat
  /\ vpn \in Vpns
  /\ raising \in [step : Steps, file : WgFiles \cup {None}, handler : BOOLEAN]
  /\ mqtt \in Kinds \cup {None}
  /\ server \in [Files -> Conditions]
  /\ settings \in Settings
  /\ qbt \in {"running", "paused"}
  /\ requests \in 0..MaxRequests /\ crashes \in 0..MaxCrashes

(* The boot scripts have brought the first configuration up before svc-api runs. *)
Init ==
  /\ pc = "boot" /\ wdState = "idle" /\ wdFile = "idle"
  /\ fails = 0 /\ tried = {} /\ queue = {} /\ passSize = 0
  /\ trying = None /\ cooldownLeft = 0
  /\ vpn = BootVpn /\ raising = NotRaising /\ mqtt = None
  /\ server = [f \in Files |-> "good"]
  /\ settings \in {s \in Settings : s.threshold # Invalid /\ s.cooldown # Invalid}
  /\ qbt = "running" /\ requests = 0 /\ crashes = 0

-----------------------------------------------------------------------------
(* Helpers of WatchdogService. *)

Goto(from, to) == pc = from /\ pc' = to

SetState_StaleFile(s) == wdState' = s /\ wdFile' = wdState

(* _set_state writes the state file only when the state changes. *)
SetState(s) == wdState' = s /\ wdFile' = IF s = wdState THEN wdFile ELSE s

Saturate(n) == IF n < MaxFails THEN n + 1 ELSE n

(* _on_healthy; its recovery counter and messages are left out. *)
OnHealthy ==
  /\ SetState("monitoring")
  /\ fails' = 0 /\ tried' = {}
  /\ UNCHANGED <<queue, passSize, trying, cooldownLeft>>

HealthyNow == Healthy(vpn, server)

-----------------------------------------------------------------------------
(* The loop _run, one action per way through a tick. *)

StartLoop ==
  /\ Goto("boot", "wait")
  /\ SetState("monitoring")
  /\ UNCHANGED <<loopVars, vpn, threads, qbt, envVars>>

CooldownTick_Restarts ==
  /\ pc = "wait" /\ wdState = "cooldown" /\ cooldownLeft > 0
  /\ settings.cooldown # Invalid /\ cooldownLeft' = settings.cooldown
  /\ UNCHANGED <<pc, wdState, wdFile, fails, tried, queue, passSize, trying,
                 vpn, threads, qbt, envVars>>

CooldownTick ==
  /\ pc = "wait" /\ wdState = "cooldown" /\ cooldownLeft > 0
  /\ cooldownLeft' = cooldownLeft - 1
  /\ UNCHANGED <<pc, wdState, wdFile, fails, tried, queue, passSize, trying,
                 vpn, threads, qbt, envVars>>

CooldownExpires_KeepsBook ==
  /\ wdState = "cooldown" /\ cooldownLeft = 0
  /\ Goto("wait", IF QbtEnabled THEN "resuming" ELSE "wait")
  /\ fails' = 0
  /\ SetState("monitoring")
  /\ UNCHANGED <<tried, queue, passSize, trying, cooldownLeft, vpn, threads, qbt, envVars>>

CooldownExpires_NoResume ==
  /\ wdState = "cooldown" /\ cooldownLeft = 0
  /\ Goto("wait", "wait")
  /\ tried' = {} /\ fails' = 0
  /\ SetState("monitoring")
  /\ UNCHANGED <<queue, passSize, trying, cooldownLeft, vpn, threads, qbt, envVars>>

CooldownExpires ==
  /\ wdState = "cooldown" /\ cooldownLeft = 0
  /\ Goto("wait", IF QbtEnabled THEN "resuming" ELSE "wait")
  /\ tried' = {} /\ fails' = 0
  /\ SetState("monitoring")
  /\ UNCHANGED <<queue, passSize, trying, cooldownLeft, vpn, threads, qbt, envVars>>

(* The WebUI answers, or the failure is logged and forgotten. *)
ResumeReturns ==
  /\ Goto("resuming", "wait")
  /\ qbt' \in {"running", qbt}
  /\ UNCHANGED <<wdState, wdFile, loopVars, vpn, threads, envVars>>

Checking == pc = "wait" /\ wdState # "cooldown" /\ ~settings.sidecar

HealthyTick ==
  /\ Checking /\ HealthyNow
  /\ OnHealthy
  /\ UNCHANGED <<pc, vpn, threads, qbt, envVars>>

(* int() of the saved threshold raises after the failure was counted. *)
ThresholdRaises ==
  /\ pc = "wait" /\ wdState # "cooldown"
  /\ ~settings.sidecar => ~HealthyNow
  /\ settings.threshold = Invalid
  /\ pc' = "backoff" /\ fails' = Saturate(fails)
  /\ UNCHANGED <<wdState, wdFile, tried, queue, passSize, trying, cooldownLeft,
                 vpn, threads, qbt, envVars>>

UnhealthyTick ==
  /\ Checking /\ ~HealthyNow
  /\ settings.threshold # Invalid
  /\ fails' = Saturate(fails)
  /\ UNCHANGED <<tried, queue, passSize, trying, cooldownLeft, vpn, threads, qbt, envVars>>

BelowThreshold ==
  /\ UnhealthyTick
  /\ fails + 1 < settings.threshold
  /\ SetState("degraded")
  /\ UNCHANGED pc

NotActing ==
  /\ UnhealthyTick
  /\ fails + 1 >= settings.threshold
  /\ ~settings.auto
  /\ UNCHANGED <<pc, wdState, wdFile>>

StartReconnect ==
  /\ UnhealthyTick
  /\ fails + 1 >= settings.threshold
  /\ settings.auto
  /\ pc' = "restart"
  /\ SetState("reconnecting")

(* Gluetun's answer is whatever its status endpoint says. *)
SidecarHealthy ==
  /\ settings.sidecar /\ pc = "wait" /\ wdState # "cooldown"
  /\ OnHealthy
  /\ UNCHANGED <<pc, vpn, threads, qbt, envVars>>

SidecarUnhealthy ==
  /\ settings.sidecar /\ pc = "wait" /\ wdState # "cooldown"
  /\ settings.threshold # Invalid
  /\ fails' = Saturate(fails)
  /\ SetState("degraded")
  /\ UNCHANGED <<pc, tried, queue, passSize, trying, cooldownLeft, vpn, threads, qbt, envVars>>

BackoffEnds ==
  /\ Goto("backoff", "wait")
  /\ UNCHANGED <<wdState, wdFile, loopVars, vpn, threads, qbt, envVars>>

-----------------------------------------------------------------------------
(* _do_reconnect: restart what the runtime file holds, wait, look again. *)

DoReconnect ==
  /\ Goto("restart", IF vpn.type = "wireguard" THEN "lifting" ELSE "spawning")
  /\ vpn' = StopTunnel(vpn)
  /\ UNCHANGED <<wdState, wdFile, loopVars, threads, qbt, envVars>>

Restarts(from, type) ==
  LET r == StartTunnel(type, vpn, server)
  IN  /\ Goto(from, IF r.ok THEN "restarted" ELSE "failover")
      /\ vpn' = r.vpn
      /\ UNCHANGED <<wdState, wdFile, loopVars, threads, qbt, envVars>>

DoReconnectStarts == Restarts("lifting", "wireguard") \/ Restarts("spawning", "openvpn")

RestartVerified ==
  /\ Goto("restarted", "wait")
  /\ HealthyNow
  /\ OnHealthy
  /\ UNCHANGED <<vpn, threads, qbt, envVars>>

RestartUseless_NoFailover ==
  /\ Goto("restarted", "wait")
  /\ ~HealthyNow
  /\ SetState("degraded")
  /\ UNCHANGED <<loopVars, vpn, threads, qbt, envVars>>

RestartUseless ==
  /\ Goto("restarted", "failover")
  /\ ~HealthyNow
  /\ UNCHANGED <<wdState, wdFile, loopVars, vpn, threads, qbt, envVars>>

-----------------------------------------------------------------------------
(* _do_failover and _activate_config.  The list is sorted by path; which   *)
(* untried file comes first is left open.                                  *)

Untried_SameType == {f \in Files : f \notin tried /\ f # vpn.active /\ KindOf(f) = vpn.type}

Untried == {f \in Files : f \notin tried /\ f # vpn.active}

BeginFailover ==
  /\ Goto("failover", "next")
  /\ SetState("failing_over")
  /\ queue' = Untried /\ passSize' = Cardinality(Untried)
  /\ UNCHANGED <<fails, tried, trying, cooldownLeft, vpn, threads, qbt, envVars>>

Take_NotRecorded(f) ==
  /\ f \in queue
  /\ queue' = queue \ {f}
  /\ trying' = f
  /\ UNCHANGED <<tried, wdState, wdFile, fails, passSize, cooldownLeft, qbt, envVars>>

Take_NotRemoved(f) ==
  /\ f \in queue
  /\ tried' = tried \cup {f}
  /\ trying' = f
  /\ UNCHANGED <<queue, wdState, wdFile, fails, passSize, cooldownLeft, qbt, envVars>>

Take(f) ==
  /\ f \in queue
  /\ tried' = tried \cup {f} /\ queue' = queue \ {f}
  /\ trying' = f
  /\ UNCHANGED <<wdState, wdFile, fails, passSize, cooldownLeft, qbt, envVars>>

(* bring_up_wireguard_file(f), up to the command that takes wg0 down. *)
Lower(f, handler) ==
  /\ KindOf(f) = "wireguard"
  /\ vpn' = WgQuickDown(vpn).vpn
  /\ raising' = [step |-> "write", file |-> f, handler |-> handler]
  /\ UNCHANGED mqtt

TryWireguard(f) ==
  /\ Goto("next", "raising")
  /\ Take(f) /\ Lower(f, FALSE)

(* Its return: the handler answers, the watchdog goes on with its pass. *)
Return(to) ==
  /\ raising' = NotRaising
  /\ pc' = IF raising.handler THEN pc ELSE to

RuntimeWritten ==
  /\ raising.step = "write" /\ raising' = [raising EXCEPT !.step = "up"]
  /\ vpn' = [vpn EXCEPT !.runtime = raising.file]
  /\ UNCHANGED <<wdVars, mqtt, qbt, envVars>>

(* A failure keeps the overwritten runtime file. *)
Raised ==
  LET up == WgQuickUp(vpn, server)
  IN  /\ raising.step = "up"
      /\ vpn' = up.vpn
      /\ IF up.ok THEN raising' = [raising EXCEPT !.step = "fence"] /\ UNCHANGED pc
         ELSE Return("next")
      /\ UNCHANGED <<wdState, wdFile, loopVars, mqtt, qbt, envVars>>

Fenced_NoKillswitch ==
  /\ raising.step = "fence"
  /\ vpn' = RecordActive(vpn, raising.file)
  /\ Return("settle")
  /\ UNCHANGED <<wdState, wdFile, loopVars, mqtt, qbt, envVars>>

(* The killswitch is made for the interface that is up; the exit status is *)
(* ignored and the file recorded.                                          *)
Fenced ==
  /\ raising.step = "fence"
  /\ vpn' = RecordActive(InitKillswitch(vpn).vpn, raising.file)
  /\ Return("settle")
  /\ UNCHANGED <<wdState, wdFile, loopVars, mqtt, qbt, envVars>>

TryOpenvpn(f) ==
  /\ KindOf(f) = "openvpn"
  /\ Goto("next", "killed")
  /\ Take(f)
  /\ vpn' = KillallOpenvpn(vpn).vpn
  /\ UNCHANGED threads

(* init-vpn.sh is not told which file was chosen. *)
OpenvpnStarts ==
  LET up == InitVpn(vpn, server)
  IN  /\ Goto("killed", IF up.ok THEN "settle" ELSE "next")
      /\ vpn' = IF up.ok THEN RecordActive(up.vpn, trying) ELSE up.vpn
      /\ UNCHANGED <<wdState, wdFile, loopVars, threads, qbt, envVars>>

FileVerified_OnExitCode ==
  /\ Goto("settle", "wait")
  /\ OnHealthy
  /\ UNCHANGED <<vpn, threads, qbt, envVars>>

FileVerified ==
  /\ Goto("settle", "wait")
  /\ HealthyNow
  /\ OnHealthy
  /\ UNCHANGED <<vpn, threads, qbt, envVars>>

FileUseless ==
  /\ Goto("settle", "next")
  /\ ~HealthyNow
  /\ UNCHANGED <<wdState, wdFile, loopVars, vpn, threads, qbt, envVars>>

(* _enter_cooldown: the state is set first, then int() may raise. *)
EnterCooldown ==
  /\ pc = "next" /\ queue = {}
  /\ SetState("cooldown")
  /\ UNCHANGED <<fails, tried, queue, passSize, trying, vpn, threads, qbt, envVars>>
  /\ \/ /\ settings.cooldown = Invalid
        /\ pc' = "backoff"
        /\ UNCHANGED cooldownLeft
     \/ /\ settings.cooldown # Invalid
        /\ pc' = IF QbtEnabled THEN "pausing" ELSE "wait"
        /\ cooldownLeft' = settings.cooldown

PauseReturns ==
  /\ Goto("pausing", "wait")
  /\ qbt' \in {"paused", qbt}
  /\ UNCHANGED <<wdState, wdFile, loopVars, vpn, threads, envVars>>

-----------------------------------------------------------------------------
(* What happens around the watchdog. *)

(* A command from the API needs the loop, and holds it; the MQTT thread    *)
(* does not, and runs one command at a time.                               *)
LoopFree == pc \in AwaitPoints /\ raising = NotRaising

Request == requests < MaxRequests /\ requests' = requests + 1

Command(v) ==
  /\ LoopFree \/ mqtt = None
  /\ Request
  /\ vpn' = v
  /\ UNCHANGED <<wdVars, threads, qbt, server, settings, crashes>>

VpnDisconnect == Command(DoVpnDisconnect(vpn).vpn)
KillswitchEnable == Command(InitKillswitch(vpn).vpn)
KillswitchDisable == Command(DoKillswitchDisable(vpn).vpn)

(* A restart asked for by MQTT; one by the API is this one while nothing   *)
(* else happens in between.                                                *)
VpnRestart ==
  /\ mqtt = None /\ Request
  /\ mqtt' = vpn.type
  /\ vpn' = StopTunnel(vpn)
  /\ UNCHANGED <<wdVars, raising, qbt, server, settings, crashes>>

VpnRestartStarts ==
  /\ mqtt # None /\ mqtt' = None
  /\ vpn' = StartTunnel(mqtt, vpn, server).vpn
  /\ UNCHANGED <<wdVars, raising, qbt, envVars>>

(* POST /vpn/configs/{name}/activate for a WireGuard file holds the loop   *)
(* from beginning to end and takes no lock.                                *)
ActivateWireguard(f) ==
  /\ LoopFree /\ Request
  /\ Lower(f, TRUE)
  /\ UNCHANGED <<wdVars, qbt, server, settings, crashes>>

SetTorrents(state) ==
  /\ QbtEnabled
  /\ LoopFree /\ Request
  /\ qbt' = state
  /\ UNCHANGED <<wdVars, vpn, threads, server, settings, crashes>>

UpdateSettings ==
  /\ LoopFree /\ Request
  /\ settings' \in {s \in Settings : s.sidecar = settings.sidecar}
  /\ UNCHANGED <<wdVars, vpn, threads, qbt, server, crashes>>

ServerChanges ==
  /\ \E f \in Files, c \in Conditions :
       /\ c = "rejected" => f \in CanReject
       /\ server' = [server EXCEPT ![f] = c]
  /\ UNCHANGED <<wdVars, vpn, threads, qbt, settings, requests, crashes>>

(* The daemon loses its server, and lives on or exits, or reaches it.      *)
OpenvpnMoves ==
  /\ vpn.tun # None
  /\ \/ /\ vpn.tun0 /\ server[vpn.tun] # "good"
        /\ \E d \in {vpn.tun, None} : vpn' = [vpn EXCEPT !.tun = d, !.tun0 = FALSE]
     \/ /\ ~vpn.tun0 /\ Answers(vpn, vpn.tun, server)
        /\ vpn' = [vpn EXCEPT !.tun0 = TRUE]
  /\ UNCHANGED <<wdVars, threads, qbt, envVars>>

(* s6 restarts svc-api: memory is lost, state files and tunnels are not.   *)
(* A clean shutdown runs stop(), which also writes the state file.         *)
ApiRestarts ==
  /\ crashes < MaxCrashes /\ crashes' = crashes + 1
  /\ pc' = "boot" /\ wdState' = "idle"
  /\ wdFile' \in {wdFile} \cup (IF LoopFree THEN {"idle"} ELSE {})
  /\ fails' = 0 /\ tried' = {} /\ queue' = {} /\ passSize' = 0
  /\ trying' = None /\ cooldownLeft' = 0
  /\ raising' = NotRaising /\ mqtt' = None
  /\ UNCHANGED <<vpn, qbt, server, settings, requests>>

-----------------------------------------------------------------------------
WatchdogTask ==
  \/ StartLoop \/ CooldownTick \/ CooldownExpires \/ ResumeReturns
  \/ HealthyTick \/ ThresholdRaises \/ BelowThreshold \/ NotActing
  \/ StartReconnect \/ SidecarHealthy \/ SidecarUnhealthy \/ BackoffEnds
  \/ DoReconnect \/ DoReconnectStarts \/ RestartVerified \/ RestartUseless
  \/ BeginFailover \/ \E f \in Files : TryWireguard(f) \/ TryOpenvpn(f)
  \/ OpenvpnStarts \/ FileVerified \/ FileUseless
  \/ EnterCooldown \/ PauseReturns

Raising == RuntimeWritten \/ Raised \/ Fenced

(* The loop: a handler that holds it comes to its end first. *)
WatchdogNext == (raising = NotRaising /\ WatchdogTask) \/ Raising

Environment ==
  \/ VpnRestart \/ VpnRestartStarts \/ VpnDisconnect \/ KillswitchEnable \/ KillswitchDisable
  \/ \E f \in Files : ActivateWireguard(f)
  \/ SetTorrents("paused") \/ SetTorrents("running")
  \/ UpdateSettings \/ ServerChanges \/ OpenvpnMoves \/ ApiRestarts

Next == WatchdogNext \/ Environment

(* The task is resumed when its sleep or request ends; a user, a server or *)
(* the supervisor owes nothing.                                            *)
Fairness == WF_vars(WatchdogNext)

Spec == Init /\ [][Next]_vars
FairSpec == Spec /\ Fairness

-----------------------------------------------------------------------------
(* Safety. *)

(* Every outage starts with an empty book: a file is marked as tried only  *)
(* while the watchdog fails over or cools down, so that the filter in      *)
(* _do_failover never hides a file because of an earlier outage.           *)
TriedOnlyInOutage == tried # {} => wdState \in {"failing_over", "cooldown"}

(* The number of files left that each watchdog_failover event announces,   *)
(* len(untried) - len(_tried_configs), is the number really left.          *)
RemainingExact ==
  pc \in {"next", "killed", "raising", "settle"} => passSize = Cardinality(tried) + Cardinality(queue)

(* Between two ticks the published state is one of the three resting       *)
(* states: no path through a tick leaves it "reconnecting" behind.         *)
RestsCalmly ==
  pc \in {"wait", "backoff", "pausing", "resuming"} =>
    wdState \in {"monitoring", "degraded", "cooldown"}

(* The cooldown is declared only when every file has had its try in this   *)
(* outage, but for the one that was active when the pass began.            *)
GivesUpAfterAll ==
  wdState = "cooldown" => \E f \in Files \cup {None} : Files \ tried \subseteq {f}

(* The state file never disagrees with the watchdog once its loop runs.    *)
FileTruthful == pc # "boot" => wdFile = wdState

(* A reconnect or a failover is reported as a recovery only by a step that *)
(* has just seen the tunnel healthy, whatever the commands returned.       *)
RecoveryVerified ==
  [][(wdState \in {"reconnecting", "failing_over"} /\ wdState' = "monitoring")
       => HealthyNow]_vars

(* An activation of a WireGuard file that claims success leaves a          *)
(* killswitch, if one is loaded, that lets this very file's handshake out, *)
(* whatever the MQTT thread does meanwhile, as long as vpn_type says       *)
(* "wireguard" when the script reads it and the runtime file is still the  *)
(* one written for it.  The first file after OpenVPN gets a killswitch for *)
(* the first OpenVPN file instead, and the interface of all of them stays  *)
(* what vpn_interface says: neither file is written before the script.     *)
KillswitchFollows ==
  [][(raising.step = "fence" /\ raising'.step = "none" /\ crashes' = crashes
      /\ vpn.type = "wireguard" /\ vpn.runtime = raising.file)
       => \/ vpn'.rules = Open
          \/ vpn'.rules = [iface |-> vpn.iface, peer |-> raising.file]]_vars

(* Next to gluetun the watchdog counts and reports, and never escalates.   *)
SidecarOnlyWatches ==
  settings.sidecar => wdState \in {"idle", "monitoring", "degraded"} /\ tried = {}

(* The documented state machine and its book of tried files.               *)
Book == INSTANCE Failover
FollowsTheBook == Book!FSpec

-----------------------------------------------------------------------------
(* The inductive invariant behind the safety properties.                   *)

PassPoints == {"next", "killed", "raising", "settle"}

(* The published state is a function of where the task is, but at its rest. *)
Phase ==
  /\ pc = "boot" => wdState = "idle"
  /\ pc \in {"wait", "backoff"} => wdState \in {"monitoring", "degraded", "cooldown"}
  /\ pc = "pausing" => wdState = "cooldown"
  /\ pc = "resuming" => wdState = "monitoring"
  /\ pc \in {"restart", "lifting", "spawning", "restarted", "failover"} =>
       wdState = "reconnecting"
  /\ pc \in PassPoints => wdState = "failing_over"

(* During a pass every file is tried, still queued, or the skipped one. *)
PassBook ==
  /\ pc \in PassPoints =>
       /\ queue \cap tried = {}
       /\ \E f \in Files \cup {None} : Files \ (tried \cup queue) \subseteq {f}
  /\ pc = "killed" => trying \in Files
  /\ pc = "raising" <=> raising.step # "none" /\ ~raising.handler
  /\ raising.step # "none" => raising.file \in WgFiles

IInv == /\ TypeOK /\ Phase /\ PassBook
        /\ TriedOnlyInOutage /\ RemainingExact /\ GivesUpAfterAll /\ FileTruthful

-----------------------------------------------------------------------------
(* Liveness, under FairSpec. *)

(* Whatever the servers and the user do, an escalation comes to an end.    *)
EscalationEnds ==
  wdState \in {"reconnecting", "failing_over"}
    ~> wdState \in {"monitoring", "cooldown", "idle"}

(* A cooldown does not last forever. *)
CooldownEnds == wdState = "cooldown" ~> wdState # "cooldown"

(* Torrents paused for a cooldown are asked to resume after it.            *)
PauseUndone == pc = "pausing" ~> pc = "resuming"

(* Self-healing: with automatic reconnection on and a usable threshold, a  *)
(* configuration whose server keeps answering is enough to see the tunnel  *)
(* healthy again and again.  Not so when it is the active one: a pass does *)
(* not try it, and a file that wg-quick rejects is left in /etc/wireguard, *)
(* so that every restart runs into it again.                               *)
SelfHeals ==
  \A f \in Files :
    <>[](/\ server[f] = "good" /\ settings.auto /\ settings.threshold # Invalid
         /\ vpn.active = f => \A g \in Files : server[g] # "rejected")
      => []<>HealthyNow
=============================================================================
