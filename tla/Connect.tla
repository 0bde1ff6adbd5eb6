------------------------------ MODULE Connect ------------------------------
(***************************************************************************)
(* The connect pipeline of api/routes/connect.py: the handlers that hold   *)
(* _vpn_lock (connect, rotate, reconnect), one step per await, and what    *)
(* runs between those steps without the lock: the control-plane commands,  *)
(* also from the MQTT thread, and POST /vpn/configs/{name}/activate.  That *)
(* handler holds the loop, so no request moves until it answers, but the   *)
(* MQTT thread may run a command between any two of its steps.             *)
(*                                                                         *)
(* Here a name and a content differ: wg0.conf is a name whose content      *)
(* changes, and may be a symbolic link.  A member of WgFiles is a content, *)
(* that is a server; a user's file is named by the content it starts with. *)
(* A definition X_Y before X is X with the plausible defect Y.             *)
(***************************************************************************)
EXTENDS Vpn, Naturals, FiniteSets

CONSTANTS
  Wg0,          \* the name wg0.conf in /config/wireguard
  UserFiles,    \* the other *.conf files there
  Wg0Content,   \* what wg0.conf holds at boot, None when it does not exist
  Api,          \* the provider lists servers; otherwise files are rotated
  Requests,     \* calls of the locked handlers and of an OpenVPN activation
  Free,         \* nobody holds the lock
  CanReject,    \* contents whose bring-up may fail
  Timeouts,     \* a command may exceed its time limit
  MaxCommands   \* bound on the unlocked synchronous commands

ASSUME ConnectAssumption ==
  /\ Wg0 \notin Files \cup {None}
  /\ UserFiles \subseteq WgFiles
  /\ Wg0Content \in (WgFiles \ UserFiles) \cup {None}
  /\ Free \notin Requests
  /\ CanReject \subseteq Files
  /\ {Api, Timeouts} \subseteq BOOLEAN
  /\ MaxCommands \in Nat
  /\ VpnTypeEnv = "openvpn" \/ OvpnFiles = {}  \* init-vpn.sh brings up no WireGuard here

VARIABLES
  lock,      \* _vpn_lock: its holder or Free
  req,       \* one record per request
  dir,       \* the regular files of /config/wireguard, None for absent
  link,      \* what wg0.conf points to when it is a symbolic link, or None
  active,    \* state file active_config; Vpn's own field is not used here
  hostname,  \* state file vpn_server_hostname
  vpn,       \* tunnels, runtime file, killswitch, see Vpn
  server,    \* what each content's server does
  raising,   \* where the loop is in bring_up_wireguard_file
  mqtt,      \* the type a restart of the MQTT thread has stopped, or None
  commands   \* unlocked commands so far

fsVars == <<dir, link>>
unlocked == <<raising, mqtt, commands>>
vars == <<lock, req, fsVars, active, hostname, vpn, server, unlocked>>

Names == UserFiles \cup {Wg0}

(* Points of the pipeline; each stands for the await that ends there. *)
Commanding == {"down", "up", "back", "fence", "fenceback", "fencefail",
               "ovkill", "ovfence", "ovinit"}
Pipeline == Commanding \cup {"list", "resolve", "post"}

Replies == {"none", "busy", "ok", "rolledback", "failed"}

Points == Pipeline \cup {"new", "slept", "done"}

Ops == {"connect", "rotate", "reconnect", "activate"}

(* The next step of bring_up_wireguard_file, the file's name and content. *)
Raisings == [step : {"none", "write", "up", "fence"},
             name : Names \cup {None}, file : WgFiles \cup {None}]

NotRaising == [step |-> "none", name |-> None, file |-> None]

Records ==
  [pc : Points, op : Ops,
   want : Files \cup {None}, prev : WgFiles \cup {None}, reply : Replies]

TypeOK ==
  /\ lock \in Requests \cup {Free}
  /\ req \in [Requests -> Records]
  /\ dir \in [Names -> WgFiles \cup {None}]
  /\ link \in Names \cup {None}
  /\ active \in Names \cup OvpnFiles \cup {None}
  /\ hostname \in WgFiles \cup {None}
  /\ vpn \in Vpns
  /\ server \in [Files -> Conditions]
  /\ raising \in Raisings
  /\ mqtt \in Kinds \cup {None}
  /\ commands \in 0..MaxCommands

Init ==
  /\ lock = Free
  /\ req = [r \in Requests |-> [pc |-> "new", op |-> "connect", want |-> None,
                                prev |-> None, reply |-> "none"]]
  /\ dir = [n \in Names |-> IF n = Wg0 THEN Wg0Content ELSE n]
  /\ link = None
  /\ active = None /\ hostname = None
  /\ vpn = BootVpn
  /\ server = [f \in Files |-> "good"]
  /\ raising = NotRaising /\ mqtt = None /\ commands = 0

-----------------------------------------------------------------------------
(* The directory. *)

(* A link to itself exists for glob() and for nobody else. *)
Read(d, l, n) == IF n = Wg0 /\ l # None THEN IF l = Wg0 THEN None ELSE d[l] ELSE d[n]

(* list_config_files *)
Listed == {n \in Names : dir[n] # None \/ (n = Wg0 /\ link # None)} \cup OvpnFiles

(* activate_wg_config: unlink wg0.conf, then make it point to the file. *)
ActivateWgConfig(n) == dir' = [dir EXCEPT ![Wg0] = None] /\ link' = n

(* WG_CONF_PATH.write_text follows a link and fails on a link to itself. *)
WriteWg0(content) ==
  /\ link # Wg0
  /\ dir' = [dir EXCEPT ![IF link = None THEN Wg0 ELSE link] = content]
  /\ UNCHANGED link

-----------------------------------------------------------------------------
(* Steps of a request. *)

At(r, pc) == req[r].pc = pc

MoveTo(r, pc) == req' = [req EXCEPT ![r].pc = pc]

Finish_KeepsLock(r, reply) ==
  /\ req' = [req EXCEPT ![r].pc = "done", ![r].reply = reply]
  /\ lock' = IF reply = "failed" THEN lock ELSE Free

(* The handler returns, or raises, and leaves `async with _vpn_lock`. *)
Finish(r, reply) ==
  /\ req' = [req EXCEPT ![r].pc = "done", ![r].reply = reply]
  /\ lock' = Free

(* locked() and the acquisition have no await between them. *)
Acquire_Unchecked(r) == lock' = r

Acquire(r) == lock = Free /\ lock' = r

Refused(r) ==
  /\ At(r, "new") /\ lock # Free
  /\ req' = [req EXCEPT ![r].pc = "done", ![r].reply = "busy"]
  /\ UNCHANGED <<lock, fsVars, active, hostname, vpn, server, unlocked>>

StartWireguard_NoCopy(r, op, want, v) ==
  /\ req' = [req EXCEPT ![r] = [pc |-> "down", op |-> op, want |-> want,
                                prev |-> v.runtime, reply |-> "none"]]
  /\ vpn' = v

StartWireguard_SavesLate(r, op, want, v) ==
  LET current == Read(dir', link', Wg0)
      runtime == IF current = None THEN v.runtime ELSE current
  IN  /\ req' = [req EXCEPT ![r] = [pc |-> "down", op |-> op, want |-> want,
                                    prev |-> runtime, reply |-> "none"]]
      /\ vpn' = [v EXCEPT !.runtime = runtime]

(* _reconnect_vpn up to its first command: save the runtime file, then     *)
(* copy wg0.conf over it when wg0.conf exists.                             *)
StartWireguard(r, op, want, v) ==
  LET current == Read(dir', link', Wg0)
  IN  /\ req' = [req EXCEPT ![r] = [pc |-> "down", op |-> op, want |-> want,
                                    prev |-> v.runtime, reply |-> "none"]]
      /\ vpn' = [v EXCEPT !.runtime = IF current = None THEN @ ELSE current]

StartOpenvpn(r, op, want, v) ==
  /\ req' = [req EXCEPT ![r] = [pc |-> "ovkill", op |-> op, want |-> want,
                                prev |-> v.runtime, reply |-> "none"]]
  /\ vpn' = v

Reconnect(r) ==
  /\ At(r, "new") /\ Acquire(r)
  /\ UNCHANGED <<fsVars, active, hostname, server, unlocked>>
  /\ IF vpn.type = "wireguard"
     THEN LET current == Read(dir, link, Wg0)
          IN  StartWireguard(r, "reconnect",
                             IF current = None THEN vpn.runtime ELSE current, vpn)
     ELSE StartOpenvpn(r, "reconnect", FirstOvpn, vpn)

(* Without a server list both connect and rotate draw any listed file;     *)
(* after setup there is one.                                               *)
ChooseFile(r, op) ==
  /\ ~Api /\ At(r, "new") /\ Acquire(r)
  /\ \E n \in Listed :
       /\ active' = n
       /\ IF n \in OvpnFiles
          THEN /\ StartOpenvpn(r, op, n, [vpn EXCEPT !.type = "openvpn"])
               /\ UNCHANGED fsVars
          ELSE /\ ActivateWgConfig(n)
               /\ StartWireguard(r, op, Read(dir, link, n),
                                 [vpn EXCEPT !.type = "wireguard"])
  /\ UNCHANGED <<hostname, server, unlocked>>

-----------------------------------------------------------------------------
(* _connect_provider. *)

AskServers(r, op) ==
  /\ Api /\ At(r, "new") /\ Acquire(r)
  /\ req' = [req EXCEPT ![r].pc = "list", ![r].op = op]
  /\ UNCHANGED <<fsVars, active, hostname, vpn, server, unlocked>>

(* _select_server and rotate's choice of a country: a rotation excludes    *)
(* vpn_server_hostname, which only the lock's holder writes, unless it is  *)
(* the only server.  connect may name any server.                          *)
Candidates(op) ==
  IF op = "rotate" /\ WgFiles \ {hostname} # {} THEN WgFiles \ {hostname} ELSE WgFiles

ServersListed(r) ==
  /\ At(r, "list")
  /\ UNCHANGED <<fsVars, active, hostname, vpn, server, unlocked>>
  /\ \/ /\ \E s \in Candidates(req[r].op) :
             req' = [req EXCEPT ![r].pc = "resolve", ![r].want = s]
        /\ UNCHANGED lock
     \/ Finish(r, "failed")

(* The provider resolved the credentials: write wg0.conf and reconnect. *)
Resolved(r) ==
  /\ At(r, "resolve")
  /\ WriteWg0(req[r].want)
  /\ active' = Wg0 /\ hostname' = req[r].want
  /\ StartWireguard(r, req[r].op, req[r].want, [vpn EXCEPT !.type = "wireguard"])
  /\ UNCHANGED <<lock, server, unlocked>>

(* ConnectError, or writing through a link to itself. *)
NotResolved(r) ==
  /\ At(r, "resolve")
  /\ Finish(r, "failed")
  /\ UNCHANGED <<fsVars, active, hostname, vpn, server, unlocked>>

(* post_connect starts port forwarding; an exception loses the reply. *)
PostConnect(r) ==
  /\ At(r, "post")
  /\ Finish(r, "ok") \/ Finish(r, "failed")
  /\ UNCHANGED <<fsVars, active, hostname, vpn, server, unlocked>>

-----------------------------------------------------------------------------
(* _reconnect_vpn: one action per command. *)

Rest == <<fsVars, active, hostname, server, unlocked>>

Down(r) ==
  /\ At(r, "down")
  /\ MoveTo(r, "up")
  /\ vpn' = WgQuickDown(vpn).vpn
  /\ UNCHANGED <<lock, Rest>>

Up_NoRollback(r) ==
  LET up == WgQuickUp(vpn, server)
  IN  /\ At(r, "up")
      /\ MoveTo(r, IF up.ok THEN "fence" ELSE "fencefail")
      /\ vpn' = up.vpn
      /\ UNCHANGED <<lock, Rest>>

(* A failure restores the saved runtime file for a second attempt. *)
Up(r) ==
  LET up == WgQuickUp(vpn, server)
  IN  /\ At(r, "up")
      /\ MoveTo(r, IF up.ok THEN "fence"
                   ELSE IF req[r].prev # None THEN "back" ELSE "fencefail")
      /\ vpn' = IF up.ok \/ req[r].prev = None THEN up.vpn
                ELSE [up.vpn EXCEPT !.runtime = req[r].prev]
      /\ UNCHANGED <<lock, Rest>>

Back(r) ==
  LET up == WgQuickUp(vpn, server)
  IN  /\ At(r, "back")
      /\ MoveTo(r, IF up.ok THEN "fenceback" ELSE "fencefail")
      /\ vpn' = up.vpn
      /\ UNCHANGED <<lock, Rest>>

(* The killswitch runs in every case, and its exit status is ignored. *)
Fence(r) ==
  /\ At(r, "fence")
  /\ vpn' = InitKillswitch(vpn).vpn
  /\ IF Api /\ req[r].op # "reconnect"
     THEN MoveTo(r, "post") /\ UNCHANGED lock
     ELSE Finish(r, "ok")
  /\ UNCHANGED Rest

FenceBack(r) ==
  /\ At(r, "fenceback")
  /\ vpn' = InitKillswitch(vpn).vpn
  /\ Finish(r, "rolledback")
  /\ UNCHANGED Rest

FenceFail(r) ==
  /\ At(r, "fencefail")
  /\ vpn' = InitKillswitch(vpn).vpn
  /\ Finish(r, "failed")
  /\ UNCHANGED Rest

OvKill(r) ==
  /\ At(r, "ovkill")
  /\ MoveTo(r, "ovfence")
  /\ vpn' = KillallOpenvpn(vpn).vpn
  /\ UNCHANGED <<lock, Rest>>

OvFence(r) ==
  /\ At(r, "ovfence")
  /\ MoveTo(r, "ovinit")
  /\ vpn' = InitKillswitch(vpn).vpn
  /\ UNCHANGED <<lock, Rest>>

OvInit(r) ==
  LET up == InitVpn(vpn, server)
  IN  /\ At(r, "ovinit")
      /\ vpn' = up.vpn
      /\ Finish(r, IF up.ok THEN "ok" ELSE "failed")
      /\ UNCHANGED Rest

(* What the command at this point would have done. *)
Effect(r) ==
  CASE At(r, "down") -> WgQuickDown(vpn).vpn
    [] req[r].pc \in {"up", "back"} -> WgQuickUp(vpn, server).vpn
    [] At(r, "ovkill") -> KillallOpenvpn(vpn).vpn
    [] At(r, "ovinit") -> InitVpn(vpn, server).vpn
    [] OTHER -> InitKillswitch(vpn).vpn

(* A script killed on its way has done part of its work: init-killswitch.sh *)
(* deletes its tables, loads new ones and then writes killswitch_state;     *)
(* init-vpn.sh writes vpn_type, starts the daemon, waits for tun0 and then  *)
(* writes vpn_interface.                                                    *)
Halfway(r) ==
  IF At(r, "ovinit")
  THEN {[vpn EXCEPT !.type = "openvpn"], [Effect(r) EXCEPT !.iface = vpn.iface]}
  ELSE IF KillswitchEnabled /\ req[r].pc \in Commanding \ {"down", "up", "back", "ovkill"}
  THEN {[vpn EXCEPT !.rules = rules] : rules \in {Open, Effect(r).rules}}
  ELSE {}

(* _run_cmd kills a command that takes too long, and _reconnect_vpn        *)
(* reports the exception: nothing is rolled back.                          *)
TimesOut(r) ==
  /\ Timeouts /\ req[r].pc \in Commanding
  /\ vpn' \in {vpn, Effect(r)} \cup Halfway(r)
  /\ Finish(r, "failed")
  /\ UNCHANGED Rest

-----------------------------------------------------------------------------
(* Without the lock. *)

Budget == commands < MaxCommands /\ commands' = commands + 1

(* From the API a command needs the loop; the MQTT thread runs one at a time. *)
Command(v) ==
  /\ raising = NotRaising \/ mqtt = None
  /\ Budget
  /\ vpn' = v
  /\ UNCHANGED <<lock, req, fsVars, active, hostname, server, raising, mqtt>>

VpnDisconnect == Command(DoVpnDisconnect(vpn).vpn)
KillswitchEnable == Command(InitKillswitch(vpn).vpn)
KillswitchDisable == Command(DoKillswitchDisable(vpn).vpn)

(* A restart asked for by MQTT; one by the API is this one while nothing   *)
(* else happens in between.                                                *)
VpnRestart ==
  /\ mqtt = None /\ Budget
  /\ mqtt' = vpn.type
  /\ vpn' = StopTunnel(vpn)
  /\ UNCHANGED <<lock, req, fsVars, active, hostname, server, raising>>

VpnRestartStarts ==
  /\ mqtt # None /\ mqtt' = None
  /\ vpn' = StartTunnel(mqtt, vpn, server).vpn
  /\ UNCHANGED <<lock, req, fsVars, active, hostname, server, raising, commands>>

(* activate_config of a WireGuard file, up to the command that takes wg0   *)
(* down; a file it cannot read changes nothing.                            *)
ActivateWireguard(n) ==
  /\ raising = NotRaising /\ Budget
  /\ n \in Listed /\ Read(dir, link, n) # None
  /\ raising' = [step |-> "write", name |-> n, file |-> Read(dir, link, n)]
  /\ vpn' = WgQuickDown(vpn).vpn
  /\ UNCHANGED <<lock, req, fsVars, active, hostname, server, mqtt>>

RuntimeWritten ==
  /\ raising.step = "write" /\ raising' = [raising EXCEPT !.step = "up"]
  /\ vpn' = [vpn EXCEPT !.runtime = raising.file]
  /\ UNCHANGED <<lock, req, fsVars, active, hostname, server, mqtt, commands>>

Raised ==
  LET up == WgQuickUp(vpn, server)
  IN  /\ raising.step = "up"
      /\ raising' = IF up.ok THEN [raising EXCEPT !.step = "fence"] ELSE NotRaising
      /\ vpn' = up.vpn
      /\ UNCHANGED <<lock, req, fsVars, active, hostname, server, mqtt, commands>>

Fenced ==
  /\ raising.step = "fence" /\ raising' = NotRaising
  /\ vpn' = [InitKillswitch(vpn).vpn EXCEPT !.type = "wireguard"]
  /\ active' = raising.name
  /\ UNCHANGED <<lock, req, fsVars, hostname, server, commands, mqtt>>

ActivateOpenvpn(r) ==
  /\ At(r, "new")
  /\ \E f \in OvpnFiles :
       req' = [req EXCEPT ![r].pc = "slept", ![r].op = "activate", ![r].want = f]
  /\ vpn' = KillallOpenvpn(vpn).vpn
  /\ UNCHANGED <<lock, Rest>>

OpenvpnActivated(r) ==
  LET up == InitVpn(vpn, server)
  IN  /\ At(r, "slept")
      /\ req' = [req EXCEPT ![r].pc = "done",
                            ![r].reply = IF up.ok THEN "ok" ELSE "failed"]
      /\ vpn' = IF up.ok THEN [up.vpn EXCEPT !.type = "openvpn"] ELSE up.vpn
      /\ active' = IF up.ok THEN req[r].want ELSE active
      /\ UNCHANGED <<lock, fsVars, hostname, server, unlocked>>

ServerChanges ==
  /\ \E f \in CanReject, c \in {"good", "rejected"} : server' = [server EXCEPT ![f] = c]
  /\ UNCHANGED <<lock, req, fsVars, active, hostname, vpn, unlocked>>

-----------------------------------------------------------------------------
Handler(r) ==
  \/ Refused(r) \/ Reconnect(r)
  \/ \E op \in {"connect", "rotate"} : ChooseFile(r, op) \/ AskServers(r, op)
  \/ ActivateOpenvpn(r)

Step(r) ==
  \/ ServersListed(r) \/ Resolved(r) \/ NotResolved(r) \/ PostConnect(r)
  \/ Down(r) \/ Up(r) \/ Back(r) \/ Fence(r) \/ FenceBack(r) \/ FenceFail(r)
  \/ OvKill(r) \/ OvFence(r) \/ OvInit(r) \/ TimesOut(r) \/ OpenvpnActivated(r)

Raising == RuntimeWritten \/ Raised \/ Fenced

(* The loop: a handler that holds it comes to its end first. *)
Resumes(r) == raising = NotRaising /\ Step(r)

Unlocked ==
  \/ VpnRestart \/ VpnRestartStarts \/ VpnDisconnect
  \/ KillswitchEnable \/ KillswitchDisable
  \/ \E n \in Names : ActivateWireguard(n)
  \/ ServerChanges

Next ==
  \/ \E r \in Requests : (raising = NotRaising /\ Handler(r)) \/ Resumes(r)
  \/ Raising \/ Unlocked

(* A handler that has begun goes on when its await ends, or when its       *)
(* command does; users owe nothing.                                        *)
Fairness == WF_vars(Raising) /\ \A r \in Requests : WF_vars(Resumes(r))

Spec == Init /\ [][Next]_vars
FairSpec == Spec /\ Fairness

-----------------------------------------------------------------------------
(* Safety. *)

Working(r) == req[r].pc \in Pipeline

(* A request is inside the pipeline only while it holds the lock: no two   *)
(* of them change the tunnel at the same time.                             *)
OneAtATime == \A r \in Requests : Working(r) => lock = r

Replied(r, reply) == req[r].reply # reply /\ req'[r].reply = reply

(* The killswitch is made for this very content, or switched off. *)
FencedFor(v, f) ==
  v.rules = (IF KillswitchEnabled THEN [iface |-> "wg0", peer |-> f] ELSE Open)

(* A request that answers "success" leaves the tunnel of the server or the *)
(* file it was about, and a killswitch that lets this server's handshake   *)
(* out, whatever ran before it.                                            *)
ReplyTruthful ==
  [][\A r \in Requests : Replied(r, "ok") =>
       vpn'.wg = req[r].want /\ FencedFor(vpn', req[r].want)]_vars

(* "Rolled back to previous server" is said only when the tunnel runs what *)
(* the runtime file held before, behind a killswitch made for it.          *)
RollbackRestores ==
  [][\A r \in Requests : Replied(r, "rolledback") =>
       vpn'.wg = req[r].prev /\ FencedFor(vpn', req[r].prev)]_vars

(* A failed switch does not strand the user: while the previous server can *)
(* be brought up, a pipeline that reports failure leaves a tunnel.         *)
NeverStranded ==
  [][\A r \in Requests :
       (Replied(r, "failed") /\ req[r].prev # None /\ req[r].prev \notin CanReject)
         => vpn'.wg # None]_vars

(* The killswitch that is published as active is loaded. *)
KillswitchHonest == vpn.ks = "active" => vpn.rules # Open

-----------------------------------------------------------------------------
(* The inductive invariants behind them. *)

(* A resolved request is about a server, a sleeping activation about an    *)
(* OpenVPN file.                                                           *)
WantKind ==
  \A r \in Requests :
    /\ At(r, "resolve") => req[r].want \in WgFiles
    /\ At(r, "slept") => req[r].want \in OvpnFiles

(* What the pipeline has achieved where it is, while nobody else acts. *)
Stage(r) ==
  LET want == req[r].want
      prev == req[r].prev
  IN  /\ At(r, "down") => vpn.runtime = want
      /\ At(r, "up") => vpn.runtime = want /\ vpn.wg = None
      /\ At(r, "fence") => vpn.wg = want /\ want # None
      /\ At(r, "back") => vpn.runtime = prev /\ vpn.wg = None
      /\ At(r, "fenceback") => vpn.wg = prev /\ prev # None
      /\ At(r, "post") => vpn.wg = want /\ FencedFor(vpn, want)

WgOnly(v) ==
  /\ v.type = "wireguard" /\ v.iface = "wg0"
  /\ ~KillswitchEnabled => v.rules = Open

PipelineInv ==
  /\ TypeOK /\ OneAtATime
  /\ link = None /\ WgOnly(vpn) /\ raising = NotRaising /\ mqtt = None
  /\ \A r \in Requests : req[r].pc \notin {"ovkill", "ovfence", "ovinit", "slept"} /\ Stage(r)

(* Why a failed switch leaves a tunnel, when no command times out: the     *)
(* previous file was tried, and only a server that can reject it did not.  *)
StrandedInv ==
  /\ PipelineInv
  /\ \A f \in Files : server[f] = "rejected" => f \in CanReject
  /\ \A r \in Requests :
       /\ req[r].pc \in {"new", "list", "resolve"} => req[r].prev = None
       /\ At(r, "fencefail") => req[r].prev \in CanReject \cup {None}
       /\ At(r, "post") => vpn.wg # None

-----------------------------------------------------------------------------
(* The abstract specification: what callers see of the tunnel while one    *)
(* request after another has it.                                           *)

Switching == {"down", "up", "back", "fence", "fenceback", "fencefail", "post"}

(* The holder of the lock has begun to touch the tunnel. *)
Aimed == lock # Free /\ req[lock].pc \in Switching

Target == IF Aimed THEN req[lock].want ELSE None
Chosen == IF Aimed THEN req[lock].prev ELSE vpn.runtime
LetsOut(v) == IF KillswitchEnabled THEN v.rules.peer ELSE v.wg
Told == [r \in Requests |-> req[r].reply]

S == INSTANCE Switch WITH
       Callers <- Requests, Servers <- WgFiles, Fragile <- CanReject,
       Nobody <- Free, Nothing <- None,
       by <- lock, target <- Target, chosen <- Chosen, tunnel <- vpn.wg,
       gate <- LetsOut(vpn), told <- Told

(* With a provider, while nothing acts without the lock and no command     *)
(* times out, the pipeline is a switch: made, taken back to the server     *)
(* that ran before, or lost because that one is rejected too               *)
(* (connect.py:409-468, reached from connect, rotate and reconnect).       *)
IsASwitch == S!Spec

-----------------------------------------------------------------------------
(* Liveness, under FairSpec. *)

(* The lock is never kept: whatever fails or times out, its holder leaves. *)
LockFreed == \A r \in Requests : lock = r ~> lock = Free
=============================================================================
