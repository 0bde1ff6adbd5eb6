-------------------------------- MODULE Vpn --------------------------------
(***************************************************************************)
(* The resources every VPN operation of tunnelvision works on, and what    *)
(* the commands the code runs do to them.  It declares no variable: the    *)
(* modules that model the watchdog and the HTTP handlers hold one record   *)
(* of this kind and apply these operators to it.                           *)
(*                                                                         *)
(* A configuration file stands for its own content and for the server it   *)
(* names; wg-quick, openvpn, nft and the remote servers are not part of    *)
(* the repository and are modelled from how the code uses them.            *)
(***************************************************************************)
CONSTANTS
  WgFiles,            \* configuration files under /config/wireguard
  OvpnFiles,          \* configuration files under /config/openvpn
  FirstWg,            \* the file init-vpn.sh finds first among WgFiles
  FirstOvpn,          \* the file init-vpn.sh finds first among OvpnFiles
  VpnTypeEnv,         \* the VPN_TYPE environment variable of the container
  KillswitchEnabled,  \* KILLSWITCH_ENABLED (env and config.killswitch_enabled)
  None                \* no file, no tunnel, an empty state file

Files == WgFiles \cup OvpnFiles
Kinds == {"wireguard", "openvpn"}
Interfaces == {"wg0", "tun0"}

(* After setup the container has at least one file of the type it runs. *)
ASSUME FilesAssumption ==
  /\ WgFiles \cap OvpnFiles = {}
  /\ None \notin Files
  /\ FirstWg \in WgFiles \/ (WgFiles = {} /\ FirstWg = None)
  /\ FirstOvpn \in OvpnFiles \/ (OvpnFiles = {} /\ FirstOvpn = None)
  /\ VpnTypeEnv \in Kinds \cup {"auto"}
  /\ VpnTypeEnv = "wireguard" => WgFiles # {}
  /\ VpnTypeEnv = "openvpn" => OvpnFiles # {}
  /\ Files # {}
  /\ KillswitchEnabled \in BOOLEAN

(* list_config_files sees *.ovpn as OpenVPN and every *.conf as WireGuard. *)
KindOf(f) == IF f \in OvpnFiles THEN "openvpn" ELSE "wireguard"

InterfaceOf(kind) == IF kind = "openvpn" THEN "tun0" ELSE "wg0"

(* No nftables table "tunnelvision": nothing is filtered. *)
Open == [iface |-> None, peer |-> None]

RuleSets == {Open} \cup [iface : Interfaces, peer : Files]

(***************************************************************************)
(* wg       the configuration the interface wg0 runs, None when it is down *)
(* tun      the configuration the openvpn daemon runs, None when none runs *)
(* tun0     the interface tun0 exists: the daemon has reached its server   *)
(* runtime  the content of /etc/wireguard/wg0.conf, what wg-quick reads    *)
(* type     state file vpn_type      iface  state file vpn_interface       *)
(* active   state file active_config                                       *)
(* rules    the loaded killswitch    ks     state file killswitch_state    *)
(***************************************************************************)
Vpns == [wg : WgFiles \cup {None}, tun : OvpnFiles \cup {None}, tun0 : BOOLEAN,
         runtime : WgFiles \cup {None}, type : Kinds, iface : Interfaces,
         active : Files \cup {None}, rules : RuleSets,
         ks : {"active", "disabled"}]

(* What a server does for a client: answer, stay silent, or make the       *)
(* bring-up command itself fail (a name that does not resolve, a file that *)
(* wg-quick rejects).                                                      *)
Conditions == {"good", "silent", "rejected"}

(* The killswitch lets the handshake with f out. *)
Allowed(v, f) == v.rules = Open \/ v.rules.peer = f

Answers(v, f, server) == server[f] = "good" /\ Allowed(v, f)

(* Commands with their exit status. *)
Done(v) == [ok |-> TRUE, vpn |-> v]
Failed(v) == [ok |-> FALSE, vpn |-> v]

WgQuickDown(v) ==
  IF v.wg = None THEN Failed(v) ELSE Done([v EXCEPT !.wg = None])

(* wg-quick refuses an interface that exists, and does not wait for a handshake. *)
WgQuickUp(v, server) ==
  IF v.wg # None \/ v.runtime = None THEN Failed(v)
  ELSE IF server[v.runtime] = "rejected" THEN Failed(v)
  ELSE Done([v EXCEPT !.wg = v.runtime])

KillallOpenvpn(v) ==
  IF v.tun = None THEN Failed(v) ELSE Done([v EXCEPT !.tun = None, !.tun0 = FALSE])

(***************************************************************************)
(* init-killswitch.sh: the interface and type come from state files, the   *)
(* endpoint from the running wg0 or the first OpenVPN file.  The old       *)
(* tables are deleted first; without an endpoint `nft -f` has a syntax     *)
(* error and `set -e` ends the script before it writes killswitch_state.   *)
(***************************************************************************)
Endpoint(v) == IF v.type = "wireguard" THEN v.wg ELSE FirstOvpn

InitKillswitch(v) ==
  IF ~KillswitchEnabled THEN Done([v EXCEPT !.ks = "disabled"])
  ELSE IF Endpoint(v) = None THEN Failed([v EXCEPT !.rules = Open])
  ELSE Done([v EXCEPT !.rules = [iface |-> v.iface, peer |-> Endpoint(v)],
                      !.ks = "active"])

(* init-vpn.sh: the type it settles on, whatever file the caller has in mind. *)
DetectedType ==
  IF VpnTypeEnv # "auto" THEN VpnTypeEnv
  ELSE IF WgFiles # {} THEN "wireguard" ELSE "openvpn"

InitWireguard(v, server) ==
  LET up == WgQuickUp([v EXCEPT !.type = "wireguard", !.runtime = FirstWg], server)
  IN  IF up.ok THEN Done([up.vpn EXCEPT !.iface = "wg0"]) ELSE up

(* The script gives up when tun0 does not appear; the daemon tries on. *)
InitOpenvpn(v, server) ==
  LET typed == [v EXCEPT !.type = "openvpn"]
      started == [typed EXCEPT !.tun = FirstOvpn,
                               !.tun0 = v.tun0 \/ Answers(v, FirstOvpn, server)]
  IN  IF server[FirstOvpn] = "rejected" THEN Failed(typed)
      ELSE IF started.tun0 THEN Done([started EXCEPT !.iface = "tun0"])
      ELSE Failed(started)

InitVpn(v, server) ==
  IF DetectedType = "wireguard" THEN InitWireguard(v, server)
  ELSE InitOpenvpn(v, server)

(* do_vpn_restart of control.py: a command that stops the tunnel of the    *)
(* type in force, its exit status ignored, and one that starts it again.   *)
StopTunnel(v) ==
  IF v.type = "wireguard" THEN WgQuickDown(v).vpn ELSE KillallOpenvpn(v).vpn

StartTunnel(type, v, server) ==
  IF type = "wireguard" THEN WgQuickUp(v, server) ELSE InitVpn(v, server)

(* do_vpn_disconnect and do_killswitch_disable. *)
DoVpnDisconnect(v) ==
  IF v.type = "wireguard" THEN WgQuickDown(v) ELSE KillallOpenvpn(v)

DoKillswitchDisable(v) == Done([v EXCEPT !.rules = Open, !.ks = "disabled"])

(* What a successful activation records: vpn_type, then active_config. *)
RecordActive(v, f) == [v EXCEPT !.type = KindOf(f), !.active = f]

(***************************************************************************)
(* WatchdogService._check_vpn_health: a fresh handshake, or tun0 exists.   *)
(* A handshake older than handshake_stale_seconds is a silent server.      *)
(***************************************************************************)
Healthy(v, server) ==
  IF v.type = "wireguard" THEN v.wg # None /\ Answers(v, v.wg, server)
  ELSE v.tun0

(* The state the boot scripts leave behind when they succeed. *)
BootVpn ==
  LET isWg == DetectedType = "wireguard"
      blank == [wg |-> IF isWg THEN FirstWg ELSE None,
                tun |-> IF isWg THEN None ELSE FirstOvpn, tun0 |-> ~isWg,
                runtime |-> IF isWg THEN FirstWg ELSE None,
                type |-> DetectedType, iface |-> InterfaceOf(DetectedType),
                active |-> None, rules |-> Open, ks |-> "disabled"]
  IN  InitKillswitch(blank).vpn
=============================================================================
