------------------------------ MODULE VpnProofs ------------------------------
(* Lemmas about the commands of module Vpn: what they return has the type   *)
(* of a command result, whatever the servers do.                            *)
EXTENDS Vpn, TLAPS

Results == [ok : BOOLEAN, vpn : Vpns]

(* The kinds, interfaces and rule sets built by the commands are legal.     *)
LEMMA KindType ==
  ASSUME NEW f \in Files
  PROVE  KindOf(f) \in Kinds /\ (KindOf(f) = "wireguard" => f \in WgFiles)
BY FilesAssumption DEF KindOf, Kinds, Files

(* wg-quick down and killall only take interfaces away. *)
LEMMA DownType ==
  ASSUME NEW v \in Vpns
  PROVE  WgQuickDown(v) \in Results /\ KillallOpenvpn(v) \in Results
BY DEF WgQuickDown, KillallOpenvpn, Results, Done, Failed, Vpns

(* wg-quick up brings up the runtime file. *)
LEMMA UpType ==
  ASSUME NEW v \in Vpns, NEW server
  PROVE  WgQuickUp(v, server) \in Results
BY DEF WgQuickUp, Results, Done, Failed, Vpns

(* The killswitch script loads the rules of a legal endpoint or none. *)
LEMMA KillswitchType ==
  ASSUME NEW v \in Vpns
  PROVE  InitKillswitch(v) \in Results
<1>1. CASE ~KillswitchEnabled
  BY <1>1 DEF InitKillswitch, Results, Done, Vpns
<1>2. CASE KillswitchEnabled /\ Endpoint(v) = None
  BY <1>2 DEF InitKillswitch, Results, Failed, Vpns, RuleSets
<1>3. CASE KillswitchEnabled /\ Endpoint(v) # None
  <2>1. Endpoint(v) \in Files
    BY <1>3, FilesAssumption DEF Endpoint, Files, Vpns
  <2>2. [iface |-> v.iface, peer |-> Endpoint(v)] \in RuleSets
    BY <2>1 DEF RuleSets, Vpns
  <2> QED BY <1>3, <2>2 DEF InitKillswitch, Results, Done, Vpns
<1> QED BY <1>1, <1>2, <1>3

(* init-vpn.sh keeps the types. *)
LEMMA InitVpnType ==
  ASSUME NEW v \in Vpns, NEW server
  PROVE  InitVpn(v, server) \in Results
<1>1. CASE DetectedType = "wireguard"
  <2> DEFINE w == [v EXCEPT !.type = "wireguard", !.runtime = FirstWg]
  <2>1. w \in Vpns
    BY FilesAssumption DEF Vpns, Kinds
  <2>2. WgQuickUp(w, server) \in Results
    BY <2>1, UpType
  <2>3. InitWireguard(v, server) \in Results
    BY <2>2 DEF InitWireguard, Results, Done, Vpns, Interfaces
  <2> QED BY <1>1, <2>3 DEF InitVpn
<1>2. CASE DetectedType # "wireguard"
  <2>1. FirstOvpn \in OvpnFiles \cup {None}
    BY FilesAssumption
  <2>2. InitOpenvpn(v, server) \in Results
    BY <2>1 DEF InitOpenvpn, Results, Done, Failed, Vpns, Interfaces, Kinds
  <2> QED BY <1>2, <2>2 DEF InitVpn
<1> QED BY <1>1, <1>2

(* The control-plane commands keep the types. *)
LEMMA StopType ==
  ASSUME NEW v \in Vpns
  PROVE  StopTunnel(v) \in Vpns
BY DownType DEF StopTunnel, Results

LEMMA StartType ==
  ASSUME NEW v \in Vpns, NEW server, NEW type
  PROVE  StartTunnel(type, v, server) \in Results
BY UpType, InitVpnType DEF StartTunnel

LEMMA ControlType ==
  ASSUME NEW v \in Vpns
  PROVE  DoVpnDisconnect(v) \in Results /\ DoKillswitchDisable(v) \in Results
<1>1. DoVpnDisconnect(v) \in Results
  BY DownType DEF DoVpnDisconnect
<1>2. DoKillswitchDisable(v) \in Results
  BY DEF DoKillswitchDisable, Results, Done, Vpns, RuleSets
<1> QED BY <1>1, <1>2

LEMMA RecordType ==
  ASSUME NEW v \in Vpns, NEW f \in Files
  PROVE  RecordActive(v, f) \in Vpns
BY KindType DEF RecordActive, Vpns

(* The state the boot scripts leave behind is legal. *)
LEMMA BootType == BootVpn \in Vpns
<1> DEFINE isWg == DetectedType = "wireguard"
           blank == [wg |-> IF isWg THEN FirstWg ELSE None,
                     tun |-> IF isWg THEN None ELSE FirstOvpn, tun0 |-> ~isWg,
                     runtime |-> IF isWg THEN FirstWg ELSE None,
                     type |-> DetectedType, iface |-> InterfaceOf(DetectedType),
                     active |-> None, rules |-> Open, ks |-> "disabled"]
<1>1. DetectedType \in Kinds
  BY FilesAssumption DEF DetectedType, Kinds
<1>2. InterfaceOf(DetectedType) \in Interfaces
  BY DEF InterfaceOf, Interfaces
<1>3. blank \in Vpns
  BY <1>1, <1>2, FilesAssumption DEF Vpns, RuleSets
<1>4. InitKillswitch(blank) \in Results
  BY <1>3, KillswitchType
<1> QED BY <1>4 DEF BootVpn, Results
=============================================================================
