--------------------------- MODULE ConnectProofs ---------------------------
(***************************************************************************)
(* Theorems about module Connect.  One lemma per kind of step says what it *)
(* does to the lock and to the requests; the invariants are preserved      *)
(* action by action on top of them.  The last part shows that the pipeline *)
(* implements Switch.                                                      *)
(***************************************************************************)
EXTENDS Connect, VpnProofs

(* A file reads as a WireGuard configuration or not at all. *)
LEMMA ReadType ==
  ASSUME NEW d \in [Names -> WgFiles \cup {None}], NEW l \in Names \cup {None},
         NEW n \in Names
  PROVE  Read(d, l, n) \in WgFiles \cup {None}
BY DEF Read, Names

(* The ways the code edits a request all give a request again. *)
LEMMA EditType ==
  ASSUME TypeOK, NEW r \in Requests, NEW pc \in Points
  PROVE  /\ [req EXCEPT ![r].pc = pc] \in [Requests -> Records]
         /\ \A reply \in Replies :
              [req EXCEPT ![r].pc = pc, ![r].reply = reply] \in [Requests -> Records]
         /\ \A op \in Ops :
              [req EXCEPT ![r].pc = pc, ![r].op = op] \in [Requests -> Records]
         /\ \A want \in Files \cup {None} :
              [req EXCEPT ![r].pc = pc, ![r].want = want] \in [Requests -> Records]
         /\ \A op \in Ops, want \in Files \cup {None} :
              [req EXCEPT ![r].pc = pc, ![r].op = op, ![r].want = want]
                \in [Requests -> Records]
<1> DEFINE c == req[r]
<1>1. req \in [Requests -> Records] /\ c \in Records
  BY DEF TypeOK
<1>2. ASSUME NEW reply \in Replies
      PROVE  [req EXCEPT ![r].pc = pc, ![r].reply = reply] \in [Requests -> Records]
  <2>1. [c EXCEPT !.pc = pc, !.reply = reply] \in Records
    BY <1>1 DEF Records
  <2>2. [req EXCEPT ![r].pc = pc, ![r].reply = reply]
          = [req EXCEPT ![r] = [c EXCEPT !.pc = pc, !.reply = reply]]
    BY <1>1
  <2> QED BY <1>1, <2>1, <2>2
<1>3. ASSUME NEW op \in Ops
      PROVE  [req EXCEPT ![r].pc = pc, ![r].op = op] \in [Requests -> Records]
  <2>1. [c EXCEPT !.pc = pc, !.op = op] \in Records
    BY <1>1 DEF Records
  <2>2. [req EXCEPT ![r].pc = pc, ![r].op = op]
          = [req EXCEPT ![r] = [c EXCEPT !.pc = pc, !.op = op]]
    BY <1>1
  <2> QED BY <1>1, <2>1, <2>2
<1>4. ASSUME NEW want \in Files \cup {None}
      PROVE  [req EXCEPT ![r].pc = pc, ![r].want = want] \in [Requests -> Records]
  <2>1. [c EXCEPT !.pc = pc, !.want = want] \in Records
    BY <1>1 DEF Records
  <2>2. [req EXCEPT ![r].pc = pc, ![r].want = want]
          = [req EXCEPT ![r] = [c EXCEPT !.pc = pc, !.want = want]]
    BY <1>1
  <2> QED BY <1>1, <2>1, <2>2
<1>5. ASSUME NEW op \in Ops, NEW want \in Files \cup {None}
      PROVE  [req EXCEPT ![r].pc = pc, ![r].op = op, ![r].want = want]
               \in [Requests -> Records]
  <2>1. [c EXCEPT !.pc = pc, !.op = op, !.want = want] \in Records
    BY <1>1 DEF Records
  <2>2. [req EXCEPT ![r].pc = pc, ![r].op = op, ![r].want = want]
          = [req EXCEPT ![r] = [c EXCEPT !.pc = pc, !.op = op, !.want = want]]
    BY <1>1
  <2> QED BY <1>1, <2>1, <2>2
<1>6. [req EXCEPT ![r].pc = pc] \in [Requests -> Records]
  <2>1. [c EXCEPT !.pc = pc] \in Records
    BY <1>1 DEF Records
  <2> QED BY <1>1, <2>1
<1> QED BY <1>2, <1>3, <1>4, <1>5, <1>6

LEMMA PointsLegal ==
  /\ {"new", "done", "slept", "list", "resolve", "post", "down", "up", "back"} \subseteq Points
  /\ {"fence", "fenceback", "fencefail", "ovkill", "ovfence", "ovinit"} \subseteq Points
BY DEF Points, Pipeline, Commanding

(* Leaving the pipeline keeps the requests and the lock typed. *)
LEMMA FinishType ==
  ASSUME TypeOK, NEW r \in Requests, NEW reply \in Replies, Finish(r, reply)
  PROVE  req' \in [Requests -> Records] /\ lock' \in Requests \cup {Free}
BY EditType, PointsLegal DEF Finish

LEMMA MoveType ==
  ASSUME TypeOK, NEW r \in Requests, NEW pc \in Points, MoveTo(r, pc)
  PROVE  req' \in [Requests -> Records]
BY EditType DEF MoveTo

(* What they leave alone. *)
LEMMA FinishFields ==
  ASSUME TypeOK, NEW r \in Requests, NEW reply, Finish(r, reply)
  PROVE  /\ req'[r].pc = "done" /\ req'[r].reply = reply
         /\ req'[r].want = req[r].want /\ req'[r].prev = req[r].prev
         /\ lock' = Free
<1>1. req \in [Requests -> Records] /\ req[r] \in Records
  BY DEF TypeOK
<1>2. req'[r] = [req[r] EXCEPT !.pc = "done", !.reply = reply]
  BY <1>1 DEF Finish
<1> QED BY <1>1, <1>2 DEF Finish, Records

LEMMA MoveFields ==
  ASSUME TypeOK, NEW r \in Requests, NEW pc, MoveTo(r, pc)
  PROVE  /\ req'[r].pc = pc
         /\ req'[r].want = req[r].want /\ req'[r].prev = req[r].prev
         /\ req'[r].op = req[r].op /\ req'[r].reply = req[r].reply
<1>1. req \in [Requests -> Records] /\ req[r] \in Records
  BY DEF TypeOK
<1>2. req'[r] = [req[r] EXCEPT !.pc = pc]
  BY <1>1 DEF MoveTo
<1> QED BY <1>1, <1>2 DEF Records

(* Entering _reconnect_vpn. *)
LEMMA StartWireguardType ==
  ASSUME TypeOK, NEW r \in Requests,
         NEW op \in Ops,
         NEW want \in Files \cup {None}, NEW v \in Vpns,
         dir' \in [Names -> WgFiles \cup {None}], link' \in Names \cup {None},
         StartWireguard(r, op, want, v)
  PROVE  req' \in [Requests -> Records] /\ vpn' \in Vpns
<1> DEFINE current == Read(dir', link', Wg0)
<1>1. current \in WgFiles \cup {None}
  BY ReadType DEF Names
<1>2. vpn' \in Vpns
  BY <1>1 DEF StartWireguard, Vpns
<1>3. v.runtime \in WgFiles \cup {None}
  BY DEF Vpns
<1>4. [pc |-> "down", op |-> op, want |-> want, prev |-> v.runtime,
       reply |-> "none"] \in Records
  BY <1>3 DEF Records, Points, Pipeline, Commanding, Replies
<1> QED BY <1>2, <1>4 DEF StartWireguard, TypeOK

LEMMA StartOpenvpnType ==
  ASSUME TypeOK, NEW r \in Requests,
         NEW op \in Ops,
         NEW want \in Files \cup {None}, NEW v \in Vpns,
         StartOpenvpn(r, op, want, v)
  PROVE  req' \in [Requests -> Records] /\ vpn' \in Vpns
<1>1. v.runtime \in WgFiles \cup {None}
  BY DEF Vpns
<1>2. [pc |-> "ovkill", op |-> op, want |-> want, prev |-> v.runtime,
       reply |-> "none"] \in Records
  BY <1>1 DEF Records, Points, Pipeline, Commanding, Replies
<1> QED BY <1>2 DEF StartOpenvpn, TypeOK

-----------------------------------------------------------------------------
(* Type correctness. *)

LEMMA TypeInit == Init => TypeOK
<1> SUFFICES ASSUME Init PROVE TypeOK
  OBVIOUS
<1>1. vpn \in Vpns
  BY BootType DEF Init
<1>2. req \in [Requests -> Records]
  BY DEF Init, Records, Points, Replies, Ops
<1>3. dir \in [Names -> WgFiles \cup {None}]
  BY ConnectAssumption DEF Init, Names
<1>4. server \in [Files -> Conditions] /\ commands \in 0..MaxCommands /\ raising \in Raisings
  BY ConnectAssumption DEF Init, Conditions, Raisings, NotRaising
<1> QED BY <1>1, <1>2, <1>3, <1>4 DEF Init, TypeOK

(* The handlers up to their first await. *)
LEMMA TypeHandler ==
  ASSUME TypeOK, NEW r \in Requests, Handler(r)
  PROVE  TypeOK'
<1> USE DEF TypeOK
<1>1. CASE Refused(r)
  <2>1. req' \in [Requests -> Records]
    BY <1>1, EditType, PointsLegal DEF Refused, Replies
  <2> QED BY <1>1, <2>1 DEF Refused, fsVars, unlocked
<1>2. CASE Reconnect(r)
  <2>1. lock' = r /\ UNCHANGED <<fsVars, active, hostname, server, unlocked>>
    BY <1>2 DEF Reconnect, Acquire
  <2> DEFINE current == Read(dir, link, Wg0)
             want == IF current = None THEN vpn.runtime ELSE current
  <2>2. want \in Files \cup {None}
    BY ReadType DEF Names, Files, Vpns
  <2>3. FirstOvpn \in Files \cup {None}
    BY FilesAssumption DEF Files
  <2>4. dir' \in [Names -> WgFiles \cup {None}] /\ link' \in Names \cup {None}
    BY <2>1 DEF fsVars, unlocked
  <2>5. \/ StartWireguard(r, "reconnect", want, vpn)
        \/ StartOpenvpn(r, "reconnect", FirstOvpn, vpn)
    BY <1>2 DEF Reconnect
  <2>6. req' \in [Requests -> Records] /\ vpn' \in Vpns
    BY <2>2, <2>3, <2>4, <2>5, StartWireguardType, StartOpenvpnType DEF Ops
  <2> QED BY <2>1, <2>4, <2>6 DEF unlocked
<1>3. ASSUME NEW op \in {"connect", "rotate"}, ChooseFile(r, op)
      PROVE  TypeOK'
  <2>1. lock' = r /\ UNCHANGED <<hostname, server, unlocked>>
    BY <1>3 DEF ChooseFile, Acquire
  <2>2. PICK n \in Listed : ChooseFile(r, op)!2!(n)
    BY <1>3 DEF ChooseFile
  <2>3. CASE n \in OvpnFiles
    <3>1. [vpn EXCEPT !.type = "openvpn"] \in Vpns /\ n \in Files
      BY <2>3 DEF Vpns, Kinds, Files
    <3>2. req' \in [Requests -> Records] /\ vpn' \in Vpns
      BY <2>2, <2>3, <3>1, StartOpenvpnType DEF Ops
    <3> QED BY <2>1, <2>2, <2>3, <3>2 DEF fsVars, unlocked
  <2>4. CASE n \notin OvpnFiles
    <3>1. n \in Names
      BY <2>2, <2>4 DEF Listed
    <3>2. [vpn EXCEPT !.type = "wireguard"] \in Vpns
      BY DEF Vpns, Kinds
    <3>3. dir' \in [Names -> WgFiles \cup {None}] /\ link' \in Names \cup {None}
      BY <2>2, <2>4, <3>1 DEF ActivateWgConfig
    <3>4. Read(dir, link, n) \in Files \cup {None}
      BY <3>1, ReadType DEF Files
    <3>5. req' \in [Requests -> Records] /\ vpn' \in Vpns
      <4>1. StartWireguard(r, op, Read(dir, link, n), [vpn EXCEPT !.type = "wireguard"])
        BY <2>2, <2>4
      <4>2. op \in Ops
        BY DEF Ops
      <4> QED BY <3>2, <3>3, <3>4, <4>1, <4>2, StartWireguardType
    <3> QED BY <2>1, <2>2, <3>1, <3>3, <3>5 DEF unlocked
  <2> QED BY <2>3, <2>4
<1>4. ASSUME NEW op \in {"connect", "rotate"}, AskServers(r, op)
      PROVE  TypeOK'
  <2>1. req' \in [Requests -> Records]
    BY <1>4, EditType, PointsLegal DEF AskServers, Ops
  <2> QED BY <1>4, <2>1 DEF AskServers, Acquire, fsVars, unlocked
<1>5. CASE ActivateOpenvpn(r)
  <2>1. req' \in [Requests -> Records]
    <3>1. PICK f \in OvpnFiles :
            req' = [req EXCEPT ![r].pc = "slept", ![r].op = "activate", ![r].want = f]
      BY <1>5 DEF ActivateOpenvpn
    <3> QED BY <3>1, EditType, PointsLegal DEF Files, Ops
  <2>2. vpn' \in Vpns
    BY <1>5, DownType DEF ActivateOpenvpn, Results
  <2> QED BY <1>5, <2>1, <2>2 DEF ActivateOpenvpn, Rest, fsVars, unlocked
<1> QED BY <1>1, <1>2, <1>3, <1>4, <1>5 DEF Handler

(* The commands of the pipeline: each keeps the tunnel state typed, and the *)
(* request moves on or finishes.                                            *)
LEMMA TypeStep ==
  ASSUME TypeOK, WantKind, NEW r \in Requests, Step(r)
  PROVE  TypeOK'
<1> USE DEF TypeOK
<1>1. CASE ServersListed(r)
  <2>1. CASE Finish(r, "failed")
    BY <1>1, <2>1, FinishType DEF ServersListed, Replies, fsVars, unlocked
  <2>2. CASE /\ \E s \in Candidates(req[r].op) :
                  req' = [req EXCEPT ![r].pc = "resolve", ![r].want = s]
             /\ UNCHANGED lock
    <3>1. PICK s \in WgFiles : req' = [req EXCEPT ![r].pc = "resolve", ![r].want = s]
      BY <2>2 DEF Candidates
    <3>2. req' \in [Requests -> Records]
      BY <3>1, EditType, PointsLegal DEF Files
    <3> QED BY <1>1, <2>2, <3>2 DEF ServersListed, fsVars, unlocked
  <2> QED BY <1>1, <2>1, <2>2 DEF ServersListed
<1>2. CASE Resolved(r)
  <2>1. req[r].want \in WgFiles /\ req[r].op \in Ops
    BY <1>2 DEF Resolved, WantKind, Records
  <2>2. dir' \in [Names -> WgFiles \cup {None}] /\ link' \in Names \cup {None}
    BY <1>2, <2>1 DEF Resolved, WriteWg0, Names
  <2>3. active' \in Names \cup {None} /\ hostname' \in WgFiles
    BY <1>2, <2>1 DEF Resolved, Names
  <2>4. [vpn EXCEPT !.type = "wireguard"] \in Vpns
    BY DEF Vpns, Kinds
  <2>5. StartWireguard(r, req[r].op, req[r].want, [vpn EXCEPT !.type = "wireguard"])
    BY <1>2 DEF Resolved
  <2>6. req' \in [Requests -> Records] /\ vpn' \in Vpns
    BY <2>1, <2>2, <2>4, <2>5, StartWireguardType DEF Files
  <2> QED BY <1>2, <2>2, <2>3, <2>6 DEF Resolved, unlocked
<1>3. CASE NotResolved(r)
  BY <1>3, FinishType DEF NotResolved, Replies, fsVars, unlocked
<1>4. CASE PostConnect(r)
  BY <1>4, FinishType DEF PostConnect, Replies, fsVars, unlocked
<1>5. CASE Down(r)
  BY <1>5, MoveType, PointsLegal, DownType DEF Down, Rest, Results, fsVars, unlocked
<1>6. CASE Up(r)
  <2> DEFINE up == WgQuickUp(vpn, server)
  <2>1. up \in Results
    BY UpType
  <2>2. vpn' \in Vpns
    <3>1. req[r].prev \in WgFiles \cup {None}
      BY DEF Records
    <3>2. [up.vpn EXCEPT !.runtime = req[r].prev] \in Vpns
      BY <2>1, <3>1 DEF Results, Vpns
    <3> QED BY <1>6, <2>1, <3>2 DEF Up, Results
  <2>3. req' \in [Requests -> Records]
    BY <1>6, MoveType, PointsLegal DEF Up
  <2> QED BY <1>6, <2>2, <2>3 DEF Up, Rest, fsVars, unlocked
<1>7. CASE Back(r)
  <2>1. vpn' \in Vpns
    BY <1>7, UpType DEF Back, Results
  <2>2. req' \in [Requests -> Records]
    BY <1>7, MoveType, PointsLegal DEF Back
  <2> QED BY <1>7, <2>1, <2>2 DEF Back, Rest, fsVars, unlocked
<1>8. CASE Fence(r)
  <2>1. vpn' \in Vpns
    BY <1>8, KillswitchType DEF Fence, Results
  <2>2. req' \in [Requests -> Records] /\ lock' \in Requests \cup {Free}
    BY <1>8, MoveType, PointsLegal, FinishType DEF Fence, Replies
  <2> QED BY <1>8, <2>1, <2>2 DEF Fence, Rest, fsVars, unlocked
<1>9. CASE FenceBack(r)
  BY <1>9, FinishType, KillswitchType DEF FenceBack, Rest, Results, Replies, fsVars, unlocked
<1>10. CASE FenceFail(r)
  BY <1>10, FinishType, KillswitchType DEF FenceFail, Rest, Results, Replies, fsVars, unlocked
<1>11. CASE OvKill(r)
  BY <1>11, MoveType, PointsLegal, DownType DEF OvKill, Rest, Results, fsVars, unlocked
<1>12. CASE OvFence(r)
  BY <1>12, MoveType, PointsLegal, KillswitchType
     DEF OvFence, Rest, Results, fsVars, unlocked
<1>13. CASE OvInit(r)
  <2>1. vpn' \in Vpns
    BY <1>13, InitVpnType DEF OvInit, Results
  <2>2. req' \in [Requests -> Records] /\ lock' \in Requests \cup {Free}
    BY <1>13, FinishType DEF OvInit, Replies
  <2> QED BY <1>13, <2>1, <2>2 DEF OvInit, Rest, fsVars, unlocked
<1>14. CASE TimesOut(r)
  <2>1. Effect(r) \in Vpns
    BY DownType, UpType, KillswitchType, InitVpnType DEF Effect, Results
  <2>2. Halfway(r) \subseteq Vpns
    BY <2>1 DEF Halfway, Vpns, Kinds, RuleSets
  <2> QED BY <1>14, <2>1, <2>2, FinishType DEF TimesOut, Rest, Replies, fsVars, unlocked
<1>15. CASE OpenvpnActivated(r)
  <2> DEFINE up == InitVpn(vpn, server)
  <2>1. vpn' \in Vpns
    <3>1. up \in Results
      BY InitVpnType
    <3> QED BY <1>15, <3>1 DEF OpenvpnActivated, Results, Vpns, Kinds
  <2>2. active' \in Names \cup OvpnFiles \cup {None}
    BY <1>15 DEF OpenvpnActivated, WantKind
  <2>3. req' \in [Requests -> Records]
    <3>1. PICK reply \in Replies :
            req' = [req EXCEPT ![r].pc = "done", ![r].reply = reply]
      BY <1>15 DEF OpenvpnActivated, Replies
    <3> QED BY <3>1, EditType, PointsLegal
  <2> QED BY <1>15, <2>1, <2>2, <2>3 DEF OpenvpnActivated, fsVars, unlocked
<1> QED BY <1>1, <1>2, <1>3, <1>4, <1>5, <1>6, <1>7, <1>8, <1>9, <1>10, <1>11,
           <1>12, <1>13, <1>14, <1>15 DEF Step

(* The commands that take no lock. *)
LEMMA TypeUnlocked ==
  ASSUME TypeOK, Unlocked
  PROVE  TypeOK'
<1> USE DEF TypeOK
<1>0. Budget => commands' \in 0..MaxCommands
  BY ConnectAssumption DEF Budget
<1>1. ASSUME NEW v \in Vpns, Command(v)
      PROVE  TypeOK'
  BY <1>0, <1>1 DEF Command, fsVars
<1>2. CASE VpnRestart
  <2>1. StopTunnel(vpn) \in Vpns /\ vpn.type \in Kinds
    BY StopType DEF Vpns
  <2> QED BY <1>0, <1>2, <2>1 DEF VpnRestart, fsVars
<1>3. CASE VpnDisconnect
  BY <1>1, <1>3, ControlType DEF VpnDisconnect, Results
<1>4. CASE KillswitchEnable
  BY <1>1, <1>4, KillswitchType DEF KillswitchEnable, Results
<1>5. CASE KillswitchDisable
  BY <1>1, <1>5, ControlType DEF KillswitchDisable, Results
<1>6. ASSUME NEW n \in Names, ActivateWireguard(n)
      PROVE  TypeOK'
  <2>1. Read(dir, link, n) \in WgFiles
    BY <1>6, ReadType DEF ActivateWireguard
  <2>2. raising' \in Raisings
    BY <1>6, <2>1 DEF ActivateWireguard, Raisings
  <2>3. WgQuickDown(vpn).vpn \in Vpns
    BY DownType DEF Results
  <2> QED BY <1>0, <1>6, <2>2, <2>3 DEF ActivateWireguard, fsVars
<1>7. CASE ServerChanges
  <2>1. server' \in [Files -> Conditions]
    BY <1>7 DEF ServerChanges, Conditions
  <2> QED BY <1>7, <2>1 DEF ServerChanges, fsVars, unlocked
<1>8. CASE VpnRestartStarts
  <2>1. StartTunnel(mqtt, vpn, server).vpn \in Vpns
    BY StartType DEF Results
  <2> QED BY <1>8, <2>1 DEF VpnRestartStarts, fsVars
<1> QED BY <1>2, <1>3, <1>4, <1>5, <1>6, <1>7, <1>8 DEF Unlocked

(* The steps of an activation that holds the loop. *)
LEMMA TypeRaising ==
  ASSUME TypeOK, Raising
  PROVE  TypeOK'
<1> USE DEF TypeOK
<1>1. NotRaising \in Raisings /\ \A s \in {"up", "fence"} : [raising EXCEPT !.step = s] \in Raisings
  BY DEF NotRaising, Raisings
<1>2. CASE RuntimeWritten
  <2>1. [vpn EXCEPT !.runtime = raising.file] \in Vpns
    BY DEF Vpns, Raisings
  <2> QED BY <1>1, <1>2, <2>1 DEF RuntimeWritten, fsVars
<1>3. CASE Raised
  <2>1. WgQuickUp(vpn, server).vpn \in Vpns
    BY UpType DEF Results
  <2> QED BY <1>1, <1>3, <2>1 DEF Raised, fsVars
<1>4. CASE Fenced
  <2>1. InitKillswitch(vpn).vpn \in Vpns
    BY KillswitchType DEF Results
  <2>2. [InitKillswitch(vpn).vpn EXCEPT !.type = "wireguard"] \in Vpns
    BY <2>1 DEF Vpns, Kinds
  <2>3. raising.name \in Names \cup {None}
    BY DEF Raisings
  <2> QED BY <1>1, <1>4, <2>2, <2>3 DEF Fenced, fsVars
<1> QED BY <1>2, <1>3, <1>4 DEF Raising

(* A step of a request changes no other request. *)
LEMMA OnlyOwn ==
  ASSUME TypeOK, NEW r \in Requests, Handler(r) \/ Step(r), NEW o \in Requests \ {r}
  PROVE  req'[o] = req[o]
<1>1. req \in [Requests -> Records]
  BY DEF TypeOK
<1>2. CASE Handler(r)
  BY <1>1, <1>2 DEF Handler, Refused, Reconnect, ChooseFile, AskServers, ActivateOpenvpn,
     StartWireguard, StartOpenvpn
<1>3. CASE Step(r)
  BY <1>1, <1>3 DEF Step, ServersListed, Resolved, NotResolved, PostConnect, Down, Up,
     Back, Fence, FenceBack, FenceFail, OvKill, OvFence, OvInit, TimesOut,
     OpenvpnActivated, StartWireguard, Finish, MoveTo
<1> QED BY <1>2, <1>3

(* What runs without the lock changes no request and not the lock. *)
LEMMA UnlockedKeeps ==
  ASSUME Unlocked \/ Raising
  PROVE  UNCHANGED <<lock, req, fsVars, hostname>>
BY DEF Unlocked, VpnRestart, VpnRestartStarts, VpnDisconnect, KillswitchEnable,
   KillswitchDisable, ActivateWireguard, ServerChanges, Command, Raising, RuntimeWritten,
   Raised, Fenced

LEMMA WantNext ==
  ASSUME TypeOK, WantKind, Next
  PROVE  WantKind'
<1> USE DEF WantKind, At
<1>1. req \in [Requests -> Records]
  BY DEF TypeOK
<1>2. ASSUME NEW r \in Requests, Handler(r) PROVE WantKind'
  <2>1. CASE ActivateOpenvpn(r)
    <3>1. PICK f \in OvpnFiles :
            req' = [req EXCEPT ![r].pc = "slept", ![r].op = "activate", ![r].want = f]
      BY <2>1 DEF ActivateOpenvpn
    <3>2. req'[r].pc = "slept" /\ req'[r].want = f
      BY <1>1, <3>1 DEF Records
    <3> QED BY <1>2, <3>2, OnlyOwn
  <2>2. CASE ~ActivateOpenvpn(r)
    <3>1. req'[r].pc \notin {"resolve", "slept"}
      BY <1>1, <1>2, <2>2 DEF Handler, Refused, Reconnect, ChooseFile, AskServers,
         StartWireguard, StartOpenvpn, Records
    <3> QED BY <1>2, <3>1, OnlyOwn
  <2> QED BY <2>1, <2>2
<1>3. ASSUME NEW r \in Requests, Step(r) PROVE WantKind'
  <2>1. ASSUME NEW s \in WgFiles, req' = [req EXCEPT ![r].pc = "resolve", ![r].want = s]
        PROVE  WantKind'
    <3>1. req'[r].pc = "resolve" /\ req'[r].want = s
      BY <1>1, <2>1 DEF Records
    <3> QED BY <1>3, <3>1, OnlyOwn
  <2>2. CASE \A s \in WgFiles : req' # [req EXCEPT ![r].pc = "resolve", ![r].want = s]
    <3>1. CASE ServersListed(r) \/ NotResolved(r) \/ PostConnect(r) \/ TimesOut(r)
      <4>1. req'[r].pc = "done"
        BY <2>2, <3>1, FinishFields DEF ServersListed, Candidates, NotResolved, PostConnect, TimesOut
      <4> QED BY <1>3, <4>1, OnlyOwn
    <3>2. CASE Resolved(r)
      <4>1. req'[r].pc = "down"
        BY <1>1, <3>2 DEF Resolved, StartWireguard
      <4> QED BY <1>3, <4>1, OnlyOwn
    <3>3. CASE Down(r) \/ Up(r) \/ Back(r) \/ OvKill(r) \/ OvFence(r)
      <4>1. req'[r].pc \in {"up", "fence", "back", "fencefail", "fenceback", "ovfence", "ovinit"}
        BY <3>3, MoveFields DEF Down, Up, Back, OvKill, OvFence
      <4> QED BY <1>3, <4>1, OnlyOwn
    <3>4. CASE Fence(r) \/ FenceBack(r) \/ FenceFail(r) \/ OvInit(r)
      <4>1. req'[r].pc \in {"done", "post"}
        BY <3>4, FinishFields, MoveFields DEF Fence, FenceBack, FenceFail, OvInit
      <4> QED BY <1>3, <4>1, OnlyOwn
    <3>5. CASE OpenvpnActivated(r)
      <4>1. PICK reply : req' = [req EXCEPT ![r].pc = "done", ![r].reply = reply]
        BY <3>5 DEF OpenvpnActivated
      <4>2. req'[r].pc = "done"
        BY <1>1, <4>1 DEF Records
      <4> QED BY <1>3, <4>2, OnlyOwn
    <3> QED BY <1>3, <3>1, <3>2, <3>3, <3>4, <3>5 DEF Step
  <2> QED BY <2>1, <2>2
<1>4. CASE Unlocked \/ Raising
  BY <1>4, UnlockedKeeps
<1> QED BY <1>2, <1>3, <1>4 DEF Next, Resumes

LEMMA TypeNext == TypeOK /\ WantKind /\ [Next]_vars => TypeOK' /\ WantKind'
<1>1. CASE UNCHANGED vars
  BY <1>1 DEF TypeOK, WantKind, At, vars, fsVars, unlocked
<1> QED BY <1>1, TypeHandler, TypeStep, TypeUnlocked, TypeRaising, WantNext DEF Next, Resumes

(* Whatever the interleaving, every variable keeps its type. *)
THEOREM TypeCorrect == Spec => [](TypeOK /\ WantKind)
<1>1. Init => WantKind
  BY DEF Init, WantKind, At
<1> QED BY <1>1, TypeInit, TypeNext, PTL DEF Spec

-----------------------------------------------------------------------------
(* Mutual exclusion. *)

(* Who steps in or out of the pipeline held the lock, found it free, or     *)
(* left it alone: then nobody else is in there.                             *)
LEMMA Excludes ==
  ASSUME TypeOK, OneAtATime, NEW r \in Requests, Handler(r) \/ Step(r),
         Working(r) \/ lock = Free \/ lock' = lock,
         req'[r].pc \in Pipeline => lock' = r
  PROVE  OneAtATime'
<1> SUFFICES ASSUME NEW o \in Requests, req'[o].pc \in Pipeline
             PROVE  lock' = o
  BY DEF OneAtATime, Working
<1>1. CASE o = r
  BY <1>1
<1>2. CASE o # r
  <2>1. req[o].pc \in Pipeline
    BY <1>2, OnlyOwn
  <2>2. lock = o
    BY <2>1 DEF OneAtATime, Working
  <2> QED BY <1>2, <2>2, ConnectAssumption DEF OneAtATime, Working
<1> QED BY <1>1, <1>2

(* Where in the pipeline each step is taken, and where it leads. *)
LEMMA StepLock ==
  ASSUME TypeOK, NEW r \in Requests, Step(r)
  PROVE  \/ Working(r) /\ (lock' = lock \/ req'[r].pc = "done")
         \/ lock' = lock /\ req'[r].pc = "done"
<1> USE DEF Working, At, Pipeline, Commanding
<1>1. CASE ServersListed(r) \/ NotResolved(r) \/ PostConnect(r) \/ TimesOut(r)
  BY <1>1, FinishFields DEF ServersListed, NotResolved, PostConnect, TimesOut
<1>2. CASE Resolved(r)
  BY <1>2 DEF Resolved
<1>3. CASE Down(r) \/ Up(r) \/ Back(r) \/ OvKill(r) \/ OvFence(r)
  BY <1>3 DEF Down, Up, Back, OvKill, OvFence
<1>4. CASE Fence(r) \/ FenceBack(r) \/ FenceFail(r) \/ OvInit(r)
  BY <1>4, FinishFields DEF Fence, FenceBack, FenceFail, OvInit
<1>5. CASE OpenvpnActivated(r)
  <2>1. PICK reply : req' = [req EXCEPT ![r].pc = "done", ![r].reply = reply]
    BY <1>5 DEF OpenvpnActivated
  <2>2. req'[r].pc = "done"
    BY <2>1 DEF TypeOK, Records
  <2> QED BY <1>5, <2>2 DEF OpenvpnActivated
<1> QED BY <1>1, <1>2, <1>3, <1>4, <1>5 DEF Step

LEMMA OneAtATimeNext ==
  ASSUME TypeOK, OneAtATime, [Next]_vars
  PROVE  OneAtATime'
<1>1. ASSUME NEW r \in Requests, Handler(r) PROVE OneAtATime'
  <2>1. CASE Refused(r)
    <3>1. req'[r].pc = "done" /\ lock' = lock
      BY <2>1 DEF Refused, TypeOK, Records
    <3> QED BY <1>1, <3>1, Excludes DEF Pipeline, Commanding
  <2>2. CASE ActivateOpenvpn(r)
    <3>1. PICK f \in OvpnFiles :
            req' = [req EXCEPT ![r].pc = "slept", ![r].op = "activate", ![r].want = f]
      BY <2>2 DEF ActivateOpenvpn
    <3>2. req'[r].pc = "slept"
      BY <3>1 DEF TypeOK, Records
    <3> QED BY <1>1, <2>2, <3>2, Excludes DEF ActivateOpenvpn, Pipeline, Commanding
  <2>3. CASE Reconnect(r) \/ \E op \in {"connect", "rotate"} : ChooseFile(r, op) \/ AskServers(r, op)
    <3>1. lock = Free /\ lock' = r
      BY <2>3 DEF Reconnect, ChooseFile, AskServers, Acquire
    <3> QED BY <1>1, <3>1, Excludes
  <2> QED BY <1>1, <2>1, <2>2, <2>3 DEF Handler
<1>2. ASSUME NEW r \in Requests, Step(r) PROVE OneAtATime'
  BY <1>2, StepLock, Excludes DEF OneAtATime, Pipeline, Commanding, Working
<1>3. CASE Unlocked \/ Raising
  BY <1>3, UnlockedKeeps DEF OneAtATime, Working
<1>4. CASE UNCHANGED vars
  BY <1>4 DEF vars, OneAtATime, Working
<1> QED BY <1>1, <1>2, <1>3, <1>4 DEF Next, Resumes

(* No two requests work on the tunnel at the same time, for any number of   *)
(* requests, servers and files, with or without a provider and timeouts.    *)
THEOREM MutualExclusion == Spec => []OneAtATime
<1>1. Init => OneAtATime
  BY DEF Init, OneAtATime, Working, Pipeline, Commanding
<1>2. Spec => []TypeOK
  BY TypeCorrect, PTL
<1> QED BY <1>1, <1>2, OneAtATimeNext, PTL DEF Spec

-----------------------------------------------------------------------------
(* The pipeline with a provider while nothing acts without the lock.  The   *)
(* request that holds it owns the tunnel: Stage says how far it has got.    *)

Alone == Api /\ OvpnFiles = {} /\ MaxCommands = 0

(* What the three commands of the pipeline do to a WireGuard tunnel. *)
LEMMA DownEffect ==
  ASSUME NEW v \in Vpns, WgOnly(v)
  PROVE  LET w == WgQuickDown(v).vpn
         IN  WgOnly(w) /\ w.wg = None /\ w.runtime = v.runtime
BY DEF WgQuickDown, Done, Failed, Vpns, WgOnly

LEMMA UpEffect ==
  ASSUME NEW v \in Vpns, WgOnly(v), v.wg = None
  PROVE  LET up == WgQuickUp(v, server)
         IN  /\ WgOnly(up.vpn) /\ up.vpn.runtime = v.runtime
             /\ up.ok => up.vpn.wg = v.runtime /\ v.runtime # None
             /\ ~up.ok => up.vpn = v /\ (v.runtime # None => server[v.runtime] = "rejected")
BY DEF WgQuickUp, Done, Failed, Vpns, WgOnly

LEMMA FenceEffect ==
  ASSUME NEW v \in Vpns, WgOnly(v)
  PROVE  LET w == InitKillswitch(v).vpn
         IN  /\ WgOnly(w) /\ w.wg = v.wg
             /\ v.wg # None => FencedFor(w, v.wg)
BY DEF InitKillswitch, Endpoint, Done, Failed, FencedFor, Vpns, WgOnly, Open

(* A step of the lock's holder disturbs nobody else: nobody else is there. *)
LEMMA StageOthers ==
  ASSUME PipelineInv, NEW r \in Requests, Handler(r) \/ Step(r),
         Working(r) \/ lock = Free \/ vpn' = vpn, NEW o \in Requests \ {r}
  PROVE  Stage(o)' /\ req'[o].pc \notin {"ovkill", "ovfence", "ovinit", "slept"}
<1>1. req'[o] = req[o]
  BY OnlyOwn DEF PipelineInv
<1>2. CASE vpn' = vpn
  BY <1>1, <1>2 DEF PipelineInv, Stage, At, FencedFor
<1>3. CASE Working(r) \/ lock = Free
  <2>1. req[o].pc \notin Pipeline
    BY <1>3, ConnectAssumption DEF PipelineInv, OneAtATime, Working
  <2>2. req[o].pc \notin {"ovkill", "ovfence", "ovinit", "slept"}
    BY DEF PipelineInv
  <2> QED BY <1>1, <2>1, <2>2 DEF Stage, At, Pipeline, Commanding
<1> QED BY <1>2, <1>3

(* Only a killed command leaves the pipeline in disorder, and it ends it. *)
LEMMA EffectWg ==
  ASSUME PipelineInv, NEW r \in Requests, req[r].pc \in Commanding
  PROVE  WgOnly(Effect(r))
<1>1. vpn \in Vpns /\ WgOnly(vpn) /\ req[r].pc \notin {"ovkill", "ovfence", "ovinit"}
  BY DEF PipelineInv, TypeOK
<1>2. CASE At(r, "down")
  <2>1. Effect(r) = WgQuickDown(vpn).vpn
    BY <1>2 DEF Effect, At
  <2> QED BY <1>1, <2>1, DownEffect
<1>3. CASE req[r].pc \in {"up", "back"}
  <2>1. Effect(r) = WgQuickUp(vpn, server).vpn
    BY <1>3 DEF Effect, At
  <2>2. vpn.wg = None
    BY <1>3 DEF PipelineInv, Stage, At
  <2> QED BY <1>1, <2>1, <2>2, UpEffect
<1>4. CASE req[r].pc \in {"fence", "fenceback", "fencefail"}
  <2>1. Effect(r) = InitKillswitch(vpn).vpn
    BY <1>4 DEF Effect, At
  <2> QED BY <1>1, <2>1, FenceEffect
<1> QED BY <1>1, <1>2, <1>3, <1>4 DEF Commanding, At

LEMMA PipelineInit == Alone /\ Init => PipelineInv
<1> SUFFICES ASSUME Alone, Init PROVE PipelineInv
  OBVIOUS
<1>1. DetectedType = "wireguard"
  BY FilesAssumption DEF Alone, DetectedType, Files, Kinds
<1>2. WgOnly(BootVpn)
  BY <1>1 DEF BootVpn, InitKillswitch, Endpoint, Done, Failed, InterfaceOf, WgOnly
<1>3. link = None /\ vpn = BootVpn /\ raising = NotRaising /\ mqtt = None
  BY DEF Init
<1>4. ASSUME NEW r \in Requests PROVE req[r].pc = "new"
  BY DEF Init
<1> QED BY <1>2, <1>3, <1>4, TypeInit
        DEF PipelineInv, OneAtATime, Working, Pipeline, Commanding, Stage, At

(* The loop's own steps leave the other threads alone, and the others do    *)
(* nothing when they have no commands to run.                               *)
LEMMA LoopKeeps ==
  ASSUME NEW r \in Requests, Handler(r) \/ Step(r)
  PROVE  UNCHANGED <<server, unlocked>>
BY DEF Handler, Refused, Reconnect, ChooseFile, AskServers, ActivateOpenvpn,
   Step, ServersListed, Resolved, NotResolved, PostConnect, Down, Up, Back, Fence,
   FenceBack, FenceFail, OvKill, OvFence, OvInit, TimesOut, OpenvpnActivated, Rest

LEMMA Undisturbed ==
  ASSUME Alone, PipelineInv, Unlocked \/ Raising
  PROVE  ServerChanges
<1>1. commands \in 0..0
  BY DEF Alone, PipelineInv, TypeOK
<1>2. ~Budget
  BY <1>1 DEF Alone, Budget
<1>3. ~Raising /\ ~VpnRestartStarts
  BY DEF PipelineInv, Raising, RuntimeWritten, Raised, Fenced, NotRaising, VpnRestartStarts
<1> QED BY <1>2, <1>3 DEF Unlocked, VpnRestart, VpnDisconnect, KillswitchEnable,
       KillswitchDisable, ActivateWireguard, Command

(* What is left to show of a step of r once the general lemmas are used.    *)
LEMMA Assemble ==
  ASSUME PipelineInv, WantKind, NEW r \in Requests, Handler(r) \/ Step(r),
         Working(r) \/ lock = Free \/ vpn' = vpn,
         link' = None, WgOnly(vpn'), Stage(r)',
         req'[r].pc \notin {"ovkill", "ovfence", "ovinit", "slept"}
  PROVE  PipelineInv'
<1>1. TypeOK' /\ OneAtATime'
  BY TypeHandler, TypeStep, OneAtATimeNext DEF PipelineInv, Next, Resumes
<1>2. raising' = NotRaising /\ mqtt' = None
  BY LoopKeeps DEF PipelineInv, unlocked
<1>3. ASSUME NEW o \in Requests
      PROVE  req'[o].pc \notin {"ovkill", "ovfence", "ovinit", "slept"} /\ Stage(o)'
  BY StageOthers
<1> QED BY <1>1, <1>2, <1>3 DEF PipelineInv

(* The handlers start from a tunnel nobody else is working on. *)
LEMMA PipelineHandler ==
  ASSUME Alone, PipelineInv, WantKind, NEW r \in Requests, Handler(r)
  PROVE  PipelineInv'
<1> USE DEF At
<1>1. req \in [Requests -> Records] /\ vpn \in Vpns /\ link = None /\ WgOnly(vpn)
  BY DEF PipelineInv, TypeOK
<1>2. CASE Refused(r)
  <2>1. req'[r].pc = "done"
    BY <1>1, <1>2 DEF Refused, Records
  <2> QED BY <1>1, <1>2, <2>1, Assemble DEF Refused, fsVars, unlocked, Stage
<1>3. CASE Reconnect(r)
  <2> DEFINE current == Read(dir, link, Wg0)
             want == IF current = None THEN vpn.runtime ELSE current
  <2>1. StartWireguard(r, "reconnect", want, vpn) /\ lock = Free /\ UNCHANGED fsVars
    BY <1>1, <1>3 DEF Reconnect, WgOnly, Acquire
  <2>2. vpn' = [vpn EXCEPT !.runtime = want]
    BY <1>1, <2>1 DEF StartWireguard, fsVars, unlocked, Vpns
  <2>3. req'[r].pc = "down" /\ req'[r].want = want
    BY <1>1, <2>1 DEF StartWireguard
  <2>4. WgOnly(vpn') /\ vpn'.runtime = want
    BY <1>1, <2>2 DEF WgOnly, Vpns
  <2>5. Stage(r)'
    BY <2>3, <2>4 DEF Stage
  <2> QED BY <1>1, <1>3, <2>1, <2>3, <2>4, <2>5, Assemble DEF fsVars, unlocked, Handler
<1>4. ASSUME NEW op \in {"connect", "rotate"}, AskServers(r, op)
      PROVE  PipelineInv'
  <2>1. req'[r].pc = "list"
    BY <1>1, <1>4 DEF AskServers, Records
  <2> QED BY <1>1, <1>4, <2>1, Assemble DEF AskServers, fsVars, unlocked, Stage, Handler
<1> QED BY <1>2, <1>3, <1>4 DEF Handler, Alone, ChooseFile, ActivateOpenvpn

LEMMA PipelineStep ==
  ASSUME Alone, PipelineInv, WantKind, NEW r \in Requests, Step(r)
  PROVE  PipelineInv'
<1> USE DEF At
<1>1. /\ req \in [Requests -> Records] /\ vpn \in Vpns /\ link = None /\ WgOnly(vpn)
      /\ TypeOK /\ Stage(r) /\ req[r].pc \notin {"ovkill", "ovfence", "ovinit", "slept"}
  BY DEF PipelineInv, TypeOK
<1>2. CASE ServersListed(r) \/ NotResolved(r) \/ PostConnect(r)
  <2>1. vpn' = vpn /\ link' = link
    BY <1>2 DEF ServersListed, NotResolved, PostConnect, fsVars, unlocked
  <2>2. req'[r].pc \in {"done", "resolve"}
    <3>1. CASE Finish(r, "failed") \/ Finish(r, "ok")
      BY <1>1, <3>1, FinishFields
    <3>2. ASSUME NEW s \in WgFiles, req' = [req EXCEPT ![r].pc = "resolve", ![r].want = s]
          PROVE  req'[r].pc = "resolve"
      BY <1>1, <3>2 DEF Records
    <3> QED BY <1>2, <3>1, <3>2 DEF ServersListed, Candidates, NotResolved, PostConnect
  <2>3. Stage(r)'
    BY <2>2 DEF Stage
  <2> QED BY <1>1, <2>1, <2>2, <2>3, Assemble
<1>3. CASE Resolved(r)
  <2>1. dir'[Wg0] = req[r].want /\ link' = None /\ req[r].want \in WgFiles
    BY <1>1, <1>3 DEF Resolved, WriteWg0, WantKind, TypeOK, Names
  <2>2. Read(dir', link', Wg0) = req[r].want /\ req[r].want # None
    BY <2>1, FilesAssumption DEF Read, Files
  <2>3. vpn' = [[vpn EXCEPT !.type = "wireguard"] EXCEPT !.runtime = req[r].want]
    BY <1>3, <2>2 DEF Resolved, StartWireguard
  <2>4. WgOnly(vpn') /\ vpn'.runtime = req[r].want
    BY <1>1, <2>3 DEF WgOnly, Vpns
  <2>5. req'[r].pc = "down" /\ req'[r].want = req[r].want
    BY <1>1, <1>3 DEF Resolved, StartWireguard
  <2>6. Stage(r)'
    BY <2>4, <2>5 DEF Stage
  <2> QED BY <1>3, <2>1, <2>4, <2>5, <2>6, Assemble DEF Working, Pipeline, Resolved
<1>4. CASE Down(r)
  <2>1. vpn' = WgQuickDown(vpn).vpn /\ link' = link
    BY <1>4 DEF Down, Rest, fsVars, unlocked
  <2>2. req'[r].pc = "up" /\ req'[r].want = req[r].want
    BY <1>1, <1>4, MoveFields DEF Down
  <2>3. WgOnly(vpn') /\ vpn'.wg = None /\ vpn'.runtime = vpn.runtime
    BY <1>1, <2>1, DownEffect
  <2>4. Stage(r)'
    BY <1>1, <1>4, <2>2, <2>3 DEF Stage, Down
  <2> QED BY <1>1, <1>4, <2>1, <2>2, <2>3, <2>4, Assemble
          DEF Working, Pipeline, Commanding, Down
<1>5. CASE Up(r)
  <2> DEFINE up == WgQuickUp(vpn, server)
  <2>1. vpn.runtime = req[r].want /\ vpn.wg = None
    BY <1>1, <1>5 DEF Stage, Up
  <2>2. /\ WgOnly(up.vpn) /\ up.vpn.runtime = vpn.runtime
        /\ up.ok => up.vpn.wg = vpn.runtime /\ vpn.runtime # None
        /\ ~up.ok => up.vpn = vpn
    BY <1>1, <2>1, UpEffect
  <2>3. /\ link' = link /\ req'[r].want = req[r].want /\ req'[r].prev = req[r].prev
        /\ req'[r].pc = IF up.ok THEN "fence"
                        ELSE IF req[r].prev # None THEN "back" ELSE "fencefail"
    BY <1>1, <1>5, MoveFields DEF Up, Rest, fsVars, unlocked
  <2>4. CASE up.ok
    <3>1. vpn' = up.vpn
      BY <1>5, <2>4 DEF Up
    <3>2. Stage(r)'
      BY <2>1, <2>2, <2>3, <2>4, <3>1 DEF Stage
    <3> QED BY <1>1, <1>5, <2>2, <2>3, <2>4, <3>1, <3>2, Assemble
            DEF Working, Pipeline, Commanding, Up
  <2>5. CASE ~up.ok
    <3>1. vpn' = IF req[r].prev = None THEN vpn ELSE [vpn EXCEPT !.runtime = req[r].prev]
      BY <1>5, <2>2, <2>5 DEF Up
    <3>2. /\ WgOnly(vpn') /\ vpn'.wg = None
          /\ req[r].prev # None => vpn'.runtime = req[r].prev
      BY <1>1, <2>1, <3>1 DEF WgOnly, Vpns
    <3>3. Stage(r)'
      BY <2>3, <2>5, <3>2 DEF Stage
    <3> QED BY <1>1, <1>5, <2>3, <2>5, <3>2, <3>3, Assemble
            DEF Working, Pipeline, Commanding, Up
  <2> QED BY <2>4, <2>5
<1>6. CASE Back(r)
  <2> DEFINE up == WgQuickUp(vpn, server)
  <2>1. vpn.runtime = req[r].prev /\ vpn.wg = None
    BY <1>1, <1>6 DEF Stage, Back
  <2>2. /\ WgOnly(up.vpn)
        /\ up.ok => up.vpn.wg = vpn.runtime /\ vpn.runtime # None
    BY <1>1, <2>1, UpEffect
  <2>3. /\ link' = link /\ vpn' = up.vpn /\ req'[r].prev = req[r].prev
        /\ req'[r].pc = IF up.ok THEN "fenceback" ELSE "fencefail"
    BY <1>1, <1>6, MoveFields DEF Back, Rest, fsVars, unlocked
  <2>4. Stage(r)'
    BY <2>1, <2>2, <2>3 DEF Stage
  <2> QED BY <1>1, <1>6, <2>2, <2>3, <2>4, Assemble
          DEF Working, Pipeline, Commanding, Back
<1>7. CASE Fence(r)
  <2>1. vpn.wg = req[r].want /\ req[r].want # None
    BY <1>1, <1>7 DEF Stage, Fence
  <2>2. vpn' = InitKillswitch(vpn).vpn /\ link' = link
    BY <1>7 DEF Fence, Rest, fsVars, unlocked
  <2>3. WgOnly(vpn') /\ vpn'.wg = req[r].want /\ FencedFor(vpn', req[r].want)
    BY <1>1, <2>1, <2>2, FenceEffect
  <2>4. req'[r].pc \in {"post", "done"} /\ req'[r].want = req[r].want
    BY <1>1, <1>7, MoveFields, FinishFields DEF Fence
  <2>5. Stage(r)'
    BY <2>3, <2>4 DEF Stage, FencedFor
  <2> QED BY <1>1, <1>7, <2>2, <2>3, <2>4, <2>5, Assemble
          DEF Working, Pipeline, Commanding, Fence
<1>8. CASE FenceBack(r) \/ FenceFail(r)
  <2>1. vpn' = InitKillswitch(vpn).vpn /\ link' = link
    BY <1>8 DEF FenceBack, FenceFail, Rest, fsVars, unlocked
  <2>2. WgOnly(vpn')
    BY <1>1, <2>1, FenceEffect
  <2>3. req'[r].pc = "done"
    BY <1>1, <1>8, FinishFields DEF FenceBack, FenceFail
  <2>4. Stage(r)'
    BY <2>3 DEF Stage
  <2> QED BY <1>1, <1>8, <2>1, <2>2, <2>3, <2>4, Assemble
          DEF Working, Pipeline, Commanding, FenceBack, FenceFail
<1>9. CASE TimesOut(r)
  <2>0. \A v \in Halfway(r) : WgOnly(v)
    BY <1>1, <1>9, EffectWg DEF Halfway, TimesOut, Vpns, WgOnly, PipelineInv, At
  <2>1. WgOnly(vpn') /\ link' = link /\ Working(r)
    BY <1>1, <1>9, <2>0, EffectWg DEF TimesOut, Rest, fsVars, unlocked, Working, Pipeline
  <2>2. req'[r].pc = "done"
    BY <1>1, <1>9, FinishFields DEF TimesOut
  <2>3. Stage(r)'
    BY <2>2 DEF Stage
  <2> QED BY <1>1, <2>1, <2>2, <2>3, Assemble
<1> QED BY <1>1, <1>2, <1>3, <1>4, <1>5, <1>6, <1>7, <1>8, <1>9
        DEF Step, OvKill, OvFence, OvInit, OpenvpnActivated

LEMMA PipelineNext ==
  ASSUME Alone, PipelineInv, WantKind, [Next]_vars
  PROVE  PipelineInv'
<1>1. CASE Unlocked \/ Raising
  <2>1. ServerChanges
    BY <1>1, Undisturbed
  <2>2. TypeOK'
    BY <1>1, TypeUnlocked, TypeRaising DEF PipelineInv
  <2> QED BY <2>1, <2>2 DEF ServerChanges, fsVars, unlocked, PipelineInv, OneAtATime, Working,
          Stage, At, FencedFor
<1>2. CASE UNCHANGED vars
  <2>1. TypeOK'
    BY <1>2 DEF vars, fsVars, unlocked, PipelineInv, TypeOK
  <2> QED BY <1>2, <2>1 DEF vars, fsVars, unlocked, PipelineInv, OneAtATime, Working, Stage, At,
          FencedFor
<1> QED BY <1>1, <1>2, PipelineHandler, PipelineStep DEF Next, Resumes

(* While a request has the tunnel to itself, PipelineInv holds, also when   *)
(* commands are killed.                                                     *)
THEOREM PipelineCorrect ==
  ASSUME Alone
  PROVE  Spec => [](PipelineInv /\ WantKind)
<1>1. Init => PipelineInv /\ WantKind
  BY PipelineInit DEF Init, WantKind, At
<1>2. PipelineInv /\ WantKind /\ [Next]_vars => PipelineInv' /\ WantKind'
  BY PipelineNext, TypeNext DEF PipelineInv
<1> QED BY <1>1, <1>2, PTL DEF Spec

(* Only the last step of its own pipeline answers a request. *)
LEMMA WhoReplies ==
  ASSUME Alone, PipelineInv, [Next]_vars, NEW r \in Requests, NEW reply,
         Replied(r, reply)
  PROVE  \/ reply = "busy" /\ Refused(r)
         \/ reply = "ok" /\ (PostConnect(r) \/ Fence(r))
         \/ reply = "rolledback" /\ FenceBack(r)
         \/ reply = "failed" /\ (\/ ServersListed(r) \/ NotResolved(r) \/ PostConnect(r)
                                 \/ FenceFail(r) \/ TimesOut(r))
         \/ reply = "none" /\ (Handler(r) \/ Resolved(r))
<1>1. /\ req \in [Requests -> Records] /\ TypeOK
      /\ req[r].pc \notin {"ovkill", "ovfence", "ovinit", "slept"}
  BY DEF PipelineInv, TypeOK
<1>2. req'[r] # req[r]
  BY DEF Replied
<1>3. Handler(r) \/ Step(r)
  <2>1. CASE Unlocked \/ Raising
    BY <1>2, <2>1, UnlockedKeeps
  <2>2. CASE UNCHANGED vars
    BY <1>2, <2>2 DEF vars
  <2>3. ASSUME NEW o \in Requests, Handler(o) \/ Step(o)
        PROVE  Handler(r) \/ Step(r)
    BY <1>1, <1>2, <2>3, OnlyOwn
  <2> QED BY <2>1, <2>2, <2>3 DEF Next, Resumes
<1>4. CASE Handler(r)
  <2>1. CASE Refused(r)
    BY <1>1, <2>1 DEF Refused, Replied, Records
  <2>2. CASE Reconnect(r)
    BY <1>1, <2>2 DEF Reconnect, StartWireguard, StartOpenvpn, Replied, Handler
  <2>3. ASSUME NEW op \in {"connect", "rotate"}, AskServers(r, op) PROVE FALSE
    BY <1>1, <2>3 DEF AskServers, Replied, Records
  <2> QED BY <1>4, <2>1, <2>2, <2>3 DEF Handler, Alone, ChooseFile, ActivateOpenvpn
<1>5. CASE Step(r)
  <2>1. CASE ServersListed(r)
    <3>1. CASE Finish(r, "failed")
      BY <1>1, <2>1, <3>1, FinishFields DEF Replied
    <3>2. ASSUME NEW s \in WgFiles, req' = [req EXCEPT ![r].pc = "resolve", ![r].want = s]
          PROVE  FALSE
      BY <1>1, <3>2 DEF Records, Replied
    <3> QED BY <2>1, <3>1, <3>2 DEF ServersListed, Candidates
  <2>2. CASE NotResolved(r) \/ TimesOut(r) \/ FenceFail(r) \/ FenceBack(r) \/ PostConnect(r)
    BY <1>1, <2>2, FinishFields
       DEF NotResolved, TimesOut, FenceFail, FenceBack, PostConnect, Replied
  <2>3. CASE Fence(r)
    BY <1>1, <2>3, FinishFields, MoveFields DEF Fence, Replied
  <2>4. CASE Down(r) \/ Up(r) \/ Back(r)
    BY <1>1, <2>4, MoveFields DEF Down, Up, Back, Replied
  <2>5. CASE Resolved(r)
    BY <1>1, <2>5 DEF Resolved, StartWireguard, Replied
  <2> QED BY <1>1, <1>5, <2>1, <2>2, <2>3, <2>4, <2>5
          DEF Step, OvKill, OvFence, OvInit, OpenvpnActivated, At
<1> QED BY <1>3, <1>4, <1>5

(* "success" is said only of a tunnel to the very server that was asked     *)
(* for, behind a killswitch made for it: for every list of servers, every   *)
(* number of concurrent requests and every pattern of failures.             *)
THEOREM RepliesAreTruthful ==
  ASSUME Alone
  PROVE  Spec => ReplyTruthful
<1>1. ASSUME PipelineInv, [Next]_vars, NEW r \in Requests, Replied(r, "ok")
      PROVE  vpn'.wg = req[r].want /\ FencedFor(vpn', req[r].want)
  <2>1. vpn \in Vpns /\ WgOnly(vpn) /\ Stage(r)
    BY <1>1 DEF PipelineInv, TypeOK
  <2>2. PostConnect(r) \/ Fence(r)
    BY <1>1, WhoReplies
  <2>3. CASE PostConnect(r)
    BY <2>1, <2>3 DEF PostConnect, Stage, At, FencedFor
  <2>4. CASE Fence(r)
    BY <2>1, <2>4, FenceEffect DEF Fence, Stage, At
  <2> QED BY <2>2, <2>3, <2>4
<1>2. PipelineInv /\ [Next]_vars
        => [\A r \in Requests : Replied(r, "ok") =>
              vpn'.wg = req[r].want /\ FencedFor(vpn', req[r].want)]_vars
  BY <1>1
<1>3. Spec => []PipelineInv
  BY PipelineCorrect, PTL
<1> QED BY <1>2, <1>3, PTL DEF Spec, ReplyTruthful

(* "Rolled back" is said only when the previous server's tunnel is up again *)
(* and its killswitch loaded.                                               *)
THEOREM RollbacksRestore ==
  ASSUME Alone
  PROVE  Spec => RollbackRestores
<1>1. ASSUME PipelineInv, [Next]_vars, NEW r \in Requests, Replied(r, "rolledback")
      PROVE  vpn'.wg = req[r].prev /\ FencedFor(vpn', req[r].prev)
  <2>1. vpn \in Vpns /\ WgOnly(vpn) /\ Stage(r)
    BY <1>1 DEF PipelineInv, TypeOK
  <2>2. FenceBack(r)
    BY <1>1, WhoReplies
  <2> QED BY <2>1, <2>2, FenceEffect DEF FenceBack, Stage, At
<1>2. PipelineInv /\ [Next]_vars
        => [\A r \in Requests : Replied(r, "rolledback") =>
              vpn'.wg = req[r].prev /\ FencedFor(vpn', req[r].prev)]_vars
  BY <1>1
<1>3. Spec => []PipelineInv
  BY PipelineCorrect, PTL
<1> QED BY <1>2, <1>3, PTL DEF Spec, RollbackRestores

-----------------------------------------------------------------------------
(* What StrandedInv adds to PipelineInv. *)

PrevKnown(r) ==
  /\ req[r].pc \in {"new", "list", "resolve"} => req[r].prev = None
  /\ At(r, "fencefail") => req[r].prev \in CanReject \cup {None}
  /\ At(r, "post") => vpn.wg # None

RejectsKnown == \A f \in Files : server[f] = "rejected" => f \in CanReject

LEMMA StrandedParts ==
  StrandedInv <=> PipelineInv /\ RejectsKnown /\ \A r \in Requests : PrevKnown(r)
BY DEF StrandedInv, PrevKnown, RejectsKnown

(* Only the environment changes what servers do. *)
LEMMA RejectsNext ==
  ASSUME TypeOK, RejectsKnown, [Next]_vars
  PROVE  RejectsKnown'
<1>1. CASE ServerChanges
  BY <1>1 DEF ServerChanges, TypeOK, RejectsKnown
<1>2. CASE ~ServerChanges
  <2>1. server' = server
    BY <1>2, LoopKeeps DEF Next, Resumes, vars, Unlocked, VpnRestart, VpnRestartStarts,
       VpnDisconnect, KillswitchEnable, KillswitchDisable, ActivateWireguard, Command,
       Raising, RuntimeWritten, Raised, Fenced
  <2> QED BY <2>1 DEF RejectsKnown
<1> QED BY <1>1, <1>2

(* The request that steps. *)
LEMMA PrevOwn ==
  ASSUME Alone, ~Timeouts, StrandedInv, NEW r \in Requests, Handler(r) \/ Step(r)
  PROVE  PrevKnown(r)'
<1> USE DEF At
<1>1. /\ req \in [Requests -> Records] /\ TypeOK /\ vpn \in Vpns /\ WgOnly(vpn)
      /\ Stage(r) /\ PrevKnown(r) /\ RejectsKnown
      /\ req[r].pc \notin {"ovkill", "ovfence", "ovinit", "slept"}
  BY StrandedParts DEF PipelineInv, TypeOK
<1>2. CASE Refused(r)
  BY <1>1, <1>2 DEF Refused, PrevKnown, Records
<1>3. CASE Reconnect(r)
  BY <1>1, <1>3 DEF Reconnect, StartWireguard, StartOpenvpn, PrevKnown
<1>4. ASSUME NEW op \in {"connect", "rotate"}, AskServers(r, op) PROVE PrevKnown(r)'
  <2>1. req'[r].pc = "list" /\ req'[r].prev = req[r].prev
    BY <1>1, <1>4 DEF AskServers, Records
  <2> QED BY <1>1, <1>4, <2>1 DEF AskServers, PrevKnown
<1>5. CASE ServersListed(r)
  <2>1. CASE Finish(r, "failed")
    BY <1>1, <2>1, FinishFields DEF PrevKnown
  <2>2. ASSUME NEW s \in WgFiles, req' = [req EXCEPT ![r].pc = "resolve", ![r].want = s]
        PROVE  PrevKnown(r)'
    <3>1. req'[r].pc = "resolve" /\ req'[r].prev = req[r].prev
      BY <1>1, <2>2 DEF Records
    <3> QED BY <1>1, <1>5, <3>1 DEF ServersListed, PrevKnown
  <2> QED BY <1>5, <2>1, <2>2 DEF ServersListed, Candidates
<1>6. CASE NotResolved(r) \/ PostConnect(r) \/ FenceBack(r) \/ FenceFail(r)
  BY <1>1, <1>6, FinishFields DEF NotResolved, PostConnect, FenceBack, FenceFail, PrevKnown
<1>7. CASE Resolved(r)
  BY <1>1, <1>7 DEF Resolved, StartWireguard, PrevKnown
<1>8. CASE Down(r)
  BY <1>1, <1>8, MoveFields DEF Down, PrevKnown
<1>9. CASE Up(r)
  BY <1>1, <1>9, MoveFields DEF Up, PrevKnown
<1>10. CASE Back(r)
  <2>1. vpn.runtime = req[r].prev /\ vpn.wg = None
    BY <1>1, <1>10 DEF Stage, Back
  <2>2. ~WgQuickUp(vpn, server).ok => req[r].prev \in CanReject \cup {None}
    BY <1>1, <2>1, UpEffect DEF RejectsKnown, Vpns, Files
  <2> QED BY <1>1, <1>10, <2>2, MoveFields DEF Back, PrevKnown
<1>11. CASE Fence(r)
  <2>1. vpn.wg # None
    BY <1>1, <1>11 DEF Stage, Fence
  <2>2. vpn'.wg = vpn.wg
    BY <1>1, <1>11, FenceEffect DEF Fence
  <2> QED BY <1>1, <1>11, <2>1, <2>2, MoveFields, FinishFields DEF Fence, PrevKnown
<1> QED BY <1>1, <1>2, <1>3, <1>4, <1>5, <1>6, <1>7, <1>8, <1>9, <1>10, <1>11
        DEF Handler, Step, OvKill, OvFence, OvInit, OpenvpnActivated, TimesOut, Alone,
            ChooseFile, ActivateOpenvpn

(* The others wait, or have finished. *)
LEMMA PrevOthers ==
  ASSUME StrandedInv, NEW r \in Requests, Handler(r) \/ Step(r),
         NEW o \in Requests \ {r}
  PROVE  PrevKnown(o)'
<1>1. /\ TypeOK /\ OneAtATime /\ PrevKnown(o)
      /\ \A q \in Requests : req[q].pc \notin {"ovkill", "ovfence", "ovinit", "slept"}
  BY StrandedParts DEF PipelineInv
<1>2. req'[o] = req[o]
  BY <1>1, OnlyOwn
<1>3. CASE req[o].pc \notin Pipeline
  BY <1>1, <1>2, <1>3 DEF PrevKnown, At, Pipeline, Commanding
<1>4. CASE req[o].pc \in Pipeline
  <2>1. lock = o /\ ~Working(r) /\ lock # Free
    BY <1>1, <1>4, ConnectAssumption DEF OneAtATime, Working
  <2>2. CASE Step(r)
    BY <1>1, <2>1, <2>2 DEF Step, ServersListed, Resolved, NotResolved, PostConnect, Down, Up, Back,
       Fence, FenceBack, FenceFail, OvKill, OvFence, OvInit, TimesOut, OpenvpnActivated,
       At, Working, Pipeline, Commanding
  <2>3. CASE ActivateOpenvpn(r)
    <3>1. vpn' = KillallOpenvpn(vpn).vpn /\ vpn \in Vpns
      BY <1>1, <2>3 DEF ActivateOpenvpn, TypeOK
    <3>2. vpn'.wg = vpn.wg
      BY <3>1 DEF KillallOpenvpn, Done, Failed, Vpns
    <3> QED BY <1>1, <1>2, <3>2 DEF PrevKnown, At
  <2>4. CASE Refused(r)
    BY <1>1, <1>2, <2>4 DEF Refused, PrevKnown, At
  <2> QED BY <2>1, <2>2, <2>3, <2>4 DEF Handler, Reconnect, ChooseFile, AskServers, Acquire
<1> QED BY <1>3, <1>4

LEMMA StrandedNext ==
  ASSUME Alone, ~Timeouts, StrandedInv, WantKind, [Next]_vars
  PROVE  StrandedInv'
<1>1. TypeOK /\ PipelineInv
  BY DEF StrandedInv, PipelineInv
<1>2. PipelineInv' /\ RejectsKnown'
  BY <1>1, PipelineNext, RejectsNext, StrandedParts
<1>3. ASSUME NEW r \in Requests, Handler(r) \/ Step(r), NEW o \in Requests
      PROVE  PrevKnown(o)'
  BY <1>3, PrevOwn, PrevOthers
<1>4. CASE Unlocked \/ Raising
  <2>1. vpn' = vpn /\ req' = req
    BY <1>4, Undisturbed DEF ServerChanges, StrandedInv
  <2> QED BY <1>2, <2>1, StrandedParts DEF StrandedInv, PrevKnown, At, RejectsKnown
<1>5. CASE UNCHANGED vars
  BY <1>2, <1>5, StrandedParts DEF vars, StrandedInv, PrevKnown, At, RejectsKnown
<1> QED BY <1>2, <1>3, <1>4, <1>5 DEF Next, Resumes, StrandedInv, PrevKnown, RejectsKnown

(* A switch that fails leaves the user a tunnel while the previous server   *)
(* can be brought up, provided that no command is killed by its time limit. *)
THEOREM NobodyIsStranded ==
  ASSUME Alone, ~Timeouts
  PROVE  Spec => NeverStranded
<1>1. ASSUME StrandedInv, [Next]_vars, NEW r \in Requests, Replied(r, "failed"),
             req[r].prev # None, req[r].prev \notin CanReject
      PROVE  vpn'.wg # None
  <2>1. PipelineInv /\ PrevKnown(r)
    BY <1>1, StrandedParts
  <2>2. \/ ServersListed(r) \/ NotResolved(r) \/ PostConnect(r)
        \/ FenceFail(r) \/ TimesOut(r)
    BY <1>1, <2>1, WhoReplies
  <2> QED BY <1>1, <2>1, <2>2
          DEF PrevKnown, At, ServersListed, NotResolved, PostConnect, FenceFail, TimesOut
<1>2. StrandedInv /\ [Next]_vars
        => [\A r \in Requests :
              (Replied(r, "failed") /\ req[r].prev # None /\ req[r].prev \notin CanReject)
                => vpn'.wg # None]_vars
  BY <1>1
<1>3. Init => StrandedInv
  <2> SUFFICES ASSUME Init PROVE StrandedInv
    OBVIOUS
  <2>1. RejectsKnown
    BY DEF Init, RejectsKnown
  <2>2. \A r \in Requests : PrevKnown(r)
    BY DEF Init, PrevKnown, At
  <2> QED BY <2>1, <2>2, PipelineInit, StrandedParts
<1>4. StrandedInv /\ WantKind /\ [Next]_vars => StrandedInv'
  BY StrandedNext
<1>5. Spec => []WantKind
  BY TypeCorrect, PTL
<1> QED BY <1>2, <1>3, <1>4, <1>5, PTL DEF Spec, NeverStranded

-----------------------------------------------------------------------------
(* Connect implements Switch.                                              *)

(* Nothing is under way: the tunnel is that of the runtime file or none,   *)
(* and the killswitch lets its server out.                                 *)
Settled == vpn.wg \in {None, vpn.runtime} /\ LetsOut(vpn) = vpn.wg

(* What Stage does not say: what ran before is what a rollback goes back   *)
(* to, and what the runtime file will be when the request is over.         *)
Progress(r) ==
  /\ req[r].pc \in Pipeline \cup {"new"} => req[r].reply = "none"
  /\ req[r].pc \in {"list", "resolve"} => Settled
  /\ req[r].pc \in Switching => req[r].want \in WgFiles /\ req[r].prev \in WgFiles
  /\ At(r, "down") => vpn.wg \in {None, req[r].prev}
  /\ req[r].pc \in {"fence", "post"} => vpn.runtime = req[r].want
  /\ At(r, "post") => LetsOut(vpn) = vpn.wg
  /\ At(r, "fenceback") => vpn.runtime = req[r].prev
  /\ At(r, "fencefail") => vpn.runtime = req[r].prev /\ vpn.wg = None

SwitchInv ==
  /\ StrandedInv /\ WantKind
  /\ vpn.runtime # None
  /\ lock = Free => Settled
  /\ lock # Free => Working(lock)
  /\ \A r \in Requests : Progress(r)

(* What a step of r has to show of itself. *)
Own(r) ==
  /\ vpn.runtime # None
  /\ lock = Free => Settled
  /\ lock # Free => Working(lock)
  /\ Progress(r)

(* The killswitch lets out the server that runs when it is loaded. *)
LEMMA FenceLetsOut ==
  ASSUME NEW v \in Vpns, WgOnly(v)
  PROVE  LET w == InitKillswitch(v).vpn
         IN  w.wg = v.wg /\ w.runtime = v.runtime /\ LetsOut(w) = v.wg
BY DEF InitKillswitch, Endpoint, Done, Failed, LetsOut, Vpns, WgOnly, Open

(* What SwitchInv gives: the invariants it is built on, part by part.       *)
LEMMA SwitchParts ==
  ASSUME SwitchInv
  PROVE  /\ TypeOK /\ OneAtATime /\ PipelineInv /\ WgOnly(vpn)
         /\ req \in [Requests -> Records] /\ vpn \in Vpns
         /\ lock \in Requests \cup {Free} /\ Free \notin Requests
         /\ vpn.runtime \in WgFiles /\ None \notin WgFiles
         /\ \A r \in Requests : /\ Stage(r) /\ PrevKnown(r) /\ Progress(r) /\ Own(r)
                                /\ req[r].pc \notin {"ovkill", "ovfence", "ovinit", "slept"}
                                /\ req[r].pc \in Pipeline => lock = r
<1>1. StrandedInv /\ PipelineInv /\ TypeOK
  BY DEF SwitchInv, StrandedInv, PipelineInv
<1>2. vpn.runtime \in WgFiles \cup {None}
  BY <1>1 DEF TypeOK, Vpns
<1>3. Free \notin Requests /\ None \notin WgFiles
  BY ConnectAssumption, FilesAssumption DEF Files
<1> QED BY <1>1, <1>2, <1>3, StrandedParts
        DEF SwitchInv, PipelineInv, OneAtATime, Working, TypeOK, Own

(* The steps a request has, with a provider and nothing killed. *)
LEMMA StepsOfProvider ==
  ASSUME Alone, ~Timeouts, SwitchInv, NEW r \in Requests, Handler(r) \/ Step(r)
  PROVE  \/ Refused(r) \/ Reconnect(r) \/ ServersListed(r) \/ Resolved(r) \/ NotResolved(r)
         \/ PostConnect(r) \/ Down(r) \/ Up(r) \/ Back(r) \/ Fence(r) \/ FenceBack(r)
         \/ FenceFail(r) \/ \E op \in {"connect", "rotate"} : AskServers(r, op)
BY SwitchParts DEF Handler, Step, OvKill, OvFence, OvInit, OpenvpnActivated, TimesOut, Alone,
   ChooseFile, ActivateOpenvpn, At

-----------------------------------------------------------------------------
(* What a step does to what callers see. *)

(* A step changes what its own caller is told, if anything.                *)
LEMMA ToldType ==
  ASSUME TypeOK, NEW r \in Requests, Handler(r) \/ Step(r)
  PROVE  /\ Told' = [Told EXCEPT ![r] = req'[r].reply]
         /\ req'[r].reply = req[r].reply => Told' = Told
         /\ Told[r] = req[r].reply
<1>1. \A o \in Requests \ {r} : req'[o].reply = req[o].reply
  BY OnlyOwn
<1> QED BY <1>1 DEF Told

(* The lock's holder goes on, or leaves. *)
LEMMA SeenAimed ==
  ASSUME SwitchInv, NEW r \in Requests, req[r].pc \in Switching
  PROVE  lock = r /\ Target = req[r].want /\ Chosen = req[r].prev /\ Target # None
BY SwitchParts DEF Aimed, Target, Chosen, Switching, Pipeline, Commanding, Progress

(* A request at a switching point is what Switch sees, after a step too.   *)
LEMMA SeenAimedAfter ==
  ASSUME NEW r \in Requests, lock' = r, req'[r].pc \in Switching
  PROVE  Target' = req'[r].want /\ Chosen' = req'[r].prev
BY ConnectAssumption DEF Aimed, Target, Chosen

(* While the lock is free, Switch sees no target, and what the runtime     *)
(* file holds as chosen.                                                   *)
LEMMA SeenFree ==
  ASSUME lock = Free
  PROVE  Target = None /\ Chosen = vpn.runtime
BY DEF Aimed, Target, Chosen

(* The same, after a step.                                                 *)
LEMMA SeenFreeAfter ==
  ASSUME lock' = Free
  PROVE  Target' = None /\ Chosen' = vpn'.runtime
BY DEF Aimed, Target, Chosen

(* A step on the way. *)
LEMMA SwitchWorks ==
  ASSUME SwitchInv, NEW r \in Requests, Handler(r) \/ Step(r),
         req[r].pc \in Switching, req'[r].pc \in Switching, lock' = lock,
         req'[r].want = req[r].want, req'[r].prev = req[r].prev,
         req'[r].reply = req[r].reply,
         vpn'.wg \in {req[r].want, req[r].prev, None},
         LetsOut(vpn') \in {LetsOut(vpn), vpn'.wg}
  PROVE  S!Work
<1>1. lock = r /\ Target = req[r].want /\ Chosen = req[r].prev /\ Target # None
  BY SeenAimed
<1>2. Target' = Target /\ Chosen' = Chosen
  BY <1>1, SeenAimedAfter
<1>3. Told' = Told
  BY ToldType, SwitchParts
<1>4. LetsOut(vpn)' = LetsOut(vpn')
  BY DEF LetsOut
<1> QED BY <1>1, <1>2, <1>3, <1>4 DEF S!Work

(* The end of a switch. *)
LEMMA SwitchEnds ==
  ASSUME SwitchInv, NEW r \in Requests, Handler(r) \/ Step(r),
         req[r].pc \in Switching, lock' = Free, LetsOut(vpn') = vpn'.wg,
         \/ /\ req'[r].reply \in {"ok", "failed"}
            /\ vpn'.wg = req[r].want /\ vpn'.runtime = req[r].want
         \/ /\ req'[r].reply = "rolledback"
            /\ vpn'.wg = req[r].prev /\ vpn'.runtime = req[r].prev
         \/ /\ req'[r].reply = "failed" /\ req[r].prev \in CanReject
            /\ vpn'.wg = None /\ vpn'.runtime = req[r].prev
  PROVE  S!Switched(r) \/ S!Restored(r) \/ S!Lost(r)
<1>1. lock = r /\ Target = req[r].want /\ Chosen = req[r].prev /\ Target # None
  BY SeenAimed
<1>2. Target' = None /\ Chosen' = vpn'.runtime
  BY SeenFreeAfter
<1>3. Told' = [Told EXCEPT ![r] = req'[r].reply] /\ Told[r] = "none"
  BY ToldType, SwitchParts DEF Progress, Switching, Pipeline, Commanding
<1>4. LetsOut(vpn)' = LetsOut(vpn')
  BY DEF LetsOut
<1>5. S!End(r)
  BY <1>1, <1>2 DEF S!End
<1>6. CASE req'[r].reply \in {"ok", "failed"} /\ vpn'.wg = req[r].want /\ vpn'.runtime = req[r].want
  BY <1>1, <1>2, <1>3, <1>4, <1>5, <1>6 DEF S!Switched, S!Tell
<1>7. CASE req'[r].reply = "rolledback" /\ vpn'.wg = req[r].prev /\ vpn'.runtime = req[r].prev
  BY <1>1, <1>2, <1>3, <1>4, <1>5, <1>7 DEF S!Restored, S!Tell
<1>8. CASE /\ req'[r].reply = "failed" /\ req[r].prev \in CanReject
           /\ vpn'.wg = None /\ vpn'.runtime = req[r].prev
  BY <1>1, <1>2, <1>3, <1>4, <1>5, <1>8 DEF S!Lost, S!Tell
<1> QED BY <1>6, <1>7, <1>8

-----------------------------------------------------------------------------
(* The steps, one by one: each keeps what SwitchInv says of its request,   *)
(* and is a step of Switch or none.                                        *)

(* Somebody else has the lock: the caller is turned away.                  *)
LEMMA DoRefused ==
  ASSUME Alone, SwitchInv, NEW r \in Requests, Refused(r)
  PROVE  Own(r)' /\ S!TurnedAway(r)
<1>1. /\ req'[r].pc = "done" /\ req'[r].reply = "busy"
      /\ UNCHANGED <<lock, vpn>> /\ lock # Free /\ req[r].pc = "new"
      /\ req[r].reply = "none"
  BY SwitchParts DEF Refused, Records, At, Progress
<1>2. lock # r /\ lock \in Requests
  BY <1>1, SwitchParts DEF Own, Working, Pipeline, Commanding
<1>3. req'[lock] = req[lock]
  BY <1>2, OnlyOwn, SwitchParts DEF Handler
<1>4. Own(r)'
  BY <1>1, <1>2, <1>3, SwitchParts
     DEF Own, Progress, Working, Pipeline, Commanding, Switching, At
<1>5. Told' = [Told EXCEPT ![r] = "busy"] /\ Told[r] = "none"
  BY <1>1, SwitchParts, ToldType DEF Handler
<1>6. UNCHANGED <<Target, Chosen, LetsOut(vpn)>>
  BY <1>1, <1>2, <1>3 DEF Target, Chosen, Aimed, LetsOut
<1> QED BY <1>1, <1>2, <1>4, <1>5, <1>6 DEF S!TurnedAway, S!Tell

(* connect and rotate take the lock without a target yet.                  *)
LEMMA DoAskServers ==
  ASSUME Alone, SwitchInv, NEW r \in Requests, NEW op \in {"connect", "rotate"},
         AskServers(r, op)
  PROVE  Own(r)' /\ S!Begin(r)
<1>1. /\ lock = Free /\ lock' = r /\ vpn' = vpn
      /\ req[r].pc = "new" /\ req'[r].pc = "list"
      /\ req[r].reply = "none" /\ req'[r].reply = "none"
  BY SwitchParts DEF AskServers, Acquire, Records, At, Progress
<1>2. LetsOut(vpn') = LetsOut(vpn)
  BY <1>1 DEF LetsOut
<1>3. Own(r)'
  BY <1>1, <1>2, SwitchParts
     DEF Own, Progress, Settled, Working, Pipeline, Commanding, Switching, At, LetsOut
<1>4. Target' = None /\ Chosen' = vpn.runtime /\ Target = None /\ Chosen = vpn.runtime
  BY <1>1 DEF Target, Chosen, Aimed, Switching
<1>5. Told' = Told /\ Told[r] = "none"
  BY <1>1, SwitchParts, ToldType DEF Handler
<1> QED BY <1>1, <1>2, <1>3, <1>4, <1>5 DEF S!Begin, LetsOut

(* reconnect takes the lock and knows its target at once.                  *)
LEMMA DoReconnect ==
  ASSUME Alone, SwitchInv, NEW r \in Requests, Reconnect(r)
  PROVE  Own(r)' /\ S!Begin(r)
<1> DEFINE current == Read(dir, link, Wg0)
           want == IF current = None THEN vpn.runtime ELSE current
<1>1. /\ lock = Free /\ lock' = r /\ UNCHANGED fsVars
      /\ req[r].pc = "new" /\ req[r].reply = "none"
      /\ StartWireguard(r, "reconnect", want, vpn)
  BY SwitchParts DEF Reconnect, WgOnly, Acquire, At, Progress
<1>2. current \in WgFiles \cup {None}
  BY SwitchParts, ReadType DEF TypeOK, Names
<1>3. want \in WgFiles /\ want # None
  BY <1>2, SwitchParts
<1>4. vpn' = [vpn EXCEPT !.runtime = want]
  BY <1>1, SwitchParts DEF StartWireguard, fsVars, unlocked, Vpns
<1>5. /\ vpn'.wg = vpn.wg /\ vpn'.runtime = want /\ LetsOut(vpn') = LetsOut(vpn)
  BY <1>4, SwitchParts DEF Vpns, LetsOut
<1>6. /\ req'[r].pc = "down" /\ req'[r].want = want
      /\ req'[r].prev = vpn.runtime /\ req'[r].reply = "none"
  BY <1>1, SwitchParts DEF StartWireguard
<1> HIDE DEF current, want
<1>7. Settled
  BY <1>1 DEF SwitchInv
<1>8. Own(r)'
  BY <1>1, <1>3, <1>5, <1>6, <1>7, SwitchParts
     DEF Own, Progress, Settled, Working, Pipeline, Commanding, Switching, At
<1>9. Target' = want /\ Chosen' = vpn.runtime
  BY <1>1, <1>6, SeenAimedAfter DEF Switching
<1>10. Target = None /\ Chosen = vpn.runtime
  BY <1>1, SeenFree
<1>11. Told' = Told /\ Told[r] = "none"
  BY <1>1, <1>6, SwitchParts, ToldType DEF Handler
<1> QED BY <1>1, <1>3, <1>5, <1>8, <1>9, <1>10, <1>11 DEF S!Begin, LetsOut

(* No server, or one is picked, which is not seen before it is resolved.   *)
LEMMA DoServersListed ==
  ASSUME Alone, SwitchInv, NEW r \in Requests, ServersListed(r)
  PROVE  Own(r)' /\ (S!GaveUp(r) \/ UNCHANGED <<lock, Target, Chosen, vpn.wg, LetsOut(vpn), Told>>)
<1>1. /\ vpn' = vpn /\ req[r].pc = "list" /\ lock = r /\ lock # Free
      /\ req[r].reply = "none" /\ Settled
  BY SwitchParts DEF ServersListed, At, Progress, Pipeline, Commanding
<1>2. Target = None /\ Chosen = vpn.runtime
  BY <1>1 DEF Target, Chosen, Aimed, Switching
<1>3. LetsOut(vpn)' = LetsOut(vpn)
  BY <1>1 DEF LetsOut
<1>4. CASE Finish(r, "failed")
  <2>1. req'[r].pc = "done" /\ req'[r].reply = "failed" /\ lock' = Free
    BY <1>4, FinishFields, SwitchParts
  <2>2. Own(r)'
    BY <1>1, <1>3, <2>1, SwitchParts
       DEF Own, Progress, Settled, Working, Pipeline, Commanding, Switching, At
  <2>3. Target' = None /\ Chosen' = vpn.runtime
    BY <1>1, <2>1, SeenFreeAfter
  <2>4. Told' = [Told EXCEPT ![r] = "failed"] /\ Told[r] = "none"
    BY <1>1, <2>1, ToldType, SwitchParts DEF Step
  <2> QED BY <1>1, <1>2, <1>3, <2>1, <2>2, <2>3, <2>4 DEF S!GaveUp, S!End, S!Tell
<1>5. ASSUME NEW s \in WgFiles, UNCHANGED lock,
             req' = [req EXCEPT ![r].pc = "resolve", ![r].want = s]
      PROVE  Own(r)' /\ UNCHANGED <<lock, Target, Chosen, vpn.wg, LetsOut(vpn), Told>>
  <2>1. req'[r].pc = "resolve" /\ req'[r].reply = "none"
    BY <1>1, <1>5, SwitchParts DEF Records
  <2>2. Own(r)'
    BY <1>1, <1>3, <1>5, <2>1, SwitchParts
       DEF Own, Progress, Settled, Working, Pipeline, Commanding, Switching, At
  <2>3. Target' = None /\ Chosen' = vpn.runtime
    BY <1>1, <1>5, <2>1 DEF Target, Chosen, Aimed, Switching
  <2>4. Told' = Told
    BY <1>1, <2>1, ToldType, SwitchParts DEF Step
  <2> QED BY <1>1, <1>2, <1>3, <1>5, <2>2, <2>3, <2>4
<1> QED BY <1>4, <1>5 DEF ServersListed, Candidates

(* The provider cannot be had: nothing has been touched.                   *)
LEMMA DoNotResolved ==
  ASSUME Alone, SwitchInv, NEW r \in Requests, NotResolved(r)
  PROVE  Own(r)' /\ S!GaveUp(r)
<1>1. /\ vpn' = vpn /\ req[r].pc = "resolve" /\ lock = r /\ lock # Free
      /\ req[r].reply = "none" /\ Settled
  BY SwitchParts DEF NotResolved, At, Progress, Pipeline, Commanding
<1>2. Target = None /\ Chosen = vpn.runtime
  BY <1>1 DEF Target, Chosen, Aimed, Switching
<1>3. LetsOut(vpn)' = LetsOut(vpn)
  BY <1>1 DEF LetsOut
<1>4. req'[r].pc = "done" /\ req'[r].reply = "failed" /\ lock' = Free
  BY FinishFields, SwitchParts DEF NotResolved
<1>5. Own(r)'
  BY <1>1, <1>3, <1>4, SwitchParts
     DEF Own, Progress, Settled, Working, Pipeline, Commanding, Switching, At
<1>6. Target' = None /\ Chosen' = vpn.runtime
  BY <1>1, <1>4, SeenFreeAfter
<1>7. Told' = [Told EXCEPT ![r] = "failed"] /\ Told[r] = "none"
  BY <1>1, <1>4, ToldType, SwitchParts DEF Step
<1> QED BY <1>1, <1>2, <1>3, <1>4, <1>5, <1>6, <1>7 DEF S!GaveUp, S!End, S!Tell

(* wg0.conf is written and copied: from here on the switch has a target.   *)
LEMMA DoResolved ==
  ASSUME Alone, SwitchInv, NEW r \in Requests, Resolved(r)
  PROVE  Own(r)' /\ S!Aim
<1>1. /\ req[r].pc = "resolve" /\ lock = r /\ lock # Free /\ lock' = r /\ link = None
      /\ req[r].reply = "none" /\ Settled /\ req[r].want \in WgFiles /\ req[r].want # None
  BY SwitchParts DEF Resolved, At, Progress, Pipeline, Commanding, SwitchInv, WantKind,
     PipelineInv
<1>2. dir'[Wg0] = req[r].want /\ link' = None
  BY <1>1, SwitchParts DEF Resolved, WriteWg0, TypeOK, Names
<1>3. Read(dir', link', Wg0) = req[r].want
  BY <1>2, FilesAssumption DEF Read
<1>4. vpn' = [[vpn EXCEPT !.type = "wireguard"] EXCEPT !.runtime = req[r].want]
  BY <1>1, <1>3 DEF Resolved, StartWireguard
<1>5. vpn'.wg = vpn.wg /\ vpn'.runtime = req[r].want /\ LetsOut(vpn') = LetsOut(vpn)
  BY <1>4, SwitchParts DEF Vpns, LetsOut
<1>6. /\ req'[r].pc = "down" /\ req'[r].want = req[r].want
      /\ req'[r].prev = vpn.runtime /\ req'[r].reply = "none"
  BY SwitchParts DEF Resolved, StartWireguard, Vpns
<1>7. Own(r)'
  BY <1>1, <1>5, <1>6, SwitchParts
     DEF Own, Progress, Settled, Working, Pipeline, Commanding, Switching, At
<1>8. Target = None /\ Chosen = vpn.runtime
  BY <1>1 DEF Target, Chosen, Aimed, Switching
<1>9. Target' = req[r].want /\ Chosen' = vpn.runtime
  BY <1>1, <1>6, SeenAimedAfter DEF Switching
<1>10. Told' = Told
  BY <1>1, <1>6, SwitchParts, ToldType DEF Step
<1> QED BY <1>1, <1>5, <1>7, <1>8, <1>9, <1>10 DEF S!Aim, LetsOut

(* wg-quick down: the tunnel goes, the gate stays as it was.               *)
LEMMA DoDown ==
  ASSUME Alone, SwitchInv, NEW r \in Requests, Down(r)
  PROVE  Own(r)' /\ S!Work
<1>1. /\ req[r].pc = "down" /\ lock = r /\ lock # Free /\ lock' = lock
      /\ req[r].reply = "none" /\ vpn' = WgQuickDown(vpn).vpn
      /\ req[r].want \in WgFiles /\ req[r].prev \in WgFiles
  BY SwitchParts DEF Down, At, Progress, Pipeline, Commanding, Switching
<1>2. /\ req'[r].pc = "up" /\ req'[r].reply = "none"
      /\ req'[r].want = req[r].want /\ req'[r].prev = req[r].prev
  BY <1>1, MoveFields, SwitchParts DEF Down
<1>3. vpn'.wg = None /\ vpn'.runtime = vpn.runtime
  BY <1>1, SwitchParts, DownEffect
<1>4. LetsOut(vpn') \in {LetsOut(vpn), vpn'.wg}
  BY <1>1, <1>3, SwitchParts DEF LetsOut, WgQuickDown, Done, Failed, Vpns
<1>5. Own(r)'
  BY <1>1, <1>2, <1>3, SwitchParts
     DEF Own, Progress, Settled, Working, Pipeline, Commanding, Switching, At
<1> QED BY <1>1, <1>2, <1>3, <1>4, <1>5, SwitchWorks DEF Step, Switching

(* wg-quick up on the new configuration.                                   *)
LEMMA DoUp ==
  ASSUME Alone, SwitchInv, NEW r \in Requests, Up(r)
  PROVE  Own(r)' /\ S!Work
<1> DEFINE up == WgQuickUp(vpn, server)
<1>1. /\ req[r].pc = "up" /\ lock = r /\ lock # Free /\ lock' = lock
      /\ req[r].reply = "none"
      /\ req[r].want \in WgFiles /\ req[r].prev \in WgFiles /\ req[r].prev # None
      /\ vpn.runtime = req[r].want /\ vpn.wg = None
  BY SwitchParts DEF Up, At, Progress, Pipeline, Commanding, Switching, Stage
<1>2. /\ req'[r].pc = IF up.ok THEN "fence" ELSE "back"
      /\ req'[r].reply = "none"
      /\ req'[r].want = req[r].want /\ req'[r].prev = req[r].prev
  BY <1>1, MoveFields, SwitchParts DEF Up
<1>3. /\ up.ok => vpn' = up.vpn
      /\ ~up.ok => vpn' = [up.vpn EXCEPT !.runtime = req[r].prev]
  BY <1>1 DEF Up
<1>4. CASE up.ok
  <2>1. vpn'.wg = req[r].want /\ vpn'.runtime = req[r].want
    BY <1>1, <1>3, <1>4, SwitchParts, UpEffect
  <2>2. LetsOut(vpn') \in {LetsOut(vpn), vpn'.wg}
    BY <1>1, <1>3, <1>4, SwitchParts DEF LetsOut, WgQuickUp, Done, Failed, Vpns
  <2>3. Own(r)'
    BY <1>1, <1>2, <1>4, <2>1, SwitchParts
       DEF Own, Progress, Settled, Working, Pipeline, Commanding, Switching, At
  <2> QED BY <1>1, <1>2, <1>4, <2>1, <2>2, <2>3, SwitchWorks DEF Step, Switching
<1>5. CASE ~up.ok
  <2>1. vpn' = [vpn EXCEPT !.runtime = req[r].prev]
    BY <1>1, <1>3, <1>5, SwitchParts, UpEffect
  <2>2. vpn'.wg = None /\ vpn'.runtime = req[r].prev /\ LetsOut(vpn') = LetsOut(vpn)
    BY <1>1, <2>1, SwitchParts DEF LetsOut, Vpns
  <2>3. Own(r)'
    BY <1>1, <1>2, <1>5, <2>2, SwitchParts
       DEF Own, Progress, Settled, Working, Pipeline, Commanding, Switching, At
  <2> QED BY <1>1, <1>2, <1>5, <2>2, <2>3, SwitchWorks DEF Step, Switching
<1> QED BY <1>4, <1>5

(* wg-quick up on the previous configuration.                              *)
LEMMA DoBack ==
  ASSUME Alone, ~Timeouts, SwitchInv, NEW r \in Requests, Back(r)
  PROVE  Own(r)' /\ S!Work
<1> DEFINE up == WgQuickUp(vpn, server)
<1>1. /\ req[r].pc = "back" /\ lock = r /\ lock # Free /\ lock' = lock
      /\ req[r].reply = "none" /\ vpn' = up.vpn
      /\ req[r].want \in WgFiles /\ req[r].prev \in WgFiles /\ req[r].prev # None
      /\ vpn.runtime = req[r].prev /\ vpn.wg = None
  BY SwitchParts DEF Back, At, Progress, Pipeline, Commanding, Switching, Stage
<1>2. /\ req'[r].pc = IF up.ok THEN "fenceback" ELSE "fencefail"
      /\ req'[r].reply = "none"
      /\ req'[r].want = req[r].want /\ req'[r].prev = req[r].prev
  BY <1>1, MoveFields, SwitchParts DEF Back
<1>3. /\ vpn'.wg \in {req[r].prev, None} /\ vpn'.runtime = req[r].prev
      /\ ~up.ok => vpn'.wg = None
  BY <1>1, SwitchParts, UpEffect
<1>4. LetsOut(vpn') \in {LetsOut(vpn), vpn'.wg}
  BY <1>1, SwitchParts DEF LetsOut, WgQuickUp, Done, Failed, Vpns
<1>5. Own(r)'
  BY <1>1, <1>2, <1>3, SwitchParts
     DEF Own, Progress, Settled, Working, Pipeline, Commanding, Switching, At
<1> QED BY <1>1, <1>2, <1>3, <1>4, <1>5, SwitchWorks DEF Step, Switching

(* The killswitch of the new server; the end of a reconnect.               *)
LEMMA DoFence ==
  ASSUME Alone, SwitchInv, NEW r \in Requests, Fence(r)
  PROVE  Own(r)' /\ (S!Work \/ S!Switched(r) \/ S!Restored(r) \/ S!Lost(r))
<1>1. /\ req[r].pc = "fence" /\ lock = r /\ lock # Free
      /\ req[r].reply = "none" /\ vpn' = InitKillswitch(vpn).vpn
      /\ req[r].want \in WgFiles /\ req[r].prev \in WgFiles
      /\ vpn.runtime = req[r].want /\ vpn.wg = req[r].want
  BY SwitchParts DEF Fence, At, Progress, Pipeline, Commanding, Switching, Stage
<1>2. vpn'.wg = req[r].want /\ vpn'.runtime = req[r].want /\ LetsOut(vpn') = vpn'.wg
  BY <1>1, SwitchParts, FenceLetsOut
<1>3. CASE MoveTo(r, "post") /\ UNCHANGED lock
  <2>1. /\ req'[r].pc = "post" /\ req'[r].reply = "none"
        /\ req'[r].want = req[r].want /\ req'[r].prev = req[r].prev
    BY <1>1, <1>3, MoveFields, SwitchParts
  <2>2. Own(r)'
    BY <1>1, <1>2, <1>3, <2>1, SwitchParts
       DEF Own, Progress, Settled, Working, Pipeline, Commanding, Switching, At, LetsOut
  <2> QED BY <1>1, <1>2, <1>3, <2>1, <2>2, SwitchWorks DEF Step, Switching
<1>4. CASE Finish(r, "ok")
  <2>1. req'[r].pc = "done" /\ req'[r].reply = "ok" /\ lock' = Free
    BY <1>4, FinishFields, SwitchParts
  <2>2. Own(r)'
    BY <1>1, <1>2, <2>1, SwitchParts
       DEF Own, Progress, Settled, Working, Pipeline, Commanding, Switching, At, LetsOut
  <2> QED BY <1>1, <1>2, <2>1, <2>2, SwitchEnds DEF Step, Switching
<1> QED BY <1>3, <1>4 DEF Fence

(* The end of a connect or a rotation.                                     *)
LEMMA DoPostConnect ==
  ASSUME Alone, SwitchInv, NEW r \in Requests, PostConnect(r)
  PROVE  Own(r)' /\ (S!Switched(r) \/ S!Restored(r) \/ S!Lost(r))
<1>1. /\ req[r].pc = "post" /\ lock = r /\ vpn' = vpn
      /\ vpn.runtime = req[r].want /\ vpn.wg = req[r].want /\ LetsOut(vpn) = vpn.wg
  BY SwitchParts DEF PostConnect, At, Progress, Pipeline, Commanding, Stage
<1>2. req'[r].pc = "done" /\ req'[r].reply \in {"ok", "failed"} /\ lock' = Free
  BY FinishFields, SwitchParts DEF PostConnect
<1>3. Own(r)'
  BY <1>1, <1>2, SwitchParts
     DEF Own, Progress, Settled, Working, Pipeline, Commanding, Switching, At, LetsOut
<1> QED BY <1>1, <1>2, <1>3, SwitchEnds DEF Step, Switching

(* The end of a rollback.                                                  *)
LEMMA DoFenceBack ==
  ASSUME Alone, SwitchInv, NEW r \in Requests, FenceBack(r)
  PROVE  Own(r)' /\ (S!Switched(r) \/ S!Restored(r) \/ S!Lost(r))
<1>1. /\ req[r].pc = "fenceback" /\ lock = r /\ vpn' = InitKillswitch(vpn).vpn
      /\ vpn.runtime = req[r].prev /\ vpn.wg = req[r].prev
  BY SwitchParts DEF FenceBack, At, Progress, Pipeline, Commanding, Stage
<1>2. vpn'.wg = req[r].prev /\ vpn'.runtime = req[r].prev /\ LetsOut(vpn') = vpn'.wg
  BY <1>1, SwitchParts, FenceLetsOut
<1>3. req'[r].pc = "done" /\ req'[r].reply = "rolledback" /\ lock' = Free
  BY FinishFields, SwitchParts DEF FenceBack
<1>4. Own(r)'
  BY <1>1, <1>2, <1>3, SwitchParts
     DEF Own, Progress, Settled, Working, Pipeline, Commanding, Switching, At, LetsOut
<1> QED BY <1>1, <1>2, <1>3, <1>4, SwitchEnds DEF Step, Switching

(* The end of a switch that left no tunnel.                                *)
LEMMA DoFenceFail ==
  ASSUME Alone, SwitchInv, NEW r \in Requests, FenceFail(r)
  PROVE  Own(r)' /\ (S!Switched(r) \/ S!Restored(r) \/ S!Lost(r))
<1>1. /\ req[r].pc = "fencefail" /\ lock = r /\ vpn' = InitKillswitch(vpn).vpn
      /\ vpn.runtime = req[r].prev /\ vpn.wg = None
      /\ req[r].prev \in CanReject
  BY SwitchParts DEF FenceFail, At, Progress, Pipeline, Commanding, Switching, PrevKnown
<1>2. vpn'.wg = None /\ vpn'.runtime = req[r].prev /\ LetsOut(vpn') = vpn'.wg
  BY <1>1, SwitchParts, FenceLetsOut
<1>3. req'[r].pc = "done" /\ req'[r].reply = "failed" /\ lock' = Free
  BY FinishFields, SwitchParts DEF FenceFail
<1>4. Own(r)'
  BY <1>1, <1>2, <1>3, SwitchParts
     DEF Own, Progress, Settled, Working, Pipeline, Commanding, Switching, At, LetsOut
<1> QED BY <1>1, <1>2, <1>3, <1>4, SwitchEnds DEF Step, Switching

-----------------------------------------------------------------------------
(* Every step of a request is one of Switch, or is not seen. *)
LEMMA SwitchStep ==
  ASSUME Alone, ~Timeouts, SwitchInv, NEW r \in Requests, Handler(r) \/ Step(r)
  PROVE  Own(r)' /\ [S!Next]_(S!switchVars)
BY StepsOfProvider, DoRefused, DoAskServers, DoReconnect, DoServersListed, DoNotResolved,
   DoResolved, DoDown, DoUp, DoBack, DoFence, DoPostConnect, DoFenceBack, DoFenceFail
   DEF S!Next, S!switchVars

(* The others wait, or have finished. *)
LEMMA ProgressOthers ==
  ASSUME Alone, ~Timeouts, SwitchInv, NEW r \in Requests, Handler(r) \/ Step(r),
         NEW o \in Requests \ {r}
  PROVE  Progress(o)'
<1>1. req'[o] = req[o]
  BY OnlyOwn, SwitchParts
<1>2. CASE req[o].pc \notin Pipeline
  BY <1>1, <1>2, SwitchParts DEF Progress, At, Switching, Pipeline, Commanding
<1>3. CASE req[o].pc \in Pipeline
  <2>1. lock = o /\ lock # Free /\ req[r].pc \notin Pipeline
    BY <1>3, SwitchParts
  <2>2. Refused(r)
    BY <2>1, StepsOfProvider DEF Reconnect, Acquire, AskServers, ServersListed, Resolved, NotResolved,
       PostConnect, Down, Up, Back, Fence, FenceBack, FenceFail, At, Pipeline, Commanding
  <2>3. vpn' = vpn
    BY <2>2 DEF Refused
  <2> QED BY <1>1, <2>3, SwitchParts DEF Progress, At, Settled, LetsOut
<1> QED BY <1>2, <1>3

(* SwitchInv is inductive, and a step from it is one of Switch or none.    *)
LEMMA SwitchInvNext ==
  ASSUME Alone, ~Timeouts, SwitchInv, [Next]_vars
  PROVE  SwitchInv' /\ [S!Next]_(S!switchVars)
<1>1. StrandedInv' /\ WantKind'
  BY StrandedNext, TypeNext, SwitchParts DEF SwitchInv
<1>2. ASSUME NEW r \in Requests, Handler(r) \/ Step(r)
      PROVE  SwitchInv' /\ [S!Next]_(S!switchVars)
  <2>1. Own(r)' /\ [S!Next]_(S!switchVars)
    BY <1>2, SwitchStep
  <2>2. \A o \in Requests : Progress(o)'
    BY <1>2, <2>1, ProgressOthers DEF Own
  <2> QED BY <1>1, <2>1, <2>2 DEF SwitchInv, Own
<1>3. ASSUME Unlocked \/ Raising \/ UNCHANGED vars
      PROVE  SwitchInv' /\ [S!Next]_(S!switchVars)
  <2>1. UNCHANGED <<lock, req, vpn>>
    BY <1>3, Undisturbed, SwitchParts DEF ServerChanges, vars
  <2>2. SwitchInv'
    BY <1>1, <2>1 DEF SwitchInv, Settled, LetsOut, Progress, At, Working
  <2> QED BY <2>1, <2>2 DEF S!switchVars, Target, Chosen, Aimed, LetsOut, Told
<1> QED BY <1>2, <1>3 DEF Next, Resumes

(* After a boot the first server runs, and the gate lets it out.           *)
LEMMA SwitchInit ==
  ASSUME Alone, Init
  PROVE  SwitchInv /\ S!Init
<1>1. DetectedType = "wireguard" /\ FirstWg \in WgFiles /\ None \notin WgFiles
  BY FilesAssumption DEF Alone, DetectedType, Files, Kinds
<1>2. /\ vpn = BootVpn /\ lock = Free
      /\ req = [r \in Requests |-> [pc |-> "new", op |-> "connect", want |-> None,
                                    prev |-> None, reply |-> "none"]]
      /\ server = [f \in Files |-> "good"]
  BY DEF Init
<1>3. vpn.wg = FirstWg /\ vpn.runtime = FirstWg /\ LetsOut(vpn) = FirstWg
  BY <1>1, <1>2, FilesAssumption
     DEF BootVpn, InitKillswitch, Endpoint, Done, Failed, InterfaceOf, LetsOut
<1>4. StrandedInv /\ WantKind
  <2>1. RejectsKnown
    BY <1>2 DEF RejectsKnown
  <2>2. \A r \in Requests : PrevKnown(r)
    BY <1>2 DEF PrevKnown, At
  <2>3. WantKind
    BY <1>2 DEF WantKind, At
  <2> QED BY <2>1, <2>2, <2>3, PipelineInit, StrandedParts
<1>5. \A r \in Requests : Progress(r)
  BY <1>2 DEF Progress, At, Pipeline, Commanding, Switching
<1>6. SwitchInv
  BY <1>1, <1>2, <1>3, <1>4, <1>5 DEF SwitchInv, Settled
<1>7. S!Init
  BY <1>1, <1>2, <1>3, SeenFree DEF S!Init, Told
<1> QED BY <1>6, <1>7

(* The locked pipeline implements Switch (connect.py:409-468 and its two   *)
(* callers), for any provider files and any number of requests, while      *)
(* nothing acts without the lock and no command times out.  Beyond the     *)
(* theorems above it says that a rollback ends on the server that ran      *)
(* before and not on some other, that on the way the gate opens for no     *)
(* server but the tunnel's, and that tunnel, runtime file and gate agree   *)
(* whenever nobody has the lock.                                           *)
THEOREM ConnectIsASwitch ==
  ASSUME Alone, ~Timeouts
  PROVE  Spec => IsASwitch
<1>1. Init => SwitchInv /\ S!Init
  BY SwitchInit
<1>2. SwitchInv /\ [Next]_vars => SwitchInv' /\ [S!Next]_(S!switchVars)
  BY SwitchInvNext
<1> QED BY <1>1, <1>2, PTL DEF Spec, IsASwitch, S!Spec
=============================================================================
