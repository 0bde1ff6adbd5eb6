---------------------------- MODULE SetupProofs ----------------------------
(***************************************************************************)
(* Theorems about module Setup.  Two of its properties are inductive as    *)
(* they stand; that PIA credentials are saved after a login needs to know  *)
(* what a token stands for.                                                *)
(***************************************************************************)
EXTENDS Setup, TLAPS

SettingsType == [provider : Choices \cup {None, "custom"}, login : Logins \cup {None},
                 openvpn : BOOLEAN]
PiaType == [made : BOOLEAN, login : Logins \cup {None}, token : BOOLEAN]
Points == {"idle", "login", "gluetun", "server"} \cup Verifying
CallType == [at : Points, login : Logins \cup {None}, polls : 0..Polls]

(* A token is PIA's answer to the credentials of the instance, and only an *)
(* instance that was made is asked for one.                                *)
TokenIsEarned ==
  /\ pia.token => pia.made /\ pia.login \in Valid
  /\ \A c \in Calls : call[c].at = "login" => pia.made

-----------------------------------------------------------------------------
(* Type correctness. *)

LEMMA TypeIs ==
  TypeOK <=>
    /\ required \in BOOLEAN
    /\ provider \in Choices \cup {None}
    /\ settings \in SettingsType
    /\ wg0 \in {"none", "file", "loop"}
    /\ ovpn \in BOOLEAN /\ runtime \in BOOLEAN /\ wgUp \in BOOLEAN /\ daemon \in BOOLEAN
    /\ tun0 \in {"none", "up", "ending"}
    /\ pia \in PiaType
    /\ call \in [Calls -> CallType]
BY DEF TypeOK, SettingsType, PiaType, CallType, Points

LEMMA FirstValues ==
  /\ Idle \in CallType /\ NoInstance \in PiaType
  /\ [provider |-> None, login |-> None, openvpn |-> FALSE] \in SettingsType
<1>1. 0 \in 0..Polls
  BY SetupAssumption
<1>2. Idle \in CallType
  BY <1>1 DEF Idle, CallType, Points
<1>3. NoInstance \in PiaType
  BY DEF NoInstance, PiaType
<1>4. [provider |-> None, login |-> None, openvpn |-> FALSE] \in SettingsType
  BY DEF SettingsType
<1> QED BY <1>2, <1>3, <1>4

(* A type that is kept part by part. *)
LEMMA TypeKept ==
  ASSUME /\ required' \in BOOLEAN
         /\ provider' \in Choices \cup {None}
         /\ settings' \in SettingsType
         /\ wg0' \in {"none", "file", "loop"}
         /\ ovpn' \in BOOLEAN /\ runtime' \in BOOLEAN /\ wgUp' \in BOOLEAN /\ daemon' \in BOOLEAN
         /\ tun0' \in {"none", "up", "ending"}
         /\ pia' \in PiaType
         /\ call' \in [Calls -> CallType]
  PROVE  TypeOK'
BY DEF TypeOK, SettingsType, PiaType, CallType, Points

(* A call begins to wait, or has ended. *)
LEMMA CallGoesOn ==
  ASSUME TypeOK, NEW c \in Calls
  PROVE  /\ Return(c) => call' \in [Calls -> CallType]
         /\ \A at \in Points, login \in Logins \cup {None} :
              Await(c, at, login) => call' \in [Calls -> CallType]
<1>1. call \in [Calls -> CallType] /\ 0 \in 0..Polls
  BY TypeIs, SetupAssumption
<1>2. CASE Return(c)
  BY <1>1, <1>2, FirstValues DEF Return
<1>3. ASSUME NEW at \in Points, NEW login \in Logins \cup {None}, Await(c, at, login)
      PROVE  call' \in [Calls -> CallType]
  <2>1. [at |-> at, login |-> login, polls |-> 0] \in CallType
    BY <1>1 DEF CallType
  <2> QED BY <1>1, <1>3, <2>1 DEF Await
<1> QED BY <1>2, <1>3

(* What may be saved. *)
LEMMA SaveType ==
  ASSUME TypeOK
  PROVE  /\ \A p \in Choices \cup {"custom"} :
              Save([provider |-> p]) =>
                settings' \in SettingsType /\ settings'.login = settings.login
         /\ \A login \in Logins : SaveLogin(login) => settings' \in SettingsType
         /\ \A p \in Choices \cup {"custom"}, o \in BOOLEAN :
              Save([provider |-> p, openvpn |-> o]) =>
                settings' \in SettingsType /\ settings'.login = settings.login
<1>1. settings \in SettingsType /\ "pia" \in Choices
  BY TypeIs, TypeKept DEF Choices
<1>2. \A p \in Choices \cup {"custom"} :
        Save([provider |-> p]) =>
          settings' \in SettingsType /\ settings'.login = settings.login
  BY <1>1 DEF Save, SettingsType
<1>3. \A login \in Logins : SaveLogin(login) => settings' \in SettingsType
  BY <1>1 DEF Save, SaveLogin, SettingsType
<1>4. \A p \in Choices \cup {"custom"}, o \in BOOLEAN :
        Save([provider |-> p, openvpn |-> o]) =>
          settings' \in SettingsType /\ settings'.login = settings.login
  BY <1>1 DEF Save, SettingsType
<1> QED BY <1>2, <1>3, <1>4

LEMMA TypeInit == Init => TypeOK
BY FirstValues, TypeIs, TypeKept DEF Init

(* What a call may be at. *)
LEMMA PointsAre ==
  /\ {"login", "gluetun", "server", "wg_geo", "poll", "geo"} \subseteq Points
  /\ None \in Logins \cup {None}
BY DEF Points, Verifying

LEMMA TypeUploads ==
  ASSUME TypeOK, NEW c \in Calls,
         SelectProvider(c) \/ UploadWireguard(c) \/ UploadOpenvpn(c) \/ VerifyNothing(c)
  PROVE  TypeOK'
<1>1. call' \in [Calls -> CallType]
  BY CallGoesOn DEF SelectProvider, UploadWireguard, UploadOpenvpn, VerifyNothing
<1> QED
  BY <1>1, TypeIs, TypeKept
     DEF SelectProvider, UploadWireguard, UploadOpenvpn, VerifyNothing, wizard, files, tunnels

LEMMA TypeVerify ==
  ASSUME TypeOK, NEW c \in Calls,
         \/ VerifyWireguard(c) \/ VerifyWireguardEnd(c) \/ VerifyOpenvpn(c) \/ Poll(c)
         \/ PollsOver(c) \/ VerifyOpenvpnEnd(c)
  PROVE  TypeOK'
<1>1. CASE VerifyWireguard(c) \/ VerifyWireguardEnd(c)
  <2>1. call' \in [Calls -> CallType]
    BY <1>1, CallGoesOn, PointsAre DEF VerifyWireguard, VerifyWireguardEnd
  <2> QED
    BY <1>1, <2>1, TypeIs, TypeKept DEF VerifyWireguard, VerifyWireguardEnd, wizard, files
<1>2. CASE VerifyOpenvpn(c) \/ PollsOver(c) \/ VerifyOpenvpnEnd(c)
  <2>1. call' \in [Calls -> CallType]
    BY <1>2, CallGoesOn, PointsAre DEF VerifyOpenvpn, PollsOver, VerifyOpenvpnEnd
  <2>2. daemon' \in BOOLEAN /\ tun0' \in {"none", "up", "ending"}
    BY <1>2, TypeIs DEF VerifyOpenvpn, PollsOver, VerifyOpenvpnEnd, Teardown
  <2> QED
    BY <1>2, <2>1, <2>2, TypeIs, TypeKept
       DEF VerifyOpenvpn, PollsOver, VerifyOpenvpnEnd, wizard, files
<1>3. CASE Poll(c)
  <2>1. call[c] \in CallType /\ call[c].polls \in Nat /\ call[c].polls < Polls
    BY <1>3, TypeIs, SetupAssumption DEF Poll, CallType
  <2>2. call' \in [Calls -> CallType]
    <3>1. CASE tun0 # "none"
      BY <1>3, <2>1, <3>1, TypeIs, PointsAre DEF Poll, CallType
    <3>2. CASE tun0 = "none"
      BY <1>3, <2>1, <3>2, TypeIs, SetupAssumption DEF Poll, CallType
    <3> QED BY <3>1, <3>2
  <2> QED BY <1>3, <2>2, TypeIs, TypeKept DEF Poll, wizard, files, tunnels
<1> QED BY <1>1, <1>2, <1>3

LEMMA TypeCredentials ==
  ASSUME TypeOK, NEW c \in Calls,
         \/ CredentialsPia(c) \/ PiaAnswers(c) \/ CredentialsGluetun(c) \/ GluetunAnswers(c)
         \/ Credentials(c)
  PROVE  TypeOK'
<1>1. CASE CredentialsPia(c)
  <2>1. PICK login \in Logins :
          /\ pia' = IF pia.made THEN pia
                    ELSE [made |-> TRUE, login |-> login, token |-> FALSE]
          /\ IF pia.token
             THEN SaveLogin(login) /\ UNCHANGED call
             ELSE Await(c, "login", login) /\ UNCHANGED settings
    BY <1>1 DEF CredentialsPia
  <2>2. [made |-> TRUE, login |-> login, token |-> FALSE] \in PiaType
    BY DEF PiaType
  <2>3. pia' \in PiaType
    BY <2>1, <2>2, TypeIs
  <2>4. settings' \in SettingsType
    BY <2>1, SaveType, TypeIs
  <2>5. call' \in [Calls -> CallType]
    BY <2>1, TypeIs, CallGoesOn, PointsAre
  <2>6. provider' \in Choices
    BY <1>1 DEF CredentialsPia, Choices
  <2> QED BY <1>1, <2>3, <2>4, <2>5, <2>6, TypeIs, TypeKept DEF CredentialsPia, files, tunnels
<1>2. CASE PiaAnswers(c)
  <2>1. call' \in [Calls -> CallType]
    BY <1>2, CallGoesOn DEF PiaAnswers
  <2>2. [pia EXCEPT !.token = TRUE] \in PiaType
    BY TypeIs, TypeKept DEF PiaType
  <2>3. CASE UNCHANGED <<pia, settings>>
    BY <1>2, <2>1, <2>3, TypeIs, TypeKept DEF PiaAnswers, files, tunnels
  <2>4. CASE pia' = [pia EXCEPT !.token = TRUE] /\ SaveLogin(call[c].login)
    <3>1. settings' \in SettingsType
      <4>1. call[c].login \in Logins \cup {None} /\ settings \in SettingsType
        BY TypeIs, TypeKept DEF CallType
      <4> QED BY <2>4, <4>1 DEF Save, SaveLogin, SettingsType, Choices
    <3> QED BY <1>2, <2>1, <2>2, <2>4, <3>1, TypeIs, TypeKept DEF PiaAnswers, files, tunnels
  <2> QED BY <1>2, <2>3, <2>4 DEF PiaAnswers
<1>3. CASE CredentialsGluetun(c)
  <2>1. call' \in [Calls -> CallType]
    BY <1>3, CallGoesOn, PointsAre DEF CredentialsGluetun
  <2> QED BY <1>3, <2>1, TypeIs, TypeKept DEF CredentialsGluetun, files, tunnels, Choices
<1>4. CASE GluetunAnswers(c)
  <2>1. call' \in [Calls -> CallType]
    BY <1>4, CallGoesOn DEF GluetunAnswers
  <2>2. settings' \in SettingsType
    BY <1>4, SaveType, TypeIs, TypeKept DEF GluetunAnswers, Choices
  <2> QED BY <1>4, <2>1, <2>2, TypeIs, TypeKept DEF GluetunAnswers, files, tunnels
<1>5. CASE Credentials(c)
  <2>1. call' \in [Calls -> CallType]
    BY <1>5, CallGoesOn DEF Credentials
  <2>2. settings' \in SettingsType /\ provider' \in Choices
    BY <1>5, SaveType, TypeIs, TypeKept DEF Credentials, Choices
  <2> QED BY <1>5, <2>1, <2>2, TypeIs, TypeKept DEF Credentials, files, tunnels
<1> QED BY <1>1, <1>2, <1>3, <1>4, <1>5

LEMMA TypeEnd ==
  ASSUME TypeOK, NEW c \in Calls, Server(c) \/ ServerReplies(c) \/ Complete(c)
  PROVE  TypeOK'
<1>1. CASE Server(c)
  <2>1. call' \in [Calls -> CallType]
    BY <1>1, CallGoesOn, PointsAre DEF Server
  <2> QED BY <1>1, <2>1, TypeIs, TypeKept DEF Server, wizard, files, tunnels
<1>2. CASE ServerReplies(c)
  <2>1. call' \in [Calls -> CallType]
    BY <1>2, CallGoesOn DEF ServerReplies
  <2> QED BY <1>2, <2>1, TypeIs, TypeKept DEF ServerReplies, wizard
<1>3. CASE Complete(c)
  <2>1. call' \in [Calls -> CallType]
    BY <1>3, CallGoesOn DEF Complete
  <2>2. required' \in BOOLEAN
    BY <1>3, TypeIs DEF Complete
  <2>3. settings' \in SettingsType
    <3>1. CASE UNCHANGED settings
      BY <3>1, TypeIs
    <3>2. CASE Save([provider |-> IF provider = None THEN "custom" ELSE provider,
                     openvpn |-> settings.openvpn \/ (ovpn /\ ~HasWg)])
      <4>1. (IF provider = None THEN "custom" ELSE provider) \in Choices \cup {"custom"}
        BY TypeIs
      <4>2. (settings.openvpn \/ (ovpn /\ ~HasWg)) \in BOOLEAN
        OBVIOUS
      <4> QED BY <3>2, <4>1, <4>2, SaveType
    <3> QED BY <1>3, <3>1, <3>2 DEF Complete
  <2> QED BY <1>3, <2>1, <2>2, <2>3, TypeIs, TypeKept DEF Complete, files, tunnels
<1> QED BY <1>1, <1>2, <1>3

LEMMA TypeOutside ==
  ASSUME TypeOK, TokenExpires \/ TunOpens \/ DaemonDies \/ TunCloses \/ Boot
  PROVE  TypeOK'
<1>1. CASE TokenExpires
  <2>1. pia' \in PiaType
    BY <1>1, TypeIs DEF TokenExpires, PiaType
  <2> QED BY <1>1, <2>1, TypeIs, TypeKept DEF TokenExpires, files, tunnels
<1>2. CASE TunOpens \/ DaemonDies \/ TunCloses
  <2>1. daemon' \in BOOLEAN /\ tun0' \in {"none", "up", "ending"}
    BY <1>2, TypeIs DEF TunOpens, DaemonDies, TunCloses
  <2> QED BY <1>2, <2>1, TypeIs, TypeKept DEF TunOpens, DaemonDies, TunCloses, wizard, files
<1>3. CASE Boot
  <2>1. /\ required' \in BOOLEAN /\ runtime' \in BOOLEAN /\ wgUp' \in BOOLEAN
        /\ daemon' \in BOOLEAN
    BY <1>3 DEF Boot, HasWg
  <2>2. call' \in [Calls -> CallType] /\ pia' \in PiaType
    BY <1>3, FirstValues DEF Boot
  <2> QED BY <1>3, <2>1, <2>2, TypeIs, TypeKept DEF Boot
<1> QED BY <1>1, <1>2, <1>3

LEMMA TypeNext ==
  ASSUME TypeOK, [Next]_vars
  PROVE  TypeOK'
<1>1. CASE UNCHANGED vars
  BY <1>1 DEF vars, TypeOK
<1> QED
  BY <1>1, TypeUploads, TypeVerify, TypeCredentials, TypeEnd, TypeOutside DEF Next, Resume

(* Every variable keeps its type. *)
THEOREM TypeCorrect == Spec => []TypeOK
<1> QED BY TypeInit, TypeNext, PTL DEF Spec

-----------------------------------------------------------------------------
(* A gate that is closed. *)

(* While the wizard is closed, no call selects a provider and none takes a *)
(* file away: those that began before only add one.                        *)
LEMMA ClosedStaysConfigured ==
  ASSUME TypeOK, ClosedHasConfig, [Next]_vars
  PROVE  ClosedHasConfig'
<1> DEFINE Usable == provider = "gluetun" \/ HasWg \/ ovpn
<1>1. ClosedHasConfig <=> (~required => Usable)
  BY DEF ClosedHasConfig, Step
<1>2. ClosedHasConfig' <=> (~required' => Usable')
  BY DEF ClosedHasConfig, Step
<1>3. CASE \E c \in Calls : Complete(c)
  BY <1>1, <1>2, <1>3 DEF Complete, files, HasWg
<1>4. CASE Boot
  BY <1>2, <1>4 DEF Boot, HasWg
<1>5. CASE \E c \in Calls : Open(c) /\ UNCHANGED required
  BY <1>2, <1>5 DEF Open
<1>6. CASE \E c \in Calls : ServerReplies(c)
  BY <1>1, <1>2, <1>6 DEF ServerReplies, wizard, HasWg
<1>7. CASE UNCHANGED <<required, provider, wg0, ovpn>>
  BY <1>1, <1>2, <1>7 DEF HasWg
<1>8. \/ Boot \/ UNCHANGED <<required, provider, wg0, ovpn>>
      \/ \E c \in Calls : Complete(c) \/ ServerReplies(c) \/ (Open(c) /\ UNCHANGED required)
  BY DEF Next, Resume, SelectProvider, UploadWireguard, UploadOpenvpn, VerifyWireguard,
         VerifyOpenvpn, VerifyNothing, CredentialsPia, CredentialsGluetun, Credentials, Server,
         VerifyWireguardEnd, Poll, PollsOver, VerifyOpenvpnEnd, PiaAnswers, GluetunAnswers,
         TokenExpires, TunOpens, DaemonDies, TunCloses, vars, wizard, files
<1> QED BY <1>3, <1>4, <1>5, <1>6, <1>7, <1>8

(* The wizard closes only on a container that can connect. *)
THEOREM ClosesConfigured == Spec => []ClosedHasConfig
<1>1. Init => ClosedHasConfig
  BY DEF Init, ClosedHasConfig
<1>2. ClosedHasConfig /\ TypeOK /\ [Next]_vars => ClosedHasConfig'
  BY ClosedStaysConfigured
<1> QED BY <1>1, <1>2, TypeCorrect, PTL DEF Spec

-----------------------------------------------------------------------------
(* What a verification starts. *)

LEMMA NothingNext ==
  ASSUME TypeOK, NothingLeftRunning, [Next]_vars
  PROVE  NothingLeftRunning'
<1> DEFINE Waits(c) == call[c].at \in {"poll", "geo"}
<1>1. CASE \E c \in Calls : VerifyOpenvpn(c)
  <2>1. PICK c \in Calls : VerifyOpenvpn(c)
    BY <1>1
  <2>2. tun0' # "up"
    BY <2>1 DEF VerifyOpenvpn
  <2>3. CASE Await(c, "poll", None)
    BY <2>3, TypeIs DEF Await, NothingLeftRunning
  <2>4. CASE daemon' = FALSE
    BY <2>2, <2>4 DEF NothingLeftRunning
  <2> QED BY <2>1, <2>3, <2>4 DEF VerifyOpenvpn
<1>2. CASE \E c \in Calls : PollsOver(c) \/ VerifyOpenvpnEnd(c)
  BY <1>2 DEF PollsOver, VerifyOpenvpnEnd, Teardown, NothingLeftRunning
<1>3. CASE Boot
  BY <1>3 DEF Boot, NothingLeftRunning
<1>4. CASE TunOpens \/ DaemonDies \/ TunCloses
  BY <1>4 DEF TunOpens, DaemonDies, TunCloses, NothingLeftRunning
<1>5. ASSUME UNCHANGED <<daemon, tun0>>, \A c \in Calls : Waits(c) => Waits(c)'
      PROVE  NothingLeftRunning'
  BY <1>5 DEF NothingLeftRunning
<1>6. CASE \E c \in Calls : Poll(c)
  <2>1. PICK c \in Calls : Poll(c)
    BY <1>6
  <2>2. UNCHANGED <<daemon, tun0>>
    BY <2>1 DEF Poll, tunnels
  <2>3. Waits(c)'
    <3>1. call[c] \in CallType /\ call \in [Calls -> CallType]
      BY TypeIs
    <3>2. CASE tun0 # "none"
      BY <2>1, <3>1, <3>2 DEF Poll, CallType
    <3>3. CASE tun0 = "none"
      BY <2>1, <3>1, <3>3 DEF Poll, CallType
    <3> QED BY <3>2, <3>3
  <2>4. \A d \in Calls \ {c} : call'[d] = call[d]
    BY <2>1, TypeIs DEF Poll
  <2> QED BY <1>5, <2>2, <2>3, <2>4
<1>7. ASSUME NEW c \in Calls, ~Waits(c), UNCHANGED <<daemon, tun0>>,
             \/ Return(c) \/ UNCHANGED call
             \/ \E at \in Points, login \in Logins \cup {None} : Await(c, at, login)
      PROVE  NothingLeftRunning'
  <2>1. \A d \in Calls \ {c} : call'[d] = call[d]
    BY <1>7, TypeIs DEF Return, Await
  <2> QED BY <1>5, <1>7, <2>1
<1>8. CASE UNCHANGED <<daemon, tun0, call>>
  BY <1>5, <1>8
<1>9. \A c \in Calls : Open(c) => ~Waits(c)
  BY DEF Open, Idle
<1>10. ASSUME NEW c \in Calls,
              \/ SelectProvider(c) \/ UploadWireguard(c) \/ UploadOpenvpn(c)
              \/ VerifyWireguard(c) \/ VerifyNothing(c) \/ CredentialsPia(c)
              \/ CredentialsGluetun(c) \/ Credentials(c) \/ Server(c) \/ Complete(c)
       PROVE  NothingLeftRunning'
  <2>1. Open(c) /\ UNCHANGED <<daemon, tun0>>
    BY <1>10
       DEF SelectProvider, UploadWireguard, UploadOpenvpn, VerifyWireguard, VerifyNothing,
           CredentialsPia, CredentialsGluetun, Credentials, Server, Complete, tunnels
  <2>2. \/ Return(c) \/ UNCHANGED call
        \/ \E at \in Points, login \in Logins \cup {None} : Await(c, at, login)
    BY <1>10, PointsAre
       DEF SelectProvider, UploadWireguard, UploadOpenvpn, VerifyWireguard, VerifyNothing,
           CredentialsPia, CredentialsGluetun, Credentials, Server, Complete
  <2> QED BY <1>7, <1>9, <2>1, <2>2
<1>11. ASSUME NEW c \in Calls,
              VerifyWireguardEnd(c) \/ PiaAnswers(c) \/ GluetunAnswers(c) \/ ServerReplies(c)
       PROVE  NothingLeftRunning'
  <2>1. ~Waits(c) /\ UNCHANGED <<daemon, tun0>> /\ Return(c)
    BY <1>11 DEF VerifyWireguardEnd, PiaAnswers, GluetunAnswers, ServerReplies, tunnels
  <2> QED BY <1>7, <2>1
<1>12. CASE TokenExpires
  BY <1>8, <1>12 DEF TokenExpires, tunnels
<1>13. CASE UNCHANGED vars
  BY <1>8, <1>13 DEF vars
<1> QED
  BY <1>1, <1>2, <1>3, <1>4, <1>6, <1>10, <1>11, <1>12, <1>13 DEF Next, Resume

(* No openvpn started to verify is left running when no verification is    *)
(* under way, however many overlapped and whichever way they ended.        *)
THEOREM NoOpenvpnLeft == Spec => []NothingLeftRunning
<1>1. Init => NothingLeftRunning
  BY DEF Init, NothingLeftRunning
<1>2. NothingLeftRunning /\ TypeOK /\ [Next]_vars => NothingLeftRunning'
  BY NothingNext
<1> QED BY <1>1, <1>2, TypeCorrect, PTL DEF Spec

-----------------------------------------------------------------------------
(* What a token stands for. *)

LEMMA EarnedNext ==
  ASSUME TypeOK, TokenIsEarned, [Next]_vars
  PROVE  TokenIsEarned'
<1>1. ASSUME NEW c \in Calls, CredentialsPia(c) PROVE TokenIsEarned'
  <2>1. PICK login \in Logins :
          /\ pia' = IF pia.made THEN pia
                    ELSE [made |-> TRUE, login |-> login, token |-> FALSE]
          /\ IF pia.token
             THEN SaveLogin(login) /\ UNCHANGED call
             ELSE Await(c, "login", login) /\ UNCHANGED settings
    BY <1>1 DEF CredentialsPia
  <2>2. pia'.made /\ (pia'.token => pia'.login \in Valid)
    BY <2>1 DEF TokenIsEarned
  <2> QED BY <2>2 DEF TokenIsEarned
<1>2. ASSUME NEW c \in Calls, PiaAnswers(c) PROVE TokenIsEarned'
  <2>1. pia.made
    BY <1>2 DEF PiaAnswers, TokenIsEarned
  <2>2. pia'.made /\ (pia'.token => pia'.login \in Valid)
    BY <1>2, <2>1, TypeIs DEF PiaAnswers, TokenIsEarned, PiaType
  <2> QED BY <2>2 DEF TokenIsEarned
<1>3. CASE TokenExpires
  <2>1. pia'.made = pia.made /\ ~pia'.token /\ UNCHANGED call
    BY <1>3, TypeIs DEF TokenExpires, PiaType
  <2> QED BY <2>1 DEF TokenIsEarned
<1>4. CASE Boot
  BY <1>4 DEF Boot, NoInstance, Idle, TokenIsEarned
<1>5. ASSUME UNCHANGED pia, \A c \in Calls : call'[c].at = "login" => call[c].at = "login"
      PROVE  TokenIsEarned'
  BY <1>5 DEF TokenIsEarned
<1>6. ASSUME NEW c \in Calls, UNCHANGED pia,
             \/ Return(c) \/ UNCHANGED call \/ Poll(c)
             \/ \E at \in Points \ {"login"} : Await(c, at, None)
      PROVE  TokenIsEarned'
  <2>1. call \in [Calls -> CallType]
    BY TypeIs
  <2>2. \A d \in Calls \ {c} : call'[d] = call[d]
    BY <1>6, <2>1 DEF Return, Await, Poll
  <2>3. CASE Return(c) \/ UNCHANGED call
    BY <1>5, <1>6, <2>1, <2>2, <2>3 DEF Return, Idle
  <2>4. CASE \E at \in Points \ {"login"} : Await(c, at, None)
    BY <1>5, <1>6, <2>1, <2>2, <2>4 DEF Await
  <2>5. CASE Poll(c)
    <3>1. CASE tun0 # "none"
      BY <1>5, <1>6, <2>1, <2>2, <2>5, <3>1 DEF Poll, CallType
    <3>2. CASE tun0 = "none"
      BY <1>5, <1>6, <2>1, <2>2, <2>5, <3>2 DEF Poll, CallType
    <3> QED BY <3>1, <3>2
  <2> QED BY <1>6, <2>3, <2>4, <2>5
<1>7. ASSUME NEW c \in Calls,
             \/ SelectProvider(c) \/ UploadWireguard(c) \/ UploadOpenvpn(c)
             \/ VerifyWireguard(c) \/ VerifyOpenvpn(c) \/ VerifyNothing(c)
             \/ CredentialsGluetun(c) \/ Credentials(c) \/ Server(c) \/ Complete(c)
             \/ VerifyWireguardEnd(c) \/ Poll(c) \/ PollsOver(c) \/ VerifyOpenvpnEnd(c)
             \/ GluetunAnswers(c) \/ ServerReplies(c)
      PROVE  TokenIsEarned'
  <2>1. UNCHANGED pia
    BY <1>7
       DEF SelectProvider, UploadWireguard, UploadOpenvpn, VerifyWireguard, VerifyOpenvpn,
           VerifyNothing, CredentialsGluetun, Credentials, Server, Complete,
           VerifyWireguardEnd, Poll, PollsOver, VerifyOpenvpnEnd, GluetunAnswers,
           ServerReplies, wizard
  <2>2. \/ Return(c) \/ UNCHANGED call \/ Poll(c)
        \/ \E at \in Points \ {"login"} : Await(c, at, None)
    BY <1>7, PointsAre
       DEF SelectProvider, UploadWireguard, UploadOpenvpn, VerifyWireguard, VerifyOpenvpn,
           VerifyNothing, CredentialsGluetun, Credentials, Server, Complete,
           VerifyWireguardEnd, PollsOver, VerifyOpenvpnEnd, GluetunAnswers, ServerReplies
  <2> QED BY <1>6, <2>1, <2>2
<1>8. CASE UNCHANGED <<pia, call>>
  BY <1>5, <1>8
<1>9. CASE TunOpens \/ DaemonDies \/ TunCloses \/ UNCHANGED vars
  BY <1>8, <1>9 DEF TunOpens, DaemonDies, TunCloses, wizard, vars
<1> QED BY <1>1, <1>2, <1>3, <1>4, <1>7, <1>9 DEF Next, Resume

(* A step that saves another login for PIA ends with a token in hand.      *)
LEMMA SavesEarned ==
  ASSUME TypeOK, TokenIsEarned, [Next]_vars, settings'.login # settings.login
  PROVE  pia'.token /\ pia'.login \in Valid
<1>1. ASSUME NEW c \in Calls, CredentialsPia(c) PROVE pia'.token /\ pia'.login \in Valid
  <2>1. pia.token
    BY <1>1 DEF CredentialsPia
  <2>2. pia' = pia
    BY <1>1, <2>1 DEF CredentialsPia, TokenIsEarned
  <2> QED BY <2>1, <2>2 DEF TokenIsEarned
<1>2. ASSUME NEW c \in Calls, PiaAnswers(c) PROVE pia'.token /\ pia'.login \in Valid
  BY <1>2, TypeIs DEF PiaAnswers, PiaType
<1>3. ASSUME NEW c \in Calls, GluetunAnswers(c) \/ Credentials(c) \/ Complete(c)
      PROVE  FALSE
  <2>1. \A p : Save([provider |-> p]) => settings'.login = settings.login
    BY TypeIs DEF Save, SettingsType
  <2>2. \A p, o : Save([provider |-> p, openvpn |-> o]) => settings'.login = settings.login
    BY TypeIs DEF Save, SettingsType
  <2> QED BY <1>3, <2>1, <2>2 DEF GluetunAnswers, Credentials, Complete
<1>4. CASE UNCHANGED settings
  BY <1>4
<1>5. \/ UNCHANGED settings
      \/ \E c \in Calls : \/ CredentialsPia(c) \/ PiaAnswers(c) \/ GluetunAnswers(c)
                          \/ Credentials(c) \/ Complete(c)
  BY DEF Next, Resume, SelectProvider, UploadWireguard, UploadOpenvpn, VerifyWireguard,
         VerifyOpenvpn, VerifyNothing, CredentialsGluetun, Server, VerifyWireguardEnd, Poll,
         PollsOver, VerifyOpenvpnEnd, ServerReplies, TokenExpires, TunOpens, DaemonDies,
         TunCloses, Boot, vars, wizard
<1> QED BY <1>1, <1>2, <1>3, <1>4, <1>5

(* Credentials for PIA are saved only when the instance that connects has  *)
(* logged in with credentials PIA accepts.                                 *)
THEOREM SavesAfterLogin == Spec => SavedAfterLogin
<1>1. Init => TokenIsEarned
  BY DEF Init, NoInstance, Idle, TokenIsEarned
<1>2. TypeOK /\ TokenIsEarned /\ [Next]_vars => TokenIsEarned'
  BY EarnedNext
<1>3. TypeOK /\ TokenIsEarned /\ [Next]_vars =>
        [settings'.login # settings.login => pia'.token /\ pia'.login \in Valid]_vars
  BY SavesEarned
<1> QED BY <1>1, <1>2, <1>3, TypeCorrect, PTL DEF Spec, SavedAfterLogin
=============================================================================
