------------------------------- MODULE Setup -------------------------------
(***************************************************************************)
(* The setup wizard of routes/setup.py: the calls that are open while      *)
(* setup_required is set, the configuration files they write, the tunnels  *)
(* a verification brings up and takes down again, and the credentials they *)
(* check and save.  A call runs to its first await in one step; what other *)
(* calls do before it goes on is up to the clients.                        *)
(*                                                                         *)
(* External: wg-quick, openvpn and the TUN device it opens, the login of   *)
(* PIA, gluetun, the geo-IP service, and the boot of the container.        *)
(* connect_to_server() is modelled in module Connect; here it is its       *)
(* outcome.  The files are the wizard's own, wg0.conf and provider.ovpn.   *)
(* A definition X_Y before X is X with the plausible defect Y.             *)
(***************************************************************************)
EXTENDS Naturals

CONSTANTS
  Calls,       \* calls that may run at the same time
  Providers,   \* what may be selected, besides "pia" and "gluetun"
  Keyed,       \* those of them that take a WireGuard key (supports_wireguard)
  Logins,      \* pairs of user and password for PIA
  Valid,       \* those PIA accepts
  None,        \* nothing
  Polls        \* how often tun0 is looked for

Choices == Providers \cup {"pia", "gluetun"}

ASSUME SetupAssumption ==
  /\ Keyed \subseteq Providers /\ Valid \subseteq Logins /\ None \notin Logins
  /\ None \notin Choices /\ Polls \in Nat \ {0}

VARIABLES
  required,   \* setup_required
  provider,   \* setup_provider
  settings,   \* of tunnelvision.yml: vpn_provider, the login for PIA, vpn_type
  wg0,        \* what is at WG_CONF_PATH: nothing, a file, a link to itself
  ovpn,       \* provider.ovpn exists
  runtime,    \* /etc/wireguard/wg0.conf exists
  wgUp,       \* wg0 is up
  daemon,     \* an openvpn process runs and has not been told to end
  tun0,       \* the device: none, of the daemon, of a process that is ending
  pia,        \* the instance for PIA: made or not, its login and its token
  call        \* what each call waits for

vars == <<required, provider, settings, wg0, ovpn, runtime, wgUp, daemon, tun0, pia, call>>
files == <<wg0, ovpn, runtime>>
tunnels == <<wgUp, daemon, tun0>>
wizard == <<required, provider, settings, pia>>

Idle == [at |-> "idle", login |-> None, polls |-> 0]
NoInstance == [made |-> FALSE, login |-> None, token |-> FALSE]

Init ==
  /\ required = TRUE
  /\ provider = None
  /\ settings = [provider |-> None, login |-> None, openvpn |-> FALSE]
  /\ wg0 = "none" /\ ovpn = FALSE /\ runtime = FALSE
  /\ wgUp = FALSE /\ daemon = FALSE /\ tun0 = "none"
  /\ pia = NoInstance
  /\ call = [c \in Calls |-> Idle]

-----------------------------------------------------------------------------
\* _require_setup(): read once, when the call begins.
Open(c) == required /\ call[c] = Idle

Await(c, at, login) ==
  call' = [call EXCEPT ![c] = [at |-> at, login |-> login, polls |-> 0]]

Return(c) == call' = [call EXCEPT ![c] = Idle]

\* WG_CONF_PATH.exists() follows the link.
HasWg == wg0 = "file"

\* save_settings(): what load_settings() returns, and the updates over it.
Save(updates) ==
  settings' = [k \in DOMAIN settings |-> IF k \in DOMAIN updates THEN updates[k] ELSE settings[k]]

-----------------------------------------------------------------------------
\* POST /setup/provider.
SelectProvider(c) ==
  /\ Open(c)
  /\ provider' \in Choices
  /\ Return(c)
  /\ UNCHANGED <<required, settings, pia, files, tunnels>>

\* POST /setup/wireguard: an invalid text is refused, and write_text() raises
\* on a link to itself.
UploadWireguard(c) ==
  /\ Open(c)
  /\ \/ wg0 # "loop" /\ wg0' = "file" /\ Return(c)
     \/ wg0' = wg0 /\ Return(c)
  /\ UNCHANGED <<wizard, ovpn, runtime, tunnels>>

\* POST /setup/openvpn.
UploadOpenvpn(c) ==
  /\ Open(c)
  /\ \/ ovpn' = TRUE /\ Return(c)
     \/ ovpn' = ovpn /\ Return(c)
  /\ UNCHANGED <<wizard, wg0, runtime, tunnels>>

\* GET /setup/status: the step the wizard goes on with.
Step ==
  IF ~required /\ (HasWg \/ ovpn) THEN "complete"
  ELSE IF provider = None THEN "needs_provider"
  ELSE IF ~HasWg /\ ~ovpn THEN "needs_config"
  ELSE "needs_verify"

-----------------------------------------------------------------------------
\* _verify_wireguard(): the link is made to the path it is at.  wg-quick reads
\* the runtime file and refuses a device that is up; it may also time out,
\* after which wg0 is taken down.
VerifyWireguard(c) ==
  /\ Open(c) /\ HasWg
  /\ wg0' = "loop"
  /\ \/ /\ runtime /\ ~wgUp
        /\ wgUp' = TRUE
        /\ Await(c, "wg_geo", None)
     \/ Return(c) /\ UNCHANGED wgUp
     \/ Return(c) /\ wgUp' = FALSE
  /\ UNCHANGED <<wizard, ovpn, runtime, daemon, tun0>>

\* The geo-IP check has ended: down, whoever brought it up.
VerifyWireguardEnd(c) ==
  /\ call[c].at = "wg_geo"
  /\ wgUp' = FALSE
  /\ Return(c)
  /\ UNCHANGED <<wizard, files, daemon, tun0>>

\* _teardown(): kill by the pid file, then killall.
Teardown ==
  /\ daemon' = FALSE
  /\ tun0' = IF tun0 = "up" THEN "ending" ELSE tun0

\* _verify_openvpn(): the lingering process is told to end and a new one is
\* started, which may fail at once or time out.
VerifyOpenvpn(c) ==
  /\ Open(c) /\ ~HasWg /\ ovpn
  /\ tun0' = IF tun0 = "up" THEN "ending" ELSE tun0
  /\ \/ \E started \in BOOLEAN : daemon' = started /\ Await(c, "poll", None)
     \/ daemon' = FALSE /\ Return(c)
  /\ UNCHANGED <<wizard, files, wgUp>>

\* One look at tun0, and a second of sleep when it is not there.
Poll(c) ==
  /\ call[c].at = "poll" /\ call[c].polls < Polls
  /\ \/ tun0 # "none" /\ call' = [call EXCEPT ![c].at = "geo"]
     \/ tun0 = "none" /\ call' = [call EXCEPT ![c].polls = @ + 1]
  /\ UNCHANGED <<wizard, files, tunnels>>

PollsOver_LeavesDaemon(c) ==
  /\ call[c].at = "poll" /\ call[c].polls = Polls
  /\ Return(c)
  /\ UNCHANGED <<wizard, files, tunnels>>

PollsOver(c) ==
  /\ call[c].at = "poll" /\ call[c].polls = Polls
  /\ Teardown
  /\ Return(c)
  /\ UNCHANGED <<wizard, files, wgUp>>

VerifyOpenvpnEnd(c) ==
  /\ call[c].at = "geo"
  /\ Teardown
  /\ Return(c)
  /\ UNCHANGED <<wizard, files, wgUp>>

\* POST /setup/verify with nothing to verify.
VerifyNothing(c) ==
  /\ Open(c) /\ ~HasWg /\ ~ovpn
  /\ Return(c)
  /\ UNCHANGED <<wizard, files, tunnels>>

Verifying == {"wg_geo", "poll", "geo"}

-----------------------------------------------------------------------------
\* POST /setup/credentials for PIA: get_provider() keeps the instance made for
\* the first login, and get_token() answers from the token it has.
SaveLogin(login) == Save([provider |-> "pia", login |-> login])

CredentialsPia(c) ==
  /\ Open(c)
  /\ provider' = "pia"
  /\ \E login \in Logins :
       /\ pia' = IF pia.made THEN pia ELSE [made |-> TRUE, login |-> login, token |-> FALSE]
       /\ IF pia.token
          THEN SaveLogin(login) /\ UNCHANGED call
          ELSE Await(c, "login", login) /\ UNCHANGED settings
  /\ UNCHANGED <<required, files, tunnels>>

PiaAnswers_SavesFirst(c) ==
  /\ call[c].at = "login"
  /\ SaveLogin(call[c].login)
  /\ \/ /\ pia.login \in Valid
        /\ pia' = [pia EXCEPT !.token = TRUE]
        /\ Return(c)
     \/ pia' = pia /\ Return(c)
  /\ UNCHANGED <<required, provider, files, tunnels>>

\* PIA answers a login with the credentials of the instance, or fails.
PiaAnswers(c) ==
  /\ call[c].at = "login"
  /\ \/ /\ pia.login \in Valid
        /\ pia' = [pia EXCEPT !.token = TRUE]
        /\ SaveLogin(call[c].login)
        /\ Return(c)
     \/ /\ Return(c)
        /\ UNCHANGED <<pia, settings>>
  /\ UNCHANGED <<required, provider, files, tunnels>>

\* PIA_TOKEN_CACHE_TTL is over.
TokenExpires ==
  /\ pia.token
  /\ pia' = [pia EXCEPT !.token = FALSE]
  /\ UNCHANGED <<required, provider, settings, files, tunnels, call>>

\* For gluetun: its control server is asked.
CredentialsGluetun(c) ==
  /\ Open(c)
  /\ provider' = "gluetun"
  /\ Await(c, "gluetun", None)
  /\ UNCHANGED <<required, settings, pia, files, tunnels>>

GluetunAnswers(c) ==
  /\ call[c].at = "gluetun"
  /\ Save([provider |-> "gluetun"]) \/ UNCHANGED settings
  /\ Return(c)
  /\ UNCHANGED <<required, provider, pia, files, tunnels>>

\* For the others nothing is awaited; only a key is checked.
Credentials(c) ==
  /\ Open(c)
  /\ \E p \in Providers, valid \in BOOLEAN :
       /\ provider' = p
       /\ IF p \in Keyed /\ ~valid THEN UNCHANGED settings ELSE Save([provider |-> p])
  /\ Return(c)
  /\ UNCHANGED <<required, pia, files, tunnels>>

-----------------------------------------------------------------------------
\* POST /setup/server: connect_to_server() with the Config of process start.
Server(c) ==
  /\ Open(c)
  /\ Await(c, "server", None)
  /\ UNCHANGED <<wizard, files, tunnels>>

\* It has failed before wg0.conf was written, or wrote it, made the runtime
\* file of it and ran wg-quick down and up.
ServerReplies(c) ==
  /\ call[c].at = "server"
  /\ \/ Return(c) /\ UNCHANGED <<wg0, runtime, wgUp>>
     \/ /\ wg0 # "loop"
        /\ wg0' = "file" /\ runtime' = TRUE
        /\ wgUp' \in BOOLEAN
        /\ Return(c)
  /\ UNCHANGED <<wizard, ovpn, daemon, tun0>>

Complete_AnyProvider(c) ==
  /\ Open(c)
  /\ IF provider # None \/ HasWg \/ ovpn
     THEN /\ Save([provider |-> IF provider = None THEN "custom" ELSE provider,
                   openvpn |-> settings.openvpn \/ (ovpn /\ ~HasWg)])
          /\ required' = FALSE
     ELSE UNCHANGED <<required, settings>>
  /\ Return(c)
  /\ UNCHANGED <<provider, pia, files, tunnels>>

\* POST /setup/complete.
Complete(c) ==
  /\ Open(c)
  /\ IF provider = "gluetun" \/ HasWg \/ ovpn
     THEN /\ Save([provider |-> IF provider = None THEN "custom" ELSE provider,
                   openvpn |-> settings.openvpn \/ (ovpn /\ ~HasWg)])
          /\ required' = FALSE
     ELSE UNCHANGED <<required, settings>>
  /\ Return(c)
  /\ UNCHANGED <<provider, pia, files, tunnels>>

-----------------------------------------------------------------------------
\* The daemon opens tun0, or ends by itself; a process told to end does.
TunOpens ==
  /\ daemon /\ tun0 = "none"
  /\ tun0' = "up"
  /\ UNCHANGED <<wizard, files, wgUp, daemon, call>>

DaemonDies ==
  /\ daemon
  /\ daemon' = FALSE
  /\ tun0' = IF tun0 = "up" THEN "none" ELSE tun0
  /\ UNCHANGED <<wizard, files, wgUp, call>>

TunCloses ==
  /\ tun0 = "ending"
  /\ tun0' = "none"
  /\ UNCHANGED <<wizard, files, wgUp, daemon, call>>

\* The container is started again, or anew, without its state files:
\* init-vpn.sh asks for the setup when it finds no file.
Boot ==
  /\ required' = (~HasWg /\ ~ovpn)
  /\ provider' \in {provider, None}
  /\ runtime' = HasWg /\ wgUp' \in {HasWg, FALSE}
  /\ daemon' = FALSE /\ tun0' = "none"
  /\ pia' = NoInstance
  /\ call' = [c \in Calls |-> Idle]
  /\ UNCHANGED <<settings, wg0, ovpn>>

Resume(c) ==
  \/ VerifyWireguardEnd(c) \/ Poll(c) \/ PollsOver(c) \/ VerifyOpenvpnEnd(c)
  \/ PiaAnswers(c) \/ GluetunAnswers(c) \/ ServerReplies(c)

Next ==
  \/ \E c \in Calls :
       \/ SelectProvider(c) \/ UploadWireguard(c) \/ UploadOpenvpn(c)
       \/ VerifyWireguard(c) \/ VerifyOpenvpn(c) \/ VerifyNothing(c)
       \/ CredentialsPia(c) \/ CredentialsGluetun(c) \/ Credentials(c) \/ Server(c)
       \/ Complete(c) \/ Resume(c)
  \/ TokenExpires \/ TunOpens \/ DaemonDies \/ TunCloses \/ Boot

Spec == Init /\ [][Next]_vars

-----------------------------------------------------------------------------
TypeOK ==
  /\ required \in BOOLEAN
  /\ provider \in Choices \cup {None}
  /\ settings \in [provider : Choices \cup {None, "custom"}, login : Logins \cup {None},
                   openvpn : BOOLEAN]
  /\ wg0 \in {"none", "file", "loop"}
  /\ {ovpn, runtime, wgUp, daemon} \subseteq BOOLEAN
  /\ tun0 \in {"none", "up", "ending"}
  /\ pia \in [made : BOOLEAN, login : Logins \cup {None}, token : BOOLEAN]
  /\ call \in [Calls -> [at : {"idle", "login", "gluetun", "server"} \cup Verifying,
                         login : Logins \cup {None}, polls : 0..Polls]]

\* The wizard closes only on a container that can connect: there is a file
\* init-vpn.sh will find, or the VPN is gluetun's.  A link to itself, left by
\* a verification, is no such file (setup.py:526-539).
ClosedHasConfig == ~required => provider = "gluetun" \/ Step = "complete"

\* No openvpn started to verify runs on when no verification is under way,
\* however verifications overlap and whichever way they end (setup.py:385-437).
NothingLeftRunning ==
  (\A c \in Calls : call[c].at \notin {"poll", "geo"}) => ~daemon /\ tun0 # "up"

\* Credentials for PIA are saved only when the instance that connects holds a
\* token PIA gave it for credentials it accepts (setup.py:453-464).
SavedAfterLogin ==
  [][settings'.login # settings.login => pia'.token /\ pia'.login \in Valid]_vars
=============================================================================
