\* Two WireGuard files, one of which may be rejected, and an OpenVPN file in a
\* container that runs OpenVPN, standalone or next to gluetun; settings, a
\* command of the user and one API restart.
SPECIFICATION Spec
CONSTANTS
  WgFiles = {a, b}
  OvpnFiles = {o}
  FirstWg = a
  FirstOvpn = o
  VpnTypeEnv = "openvpn"
  KillswitchEnabled = TRUE
  Sidecars = {TRUE, FALSE}
  QbtEnabled = TRUE
  Thresholds = {2, Invalid}
  Cooldowns = {1, Invalid}
  AutoValues = {TRUE, FALSE}
  CanReject = {b}
  MaxFails = 2
  MaxRequests = 1
  MaxCrashes = 1
  None = None
  Invalid = Invalid
INVARIANTS RemainingExact GivesUpAfterAll FileTruthful
PROPERTIES RecoveryVerified FollowsTheBook KillswitchFollows
