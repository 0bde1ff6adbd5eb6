\* Two WireGuard files, one of which may be rejected; the API keeps running,
\* two requests of the user.
SPECIFICATION FairSpec
CONSTANTS
  WgFiles = {a, b}
  OvpnFiles = {}
  FirstWg = a
  FirstOvpn = None
  VpnTypeEnv = "auto"
  KillswitchEnabled = TRUE
  Sidecars = {FALSE}
  QbtEnabled = TRUE
  Thresholds = {2}
  Cooldowns = {1, Invalid}
  AutoValues = {TRUE}
  CanReject = {b}
  MaxFails = 2
  MaxRequests = 2
  MaxCrashes = 0
  None = None
  Invalid = Invalid
PROPERTIES EscalationEnds CooldownEnds SelfHeals PauseUndone
