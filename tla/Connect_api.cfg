\* A provider with two servers, one of which may be rejected; three
\* requests.  The run ends when they are served: no deadlock check.
SPECIFICATION Spec
CONSTANTS
  None = None
  Free = Free
  Wg0 = Wg0
  WgFiles = {a, b}
  FirstWg = a
  UserFiles = {}
  Wg0Content = None
  Api = TRUE
  OvpnFiles = {}
  FirstOvpn = None
  VpnTypeEnv = "wireguard"
  KillswitchEnabled = TRUE
  Requests = {r1, r2, r3}
  CanReject = {b}
  Timeouts = FALSE
  MaxCommands = 0
SYMMETRY Symmetry
PROPERTIES ReplyTruthful NeverStranded IsASwitch
CHECK_DEADLOCK FALSE
