\* Both servers may be rejected.
SPECIFICATION Spec
CONSTANTS
  None = None
  Free = Free
  Wg0 = Wg0
  WgFiles = {a, b}
  FirstWg = a
  UserFiles = {}
  Wg0Content = None
  Api = TRUE
  OvpnFiles = {}
  FirstOvpn = None
  VpnTypeEnv = "wireguard"
  KillswitchEnabled = TRUE
  Requests = {r1}
  CanReject = {a, b}
  Timeouts = FALSE
  MaxCommands = 0
INVARIANT KillswitchHonest
