\* Rotation of a WireGuard file, which may be rejected, and an OpenVPN file,
\* with two unlocked commands and time limits.  The run ends when all is
\* served: no deadlock check.
SPECIFICATION FairSpec
CONSTANTS
  None = None
  Free = Free
  Wg0 = Wg0
  WgFiles = {a}
  FirstWg = a
  OvpnFiles = {o}
  FirstOvpn = o
  VpnTypeEnv = "openvpn"
  KillswitchEnabled = TRUE
  UserFiles = {a}
  Wg0Content = None
  Api = FALSE
  Requests = {r1, r2}
  CanReject = {a}
  Timeouts = TRUE
  MaxCommands = 2
INVARIANT OneAtATime
PROPERTY LockFreed
CHECK_DEADLOCK FALSE
