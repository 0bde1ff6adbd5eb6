\* Two calls at a time, three kinds of provider besides the two special ones
\* folded to two, a right and a wrong login, two looks at tun0.
SPECIFICATION Spec
CONSTANTS
  c1 = c1
  c2 = c2
  Calls = {c1, c2}
  Providers = {"mullvad", "custom"}
  Keyed = {"mullvad"}
  right = right
  wrong = wrong
  Logins = {right, wrong}
  Valid = {right}
  None = None
  Polls = 2
INVARIANTS ClosedHasConfig NothingLeftRunning
PROPERTIES SavedAfterLogin
