\* Two browsers that share an address, one behind a proxy that names its user;
\* room for two sessions, two attempts in a window of three.  Either may log in
\* again and again, with and without the cookie of its last session.
SPECIFICATION AuthFairSpec
CONSTANTS
  b1 = b1
  b2 = b2
  near = near
  t1 = t1
  t2 = t2
  t3 = t3
  t4 = t4
  t5 = t5
  Browsers = {b1, b2}
  Addresses = {near}
  From <- McFrom
  Named = {b2}
  Trusted = {near}
  Keyed = {b2}
  Tokens = {t1, t2, t3, t4, t5}
  Absent = Absent
  MaxSessions = 2
  MaxAge = 4
  Window = 3
  MaxAttempts = 2
  MaxRestarts = 1
INVARIANTS GuessesLimited RefusedOnlyWhenFull
PROPERTIES LockoutEnds
