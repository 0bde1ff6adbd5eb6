\* Both providers; a gateway that answers and one that may not; 12 ticks of 5
\* seconds are the lifetime of a mapping, 9 its refresh, 6 the limit of the
\* hook (SUBPROCESS_TIMEOUT_VPN).  No deadlock: time always passes.
SPECIFICATION FairSpec
CONSTANTS
  None = None
  Gateways = {g, h}
  Reliable = {g}
  Ports = {p, q}
  Providers = {"pia", "natpmp"}
  Hook = TRUE
  Lifetime = 12
  Refresh = 9
  HookTicks = 6
  MaxStarts = 2
  MaxRestarts = 1
INVARIANTS MappingHeld
PROPERTIES PublishedByNewest KeepsTrying
