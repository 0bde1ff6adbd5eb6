SPECIFICATION FairSpec
CONSTANTS
  Kinds = {"http", "socks", "shadowsocks"}
  Conns = {c}
  MaxSaid = 2
  HighWater = 0
INVARIANTS ReadIsWritten LeavesNothing
PROPERTIES IsATunnel EndsWithItsEnds
CHECK_DEADLOCK FALSE
