\* Two clients with room for one event, so that queues are full and a
\* client before, at and after the iteration of a broadcast may leave.
SPECIFICATION FairSpec
CONSTANTS
  a = a
  b = b
  Clients = {a, b}
  Room = 1
  States = {"up", "down"}
  None = None
INVARIANTS AllTold
PROPERTIES StopEnds AvailabilityFollows StateShown
