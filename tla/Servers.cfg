\* Two requests at a time, a TTL of two fetches, an updater that wakes once
\* in a TTL; the interval and the timeout are long enough for a fetch to end
\* after a later one, and for a list to expire while it is refreshed.
SPECIFICATION FairSpec
CONSTANTS
  r1 = r1
  r2 = r2
  Requests = {r1, r2}
  Catalogue <- McCatalogue
  Filters <- McFilters
  Endpoints = {"a"}
  None = None
  Supported = TRUE
  Accounts = TRUE
  Ttl = 2
  Interval = 2
  Patience = 1
INVARIANTS RecentAnswers HealthRecent
PROPERTIES KeepsRefreshing
