\* Two names for a cache of one, two lists that overlap, a lifetime below
\* the floor, one between and one above the cap.
SPECIFICATION DnsFairSpec
CONSTANTS
  x = x
  y = y
  ads = ads
  custom = custom
  Names = {x, y}
  Types = {"A"}
  Ttls = {0, 2, 9}
  Nothing = Nothing
  Refused = Refused
  Lost = Lost
  Floor = 1
  Cap = 3
  CacheSize = 1
  Lists = {ads, custom}
  Rank <- McRank
  Blocks <- McBlocks
  Intervals = {1, Invalid}
  Invalid = Invalid
  Longest = 1
  MaxQueries = 1
INVARIANT NoStaleAnswer
PROPERTIES BlocklistFirst ListsFollowSettings
