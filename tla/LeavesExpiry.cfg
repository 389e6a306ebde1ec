SPECIFICATION FairSpec
CONSTANTS
  Requests = {l1, l2}
  Calls = {c1}
  Horizon = 1
  MaxDeaths = 1
  Marks = {}
  Sundays = {}
  Events = {}
  OwnSection = own
  None = None
INVARIANT ClassListAgrees
PROPERTIES ExpiredAreClosed ExpiredAreMarked
