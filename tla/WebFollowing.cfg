SPECIFICATION FollowingSpec
CONSTANTS
  Filters = {all, other}
  NoFilter = all
  Sizes = {1, 2}
  FirstSize = 1
  MaxTotal = 2
  MaxRequests = 3
  MaxChanges = 2
  LastState = 3
  Selections = {s1, s2}
  NoFiles = none
  MaxJobs = 2
  MaxPolls = 2
  MaxVisits = 2
CHECK_DEADLOCK FALSE
INVARIANTS TypesOK ListIsCurrent ShownJobIsTrue
PROPERTIES StagesInOrder WaitingEnds
