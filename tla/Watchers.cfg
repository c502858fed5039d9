SPECIFICATION FairSpec
CONSTANTS
  Items = {1, 2, 3}
  RepoOf <- RepoOfIssue
  Window = 1
  MaxStamp = 3
  MaxKills = 1
  MaxAsked = 1
  MaxFails = 1
INVARIANT SavedIsTold
PROPERTY EveryNewsTold
CHECK_DEADLOCK FALSE
