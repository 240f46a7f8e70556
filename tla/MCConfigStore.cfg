SPECIFICATION FairSpec
CONSTANTS
  Setups = {c1, c2}
  Commits = {s1, s2}
  Hands = {h1}
  Owner = Owner
  Keys = Keys
  Loader = Loader
  Missing = Missing
  Down = Down
  MaxRestarts = 1
INVARIANTS
  TypeOK
  NothingOverwritten
  ClaimedOnce
  AppliedAsSaved
PROPERTIES
  StaysClaimed
  EverySaveAnswered
CHECK_DEADLOCK FALSE
