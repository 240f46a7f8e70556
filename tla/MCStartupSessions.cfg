SPECIFICATION Spec
CONSTANTS
  Claims = {c1, c2}
  Saves = {s1, s2}
  Hands = {h1}
  Logins = {l1}
  Owner = Owner
  NoPassword = NoPassword
  Unusable = Unusable
  NoRuntime = NoRuntime
  MaxRestarts = 1
INVARIANT
  SessionsFollowConfig
CHECK_DEADLOCK FALSE
