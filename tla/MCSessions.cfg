SPECIFICATION Spec
CONSTANTS
  Attempts = {a1, a2}
  Nonces = {n1, n2}
  Bases = {b1, b2, b3}
  Hashes = {h1, h2, h3}
  NoHash = NoHash
  NoFile = NoFile
  NoSession = NoSession
  TTL = 3
  RenewAfter = 2
  MaxRevoked = 1
  FreeAttempts = 2
  MaxDelay = 2
  MaxFailures = 3
  Budgets <- MCBudgets
SYMMETRY RandomSymmetry
INVARIANTS
  TypeOK
  SignedOutStaysOut
  OnlyCurrentPassword
  LastsFromLastPage
  GuessesAreSlow
