SPECIFICATION Spec
CONSTANTS
  monitor = monitor
  delete = delete
  Intents <- MCIntents
  TierOf <- MCTierOf
  TTL = 1
  MaxConsumed = 1
  Malformed = Malformed
  NoToken = NoToken
  NotConfigured = NotConfigured
  Calls = {c1, c2}
  MaxNow = 2
  MaxBoot = 1
  MaxRows = 3
INVARIANTS
  TypeOK
  SingleUse
  ApplyWasSanctioned
  LingeringAttempted
PROPERTIES
  NoSecondChance
  ImplementsAuditTrail
SYMMETRY CallSymmetry
