\* Commands over configurations, preflights, and the adapters, one axis at a time.
SPECIFICATION Spec
CONSTANTS
  Tiers = {"additive", "destructive"}
  MaxU32 = 3
  ConfigFiles <- MCConfigFiles
  Edits <- MCEdits
  Schemas <- MCSchemas
  Versions = {v1, v2}
  NoVersion = none
  Attempts = 2
  MaxRev = 2
INVARIANTS
  PreviewAgrees
  AcceptedIsNotRefused
  PreflightVouches
  ThrowawayAccountedFor
  LiveIsVerified
  AnswersHold
  OkMeansApplied
  FailedCallIsOver
  AnswersEarned
CHECK_DEADLOCK FALSE
