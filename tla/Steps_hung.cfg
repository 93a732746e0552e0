\* An adapter that closes its outputs and does not exit.
SPECIFICATION FairSpec
CONSTANTS
  Tiers = {"additive"}
  MaxU32 = 1
  ConfigFiles <- MCEdits
  Edits <- MCEdits
  Schemas <- MCSchemas
  Versions = {v1}
  NoVersion = none
  Attempts = 1
  MaxRev = 0
PROPERTY CallReturns
CHECK_DEADLOCK FALSE
