\* Scenario A, no faults: expected violation.
CONSTANTS
  b1 = b1
  Bots = {b1}
  Ramped = FALSE
  Scenario = "A"
  KeyMod = 2
  Noise = {}
  Backlog = 0
  Faults = {}
SPECIFICATION FairSpec
PROPERTIES
  CleanLogout
