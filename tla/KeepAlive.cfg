\* The load path and keep-alive packets: expected violation.
CONSTANTS
  b1 = b1
  b2 = b2
  Bots = {b1, b2}
  Ramped = FALSE
  Scenario = "none"
  KeyMod = 2
  Noise = {"empty"}
  Backlog = 1
  Faults = {}
SPECIFICATION FairSpec
INVARIANTS
  NoPanic
