\* Two bots that start on a ramp, empty, cut and other packets among the
\* answers, connections that may fail.
CONSTANTS
  b1 = b1
  b2 = b2
  Bots = {b1, b2}
  Ramped = TRUE
  Scenario = "none"
  KeyMod = 2
  Noise = {"empty", "other"}
  Backlog = 1
  Faults = {"lose", "short"}
SPECIFICATION FairSpec
INVARIANTS
  StageInv
  ReadsInStep
  NoGhosts
  AllClosed
PROPERTIES
  VisitsRefined
  ExitsOnInterrupt
