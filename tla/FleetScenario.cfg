\* Scenario C, two bots: empty and other packets, packets cut short, and a game
\* server that may leave any request unanswered: then the lobby waits forever.
CONSTANTS
  b1 = b1
  b2 = b2
  Bots = {b1, b2}
  Ramped = FALSE
  Scenario = "C"
  KeyMod = 2
  Noise = {"empty", "other"}
  Backlog = 1
  Faults = {"silence", "short"}
CHECK_DEADLOCK FALSE
SPECIFICATION FairSpec
INVARIANTS
  ReadsInStep
PROPERTIES
  VisitsRefined
  BurstEnds
