\* Liveness: the cipher is left out (one key), the connection may fail.
\* Death, teleports, a target that appears and attacks that land.
CONSTANTS
  bot = bot
  none = none
  mob = mob
  player = player
  item = item
  here = here
  there = there
  ObjectIds <- MCObjectIds
  Self = bot
  NoObject = none
  Capacity = 1
  Items = {item}
  Places = {here}
  Switches = {1}
  Mystic = FALSE
  Stationary = FALSE
  KeyMod = 1
  Inbound <- LivenessInbound
  Faults = {"lose"}
SPECIFICATION FairSpec
PROPERTIES
  ShutdownCompletes
  TeleportAcked
  DeadBecomesPassive
  HoldsOnceConverged
  SettlesForGood
