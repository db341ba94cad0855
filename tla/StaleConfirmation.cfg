\* A fighter switches between two targets.
CONSTANTS
  bot = bot
  none = none
  mob = mob
  player = player
  item = item
  here = here
  there = there
  ObjectIds <- MCObjectIds
  Self = bot
  NoObject = none
  Capacity = 2
  Items = {item}
  Places = {here}
  Switches = {2}
  Mystic = FALSE
  Stationary = FALSE
  KeyMod = 4
  Inbound <- BroadcastInbound
  Faults = {}
SPECIFICATION Spec
PROPERTY
  WaitsForThisTarget
