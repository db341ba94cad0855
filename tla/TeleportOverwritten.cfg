\* A teleport during a walk: two places on each axis.
CONSTANTS
  bot = bot
  none = none
  mob = mob
  player = player
  item = item
  here = here
  there = there
  ObjectIds <- MCObjectIds
  Self = bot
  NoObject = none
  Capacity = 2
  Items = {item}
  Places = {here, there}
  Switches = {1}
  Mystic = FALSE
  Stationary = FALSE
  KeyMod = 4
  Inbound <- TeleportInbound
  Faults = {}
SPECIFICATION Spec
PROPERTY
  HoldsPosition
