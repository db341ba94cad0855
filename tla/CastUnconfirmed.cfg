\* A mystic casts on its target.
CONSTANTS
  bot = bot
  none = none
  mob = mob
  player = player
  item = item
  here = here
  there = there
  ObjectIds <- MCObjectIds
  Self = bot
  NoObject = none
  Capacity = 2
  Items = {item}
  Places = {here}
  Switches = {1}
  Mystic = TRUE
  Stationary = FALSE
  KeyMod = 4
  Inbound <- BroadcastInbound
  Faults = {}
SPECIFICATION Spec
PROPERTY
  OwnCastSignalled
