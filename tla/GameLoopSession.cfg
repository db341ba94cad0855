\* From the world to the end of the connection, which may fail at any point.
\* The list holds one object, the inventory at most one item.
CONSTANTS
  bot = bot
  none = none
  mob = mob
  player = player
  item = item
  here = here
  there = there
  ObjectIds <- MCObjectIds
  Self = bot
  NoObject = none
  Capacity = 1
  Items = {item}
  Places = {here}
  Switches = {1}
  Mystic = FALSE
  Stationary = FALSE
  KeyMod = 4
  Inbound <- SessionInbound
  Faults = {"lose"}
SPECIFICATION Spec
INVARIANTS
  SoleWriter
  ChoiceStillThere
PROPERTY
  SessionRefined
