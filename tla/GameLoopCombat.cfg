\* A mystic fights two others: two targets a fight, a list that holds one, so
\* that a target may be evicted at any point, packets about itself, attacks and
\* casts of its own and of others, a server that stops reading.
\* Four keys: no two packets in a row sent under one key go unnoticed.
CONSTANTS
  bot = bot
  none = none
  mob = mob
  player = player
  item = item
  here = here
  there = there
  ObjectIds <- MCObjectIds
  Self = bot
  NoObject = none
  Capacity = 1
  Items = {item}
  Places = {here}
  Switches = {2}
  Mystic = TRUE
  Stationary = FALSE
  KeyMod = 4
  Inbound <- CombatInbound
  Faults = {"stall"}
SPECIFICATION Spec
INVARIANTS
  TypeOK
  NeverGarbled
  OffenseOnSelectedTarget
  SignalIsOwn
  NeverAtItself
