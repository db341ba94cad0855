----------------------------- MODULE MCGameLoop -----------------------------
(***************************************************************************)
(* Two other objects around the bot, one item, and for each run the        *)
(* packets that matter to its question.                                    *)
(***************************************************************************)
EXTENDS GameLoop

CONSTANTS bot, none, mob, player, item, here, there

MCObjectIds == {bot, none, mob, player}

Teleports == [op : {"TeleportToLocation"}, to : Positions]
ShortTeleport == [op |-> "TeleportToLocation", to |-> NoPosition]

Others == [op : {"NpcInfo", "CharInfo"}, id : {mob, player}]
Mob == [op |-> "NpcInfo", id |-> mob]
OwnDeath == [op |-> "Die", id |-> bot]
ManaUpdates == [op : {"StatusUpdate"}, id : {bot}, enough : BOOLEAN]
ItemLists == [op : {"ItemList"}, items : SUBSET {item}]

Attacks(by, victims) ==
  [op : {"Attack"}, first : by, second : {none}, victim : victims, reuse : {FALSE}]

(* The caster is in bytes 5..9, where ParseOwnSkillReuse looks for it
   (protocol.go:854-864). *)
Casts(by, victims) ==
  [op : {"MagicSkillUse"}, first : {none}, second : by, victim : victims, reuse : {TRUE}]

(* A fight: attacks and casts of the bot and of another player. *)
CombatInbound ==
  [op : {"NpcInfo"}, id : MCObjectIds] \cup ManaUpdates
  \cup Attacks({bot}, {mob, player}) \cup Attacks({player}, {mob})
  \cup Casts({bot, player}, {mob})

(* A session: items, teleports of both lengths, objects around. *)
SessionInbound ==
  {Mob, ShortTeleport} \cup ItemLists \cup Teleports

(* What changes how the bot goes on: death, teleports, targets, landed attacks. *)
LivenessInbound ==
  {OwnDeath, Mob, ShortTeleport} \cup Attacks({bot}, {mob})

TeleportInbound == {Mob} \cup Teleports

BroadcastInbound ==
  [op : {"NpcInfo"}, id : {mob, player}] \cup ManaUpdates
  \cup Attacks({bot}, {mob, player}) \cup Casts({bot}, {mob})
=============================================================================
