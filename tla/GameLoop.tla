------------------------------ MODULE GameLoop ------------------------------
(***************************************************************************)
(* One bot in the world: RunGameLoop and the two goroutines it starts      *)
(* (internal/client/client.go:538-1048).                                   *)
(*                                                                         *)
(*   main    waits for the context, joins the action loop, logs out and    *)
(*           closes the connection (runBot's deferred Close);              *)
(*   action  runActionLoop: naps, acts, naps again;                        *)
(*   reader  runReadLoop: applies the packets of the server to the fields  *)
(*           the action loop reads.                                        *)
(*                                                                         *)
(* A step is one access to state another goroutine uses: an atomic load or *)
(* store, a channel operation, a critical section, a use of the write      *)
(* buffer.  What a goroutine computes between two of them belongs to the   *)
(* step before or after.  The game server and the network are external.    *)
(***************************************************************************)
EXTENDS Naturals, Sequences

CONSTANTS
  ObjectIds, Self, NoObject, Capacity,   \* see TargetRing
  Items,       \* object ids of equippable items
  Places,      \* coordinates, the same set on each axis
  Switches,    \* how many targets a fight may cycle through: 2..5 in the code
  Mystic,      \* classID = 10
  Stationary,  \* the -stationary flag
  KeyMod,      \* the rolling part of a cipher key is a number below 2^32
  Inbound,     \* the packets the server may send
  Faults       \* what the network may do: "lose" the connection, "stall"

Positions == [x : Places, y : Places, z : Places]

NoPosition == [none |-> TRUE]

(***************************************************************************)
(* A packet that is too short for its handler changes nothing and is left  *)
(* out, but for a short TeleportToLocation, which has no position to store.*)
(* first and second are the words at bytes 1..5 and 5..9 of a broadcast;   *)
(* victim is whom it is about.                                             *)
(***************************************************************************)
Packets ==
  [op : {"TeleportToLocation"}, to : Positions \cup {NoPosition}]
  \cup [op : {"Die", "NpcInfo", "CharInfo"}, id : ObjectIds]
  \cup [op : {"StatusUpdate"}, id : ObjectIds, enough : BOOLEAN]
  \cup [op : {"ItemList"}, items : SUBSET Items]
  \cup [op : {"Attack", "MagicSkillUse"}, first : ObjectIds,
        second : ObjectIds, victim : ObjectIds, reuse : BOOLEAN]

Nothing == [op |-> "none"]

ASSUME LoopAssumption ==
  /\ {Self, NoObject} \subseteq ObjectIds
  /\ Capacity \in Nat \ {0}
  /\ Switches \subseteq Nat \ {0}
  /\ KeyMod \in Nat \ {0}
  /\ {Mystic, Stationary} \subseteq BOOLEAN
  /\ Inbound \subseteq Packets

VARIABLES
  pc,                          \* where each goroutine is
  ctxDone,                     \* the context of the fleet is cancelled
  peer,                        \* the server's end: "up", "stalled" or "gone"
  open,                        \* gsConn is not closed
  buf, outKey,                 \* gsWriter's buffer, gsCrypt's outgoing key
  srvKey,                      \* the key the server expects next
  received, selected, struck,  \* the last message the server decoded, the bot's
                               \* current target there, the objects it attacked
  pos, pendingAppear, converged, dead,
  mana,                        \* mp is at least 15
  cooling,                     \* skillReady holds a time to come
  attackChan,                  \* empty (NoObject), or the victim it was filled for
  npcs, npcsNext, inventory,
  out, target, left, roamTo,   \* locals of the action loop
  packet                       \* local of the read loop

sendVars   == <<buf, outKey, srvKey, received, selected, struck>>
fightVars  == <<target, left, roamTo, pos, pendingAppear, attackChan>>
readerVars == <<converged, dead, mana, npcs, npcsNext, inventory, packet>>
envVars    == <<ctxDone, peer>>
vars == <<pc, open, out, sendVars, fightVars, readerVars, envVars, cooling>>

Ring == INSTANCE TargetRing

-----------------------------------------------------------------------------
(***************************************************************************)
(* Outbound messages.  obj is the object a message is about (for a skill,  *)
(* the target it will hit, which the packet itself does not carry); at is  *)
(* the position it carries.                                                *)
(***************************************************************************)
Offenses == {"AttackRequest", "RequestMagicSkillUse"}

Ops == Offenses \cup
  {"EnterWorld", "Appearing", "Logout", "Action", "MoveToLocation", "ValidatePosition",
   "RequestActionUse", "UseItem", "Say2"}

Messages == [op : Ops, obj : ObjectIds, at : Positions \cup {NoPosition}]

About(op, obj) == [op |-> op, obj |-> obj, at |-> NoPosition]
Plain(op) == About(op, NoObject)

Garbled == [op |-> "garbled"]

(* Bytes written by each encoder.  A phrase of n characters takes 7 + 2n   *)
(* bytes: one of 15 characters stands for all.                             *)
Size(op) ==
  CASE op \in {"Appearing", "Logout"}          -> 1
    [] op = "UseItem"                          -> 9
    [] op = "RequestActionUse"                 -> 10
    [] op = "RequestMagicSkillUse"             -> 10
    [] op \in {"Action", "AttackRequest"}      -> 18
    [] op = "ValidatePosition"                 -> 21
    [] op = "MoveToLocation"                   -> 29
    [] op = "Say2"                             -> 37
    [] op = "EnterWorld"                       -> 105

Roll(key, op) == (key + Size(op)) % KeyMod

-----------------------------------------------------------------------------
Procs == {"main", "action", "reader"}
Writers == {"main", "action"}

At(p, label) == pc[p] = label
Go(p, label) == pc' = [pc EXCEPT ![p] = label]

Init ==
  /\ pc = [main |-> "run", action |-> "ack", reader |-> "read"]
  /\ ctxDone \in BOOLEAN
  /\ peer = "up"
  /\ open = TRUE
  /\ outKey \in 0 .. KeyMod - 1
  /\ srvKey = outKey
  /\ received = Plain("EnterWorld")
  /\ buf = [writer |-> "main", keys |-> << >>]
  /\ selected = NoObject
  /\ struck = {}
  /\ pos \in Positions
  /\ pendingAppear = FALSE
  /\ converged = FALSE
  /\ dead = FALSE
  /\ mana = FALSE
  /\ cooling = FALSE
  /\ attackChan = NoObject
  /\ Ring!Init
  /\ inventory = {}
  /\ out = Nothing
  /\ target = NoObject
  /\ left = 0
  /\ roamTo = pos
  /\ packet = Nothing
-----------------------------------------------------------------------------
(***************************************************************************)
(* Sending.  A writer builds a packet in the shared buffer, encrypts it    *)
(* there with the outgoing key, which then rolls by the packet's size, and *)
(* writes the buffer to the socket.  The buffer holds the packet of the    *)
(* writer that encoded last; keys are the keys it was encrypted with.  The *)
(* server can read it only if they are the one key it expects.             *)
(***************************************************************************)
Message(w) == IF w = "main" THEN Plain("Logout") ELSE out

Encode(w) ==
  /\ At(w, "encode") /\ Go(w, "encrypt")
  /\ buf' = [writer |-> w, keys |-> << >>]
  /\ UNCHANGED <<out, outKey, srvKey, received, selected, struck>>

(* Mutant of Encrypt: the whole prepared buffer is encrypted.              *)
EncryptPrepared(w) ==
  /\ At(w, "encrypt") /\ Go(w, "send")
  /\ buf' = [buf EXCEPT !.keys = Append(@, outKey)]
  /\ outKey' = (outKey + 256) % KeyMod
  /\ UNCHANGED <<out, srvKey, received, selected, struck>>

Encrypt(w) ==
  /\ At(w, "encrypt") /\ Go(w, "send")
  /\ buf' = [buf EXCEPT !.keys = Append(@, outKey)]
  /\ outKey' = Roll(outKey, Message(w).op)
  /\ UNCHANGED <<out, srvKey, received, selected, struck>>

(* Where a writer goes on after a successful Send.                         *)
After(w) ==
  IF w = "main" THEN "linger"
  ELSE CASE out.op = "Appearing"      -> "nap"
         [] out.op = "MoveToLocation" -> "walk"
         [] out.op = "Action"         -> "offense"
         [] out.op \in Offenses       -> "drain"
         [] OTHER                     -> "ack"

Deliver(m) ==
  /\ srvKey' = Roll(srvKey, m.op)
  /\ IF buf.keys = <<srvKey>>
       THEN /\ received' = m
            /\ selected' = IF m.op = "Action" THEN m.obj ELSE selected
            /\ struck' = IF m.op \in Offenses THEN struck \cup {m.obj} ELSE struck
       ELSE received' = Garbled /\ UNCHANGED <<selected, struck>>

(* The action loop's packet is gone once its helper returns.               *)
Return(w, label) ==
  /\ Go(w, label)
  /\ out' = IF w = "action" THEN Nothing ELSE out

(* Send blocks while the server does not read.                             *)
Send(w) ==
  /\ At(w, "send") /\ peer = "up"
  /\ Deliver(Message(buf.writer))
  /\ Return(w, After(w))
  /\ UNCHANGED <<buf, outKey>>

(* A write to a dead connection may still succeed, for the first bytes, or *)
(* fail: the action loop then stops, and Logout ignores the error.         *)
SendLost(w) ==
  /\ At(w, "send") /\ peer = "gone"
  /\ \/ Return(w, After(w))
     \/ w = "action" /\ Return(w, "done")
  /\ UNCHANGED sendVars

Write(w) == Encode(w) \/ Encrypt(w) \/ Send(w) \/ SendLost(w)

-----------------------------------------------------------------------------
(***************************************************************************)
(* The action loop.                                                        *)
(***************************************************************************)
Say(message) == out' = message /\ Go("action", "encode")

Continue(label) == Go("action", label) /\ UNCHANGED out

Stop == ctxDone /\ Continue("done")

(* ackTeleport: compare-and-swap, then Appearing.                          *)
AckTeleport ==
  /\ At("action", "ack")
  /\ pendingAppear' = FALSE
  /\ IF pendingAppear THEN Say(Plain("Appearing")) ELSE Continue("nap")
  /\ UNCHANGED <<target, left, roamTo, pos, attackChan>>

(* sleepCtx: select takes either case when the nap is over and the context *)
(* is cancelled.                                                           *)
NapEnds ==
  /\ At("action", "nap") /\ Continue("alive")
  /\ UNCHANGED fightVars

(* Mutant of NapCancelled: the cancelled nap only ends early.              *)
NapCutShort ==
  /\ At("action", "nap") /\ ctxDone /\ Continue("alive")
  /\ UNCHANGED fightVars

NapCancelled ==
  /\ At("action", "nap") /\ Stop
  /\ UNCHANGED fightVars

DeathTaunt == Say(Plain("Say2")) \/ Continue("ack")

(* Mutants of CheckDead: a dead bot naps on, blind to teleports; a dead    *)
(* bot acts instead of taunting.                                           *)
DeadNapsOn ==
  /\ At("action", "alive")
  /\ IF dead THEN Say(Plain("Say2")) \/ Continue("nap")
             ELSE Continue("pick")
  /\ UNCHANGED fightVars

DeadActs ==
  /\ At("action", "alive")
  /\ IF dead THEN Say(Plain("Say2")) \/ Continue("pick")
             ELSE Continue("pick")
  /\ UNCHANGED fightVars

(* A dead bot taunts, or not, and starts over.                             *)
CheckDead ==
  /\ At("action", "alive")
  /\ IF dead THEN DeathTaunt ELSE Continue("pick")
  /\ UNCHANGED fightVars

DoSocialAction == Say(Plain("RequestActionUse"))
DoChat == Say(Plain("Say2"))

(* Mutant of PickAction: convergence is not looked at.                     *)
PickActionUnconverged ==
  /\ At("action", "pick")
  /\ \/ ~ Stationary /\ Continue("roam")
     \/ DoSocialAction \/ DoChat
     \/ Continue("checkItem")
     \/ Continue("checkTarget")
  /\ UNCHANGED fightVars

(* doAction: a stationary or converged bot does not choose to move.        *)
PickAction ==
  /\ At("action", "pick")
  /\ \/ ~ (Stationary \/ converged) /\ Continue("roam")
     \/ DoSocialAction \/ DoChat
     \/ Continue("checkItem")
     \/ Continue("checkTarget")
  /\ UNCHANGED fightVars

CheckInventory ==
  /\ At("action", "checkItem")
  /\ IF inventory = {} THEN DoSocialAction ELSE Continue("useItem")
  /\ UNCHANGED fightVars

UseItem ==
  /\ At("action", "useItem")
  /\ IF inventory = {} THEN Continue("ack") ELSE Say(Plain("UseItem"))
  /\ UNCHANGED fightVars

(* With nobody around even a stationary bot moves.                         *)
CheckTargets ==
  /\ At("action", "checkTarget")
  /\ IF Ring!TargetCount = 0
       THEN Continue("roam") /\ UNCHANGED left
       ELSE Continue("select") /\ left' \in Switches
  /\ UNCHANGED <<target, roamTo, pos, pendingAppear, attackChan>>

(* doRoam: heading and stride are random, z is kept.  The position is      *)
(* stored one coordinate at a time, when the walk is over.                 *)
BeginRoam ==
  /\ At("action", "roam")
  /\ \E x, y \in Places : roamTo' = [x |-> x, y |-> y, z |-> pos.z]
  /\ Say([Plain("MoveToLocation") EXCEPT !.at = roamTo'])
  /\ UNCHANGED <<target, left, pos, pendingAppear, attackChan>>

Walk ==
  /\ At("action", "walk")
  /\ Continue("arriveX") \/ Stop
  /\ UNCHANGED fightVars

ArriveX ==
  /\ At("action", "arriveX") /\ Continue("arriveY")
  /\ pos' = [pos EXCEPT !.x = roamTo.x]
  /\ UNCHANGED <<target, left, roamTo, pendingAppear, attackChan>>

ArriveY ==
  /\ At("action", "arriveY")
  /\ pos' = [pos EXCEPT !.y = roamTo.y]
  /\ Say([Plain("ValidatePosition") EXCEPT !.at = roamTo])
  /\ UNCHANGED <<target, left, roamTo, pendingAppear, attackChan>>

(* doCombat: select a target, attack it, wait for the attack to land.      *)
NextSwitch ==
  /\ At("action", "select")
  /\ IF ctxDone THEN Stop ELSE Continue("choose")
  /\ UNCHANGED fightVars

ChooseTarget ==
  /\ At("action", "choose")
  /\ \/ /\ Ring!RandomTargets = {} /\ Continue("ack")
        /\ UNCHANGED target
     \/ /\ target' \in Ring!RandomTargets
        /\ Say(About("Action", target'))
  /\ UNCHANGED <<left, roamTo, pos, pendingAppear, attackChan>>

(* Mutant of CheckMana: the attack is on a target of its own.              *)
AttackAnyone ==
  /\ At("action", "offense")
  /\ IF Mystic /\ mana THEN Continue("castReady")
       ELSE \E id \in Ring!RandomTargets : Say(About("AttackRequest", id))
  /\ UNCHANGED fightVars

(* canCast loads the mana, then the cooldown.                              *)
CheckMana ==
  /\ At("action", "offense")
  /\ IF Mystic /\ mana THEN Continue("castReady")
                       ELSE Say(About("AttackRequest", target))
  /\ UNCHANGED fightVars

CheckCooldown ==
  /\ At("action", "castReady")
  /\ Say(About(IF cooling THEN "AttackRequest" ELSE "RequestMagicSkillUse", target))
  /\ UNCHANGED fightVars

Drain ==
  /\ At("action", "drain") /\ Continue("wait")
  /\ attackChan' = NoObject
  /\ UNCHANGED <<target, left, roamTo, pos, pendingAppear>>

SweepLoot == Say(Plain("RequestActionUse"))

(* Mutant of NextTarget: one switch too many.                              *)
OneMoreTarget ==
  /\ left' = left - 1
  /\ IF left = 0 THEN SweepLoot ELSE Continue("select")

NextTarget ==
  /\ left' = left - 1
  /\ IF left' = 0 THEN SweepLoot ELSE Continue("select")

Landed ==
  /\ At("action", "wait") /\ attackChan # NoObject
  /\ attackChan' = NoObject
  /\ NextTarget
  /\ UNCHANGED <<target, roamTo, pos, pendingAppear>>

TimedOut ==
  /\ At("action", "wait") /\ NextTarget
  /\ UNCHANGED <<target, roamTo, pos, pendingAppear, attackChan>>

WaitCancelled ==
  /\ At("action", "wait") /\ Stop
  /\ UNCHANGED fightVars

Decide ==
  \/ AckTeleport \/ NapEnds \/ NapCancelled \/ CheckDead
  \/ PickAction \/ CheckInventory \/ UseItem \/ CheckTargets
  \/ BeginRoam \/ Walk \/ ArriveX \/ ArriveY
  \/ NextSwitch \/ ChooseTarget \/ CheckMana \/ CheckCooldown
  \/ Drain \/ Landed \/ TimedOut \/ WaitCancelled

ActionLoop ==
  /\ \/ Decide /\ UNCHANGED sendVars
     \/ Write("action") /\ UNCHANGED fightVars
  /\ UNCHANGED <<open, readerVars, envVars, cooling>>

-----------------------------------------------------------------------------
(***************************************************************************)
(* The main goroutine: RunGameLoop, Logout, and the deferred Close.        *)
(***************************************************************************)
AwaitCancel ==
  /\ At("main", "run") /\ ctxDone /\ Go("main", "join")
  /\ UNCHANGED <<open, out, sendVars>>

(* Mutants of Join: it does not wait; the bot does not log out.            *)
JoinAtOnce ==
  /\ At("main", "join") /\ Go("main", "encode")
  /\ UNCHANGED <<open, out, sendVars>>

JoinSilently ==
  /\ At("main", "join") /\ At("action", "done") /\ Go("main", "linger")
  /\ UNCHANGED <<open, out, sendVars>>

Join ==
  /\ At("main", "join") /\ At("action", "done") /\ Go("main", "encode")
  /\ UNCHANGED <<open, out, sendVars>>

Close ==
  /\ At("main", "linger") /\ Go("main", "finished")
  /\ open' = FALSE
  /\ UNCHANGED <<out, sendVars>>

Main ==
  /\ \/ AwaitCancel \/ Join \/ Close
     \/ Write("main") /\ UNCHANGED open
  /\ UNCHANGED <<fightVars, readerVars, envVars, cooling>>

-----------------------------------------------------------------------------
(***************************************************************************)
(* The read loop.  Read and Decrypt touch only the reader's own buffer and *)
(* the incoming key, so a handler with one access to shared state is one   *)
(* step.  The other two handlers take one step per access.                 *)
(***************************************************************************)
Arrives(p) == At("reader", "read") /\ open /\ p \in Inbound

(* The server tells of an attack of the bot only after it received one.    *)
Truthful(p) == Self \in {p.first, p.second} => p.victim \in struck

ReadError ==
  /\ At("reader", "read")
  /\ peer = "gone" \/ ~ open
  /\ Go("reader", "done")
  /\ UNCHANGED <<readerVars, pos, pendingAppear, cooling, attackChan>>

HandleDie(p) ==
  /\ p.op = "Die" /\ p.id = Self
  /\ dead' = TRUE
  /\ UNCHANGED <<converged, mana, npcs, npcsNext, inventory>>

HandleStatusUpdate(p) ==
  /\ p.op = "StatusUpdate" /\ p.id = Self
  /\ mana' = p.enough
  /\ UNCHANGED <<converged, dead, npcs, npcsNext, inventory>>

(* Mutant of HandleItemList: an empty list replaces the inventory.         *)
HandleEveryItemList(p) ==
  /\ p.op = "ItemList"
  /\ inventory' = p.items
  /\ UNCHANGED <<converged, dead, mana, npcs, npcsNext>>

(* A list without equippable items leaves the old one in place.            *)
HandleItemList(p) ==
  /\ p.op = "ItemList" /\ p.items # {}
  /\ inventory' = p.items
  /\ UNCHANGED <<converged, dead, mana, npcs, npcsNext>>

HandleInfo(p) ==
  /\ p.op \in {"NpcInfo", "CharInfo"}
  /\ Ring!AddTarget(p.id)
  /\ UNCHANGED <<converged, dead, mana, inventory>>

HandleAtOnce(p) ==
  /\ Arrives(p)
  /\ HandleDie(p) \/ HandleStatusUpdate(p) \/ HandleItemList(p) \/ HandleInfo(p)
  /\ UNCHANGED <<pc, packet, pos, pendingAppear, cooling, attackChan>>

BeginTeleport(p) ==
  /\ p.op = "TeleportToLocation"
  /\ Go("reader", IF p.to = NoPosition THEN "tpAppear" ELSE "tpX")

BeginBroadcast(p) ==
  /\ p.op \in {"Attack", "MagicSkillUse"} /\ Truthful(p)
  /\ Go("reader", "signal")

BeginHandler(p) ==
  /\ Arrives(p)
  /\ packet' = p
  /\ BeginTeleport(p) \/ BeginBroadcast(p)
  /\ UNCHANGED <<converged, dead, mana, npcs, npcsNext, inventory,
                 pos, pendingAppear, cooling, attackChan>>

(* handleTeleport: three coordinates, then the two flags.                  *)
Store(axis, here, next) ==
  /\ At("reader", here) /\ Go("reader", next)
  /\ pos' = [pos EXCEPT ![axis] = packet.to[axis]]
  /\ UNCHANGED <<readerVars, pendingAppear, cooling, attackChan>>

StorePosition ==
  Store("x", "tpX", "tpY") \/ Store("y", "tpY", "tpZ") \/ Store("z", "tpZ", "tpAppear")

ArmAppearing ==
  /\ At("reader", "tpAppear") /\ Go("reader", "tpConverge")
  /\ pendingAppear' = TRUE
  /\ UNCHANGED <<readerVars, pos, cooling, attackChan>>

Converge ==
  /\ At("reader", "tpConverge") /\ Go("reader", "read")
  /\ converged' = TRUE
  /\ packet' = Nothing
  /\ UNCHANGED <<dead, mana, npcs, npcsNext, inventory, pos, pendingAppear, cooling, attackChan>>

(* Mutant of Signal: anybody's attack signals.                             *)
SignalAnyone ==
  /\ At("reader", "signal") /\ Go("reader", "reuse")
  /\ attackChan' = IF attackChan = NoObject THEN packet.victim ELSE attackChan
  /\ UNCHANGED <<readerVars, pos, pendingAppear, cooling>>

(* handleCombatBroadcast: a non-blocking send to a channel of capacity 1,  *)
(* for either packet if bytes 1..5 hold our id; then, for a skill, the     *)
(* reuse delay if bytes 5..9 do.                                           *)
Signal ==
  /\ At("reader", "signal") /\ Go("reader", "reuse")
  /\ attackChan' = IF packet.first = Self /\ attackChan = NoObject
                     THEN packet.victim ELSE attackChan
  /\ UNCHANGED <<readerVars, pos, pendingAppear, cooling>>

OwnReuse == packet.op = "MagicSkillUse" /\ packet.second = Self /\ packet.reuse

RecordReuse ==
  /\ At("reader", "reuse") /\ Go("reader", "read")
  /\ cooling' = (cooling \/ OwnReuse)
  /\ packet' = Nothing
  /\ UNCHANGED <<converged, dead, mana, npcs, npcsNext, inventory, pos, pendingAppear, attackChan>>

Handle == StorePosition \/ ArmAppearing \/ Converge \/ Signal \/ RecordReuse

ReadLoop ==
  /\ \/ ReadError \/ Handle
     \/ \E p \in Inbound : HandleAtOnce(p) \/ BeginHandler(p)
  /\ UNCHANGED <<open, out, sendVars, target, left, roamTo, envVars>>

-----------------------------------------------------------------------------
(***************************************************************************)
(* The environment: an interrupt cancels the context, the connection may   *)
(* fail, the server may stop and resume reading, the cooldown runs out.    *)
(***************************************************************************)
Cancel == ~ ctxDone /\ ctxDone' = TRUE /\ UNCHANGED <<peer, cooling>>

Lose ==
  /\ "lose" \in Faults /\ open /\ peer # "gone"
  /\ peer' = "gone"
  /\ UNCHANGED <<ctxDone, cooling>>

Stall ==
  /\ "stall" \in Faults /\ peer = "up"
  /\ peer' = "stalled"
  /\ UNCHANGED <<ctxDone, cooling>>

Resume ==
  /\ peer = "stalled" /\ peer' = "up"
  /\ UNCHANGED <<ctxDone, cooling>>

Elapse == cooling /\ cooling' = FALSE /\ UNCHANGED envVars

Environment ==
  /\ Cancel \/ Lose \/ Stall \/ Resume \/ Elapse
  /\ UNCHANGED <<pc, open, out, sendVars, fightVars, readerVars>>

(* The read loop outlives the process's other goroutines only until its    *)
(* next read.                                                              *)
Finished == At("main", "finished") /\ At("action", "done") /\ At("reader", "done")

Next ==
  \/ ActionLoop \/ Main \/ ReadLoop \/ Environment
  \/ Finished /\ UNCHANGED vars

Spec == Init /\ [][Next]_vars

(***************************************************************************)
(* A goroutine that can run is scheduled; timers fire.  A nap that is      *)
(* entered again and again after the cancellation does not lose the race   *)
(* in sleepCtx forever (Go's select chooses at random), and neither does   *)
(* the read error: what the server sent before its end went away is        *)
(* finite.  The server need never send, nor resume reading; nothing has to *)
(* fail or to be cancelled.                                                *)
(***************************************************************************)
Fairness ==
  /\ WF_vars(ActionLoop)
  /\ SF_vars(ActionLoop /\ NapCancelled)
  /\ WF_vars(Main)
  /\ WF_vars(ReadLoop /\ Handle)
  /\ SF_vars(ReadLoop /\ ReadError)

FairSpec == Spec /\ Fairness
-----------------------------------------------------------------------------
(* Type invariant: the labels of the goroutines and the values of the      *)
(* fields of Client the load loop uses (client.go:41-79).                  *)
ActionLabels ==
  {"ack", "nap", "alive", "pick", "checkItem", "useItem", "checkTarget",
   "roam", "walk", "arriveX", "arriveY", "select", "choose", "offense",
   "castReady", "drain", "wait", "encode", "encrypt", "send", "done"}
MainLabels == {"run", "join", "encode", "encrypt", "send", "linger", "finished"}
ReaderLabels ==
  {"read", "tpX", "tpY", "tpZ", "tpAppear", "tpConverge", "signal", "reuse", "done"}

ControlOK ==
  /\ pc \in [Procs -> ActionLabels \cup MainLabels \cup ReaderLabels]
  /\ pc["action"] \in ActionLabels
  /\ pc["main"] \in MainLabels
  /\ pc["reader"] \in ReaderLabels
  /\ ctxDone \in BOOLEAN /\ open \in BOOLEAN
  /\ peer \in {"up", "stalled", "gone"}

ChannelOK ==
  /\ buf \in [writer : Writers, keys : Seq(0 .. KeyMod - 1)]
  /\ outKey \in 0 .. KeyMod - 1
  /\ srvKey \in 0 .. KeyMod - 1
  /\ received \in Messages \cup {Garbled}
  /\ selected \in ObjectIds /\ struck \subseteq ObjectIds

FieldsOK ==
  /\ pos \in Positions
  /\ pendingAppear \in BOOLEAN /\ converged \in BOOLEAN
  /\ dead \in BOOLEAN /\ mana \in BOOLEAN /\ cooling \in BOOLEAN
  /\ attackChan \in ObjectIds
  /\ npcs \in Seq(ObjectIds) /\ npcsNext \in Nat
  /\ inventory \subseteq Items

LocalsOK ==
  /\ out \in Messages \cup {Nothing}
  /\ target \in ObjectIds /\ left \in Nat /\ roamTo \in Positions
  /\ packet \in Packets \cup {Nothing}

TypeOK == ControlOK /\ ChannelOK /\ FieldsOK /\ LocalsOK

(* The write buffer and the outgoing key have one user at a time, though   *)
(* two goroutines write: "otherwise the two would race on the shared write *)
(* buffer and cipher state" (client.go:554-557).                           *)
Writing(w) == pc[w] \in {"encode", "encrypt", "send"}

SoleWriter == ~ (Writing("action") /\ Writing("main"))

(* The server can read everything it is sent: each packet reaches it       *)
(* encrypted once, with the key its own copy of the cipher has rolled to   *)
(* (game_crypt.go:48-71), whatever the goroutines were doing at the time.  *)
NeverGarbled == received # Garbled

(* What the server is told to attack is what it was told to target,        *)
(* although the read loop replaces entries of the list between the two     *)
(* packets (client.go:759-763, 790-812).                                   *)
OffenseOnSelectedTarget ==
  received.op \in Offenses => received.obj = selected

(* The bot never targets or attacks itself, though the packets that fill   *)
(* its list are about it too: the read loop tests the id, the action loop  *)
(* sends what it finds in the list (client.go:951-953, 735-763).           *)
NeverAtItself ==
  /\ selected = Self => Self = NoObject    \* nothing selected, and a bot without an id
  /\ {Self, NoObject} \cap struck = {}

(* The wait of doCombat is ended by nothing but an attack of the bot that  *)
(* the server carried out, never by someone else's (client.go:928-936).    *)
SignalIsOwn == attackChan # NoObject => attackChan \in struck

(* The count that doAction checks and the choice made later are separate   *)
(* accesses; the lists never shrink, so the choice still finds something   *)
(* (client.go:625-632, 735-738, 759-762).                                  *)
ChoiceStillThere ==
  /\ At("action", "useItem") => inventory # {}
  /\ pc["action"] \in {"select", "choose"} => npcs # << >>

(* An interrupted bot logs out, then hangs up, and says nothing after it:  *)
(* the load loop implements BotSession (README.md:16, client.go:565-567).  *)
Session == INSTANCE BotSession WITH
  session     <- IF peer = "gone" THEN "lost"
                 ELSE IF received = Plain("Logout") THEN "loggedOut" ELSE "inWorld",
  interrupted <- ctxDone,
  connected   <- open

SessionRefined == Session!Spec

-----------------------------------------------------------------------------
(* An interrupt ends all three goroutines, unless the server stops reading *)
(* (client.go:565-568, 857).                                               *)
ShutdownCompletes == ctxDone ~> Finished

(* Every teleport is acknowledged: the loop gets to send Appearing as long *)
(* as it runs, however busy it is (client.go:582-586, 649-663).            *)
Acknowledging == Writing("action") /\ out.op = "Appearing"

TeleportAcked == pendingAppear ~> Acknowledging \/ At("action", "done")

(* A dead bot ends up doing nothing but talk and acknowledge teleports     *)
(* (client.go:593-600).                                                    *)
Passive ==
  \/ pc["action"] \in {"ack", "nap", "alive", "done"}
  \/ Writing("action") /\ out.op \in {"Say2", "Appearing"}

DeadBecomesPassive == dead ~> [] Passive

(* A bot that was teleported to the others and knows a target stops        *)
(* roaming for good, once a walk under way is over (client.go:613-616).    *)
Roaming ==
  \/ pc["action"] \in {"roam", "walk", "arriveX", "arriveY"}
  \/ Writing("action") /\ out.op \in {"MoveToLocation", "ValidatePosition"}

HoldsOnceConverged == converged /\ npcs # << >> ~> [] ~ Roaming

(* There is no way back: no step, of any goroutine, makes a dead bot that  *)
(* is passive act, or a converged bot that stands still and knows a target *)
(* walk (client.go:593-600, 613-616, 625-632).                             *)
SettlesForGood ==
  [][/\ dead /\ Passive => Passive'
     /\ converged /\ npcs # << >> /\ ~ Roaming => ~ Roaming']_vars

-----------------------------------------------------------------------------
(* "once the convergence hook has teleported us into the PvP cluster, hold *)
(* position and fight" (client.go:613-615): a converged bot with targets   *)
(* is moved by nothing but the next teleport.                              *)
HoldsPosition ==
  [][converged /\ npcs # << >> /\ At("reader", "read") => pos' = pos]_vars

(* "wait for THIS attack/cast to actually land" (client.go:767-768): the   *)
(* confirmation that ends the wait is about the current target.            *)
WaitsForThisTarget == [][ActionLoop /\ Landed => attackChan = target]_vars

(* "signals the action loop when our own attack/cast lands and records     *)
(* skill reuse" (client.go:928-929): a cast whose reuse delay is recorded  *)
(* as the bot's own is signalled too.                                      *)
OwnCastSignalled == [][ReadLoop /\ Signal /\ OwnReuse => attackChan' # NoObject]_vars

=============================================================================
