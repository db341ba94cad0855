--------------------------- MODULE GameLoopProofs ---------------------------
(***************************************************************************)
(* What the load loop guarantees for every number of objects, items and    *)
(* targets, every packet stream, every width of the cipher's counter and   *)
(* every fault of the network.                                             *)
(***************************************************************************)
EXTENDS GameLoop, SequenceTheorems, TLAPS

(***************************************************************************)
(* What the locals hold where they are used: a packet to send while the    *)
(* action loop writes, targets to go during a fight, a packet of the right *)
(* kind in a handler.                                                      *)
(***************************************************************************)
Fighting ==
  \/ pc["action"] \in {"select", "choose", "offense", "castReady", "drain", "wait"}
  \/ Writing("action") /\ out.op \in {"Action"} \cup Offenses

LocalsInUse ==
  /\ Writing("action") => out \in Messages
  /\ Fighting => left # 0
  /\ pc["reader"] \in {"tpX", "tpY", "tpZ"} => packet.to \in Positions
  /\ pc["reader"] \in {"signal", "reuse"} =>
       packet.victim \in ObjectIds /\ packet.reuse \in BOOLEAN

TypeInv == TypeOK /\ LocalsInUse

(***************************************************************************)
(* The write buffer and the two ends of the cipher.  Once main has joined, *)
(* the action loop is done, so that only one writer is under way; what it  *)
(* has encoded is still there when it encrypts and sends; the keys differ  *)
(* only between encryption and delivery, by the packet in the buffer.      *)
(***************************************************************************)
Joined == pc["main"] \in {"encode", "encrypt", "send", "linger", "finished"}

Encrypted(w) ==
  \E k \in 0 .. KeyMod - 1 :
    /\ buf = [writer |-> w, keys |-> <<k>>]
    /\ outKey = Roll(k, Message(w).op)
    /\ peer # "gone" => srvKey = k

WriterInv ==
  /\ Joined => At("action", "done")
  /\ \A w \in Writers : At(w, "encrypt") => buf = [writer |-> w, keys |-> << >>]
  /\ \A w \in Writers : At(w, "send") => Encrypted(w)
  /\ peer # "gone" /\ (\A w \in Writers : ~ At(w, "send")) => srvKey = outKey
  /\ received # Garbled

LoopInv == TypeInv /\ WriterInv

(* The messages of the model are messages, with the op they were built     *)
(* for.                                                                    *)
LEMMA MessageTypes ==
  /\ \A op \in Ops : Plain(op) \in Messages
  /\ \A op \in Ops, id \in ObjectIds : About(op, id) \in Messages
  /\ \A op \in Ops, p \in Positions : [Plain(op) EXCEPT !.at = p] \in Messages
  /\ \A op \in Ops : Plain(op).op = op
  /\ \A op \in Ops, id \in ObjectIds : About(op, id).op = op
  /\ \A op \in Ops, p \in Positions : [Plain(op) EXCEPT !.at = p].op = op
BY LoopAssumption DEF Plain, About, Messages

(* Rolling keeps a key a key.                                              *)
LEMMA RollType ==
  ASSUME NEW key \in 0 .. KeyMod - 1, NEW op \in Ops
  PROVE  Roll(key, op) \in 0 .. KeyMod - 1
<1>1. Size(op) \in Nat
  BY DEF Size, Ops, Offenses
<1> QED
  BY <1>1, LoopAssumption DEF Roll

(* The invariants hold initially.                                          *)
LEMMA TypeInit == Init => TypeInv
<1> SUFFICES ASSUME Init PROVE TypeInv
  OBVIOUS
<1>1. ControlOK
  BY DEF Init, ControlOK, Procs, ActionLabels, MainLabels, ReaderLabels
<1>2. ChannelOK
  BY LoopAssumption, MessageTypes DEF Init, ChannelOK, Writers, Ops
<1>3. FieldsOK
  BY LoopAssumption, EmptySeq DEF Init, FieldsOK, Ring!Init
<1>4. LocalsOK
  BY LoopAssumption DEF Init, LocalsOK
<1>5. LocalsInUse
  BY DEF Init, LocalsInUse, Writing, Fighting
<1> QED
  BY <1>1, <1>2, <1>3, <1>4, <1>5 DEF TypeInv, TypeOK

(***************************************************************************)
(* Steps of the action loop that decide what to do next.                   *)
(***************************************************************************)
LEMMA TypeDecide ==
  ASSUME TypeInv, Decide, UNCHANGED <<open, sendVars, readerVars, envVars, cooling>>
  PROVE  TypeInv'
<1> USE DEF TypeInv, TypeOK, Go, At, Say, DeathTaunt, DoSocialAction, DoChat, SweepLoot,
            Continue, Stop, fightVars, sendVars, readerVars, envVars
<1>1. ChannelOK'
  BY DEF ChannelOK
<1>2. CASE AckTeleport
  <2>1. FieldsOK'
    BY <1>2 DEF AckTeleport, FieldsOK
  <2>2. CASE pendingAppear
    <3>1. Go("action", "encode") /\ out' = Plain("Appearing")
      BY <1>2, <2>2 DEF AckTeleport
    <3> QED
      BY <1>1, <1>2, <2>1, <3>1, MessageTypes
      DEF AckTeleport, ControlOK, LocalsOK, LocalsInUse, Writing, Fighting,
          Procs, ActionLabels, Ops, Offenses
  <2>3. CASE ~ pendingAppear
    <3>1. Go("action", "nap") /\ out' = out
      BY <1>2, <2>3 DEF AckTeleport
    <3> QED
      BY <1>1, <1>2, <2>1, <3>1
      DEF AckTeleport, ControlOK, LocalsOK, LocalsInUse, Writing, Fighting,
          Procs, ActionLabels
  <2> QED
    BY <2>2, <2>3
<1>3. CASE NapEnds
  BY <1>1, <1>3, MessageTypes
  DEF NapEnds, ControlOK, FieldsOK, LocalsOK, LocalsInUse, Writing, Fighting,
      Procs, ActionLabels, Ops, Offenses
<1>4. CASE NapCancelled
  BY <1>1, <1>4, MessageTypes
  DEF NapCancelled, ControlOK, FieldsOK, LocalsOK, LocalsInUse, Writing, Fighting,
      Procs, ActionLabels, Ops, Offenses
<1>5. CASE CheckDead
  BY <1>1, <1>5, MessageTypes
  DEF CheckDead, ControlOK, FieldsOK, LocalsOK, LocalsInUse, Writing, Fighting,
      Procs, ActionLabels, Ops, Offenses
<1>6. CASE PickAction
  BY <1>1, <1>6, MessageTypes
  DEF PickAction, ControlOK, FieldsOK, LocalsOK, LocalsInUse, Writing, Fighting,
      Procs, ActionLabels, Ops, Offenses
<1>7. CASE CheckInventory
  BY <1>1, <1>7, MessageTypes
  DEF CheckInventory, ControlOK, FieldsOK, LocalsOK, LocalsInUse, Writing, Fighting,
      Procs, ActionLabels, Ops, Offenses
<1>8. CASE UseItem
  <2>1. CASE inventory = {}
    BY <1>1, <1>8, <2>1
    DEF UseItem, ControlOK, FieldsOK, LocalsOK, LocalsInUse, Writing, Fighting,
        Procs, ActionLabels
  <2>2. CASE inventory # {}
    BY <1>1, <1>8, <2>2, MessageTypes
    DEF UseItem, ControlOK, FieldsOK, LocalsOK, LocalsInUse, Writing, Fighting,
        Procs, ActionLabels, Ops, Offenses
  <2> QED
    BY <2>1, <2>2
<1>9. CASE CheckTargets
  BY <1>1, <1>9, MessageTypes, LoopAssumption
  DEF CheckTargets, ControlOK, FieldsOK, LocalsOK, LocalsInUse, Writing, Fighting,
      Procs, ActionLabels, Ops, Offenses, Ring!TargetCount
<1>10. CASE BeginRoam
  BY <1>1, <1>10, MessageTypes
  DEF BeginRoam, ControlOK, FieldsOK, LocalsOK, LocalsInUse, Writing, Fighting,
      Procs, ActionLabels, Ops, Offenses, Positions
<1>11. CASE Walk
  BY <1>1, <1>11, MessageTypes
  DEF Walk, ControlOK, FieldsOK, LocalsOK, LocalsInUse, Writing, Fighting,
      Procs, ActionLabels, Ops, Offenses
<1>12. CASE ArriveX
  BY <1>1, <1>12, MessageTypes
  DEF ArriveX, ControlOK, FieldsOK, LocalsOK, LocalsInUse, Writing, Fighting,
      Procs, ActionLabels, Ops, Offenses, Positions
<1>13. CASE ArriveY
  BY <1>1, <1>13, MessageTypes
  DEF ArriveY, ControlOK, FieldsOK, LocalsOK, LocalsInUse, Writing, Fighting,
      Procs, ActionLabels, Ops, Offenses, Positions
<1>14. CASE NextSwitch
  BY <1>1, <1>14, MessageTypes
  DEF NextSwitch, ControlOK, FieldsOK, LocalsOK, LocalsInUse, Writing, Fighting,
      Procs, ActionLabels, Ops, Offenses
<1>15. CASE ChooseTarget
  BY <1>1, <1>15, MessageTypes, ElementOfSeq
  DEF ChooseTarget, ControlOK, FieldsOK, LocalsOK, LocalsInUse, Writing, Fighting,
      Procs, ActionLabels, Ops, Offenses, Ring!RandomTargets
<1>16. CASE CheckMana
  BY <1>1, <1>16, MessageTypes
  DEF CheckMana, ControlOK, FieldsOK, LocalsOK, LocalsInUse, Writing, Fighting,
      Procs, ActionLabels, Ops, Offenses
<1>17. CASE CheckCooldown
  BY <1>1, <1>17, MessageTypes
  DEF CheckCooldown, ControlOK, FieldsOK, LocalsOK, LocalsInUse, Writing, Fighting,
      Procs, ActionLabels, Ops, Offenses
<1>18. CASE Drain
  BY <1>1, <1>18, MessageTypes, LoopAssumption
  DEF Drain, ControlOK, FieldsOK, LocalsOK, LocalsInUse, Writing, Fighting,
      Procs, ActionLabels, Ops, Offenses
<1>19. CASE Landed
  BY <1>1, <1>19, MessageTypes, LoopAssumption
  DEF Landed, ControlOK, FieldsOK, LocalsOK, LocalsInUse, Writing, Fighting,
      Procs, ActionLabels, Ops, Offenses, NextTarget
<1>20. CASE TimedOut
  BY <1>1, <1>20, MessageTypes
  DEF TimedOut, ControlOK, FieldsOK, LocalsOK, LocalsInUse, Writing, Fighting,
      Procs, ActionLabels, Ops, Offenses, NextTarget
<1>21. CASE WaitCancelled
  BY <1>1, <1>21, MessageTypes
  DEF WaitCancelled, ControlOK, FieldsOK, LocalsOK, LocalsInUse, Writing, Fighting,
      Procs, ActionLabels, Ops, Offenses
<1> QED
  BY <1>2, <1>3, <1>4, <1>5, <1>6, <1>7, <1>8, <1>9, <1>10, <1>11, <1>12, <1>13, <1>14,
     <1>15, <1>16, <1>17, <1>18, <1>19, <1>20, <1>21
  DEF Decide

(* Deciding what to do next does not touch the buffer or the keys.         *)
LEMMA WriterDecide ==
  ASSUME LoopInv, Decide, UNCHANGED <<open, sendVars, readerVars, envVars, cooling>>
  PROVE  WriterInv'
<1>1. pc["action"] \notin {"encrypt", "send", "done"}
  BY DEF Decide, AckTeleport, NapEnds, NapCancelled, CheckDead, PickAction,
         CheckInventory, UseItem, CheckTargets, BeginRoam, Walk, ArriveX, ArriveY,
         NextSwitch, ChooseTarget, CheckMana, CheckCooldown, Drain, Landed, TimedOut,
         WaitCancelled, At
<1>2. pc' = [pc EXCEPT !["action"] = pc'["action"]]
      /\ pc'["action"] \notin {"encrypt", "send"}
  BY DEF Decide, AckTeleport, NapEnds, NapCancelled, CheckDead, PickAction,
         CheckInventory, UseItem, CheckTargets, BeginRoam, Walk, ArriveX, ArriveY,
         NextSwitch, ChooseTarget, CheckMana, CheckCooldown, Drain, Landed, TimedOut,
         WaitCancelled, NextTarget, Say, DeathTaunt, DoSocialAction, DoChat, SweepLoot,
         Continue, Stop, Go, LoopInv, TypeInv, TypeOK,
         ControlOK, Procs
<1> QED
  BY <1>1, <1>2
  DEF LoopInv, WriterInv, TypeInv, TypeOK, ControlOK, Procs, Writers, Joined, At,
      Encrypted, Message, sendVars, envVars

(***************************************************************************)
(* Steps of a writer.                                                      *)
(***************************************************************************)
LEMMA MessageInBuffer ==
  ASSUME LoopInv, NEW w \in Writers, Writing(w)
  PROVE  Message(w) \in Messages /\ Message(w).op \in Ops
<1>1. Plain("Logout") \in Messages
  BY MessageTypes DEF Ops
<1> QED
  BY <1>1 DEF LoopInv, TypeInv, LocalsInUse, Message, Messages, Writers

(* Encode empties the buffer for its writer.                               *)
LEMMA StepEncode ==
  ASSUME LoopInv, NEW w \in Writers, Encode(w),
         UNCHANGED <<open, fightVars, readerVars, envVars, cooling>>
  PROVE  LoopInv'
<1> USE DEF LoopInv, TypeInv, TypeOK, At, Go, Encode, fightVars, readerVars, envVars
<1>1. ChannelOK'
  BY EmptySeq DEF ChannelOK, Writers
<1>2. ControlOK' /\ FieldsOK' /\ LocalsOK' /\ LocalsInUse'
  BY DEF ControlOK, FieldsOK, LocalsOK, LocalsInUse, Writing, Fighting, Writers,
         Procs, ActionLabels, MainLabels
<1>3. WriterInv'
  BY DEF ControlOK, Procs, Writers, WriterInv, Joined, Encrypted, Message
<1> QED
  BY <1>1, <1>2, <1>3

(* Encrypt uses the current key once, and rolls it.                        *)
LEMMA StepEncrypt ==
  ASSUME LoopInv, NEW w \in Writers, Encrypt(w),
         UNCHANGED <<open, fightVars, readerVars, envVars, cooling>>
  PROVE  LoopInv'
<1> USE DEF LoopInv, TypeInv, TypeOK, At, Go, Encrypt, fightVars, readerVars, envVars
<1>1. buf' = [writer |-> w, keys |-> <<outKey>>]
  BY DEF WriterInv, Writers
<1>2. ChannelOK'
  <2>1. outKey' \in 0 .. KeyMod - 1
    <3>1. Message(w).op \in Ops
      BY MessageInBuffer DEF Writing
    <3> QED
      BY <3>1, RollType DEF ChannelOK
  <2>2. <<outKey>> \in Seq(0 .. KeyMod - 1)
    BY DEF ChannelOK
  <2>3. buf' \in [writer : Writers, keys : Seq(0 .. KeyMod - 1)]
    <3>1. \A s \in Seq(0 .. KeyMod - 1) :
            [writer |-> w, keys |-> s] \in [writer : Writers, keys : Seq(0 .. KeyMod - 1)]
      OBVIOUS
    <3> QED
      BY <1>1, <2>2, <3>1, Zenon
  <2>4. UNCHANGED <<srvKey, received, selected, struck>> /\ ChannelOK
    OBVIOUS
  <2> QED
    BY <2>1, <2>3, <2>4 DEF ChannelOK
<1>3. ControlOK' /\ FieldsOK' /\ LocalsOK' /\ LocalsInUse'
  BY DEF ControlOK, FieldsOK, LocalsOK, LocalsInUse, Writing, Fighting, Writers,
         Procs, ActionLabels, MainLabels
<1>4. \A v \in Writers : ~ At(v, "send")
  BY DEF WriterInv, Writers, Joined
<1>5. Encrypted(w)'
  BY <1>1, <1>4 DEF WriterInv, ChannelOK, Encrypted, Message
<1>6. WriterInv'
  BY <1>5 DEF ControlOK, Procs, Writers, WriterInv, Joined
<1> QED
  BY <1>2, <1>3, <1>6

(* Where a writer may go on.                                               *)
LEMMA AfterTypes ==
  ASSUME LoopInv, NEW w \in Writers, At(w, "send")
  PROVE  /\ w = "main" => After(w) = "linger"
         /\ w = "action" => After(w) \in {"nap", "walk", "offense", "drain", "ack"}
         /\ After(w) \in {"offense", "drain"} => out.op \in {"Action"} \cup Offenses
BY DEF After, Writers

(***************************************************************************)
(* What the server does with a packet it can read.                         *)
(***************************************************************************)
LEMMA DeliverReads ==
  ASSUME LoopInv, NEW w \in Writers, At(w, "send"), peer = "up",
         Deliver(Message(buf.writer))
  PROVE  /\ received' = Message(w)
         /\ srvKey' = outKey
         /\ selected' \in ObjectIds
         /\ struck' \subseteq ObjectIds
<1>1. PICK k \in 0 .. KeyMod - 1 :
        /\ buf = [writer |-> w, keys |-> <<k>>]
        /\ outKey = Roll(k, Message(w).op)
        /\ srvKey = k
  BY DEF LoopInv, WriterInv, Encrypted
<1>2. Message(w) \in Messages
  BY MessageInBuffer DEF Writing, At
<1>3. /\ received' = Message(w)
      /\ selected' = IF Message(w).op = "Action" THEN Message(w).obj ELSE selected
      /\ struck' = IF Message(w).op \in Offenses THEN struck \cup {Message(w).obj} ELSE struck
  BY <1>1 DEF Deliver
<1>4. srvKey' = outKey
  BY <1>1 DEF Deliver
<1> QED
  BY <1>2, <1>3, <1>4 DEF Messages, LoopInv, TypeInv, TypeOK, ChannelOK

(* Where the sender goes on, and what becomes of its packet.               *)
LEMMA ReturnKeepsTypes ==
  ASSUME LoopInv, NEW w \in Writers, At(w, "send"), NEW label,
         Return(w, label), label = After(w) \/ (w = "action" /\ label = "done"),
         UNCHANGED <<open, fightVars, readerVars, envVars, cooling>>
  PROVE  ControlOK' /\ FieldsOK' /\ LocalsOK' /\ LocalsInUse'
<1> USE DEF LoopInv, TypeInv, TypeOK, fightVars, readerVars, envVars
<1>1. FieldsOK'
  BY DEF FieldsOK
<1>2. /\ w = "main" => label = "linger"
      /\ w = "action" => label \in {"nap", "walk", "offense", "drain", "ack", "done"}
  BY AfterTypes
<1>3. ControlOK' /\ LocalsOK'
  BY <1>2 DEF ControlOK, LocalsOK, Return, Go, Writers, Procs, ActionLabels, MainLabels
<1>4. label \in {"offense", "drain"} => Fighting
  <2> SUFFICES ASSUME label \in {"offense", "drain"} PROVE Fighting
    OBVIOUS
  <2>1. w = "action" /\ label = After(w)
    BY <1>2, LoopAssumption DEF Writers
  <2>2. out.op \in {"Action"} \cup Offenses
    BY <2>1, AfterTypes
  <2> QED
    BY <2>1, <2>2 DEF Fighting, Writing, At
<1>5. LocalsInUse'
  BY <1>2, <1>4
  DEF ControlOK, Return, Go, At, Writers, Procs, LocalsInUse, Writing, Fighting
<1> QED
  BY <1>1, <1>3, <1>5

(* Send delivers a packet the server can read: both ends of the cipher     *)
(* agree again.                                                            *)
LEMMA StepSend ==
  ASSUME LoopInv, NEW w \in Writers, Send(w),
         UNCHANGED <<open, fightVars, readerVars, envVars, cooling>>
  PROVE  LoopInv'
<1>1. At(w, "send") /\ peer = "up" /\ peer' = "up" /\ Deliver(Message(buf.writer))
  BY DEF Send, envVars
<1>2. received' = Message(w) /\ received' \in Messages /\ received' # Garbled
  <2>1. Message(w) \in Messages
    BY <1>1, MessageInBuffer DEF Writing, At
  <2>2. \A m \in Messages : m # Garbled
    BY DEF Messages, Garbled, Ops, Offenses
  <2> QED
    BY <1>1, <2>1, <2>2, DeliverReads
<1>3. ChannelOK'
  BY <1>1, <1>2, DeliverReads DEF Send, LoopInv, TypeInv, TypeOK, ChannelOK
<1>4. ControlOK' /\ FieldsOK' /\ LocalsOK' /\ LocalsInUse'
  BY <1>1, ReturnKeepsTypes DEF Send
<1>5. WriterInv'
  <2>1. /\ pc' = [pc EXCEPT ![w] = After(w)] /\ After(w) \notin {"encrypt", "send"}
        /\ w = "action" => pc["main"] \in {"run", "join"}
        /\ w = "main" => pc["action"] = "done" /\ After(w) = "linger"
    BY <1>1, AfterTypes
    DEF Send, Return, Go, At, LoopInv, TypeInv, TypeOK, ControlOK, WriterInv, Joined,
        MainLabels, Writers
  <2>2. srvKey' = outKey /\ outKey' = outKey
    BY <1>1, DeliverReads DEF Send
  <2> QED
    BY <1>2, <2>1, <2>2
    DEF LoopInv, WriterInv, TypeInv, TypeOK, ControlOK, Procs, Writers, Joined, At
<1> QED
  BY <1>3, <1>4, <1>5 DEF LoopInv, TypeInv, TypeOK

(* A write to a dead connection delivers nothing.                          *)
LEMMA StepSendLost ==
  ASSUME LoopInv, NEW w \in Writers, SendLost(w),
         UNCHANGED <<open, fightVars, readerVars, envVars, cooling>>
  PROVE  LoopInv'
<1>1. PICK label : Return(w, label) /\ (label = After(w) \/ (w = "action" /\ label = "done"))
  BY DEF SendLost
<1>2. At(w, "send") /\ peer = "gone" /\ UNCHANGED <<sendVars, envVars>>
  BY DEF SendLost
<1>3. ControlOK' /\ FieldsOK' /\ LocalsOK' /\ LocalsInUse'
  BY <1>1, <1>2, ReturnKeepsTypes
<1>4. ChannelOK'
  BY <1>2 DEF LoopInv, TypeInv, TypeOK, ChannelOK, sendVars
<1>5. WriterInv'
  <2>1. /\ pc' = [pc EXCEPT ![w] = label] /\ label \notin {"encrypt", "send"}
        /\ w = "action" => pc["main"] \in {"run", "join"}
        /\ w = "main" => pc["action"] = "done" /\ label = "linger"
    BY <1>1, <1>2, AfterTypes
    DEF Return, Go, At, LoopInv, TypeInv, TypeOK, ControlOK, WriterInv, Joined,
        MainLabels, Writers
  <2> QED
    BY <1>2, <2>1
    DEF LoopInv, WriterInv, TypeInv, TypeOK, ControlOK, Procs, Writers, Joined, At,
        sendVars, envVars
<1> QED
  BY <1>3, <1>4, <1>5 DEF LoopInv, TypeInv, TypeOK

(* Every step of a writer keeps the invariant.                             *)
LEMMA StepWrite ==
  ASSUME LoopInv, NEW w \in Writers, Write(w),
         UNCHANGED <<open, fightVars, readerVars, envVars, cooling>>
  PROVE  LoopInv'
BY StepEncode, StepEncrypt, StepSend, StepSendLost DEF Write

(***************************************************************************)
(* The steps of the goroutines and of the environment.                     *)
(***************************************************************************)
LEMMA StepAction == ASSUME LoopInv, ActionLoop PROVE LoopInv'
<1>1. CASE Decide /\ UNCHANGED sendVars
  <2>1. UNCHANGED <<open, sendVars, readerVars, envVars, cooling>>
    BY <1>1 DEF ActionLoop
  <2> QED
    BY <1>1, <2>1, TypeDecide, WriterDecide DEF LoopInv
<1>2. CASE Write("action") /\ UNCHANGED fightVars
  <2>1. UNCHANGED <<open, fightVars, readerVars, envVars, cooling>>
    BY <1>2 DEF ActionLoop
  <2> QED
    BY <1>2, <2>1, StepWrite DEF Writers
<1> QED
  BY <1>1, <1>2 DEF ActionLoop

(* Main starts to write only after it joined the action loop.              *)
LEMMA StepMain == ASSUME LoopInv, Main PROVE LoopInv'
<1>1. CASE AwaitCancel \/ Join \/ Close
  <2> USE DEF LoopInv, TypeInv, TypeOK, Main, fightVars, sendVars, readerVars, envVars
  <2>1. /\ UNCHANGED <<out, sendVars, fightVars, readerVars, envVars, cooling>>
        /\ open' \in BOOLEAN
    BY <1>1 DEF AwaitCancel, Join, Close, ControlOK
  <2>2. /\ pc' = [pc EXCEPT !["main"] = pc'["main"]]
        /\ pc["main"] \in {"run", "join", "linger"}
        /\ pc'["main"] \in {"join", "encode", "finished"}
        /\ pc'["main"] = "encode" => pc["action"] = "done"
        /\ pc["main"] = "linger" <=> pc'["main"] = "finished"
    BY <1>1 DEF AwaitCancel, Join, Close, At, Go, ControlOK, Procs
  <2>3. ChannelOK' /\ FieldsOK' /\ LocalsOK'
    BY <2>1 DEF ChannelOK, FieldsOK, LocalsOK
  <2>4. ControlOK' /\ LocalsInUse'
    BY <2>1, <2>2 DEF ControlOK, LocalsInUse, Writing, Fighting, Procs, MainLabels
  <2>5. WriterInv'
    BY <2>1, <2>2 DEF ControlOK, Procs, Writers, WriterInv, Joined, Encrypted, Message, At
  <2> QED
    BY <2>3, <2>4, <2>5
<1>2. CASE Write("main") /\ UNCHANGED open
  <2>1. UNCHANGED <<open, fightVars, readerVars, envVars, cooling>>
    BY <1>2 DEF Main
  <2> QED
    BY <1>2, <2>1, StepWrite DEF Writers
<1> QED
  BY <1>1, <1>2 DEF Main

(* The environment never touches the cipher or the buffer.                 *)
LEMMA StepEnvironment == ASSUME LoopInv, Environment PROVE LoopInv'
<1> USE DEF LoopInv, TypeInv, TypeOK, Environment, Cancel, Lose, Stall, Resume, Elapse,
            fightVars, sendVars, readerVars, envVars
<1>1. /\ UNCHANGED <<pc, open, out, sendVars, fightVars, readerVars>>
      /\ ctxDone' \in BOOLEAN /\ cooling' \in BOOLEAN
      /\ peer' \in {"up", "stalled", "gone"}
      /\ peer = "gone" => peer' = "gone"
  BY DEF ControlOK, FieldsOK
<1>2. ControlOK' /\ ChannelOK' /\ FieldsOK' /\ LocalsOK' /\ LocalsInUse'
  BY <1>1 DEF ControlOK, ChannelOK, FieldsOK, LocalsOK, LocalsInUse, Writing, Fighting
<1>3. WriterInv'
  BY <1>1 DEF WriterInv, Joined, Encrypted, Message, At
<1> QED
  BY <1>2, <1>3

(* addTarget keeps the list a sequence of object ids.                      *)
LEMMA AddTargetTypes ==
  ASSUME NEW id \in ObjectIds, npcs \in Seq(ObjectIds), npcsNext \in Nat,
         Ring!AddTarget(id)
  PROVE  npcs' \in Seq(ObjectIds) /\ npcsNext' \in Nat
<1>1. CASE Ring!Ignores(id) /\ UNCHANGED <<npcs, npcsNext>>
  BY <1>1
<1>2. CASE Ring!AppendTarget(id)
  BY <1>2, AppendProperties DEF Ring!AppendTarget
<1>3. CASE Ring!ReplaceOldest(id)
  <2>1. npcsNext' \in Nat
    BY <1>3 DEF Ring!ReplaceOldest
  <2>2. CASE npcsNext + 1 \in 1 .. Len(npcs)
    BY <1>3, <2>1, <2>2, ExceptSeq DEF Ring!ReplaceOldest
  <2>3. CASE npcsNext + 1 \notin 1 .. Len(npcs)
    <3>1. npcs' = npcs
      BY <1>3, <2>3 DEF Ring!ReplaceOldest
    <3> QED
      BY <2>1, <3>1
  <2> QED
    BY <2>2, <2>3
<1> QED
  BY <1>1, <1>2, <1>3 DEF Ring!AddTarget, Ring!Record, Ring!ringVars

(* The read loop never writes; it stores what it read.                     *)
LEMMA StepReader == ASSUME LoopInv, ReadLoop PROVE LoopInv'
<1> USE DEF LoopInv, TypeInv, TypeOK, At, Go, fightVars, sendVars, readerVars, envVars
<1>1. UNCHANGED <<open, out, sendVars, target, left, roamTo, envVars>>
  BY DEF ReadLoop
<1>2. /\ pc' = [pc EXCEPT !["reader"] = pc'["reader"]]
      /\ pc'["reader"] \in ReaderLabels
  BY DEF ReadLoop, ReadError, Handle, StorePosition, Store, ArmAppearing, Converge,
         Signal, RecordReuse, HandleAtOnce, BeginHandler, BeginTeleport,
         BeginBroadcast, ControlOK, Procs, ReaderLabels
<1>3. ControlOK' /\ ChannelOK'
  BY <1>1, <1>2 DEF ControlOK, ChannelOK, Procs
<1>4. WriterInv'
  BY <1>1, <1>2 DEF ControlOK, Procs, Writers, WriterInv, Joined, Encrypted, Message
<1>5. /\ pc'["action"] = pc["action"]
      /\ Writing("action")' => Writing("action") /\ out' = out
      /\ Fighting' => Fighting /\ left' = left
  BY <1>1, <1>2 DEF ControlOK, Procs, Writing, Fighting
<1>6. CASE ReadError
  <2>1. pc'["reader"] = "done"
    BY <1>6 DEF ReadError, ControlOK, Procs
  <2>2. FieldsOK' /\ LocalsOK'
    BY <1>1, <1>6 DEF ReadError, FieldsOK, LocalsOK
  <2>3. LocalsInUse'
    BY <1>1, <1>5, <2>1 DEF LocalsInUse
  <2> QED
    BY <1>3, <1>4, <2>2, <2>3
<1>7. CASE StorePosition
  <2>1. PICK axis \in {"x", "y", "z"}, next \in {"tpY", "tpZ", "tpAppear"} :
          /\ pc["reader"] \in {"tpX", "tpY", "tpZ"} /\ pc'["reader"] = next
          /\ pos' = [pos EXCEPT ![axis] = packet.to[axis]]
          /\ UNCHANGED <<readerVars, pendingAppear, cooling, attackChan>>
    BY <1>7 DEF StorePosition, Store, ControlOK, Procs
  <2>2. pos' \in Positions
    BY <2>1 DEF LocalsInUse, FieldsOK, Positions
  <2>3. FieldsOK' /\ LocalsOK'
    BY <1>1, <2>1, <2>2 DEF FieldsOK, LocalsOK
  <2>4. LocalsInUse'
    BY <1>1, <1>5, <2>1, <2>2 DEF LocalsInUse
  <2> QED
    BY <1>3, <1>4, <2>3, <2>4
<1>8. CASE ArmAppearing \/ Converge \/ Signal \/ RecordReuse
  <2>1. UNCHANGED <<dead, mana, npcs, npcsNext, inventory, pos>>
    BY <1>8 DEF ArmAppearing, Converge, Signal, RecordReuse
  <2>2. pendingAppear' \in BOOLEAN /\ converged' \in BOOLEAN /\ cooling' \in BOOLEAN
    BY <1>8 DEF ArmAppearing, Converge, Signal, RecordReuse, FieldsOK, OwnReuse, LocalsInUse
  <2>3. attackChan' \in ObjectIds
    BY <1>8 DEF ArmAppearing, Converge, Signal, RecordReuse, FieldsOK, LocalsInUse
  <2>4. /\ packet' \in {packet, Nothing}
        /\ pc'["reader"] \in {"tpConverge", "read", "reuse"}
        /\ pc'["reader"] = "reuse" => pc["reader"] = "signal" /\ packet' = packet
    BY <1>8 DEF ArmAppearing, Converge, Signal, RecordReuse, ControlOK, Procs
  <2>5. FieldsOK' /\ LocalsOK'
    BY <1>1, <2>1, <2>2, <2>3, <2>4 DEF FieldsOK, LocalsOK
  <2>6. LocalsInUse'
    BY <1>1, <1>5, <2>1, <2>2, <2>3, <2>4 DEF LocalsInUse
  <2> QED
    BY <1>3, <1>4, <2>5, <2>6
<1>9. ASSUME NEW p \in Inbound, HandleAtOnce(p) PROVE LoopInv'
  <2>1. p \in Packets /\ p.op # "none"
    BY LoopAssumption DEF Packets
  <2>2. /\ UNCHANGED <<pc, packet, pos, pendingAppear, cooling, attackChan, converged>>
        /\ dead' \in {dead, TRUE}
    BY <1>9 DEF HandleAtOnce, HandleDie, HandleStatusUpdate, HandleItemList, HandleInfo
  <2>3. mana' \in BOOLEAN
    BY <1>9, <2>1 DEF HandleAtOnce, HandleDie, HandleStatusUpdate, HandleItemList,
                      HandleInfo, Packets, FieldsOK
  <2>4. inventory' \subseteq Items
    BY <1>9, <2>1 DEF HandleAtOnce, HandleDie, HandleStatusUpdate, HandleItemList,
                      HandleInfo, Packets, FieldsOK
  <2>5. npcs' \in Seq(ObjectIds) /\ npcsNext' \in Nat
    <3>1. CASE HandleInfo(p)
      <4>1. p.id \in ObjectIds
        BY <2>1, <3>1 DEF HandleInfo, Packets
      <4> QED
        BY <3>1, <4>1, AddTargetTypes DEF HandleInfo, FieldsOK
    <3>2. CASE ~ HandleInfo(p)
      BY <1>9, <3>2 DEF HandleAtOnce, HandleDie, HandleStatusUpdate, HandleItemList, FieldsOK
    <3> QED
      BY <3>1, <3>2
  <2>6. FieldsOK'
    BY <2>2, <2>3, <2>4, <2>5 DEF FieldsOK
  <2>7. LocalsOK'
    BY <1>1, <2>2 DEF LocalsOK
  <2>8. LocalsInUse'
    BY <1>1, <1>5, <2>2 DEF LocalsInUse
  <2> QED
    BY <1>3, <1>4, <2>6, <2>7, <2>8
<1>10. ASSUME NEW p \in Inbound, BeginHandler(p) PROVE LoopInv'
  <2>1. p \in Packets
    BY LoopAssumption
  <2>2. packet' = p
        /\ UNCHANGED <<converged, dead, mana, npcs, npcsNext, inventory,
                       pos, pendingAppear, cooling, attackChan>>
    BY <1>10 DEF BeginHandler
  <2>3. CASE BeginTeleport(p)
    <3>1. pc'["reader"] = IF p.to = NoPosition THEN "tpAppear" ELSE "tpX"
      BY <2>3 DEF BeginTeleport, ControlOK, Procs
    <3>2. p.to \in Positions \cup {NoPosition}
      BY <2>1, <2>3 DEF BeginTeleport, Packets
    <3>3. FieldsOK' /\ LocalsOK'
      BY <1>1, <2>1, <2>2 DEF FieldsOK, LocalsOK
    <3>4. LocalsInUse'
      BY <1>1, <1>5, <2>2, <3>1, <3>2 DEF LocalsInUse
    <3> QED
      BY <1>3, <1>4, <3>3, <3>4
  <2>4. CASE BeginBroadcast(p)
    <3>1. pc'["reader"] = "signal"
      BY <2>4 DEF BeginBroadcast, ControlOK, Procs
    <3>2. p.victim \in ObjectIds /\ p.reuse \in BOOLEAN
      BY <2>1, <2>4 DEF BeginBroadcast, Packets
    <3>3. FieldsOK' /\ LocalsOK'
      BY <1>1, <2>1, <2>2 DEF FieldsOK, LocalsOK
    <3>4. LocalsInUse'
      BY <1>1, <1>5, <2>2, <3>1, <3>2 DEF LocalsInUse
    <3> QED
      BY <1>3, <1>4, <3>3, <3>4
  <2> QED
    BY <1>10, <2>3, <2>4 DEF BeginHandler
<1> QED
  BY <1>3, <1>4, <1>6, <1>7, <1>8, <1>9, <1>10 DEF ReadLoop, Handle

(* The invariant holds initially.                                          *)
LEMMA LoopInit == Init => LoopInv
<1> SUFFICES ASSUME Init PROVE WriterInv
  BY TypeInit DEF LoopInv
<1>1. received # Garbled
  BY MessageTypes DEF Init, Garbled, Ops, Plain, About
<1> QED
  BY <1>1 DEF Init, WriterInv, Joined, Writers, At

(* A step that changes nothing keeps the invariant.                        *)
LEMMA LoopStutters == ASSUME LoopInv, UNCHANGED vars PROVE LoopInv'
<1> USE DEF vars, sendVars, fightVars, readerVars, envVars
<1>1. TypeInv'
  BY DEF LoopInv, TypeInv, TypeOK, ControlOK, ChannelOK, FieldsOK, LocalsOK,
         LocalsInUse, Writing, Fighting
<1>2. WriterInv'
  BY DEF LoopInv, WriterInv, Joined, At, Encrypted, Message
<1> QED
  BY <1>1, <1>2 DEF LoopInv

(* Every step keeps the invariant.                                         *)
LEMMA LoopStep == LoopInv /\ [Next]_vars => LoopInv'
BY StepAction, StepMain, StepReader, StepEnvironment, LoopStutters DEF Next

(* The load loop's invariant, on which the theorems below rest.            *)
THEOREM LoopCorrect == Spec => []LoopInv
BY LoopInit, LoopStep, PTL DEF Spec

(* Every field keeps its type and every goroutine is where its code can be *)
(* (client.go:41-79, 549-904).                                             *)
THEOREM TypeCorrect == Spec => []TypeOK
<1>1. LoopInv => TypeOK
  BY DEF LoopInv, TypeInv
<1> QED
  BY <1>1, LoopCorrect, PTL

(* Main and the action loop never use the write buffer and the outgoing    *)
(* cipher at the same time (client.go:554-557, 565-568).                   *)
THEOREM SoleWriterHolds == Spec => []SoleWriter
<1>1. LoopInv => SoleWriter
  BY DEF LoopInv, WriterInv, SoleWriter, Writing, Joined, At
<1> QED
  BY <1>1, LoopCorrect, PTL

(* Whatever the goroutines do, for a key of any width, the server can read *)
(* every packet that reaches it (game_crypt.go:48-71, packet.go:91-106).   *)
THEOREM NeverGarbledHolds == Spec => []NeverGarbled
<1>1. LoopInv => NeverGarbled
  BY DEF LoopInv, WriterInv, NeverGarbled
<1> QED
  BY <1>1, LoopCorrect, PTL

(***************************************************************************)
(* The session as the server sees it.  Until main logs out the server has  *)
(* not read a Logout packet; from then on it has, if it can read at all;   *)
(* main acts only once it was interrupted, and hangs up last.              *)
(***************************************************************************)
LoggedOut == pc["main"] \in {"linger", "finished"}

SessionInv ==
  /\ At("main", "run") \/ ctxDone
  /\ open <=> ~ At("main", "finished")
  /\ peer # "gone" => (received = Plain("Logout") <=> LoggedOut)
  /\ out.op # "Logout"

(* The op of the Logout message.                                           *)
LEMMA LogoutIsNotGameplay == Plain("Logout").op = "Logout"
BY DEF Plain, About

(* The session invariant holds initially.                                  *)
LEMMA SessionInit == Init => SessionInv
BY DEF Init, SessionInv, LoggedOut, Plain, About, Nothing, At

(* What a step leaves alone that tells the server nothing new.             *)
Quiet ==
  /\ UNCHANGED <<ctxDone, open>>
  /\ peer = "gone" <=> peer' = "gone"
  /\ peer # "gone" => received' = received /\ (LoggedOut <=> LoggedOut')
  /\ At("main", "run")' => At("main", "run")
  /\ At("main", "finished") <=> At("main", "finished")'
  /\ out' = out \/ out'.op # "Logout"

(* A quiet step is a stuttering step of BotSession.                        *)
LEMMA QuietStep ==
  ASSUME SessionInv, Quiet, ctxDone \/ pc'["main"] = pc["main"]
  PROVE  SessionInv' /\ UNCHANGED Session!vars
BY DEF SessionInv, Quiet, Session!vars, At

(* The action loop never builds a Logout packet.                           *)
LEMMA SayNoLogout ==
  ASSUME TypeInv, Decide, out.op # "Logout"
  PROVE  out' = out \/ out'.op # "Logout"
<1> USE DEF Say, DeathTaunt, DoSocialAction, DoChat, SweepLoot, Continue, Stop, Ops, Offenses
<1>1. CASE AckTeleport \/ NapEnds \/ NapCancelled \/ CheckDead \/ PickAction
  BY <1>1, MessageTypes DEF AckTeleport, NapEnds, NapCancelled, CheckDead, PickAction
<1>2. CASE CheckInventory \/ UseItem \/ CheckTargets \/ Walk \/ ArriveX \/ NextSwitch
  BY <1>2, MessageTypes DEF CheckInventory, UseItem, CheckTargets, Walk, ArriveX, NextSwitch
<1>3. CASE BeginRoam
  BY <1>3 DEF BeginRoam, Plain, About
<1>4. CASE ArriveY
  BY <1>4 DEF ArriveY, Plain, About
<1>5. CASE ChooseTarget \/ CheckMana \/ CheckCooldown
  BY <1>5 DEF ChooseTarget, CheckMana, CheckCooldown, About
<1>6. CASE Drain \/ Landed \/ TimedOut \/ WaitCancelled
  BY <1>6, MessageTypes DEF Drain, Landed, TimedOut, WaitCancelled, NextTarget
<1> QED
  BY <1>1, <1>2, <1>3, <1>4, <1>5, <1>6 DEF Decide

(* Every step of the action loop is a stuttering step of BotSession.       *)
LEMMA ActionSession ==
  ASSUME LoopInv, SessionInv, ActionLoop
  PROVE  SessionInv' /\ [Session!Next]_Session!vars
<1>1. /\ pc' = [pc EXCEPT !["action"] = pc'["action"]]
      /\ UNCHANGED <<open, ctxDone, peer>>
  BY DEF ActionLoop, Decide, AckTeleport, NapEnds, NapCancelled, CheckDead, PickAction,
         CheckInventory, UseItem, CheckTargets, BeginRoam, Walk, ArriveX, ArriveY,
         NextSwitch, ChooseTarget, CheckMana, CheckCooldown, Drain, Landed, TimedOut,
         WaitCancelled, NextTarget, Say, DeathTaunt, DoSocialAction, DoChat, SweepLoot,
         Continue, Stop, Go, Write, Encode, Encrypt, Send,
         SendLost, Return, LoopInv, TypeInv, TypeOK, ControlOK, Procs, envVars
<1>2. pc'["main"] = pc["main"]
  BY <1>1 DEF LoopInv, TypeInv, TypeOK, ControlOK, Procs
<1>3. out' = out \/ out'.op # "Logout"
  <2>1. CASE Decide
    BY <2>1, SayNoLogout DEF LoopInv, SessionInv
  <2>2. CASE Write("action")
    BY <2>2 DEF Write, Encode, Encrypt, Send, SendLost, Return, Nothing
  <2> QED
    BY <2>1, <2>2 DEF ActionLoop
<1>4. CASE Send("action")
  <2>1. At("action", "send") /\ peer = "up" /\ Deliver(Message(buf.writer))
    BY <1>4 DEF Send
  <2>2. received' = out
    BY <2>1, DeliverReads DEF Writers, Message
  <2>3. ~ LoggedOut
    BY <2>1 DEF LoopInv, WriterInv, Joined, LoggedOut, At
  <2>4. received # Plain("Logout") /\ received' # Plain("Logout")
    BY <2>1, <2>2, <2>3, LogoutIsNotGameplay DEF SessionInv
  <2> QED
    BY <1>1, <1>2, <1>3, <2>1, <2>3, <2>4 DEF SessionInv, LoggedOut, At, Session!vars
<1>5. CASE ~ Send("action")
  <2>1. peer # "gone" => received' = received
    BY <1>5 DEF ActionLoop, Write, Encode, Encrypt, SendLost, sendVars
  <2>2. Quiet
    BY <1>1, <1>2, <1>3, <2>1 DEF Quiet, LoggedOut, At
  <2> QED
    BY <1>2, <2>2, QuietStep
<1> QED
  BY <1>4, <1>5

(* Main logs out, hangs up, or stutters.                                   *)
LEMMA MainSession ==
  ASSUME LoopInv, SessionInv, Main
  PROVE  SessionInv' /\ [Session!Next]_Session!vars
<1>1. UNCHANGED <<ctxDone, peer>>
  BY DEF Main, envVars
<1>2. out' = out
  BY DEF Main, AwaitCancel, Join, Close, Write, Encode, Encrypt, Send, SendLost, Return
<1>3. CASE Close
  <2>1. pc["main"] = "linger" /\ pc'["main"] = "finished" /\ ~ open' /\ received' = received
    BY <1>3 DEF Close, At, Go, LoopInv, TypeInv, TypeOK, ControlOK, Procs, sendVars
  <2>2. Session!HangUp
    BY <1>1, <2>1 DEF SessionInv, LoggedOut, At, Session!HangUp, LoopInv, TypeInv, TypeOK, ControlOK
  <2>3. SessionInv'
    BY <1>1, <1>2, <2>1 DEF SessionInv, LoggedOut, At
  <2> QED
    BY <2>2, <2>3 DEF Session!Next
<1>4. CASE Send("main")
  <2>1. At("main", "send") /\ peer = "up" /\ Deliver(Message(buf.writer))
    BY <1>4 DEF Send
  <2>2. received' = Plain("Logout")
    BY <2>1, DeliverReads DEF Writers, Message
  <2>3. pc["main"] = "send" /\ pc'["main"] = "linger" /\ open' = open
    BY <1>4, <2>1 DEF Send, Return, Go, After, At, Main, AwaitCancel, Join, Close, LoopInv,
                      TypeInv, TypeOK, ControlOK, Procs
  <2>4. received # Plain("Logout")
    BY <2>1, <2>3 DEF SessionInv, LoggedOut
  <2>5. Session!Logout
    BY <1>1, <2>1, <2>2, <2>3, <2>4 DEF SessionInv, At, Session!Logout
  <2>6. SessionInv'
    BY <1>1, <1>2, <2>2, <2>3 DEF SessionInv, LoggedOut, At
  <2> QED
    BY <2>5, <2>6 DEF Session!Next
<1>5. CASE AwaitCancel \/ Join \/ Encode("main") \/ Encrypt("main") \/ SendLost("main")
  <2>1. open' = open /\ received' = received
    BY <1>5 DEF AwaitCancel, Join, Encode, Encrypt, SendLost, sendVars, Main, Close, At
  <2>2. /\ pc["main"] \in {"run", "join", "encode", "encrypt", "send"}
        /\ pc'["main"] \in {"join", "encode", "encrypt", "send", "linger"}
        /\ pc'["main"] = "linger" => peer = "gone"
    BY <1>5 DEF AwaitCancel, Join, Encode, Encrypt, SendLost, Return, After, At, Go,
                LoopInv, TypeInv, TypeOK, ControlOK, Procs
  <2>3. ctxDone
    BY <1>5 DEF AwaitCancel, Join, Encode, Encrypt, SendLost, SessionInv, At
  <2>4. Quiet
    BY <1>1, <1>2, <2>1, <2>2 DEF Quiet, LoggedOut, At
  <2> QED
    BY <2>3, <2>4, QuietStep
<1> QED
  BY <1>3, <1>4, <1>5 DEF Main, Write

(* The environment interrupts the bot, takes the connection, or stutters.  *)
LEMMA EnvironmentSession ==
  ASSUME LoopInv, SessionInv, Environment
  PROVE  SessionInv' /\ [Session!Next]_Session!vars
<1>1. UNCHANGED <<pc, open, out, received>>
  BY DEF Environment, sendVars
<1>2. CASE Cancel
  <2>1. Session!Interrupt
    BY <1>1, <1>2 DEF Cancel, Session!Interrupt
  <2>2. SessionInv'
    BY <1>1, <1>2 DEF Cancel, SessionInv, LoggedOut, At
  <2> QED
    BY <2>1, <2>2 DEF Session!Next
<1>3. CASE Lose
  <2>1. Session!LoseConnection
    BY <1>1, <1>3 DEF Lose, Session!LoseConnection
  <2>2. SessionInv'
    BY <1>1, <1>3 DEF Lose, SessionInv, LoggedOut, At
  <2> QED
    BY <2>1, <2>2 DEF Session!Next
<1>4. CASE Stall \/ Resume \/ Elapse
  <2>1. Quiet
    BY <1>1, <1>4 DEF Quiet, Stall, Resume, Elapse, LoggedOut, At, envVars
  <2> QED
    BY <1>1, <2>1, QuietStep
<1> QED
  BY <1>2, <1>3, <1>4 DEF Environment

(* Every step of the load loop is a step of BotSession or a stutter.       *)
LEMMA SessionStep ==
  ASSUME LoopInv, SessionInv, [Next]_vars
  PROVE  SessionInv' /\ [Session!Next]_Session!vars
<1>1. CASE ReadLoop
  <2>1. UNCHANGED <<open, out, received, ctxDone, peer>> /\ pc'["main"] = pc["main"]
    BY <1>1 DEF ReadLoop, ReadError, Handle, StorePosition, Store, ArmAppearing, Converge,
                Signal, RecordReuse, HandleAtOnce, BeginHandler, BeginTeleport,
                BeginBroadcast, Go, LoopInv, TypeInv, TypeOK, ControlOK, Procs,
                sendVars, envVars
  <2>2. Quiet
    BY <2>1 DEF Quiet, LoggedOut, At
  <2> QED
    BY <2>1, <2>2, QuietStep
<1>2. CASE UNCHANGED vars
  <2>1. Quiet /\ UNCHANGED pc
    BY <1>2 DEF vars, sendVars, envVars, Quiet, LoggedOut, At
  <2> QED
    BY <2>1, QuietStep
<1> QED
  BY <1>1, <1>2, ActionSession, MainSession, EnvironmentSession DEF Next

(* The load loop starts where BotSession does.                             *)
LEMMA SessionStarts == Init => Session!Init
BY DEF Init, Session!Init, Plain, About

(* An interrupted bot logs out before it hangs up and is silent afterwards *)
(* unless the connection is lost first: the load loop implements           *)
(* BotSession (README.md:16, client.go:549-568, 1023-1035).                *)
THEOREM SessionRefinement == Spec => SessionRefined
<1>1. LoopInv /\ SessionInv /\ [Next]_vars => SessionInv' /\ [Session!Next]_Session!vars
  BY SessionStep
<1> QED
  BY <1>1, LoopCorrect, SessionInit, SessionStarts, PTL DEF Spec, SessionRefined, Session!Spec

(***************************************************************************)
(* The visit of this one bot as BotVisit has it, which the fleet           *)
(* implements with a load loop of a few steps: what that loop stands for   *)
(* keeps the same promise, from where the game loop starts.                *)
(***************************************************************************)
Visit == INSTANCE BotVisit WITH
  Bots        <- {Self},
  Tested      <- FALSE,
  loginConn   <- [b \in {Self} |-> "nil"],
  gameConn    <- [b \in {Self} |-> IF open THEN "open" ELSE "closed"],
  session     <- [b \in {Self} |->
                    IF peer = "gone" THEN "lost"
                    ELSE IF received = Plain("Logout") THEN "loggedOut" ELSE "inWorld"],
  interrupted <- ctxDone,
  process     <- "running"

(* The connection is lost while it is open.                                *)
LEMMA LostWhileOpen ==
  ASSUME LoopInv, [Next]_vars, peer # "gone", peer' = "gone"
  PROVE  open
BY DEF Next, ActionLoop, Main, ReadLoop, Environment, Cancel, Lose, Stall, Resume, Elapse,
   vars, envVars

(* A step of BotSession is a step of a visit.                              *)
LEMMA SessionIsVisit ==
  ASSUME LoopInv, SessionInv, [Next]_vars, [Session!Next]_Session!vars
  PROVE  [Visit!Next]_Visit!vars
<1> USE DEF LoopInv, TypeInv, TypeOK, ControlOK
<1>1. CASE UNCHANGED Session!vars
  BY <1>1 DEF Session!vars, Visit!vars
<1>2. CASE Session!Interrupt
  <2>1. Visit!Interrupt
    BY <1>2 DEF Session!Interrupt, Visit!Interrupt
  <2> QED
    BY <2>1 DEF Visit!Next
<1>3. CASE Session!Logout
  <2>1. Visit!Pass(Self, "inWorld", "loggedOut")
    BY <1>3 DEF Session!Logout, Visit!Pass
  <2> QED
    BY <1>3, <2>1 DEF Session!Logout, Visit!Logout, Visit!Visit, Visit!Next
<1>4. CASE Session!LoseConnection
  <2>1. CASE peer = "gone"
    BY <1>4, <2>1 DEF Session!LoseConnection, Visit!vars
  <2>2. CASE peer # "gone"
    <3>1. open
      BY <1>4, <2>2, LostWhileOpen DEF Session!LoseConnection
    <3>2. Visit!LoseConnection(Self)
      BY <1>4, <3>1 DEF Session!LoseConnection, Visit!LoseConnection
    <3> QED
      BY <1>4, <3>2 DEF Session!LoseConnection, Visit!Visit, Visit!Next
  <2> QED
    BY <2>1, <2>2
<1>5. CASE Session!HangUp
  <2>1. Visit!HangUp(Self)
    BY <1>5 DEF Session!HangUp, Visit!HangUp, Visit!HungUp
  <2> QED
    BY <1>5, <2>1 DEF Session!HangUp, Visit!Visit, Visit!Next
<1> QED
  BY <1>1, <1>2, <1>3, <1>4, <1>5 DEF Session!Next

(* Every step of the load loop is one the fleet's promise allows the bot   *)
(* in the world, or none that the servers see (client.go:549-568,          *)
(* cmd/main.go:234-240).                                                   *)
THEOREM LoopContinuesVisit == Spec => [][Visit!Next]_Visit!vars
<1>1. LoopInv /\ SessionInv /\ [Next]_vars => SessionInv' /\ [Visit!Next]_Visit!vars
  BY SessionStep, SessionIsVisit
<1> QED
  BY <1>1, LoopCorrect, SessionInit, PTL DEF Spec

-----------------------------------------------------------------------------
(***************************************************************************)
(* What the fights of the load loop guarantee, whatever the read loop does *)
(* between two steps of the action loop: offense is on the selected        *)
(* target, a confirmation is of an attack of the bot, and what was counted *)
(* is still there when it is chosen from.                                  *)
(***************************************************************************)

(***************************************************************************)
(* From Action to offense the current target stays selected: what is       *)
(* written about it names it, and nothing else is delivered in between.    *)
(***************************************************************************)
TargetInv ==
  /\ pc["action"] \in {"offense", "castReady"} /\ peer # "gone" => target = selected
  /\ Writing("action") /\ out.op = "Action" => out.obj = target
  /\ Writing("action") /\ out.op \in Offenses /\ peer # "gone" => out.obj = selected
  /\ OffenseOnSelectedTarget

(* The target invariant holds initially.                                   *)
LEMMA TargetInit == Init => TargetInv
BY DEF Init, TargetInv, Writing, OffenseOnSelectedTarget, Offenses, Plain, About

(* Deciding what to do next keeps it: About names the target.              *)
LEMMA TargetDecide ==
  ASSUME LoopInv, TargetInv, Decide, UNCHANGED <<sendVars, envVars>>
  PROVE  TargetInv'
<1> USE DEF LoopInv, TypeInv, TypeOK, ControlOK, Procs, At, Go, Say, Continue, Stop,
            TargetInv, Writing, OffenseOnSelectedTarget, Offenses, fightVars, sendVars,
            envVars, Plain, About, DeathTaunt, DoSocialAction, DoChat, SweepLoot
<1>1. CASE AckTeleport \/ NapEnds \/ NapCancelled \/ CheckDead \/ PickAction
  BY <1>1 DEF AckTeleport, NapEnds, NapCancelled, CheckDead, PickAction
<1>2. CASE CheckInventory \/ UseItem \/ CheckTargets \/ Walk \/ ArriveX \/ NextSwitch
  BY <1>2 DEF CheckInventory, UseItem, CheckTargets, Walk, ArriveX, NextSwitch
<1>3. CASE BeginRoam \/ ArriveY
  BY <1>3 DEF BeginRoam, ArriveY
<1>4. CASE ChooseTarget
  BY <1>4 DEF ChooseTarget
<1>5. CASE CheckMana
  BY <1>5 DEF CheckMana
<1>6. CASE CheckCooldown
  BY <1>6 DEF CheckCooldown
<1>7. CASE Drain \/ Landed \/ TimedOut \/ WaitCancelled
  BY <1>7 DEF Drain, Landed, TimedOut, WaitCancelled, NextTarget
<1> QED
  BY <1>1, <1>2, <1>3, <1>4, <1>5, <1>6, <1>7 DEF Decide

(* A delivered packet selects the target, or is about the selected one.    *)
LEMMA TargetWrite ==
  ASSUME LoopInv, TargetInv, NEW w \in Writers, Write(w), UNCHANGED <<target, envVars>>
  PROVE  TargetInv'
<1> USE DEF At, Go
<1>1. pc \in [Procs -> ActionLabels \cup MainLabels \cup ReaderLabels] /\ peer' = peer
  BY DEF LoopInv, TypeInv, TypeOK, ControlOK, envVars
<1>2. CASE Encode(w) \/ Encrypt(w)
  BY <1>1, <1>2
  DEF Encode, Encrypt, TargetInv, Writing, OffenseOnSelectedTarget, Writers, Procs
<1>3. CASE SendLost(w)
  <2>1. /\ w = "main" => pc'["action"] = pc["action"] /\ out' = out
        /\ w = "action" => ~ Writing("action")'
        /\ peer' = "gone" /\ UNCHANGED <<received, selected>>
    BY <1>1, <1>3, AfterTypes
    DEF SendLost, Return, Writing, Writers, Procs, sendVars
  <2> QED
    BY <2>1 DEF TargetInv, Writing, OffenseOnSelectedTarget, Writers
<1>4. CASE Send(w)
  <2>1. At(w, "send") /\ peer = "up" /\ Deliver(Message(buf.writer)) /\ Return(w, After(w))
    BY <1>4 DEF Send
  <2>2. received' = Message(w)
    BY <2>1, DeliverReads
  <2>3. selected' = IF Message(w).op = "Action" THEN Message(w).obj ELSE selected
    BY <2>1 DEF Deliver, LoopInv, WriterInv, Encrypted
  <2>4. CASE w = "main"
    <3>1. received'.op = "Logout" /\ selected' = selected
      BY <2>2, <2>3, <2>4 DEF Message, Plain, About
    <3>2. pc'["action"] = pc["action"] /\ out' = out
      BY <1>1, <2>1, <2>4 DEF Return, Procs
    <3> QED
      BY <1>1, <3>1, <3>2 DEF TargetInv, Writing, OffenseOnSelectedTarget, Offenses
  <2>5. CASE w = "action"
    <3>1. Writing("action") /\ received' = out
      BY <2>1, <2>2, <2>5 DEF Writing, Message
    <3>2. received'.op \in Offenses => received'.obj = selected'
      BY <2>1, <2>3, <2>5, <3>1 DEF TargetInv, Message, Offenses
    <3>3. ~ Writing("action")'
      BY <1>1, <2>1, <2>5, AfterTypes DEF Return, Writing, Procs
    <3>4. pc'["action"] \in {"offense", "castReady"} => target' = selected'
      <4>1. pc'["action"] = After("action")
        BY <1>1, <2>1, <2>5 DEF Return, Procs
      <4>2. pc'["action"] \in {"offense", "castReady"} => out.op = "Action"
        BY <4>1 DEF After, Offenses
      <4> QED
        BY <2>3, <2>5, <3>1, <4>2 DEF TargetInv, Message
    <3> QED
      BY <3>2, <3>3, <3>4 DEF TargetInv, OffenseOnSelectedTarget
  <2> QED
    BY <2>4, <2>5 DEF Writers
<1> QED
  BY <1>2, <1>3, <1>4 DEF Write

(* Nothing else touches what the target invariant is about.                *)
LEMMA TargetStep == LoopInv /\ TargetInv /\ [Next]_vars => TargetInv'
<1> SUFFICES ASSUME LoopInv, TargetInv, [Next]_vars PROVE TargetInv'
  OBVIOUS
<1>1. CASE ActionLoop
  <2>1. CASE Decide /\ UNCHANGED sendVars
    BY <1>1, <2>1, TargetDecide DEF ActionLoop
  <2>2. CASE Write("action") /\ UNCHANGED fightVars
    BY <1>1, <2>2, TargetWrite DEF ActionLoop, fightVars, Writers
  <2> QED
    BY <1>1, <2>1, <2>2 DEF ActionLoop
<1>2. CASE Main /\ Write("main")
  BY <1>2, TargetWrite DEF Main, fightVars, Writers
<1>3. CASE \/ Main /\ ~ Write("main")
           \/ ReadLoop \/ Environment \/ UNCHANGED vars
  <2>1. pc'["action"] = pc["action"]
    BY <1>3 DEF Main, AwaitCancel, Join, Close, ReadLoop, ReadError, Handle, StorePosition,
         Store, ArmAppearing, Converge, Signal, RecordReuse, HandleAtOnce, BeginHandler,
         BeginTeleport, BeginBroadcast, Environment, vars, Go, LoopInv, TypeInv, TypeOK,
         ControlOK, Procs
  <2>2. UNCHANGED <<out, target, selected, received>>
    BY <1>3 DEF Main, AwaitCancel, Join, Close, ReadLoop, Environment, vars, sendVars,
         fightVars
  <2>3. peer = "gone" => peer' = "gone"
    BY <1>3 DEF Main, ReadLoop, Environment, Cancel, Lose, Stall, Resume, Elapse, vars,
         envVars
  <2> QED
    BY <2>1, <2>2, <2>3 DEF TargetInv, Writing, OffenseOnSelectedTarget
<1> QED
  BY <1>1, <1>2, <1>3 DEF Next

(* The server is told to attack only what it was told to target last,      *)
(* although the read loop replaces targets meanwhile (client.go:790-812).  *)
THEOREM OffenseOnSelected == Spec => []OffenseOnSelectedTarget
<1>1. TargetInv => OffenseOnSelectedTarget
  BY DEF TargetInv
<1> QED
  BY <1>1, LoopCorrect, TargetInit, TargetStep, PTL DEF Spec

(***************************************************************************)
(* A broadcast of the bot's own attack in the handler is of an object that *)
(* the bot attacked; the server does not forget what was attacked.         *)
(***************************************************************************)
SignalInv ==
  /\ SignalIsOwn
  /\ At("reader", "signal") /\ packet.first = Self => packet.victim \in struck

(* The signal invariant holds initially.                                   *)
LEMMA SignalInit == Init => SignalInv
BY DEF Init, SignalInv, SignalIsOwn, At

(* A delivered packet only adds to what the bot attacked.                  *)
LEMMA StruckGrows == [Next]_vars => struck \subseteq struck'
<1> SUFFICES ASSUME [Next]_vars PROVE struck \subseteq struck'
  OBVIOUS
<1>1. ASSUME NEW w \in Writers, Write(w) PROVE struck \subseteq struck'
  BY <1>1 DEF Write, Encode, Encrypt, Send, SendLost, Deliver, sendVars
<1> QED
  BY <1>1 DEF Next, ActionLoop, Main, AwaitCancel, Join, Close, ReadLoop, Environment,
     vars, sendVars, Writers

(* The action loop only empties the channel; Signal fills it with a victim *)
(* of the bot.                                                             *)
LEMMA SignalStep == LoopInv /\ SignalInv /\ [Next]_vars => SignalInv'
<1> SUFFICES ASSUME LoopInv, SignalInv, [Next]_vars PROVE SignalInv'
  OBVIOUS
<1>1. struck \subseteq struck'
  BY StruckGrows
<1>2. CASE ActionLoop
  <2>1. attackChan' \in {attackChan, NoObject}
    BY <1>2 DEF ActionLoop, Decide, AckTeleport, NapEnds, NapCancelled, CheckDead,
         PickAction, CheckInventory, UseItem, CheckTargets, BeginRoam, Walk, ArriveX,
         ArriveY, NextSwitch, ChooseTarget, CheckMana, CheckCooldown, Drain, Landed,
         TimedOut, WaitCancelled, fightVars
  <2>2. pc'["reader"] = pc["reader"] /\ packet' = packet
    <3>1. CASE Decide
      BY <1>2, <3>1 DEF ActionLoop, Decide, AckTeleport, NapEnds, NapCancelled, CheckDead,
           PickAction, CheckInventory, UseItem, CheckTargets, BeginRoam, Walk, ArriveX,
           ArriveY, NextSwitch, ChooseTarget, CheckMana, CheckCooldown, Drain, Landed,
           TimedOut, WaitCancelled, NextTarget, Say, DeathTaunt, DoSocialAction, DoChat,
           SweepLoot, Continue, Stop, Go, readerVars, LoopInv, TypeInv, TypeOK, ControlOK,
           Procs
    <3>2. CASE Write("action")
      BY <1>2, <3>2 DEF ActionLoop, Write, Encode, Encrypt, Send, SendLost, Return, Go,
           readerVars, LoopInv, TypeInv, TypeOK, ControlOK, Procs
    <3> QED
      BY <1>2, <3>1, <3>2 DEF ActionLoop
  <2> QED
    BY <1>1, <2>1, <2>2 DEF SignalInv, SignalIsOwn, At
<1>3. CASE Main
  <2>1. pc'["reader"] = pc["reader"] /\ packet' = packet /\ attackChan' = attackChan
    BY <1>3 DEF Main, AwaitCancel, Join, Close, Write, Encode, Encrypt, Send, SendLost,
         Return, Go, fightVars, readerVars, LoopInv, TypeInv, TypeOK, ControlOK, Procs
  <2> QED
    BY <1>1, <2>1 DEF SignalInv, SignalIsOwn, At
<1>4. CASE Environment \/ UNCHANGED vars
  <2>1. UNCHANGED <<pc, packet, attackChan>>
    BY <1>4 DEF Environment, vars, fightVars, readerVars
  <2> QED
    BY <1>1, <2>1 DEF SignalInv, SignalIsOwn, At
<1>5. CASE ReadLoop
  <2>1. CASE ReadError \/ StorePosition \/ ArmAppearing \/ Converge \/ RecordReuse
    <3>1. pc'["reader"] # "signal" /\ attackChan' = attackChan
      BY <2>1 DEF ReadError, StorePosition, Store, ArmAppearing, Converge, RecordReuse, Go,
           LoopInv, TypeInv, TypeOK, ControlOK, Procs
    <3> QED
      BY <1>1, <3>1 DEF SignalInv, SignalIsOwn, At
  <2>2. CASE Signal
    <3>1. pc'["reader"] # "signal"
      BY <2>2 DEF Signal, Go, LoopInv, TypeInv, TypeOK, ControlOK, Procs
    <3>2. attackChan' # attackChan => attackChan' \in struck
      BY <2>2 DEF Signal, SignalInv
    <3> QED
      BY <1>1, <3>1, <3>2 DEF SignalInv, SignalIsOwn, At
  <2>3. ASSUME NEW p \in Inbound, HandleAtOnce(p) PROVE SignalInv'
    <3>1. UNCHANGED <<pc, packet, attackChan>>
      BY <2>3 DEF HandleAtOnce
    <3> QED
      BY <1>1, <3>1 DEF SignalInv, SignalIsOwn, At
  <2>4. ASSUME NEW p \in Inbound, BeginHandler(p) PROVE SignalInv'
    <3>1. packet' = p /\ attackChan' = attackChan
      BY <2>4 DEF BeginHandler
    <3>2. pc'["reader"] = "signal" => Truthful(p)
      BY <2>4 DEF BeginHandler, BeginTeleport, BeginBroadcast, Go, LoopInv, TypeInv,
           TypeOK, ControlOK, Procs
    <3> QED
      BY <1>1, <3>1, <3>2 DEF SignalInv, SignalIsOwn, At, Truthful
  <2> QED
    BY <1>5, <2>1, <2>2, <2>3, <2>4 DEF ReadLoop, Handle
<1> QED
  BY <1>2, <1>3, <1>4, <1>5 DEF Next

(* If the server tells the truth about who attacked whom, nobody else's    *)
(* attack ever ends the wait of a fight (client.go:772-781, 928-936).      *)
THEOREM SignalsAreOwn == Spec => []SignalIsOwn
<1>1. SignalInv => SignalIsOwn
  BY DEF SignalInv
<1> QED
  BY <1>1, LoopCorrect, SignalInit, SignalStep, PTL DEF Spec

(***************************************************************************)
(* A fight began with a target in the list, an item is used after items    *)
(* were counted, and neither list ever becomes empty again.                *)
(***************************************************************************)
ChoiceInv ==
  /\ ChoiceStillThere
  /\ Fighting => npcs # << >>

(* The choice invariant holds initially.                                   *)
LEMMA ChoiceInit == Init => ChoiceInv
BY DEF Init, ChoiceInv, ChoiceStillThere, Fighting, Writing, At

(* The lists never shrink to nothing.                                      *)
LEMMA ListsStay ==
  ASSUME LoopInv, [Next]_vars
  PROVE  (npcs # << >> => npcs' # << >>) /\ (inventory # {} => inventory' # {})
<1> USE DEF LoopInv, TypeInv, TypeOK, FieldsOK
<1>1. CASE ReadLoop
  <2>1. ASSUME NEW p \in Inbound, HandleInfo(p) PROVE npcs # << >> => npcs' # << >>
    <3>1. p \in Packets
      BY LoopAssumption
    <3>2. p.id \in ObjectIds
      BY <2>1, <3>1 DEF HandleInfo, Packets
    <3>3. CASE Ring!AppendTarget(p.id)
      BY <3>2, <3>3, AppendProperties DEF Ring!AppendTarget
    <3>4. CASE Ring!ReplaceOldest(p.id)
      <4>1. DOMAIN npcs' = DOMAIN npcs
        BY <3>4 DEF Ring!ReplaceOldest
      <4> QED
        BY <4>1
    <3> QED
      BY <2>1, <3>3, <3>4 DEF HandleInfo, Ring!AddTarget, Ring!Record, Ring!ringVars
  <2>2. (\A p \in Inbound : ~ (HandleAtOnce(p) /\ HandleInfo(p))) => npcs' = npcs
    BY <1>1 DEF ReadLoop, ReadError, Handle, StorePosition, Store, ArmAppearing, Converge,
         Signal, RecordReuse, HandleAtOnce, HandleDie, HandleStatusUpdate, HandleItemList,
         BeginHandler, readerVars
  <2>3. inventory # {} => inventory' # {}
    BY <1>1 DEF ReadLoop, ReadError, Handle, StorePosition, Store, ArmAppearing, Converge,
         Signal, RecordReuse, HandleAtOnce, HandleDie, HandleStatusUpdate, HandleItemList,
         HandleInfo, BeginHandler, readerVars
  <2> QED
    BY <2>1, <2>2, <2>3
<1>2. CASE ~ ReadLoop
  BY <1>2 DEF Next, ActionLoop, Main, Environment, vars, readerVars
<1> QED
  BY <1>1, <1>2

(* A decision to fight or to use an item is made on a list that is there.  *)
LEMMA ChoiceDecide ==
  ASSUME LoopInv, ChoiceInv, Decide, UNCHANGED readerVars
  PROVE  ChoiceInv'
<1> USE DEF LoopInv, TypeInv, TypeOK, ControlOK, FieldsOK, Procs, At, Go, Say, Continue,
            Stop, ChoiceInv, ChoiceStillThere, Fighting, Writing, Offenses, fightVars,
            readerVars, Plain, About, DeathTaunt, DoSocialAction, DoChat, SweepLoot
<1>1. CASE AckTeleport \/ NapEnds \/ NapCancelled \/ CheckDead \/ PickAction
  BY <1>1 DEF AckTeleport, NapEnds, NapCancelled, CheckDead, PickAction
<1>2. CASE CheckInventory \/ UseItem \/ Walk \/ ArriveX \/ NextSwitch
  BY <1>2 DEF CheckInventory, UseItem, Walk, ArriveX, NextSwitch
<1>3. CASE CheckTargets
  <2>1. Ring!TargetCount # 0 => npcs # << >>
    BY DEF Ring!TargetCount
  <2> QED
    BY <1>3, <2>1 DEF CheckTargets
<1>4. CASE BeginRoam \/ ArriveY
  BY <1>4 DEF BeginRoam, ArriveY
<1>5. CASE ChooseTarget \/ CheckMana \/ CheckCooldown
  BY <1>5 DEF ChooseTarget, CheckMana, CheckCooldown
<1>6. CASE Drain \/ Landed \/ TimedOut \/ WaitCancelled
  BY <1>6 DEF Drain, Landed, TimedOut, WaitCancelled, NextTarget
<1> QED
  BY <1>1, <1>2, <1>3, <1>4, <1>5, <1>6 DEF Decide

(* No other goroutine moves the action loop or touches its packet.         *)
LEMMA OthersLeaveAction ==
  ASSUME LoopInv, Main \/ ReadLoop \/ Environment \/ UNCHANGED vars
  PROVE  pc'["action"] = pc["action"] /\ out' = out
<1>1. pc'["action"] = pc["action"]
  BY DEF Main, AwaitCancel, Join, Close, Write, Encode, Encrypt, Send, SendLost,
       Return, ReadLoop, ReadError, Handle, StorePosition, Store, ArmAppearing, Converge,
       Signal, RecordReuse, HandleAtOnce, BeginHandler, BeginTeleport, BeginBroadcast,
       Environment, vars, Go, LoopInv, TypeInv, TypeOK, ControlOK, Procs
<1>2. out' = out
  BY DEF Main, AwaitCancel, Join, Close, Write, Encode, Encrypt, Send, SendLost,
       Return, ReadLoop, Environment, vars
<1> QED
  BY <1>1, <1>2

(* Every other step leaves the action loop in its fight or takes it out.   *)
LEMMA ChoiceStep == LoopInv /\ ChoiceInv /\ [Next]_vars => ChoiceInv'
<1> SUFFICES ASSUME LoopInv, ChoiceInv, [Next]_vars PROVE ChoiceInv'
  OBVIOUS
<1>1. CASE ActionLoop /\ Decide
  BY <1>1, ChoiceDecide DEF ActionLoop
<1>2. CASE ActionLoop /\ Write("action")
  <2>1. UNCHANGED <<npcs, inventory>>
    BY <1>2 DEF ActionLoop, readerVars
  <2>2. Fighting' => Fighting
    <3>1. CASE Encode("action") \/ Encrypt("action")
      BY <3>1 DEF Encode, Encrypt, Fighting, Writing, Writers, At, Go, LoopInv, TypeInv,
           TypeOK, ControlOK, Procs
    <3>2. CASE Send("action") \/ SendLost("action")
      <4>1. At("action", "send") /\ pc'["action"] \in {After("action"), "done"}
        BY <3>2 DEF Send, SendLost, Return, Go, LoopInv, TypeInv, TypeOK, ControlOK, Procs
      <4>2. After("action") \in {"nap", "walk", "offense", "drain", "ack"}
            /\ (After("action") \in {"offense", "drain"}
                => out.op \in {"Action"} \cup Offenses)
        BY <4>1, AfterTypes DEF Writers
      <4> QED
        BY <4>1, <4>2 DEF Fighting, Writing, At
    <3> QED
      BY <1>2, <3>1, <3>2 DEF Write
  <2>3. pc'["action"] \notin {"useItem", "select", "choose"}
    BY <1>2, AfterTypes DEF Write, Encode, Encrypt, Send, SendLost, Return, At, Go, LoopInv,
         TypeInv, TypeOK, ControlOK, Procs, Writers
  <2> QED
    BY <2>1, <2>2, <2>3 DEF ChoiceInv, ChoiceStillThere, At
<1>3. CASE Main \/ ReadLoop \/ Environment \/ UNCHANGED vars
  BY <1>3, OthersLeaveAction, ListsStay
  DEF ChoiceInv, ChoiceStillThere, Fighting, Writing, At
<1> QED
  BY <1>1, <1>2, <1>3 DEF Next, ActionLoop

(* Counting and choosing are separate accesses, yet the choice never finds *)
(* the list empty (client.go:625-632, 735-738, 759-762).                   *)
THEOREM ChoicesStay == Spec => []ChoiceStillThere
<1>1. ChoiceInv => ChoiceStillThere
  BY DEF ChoiceInv
<1> QED
  BY <1>1, LoopCorrect, ChoiceInit, ChoiceStep, PTL DEF Spec

-----------------------------------------------------------------------------
(***************************************************************************)
(* What the bot settles for, it settles for for good.  Death, convergence  *)
(* and a target once known are never taken back; the places in the code    *)
(* where a dead bot is passive lead to one another, and so do those where  *)
(* a converged bot with a target stands still.                             *)
(***************************************************************************)
Held == converged /\ npcs # << >>

(* Death, convergence and the knowledge of a target last.                  *)
LEMMA GroundsStay ==
  ASSUME LoopInv, [Next]_vars
  PROVE  (dead => dead') /\ (Held => Held')
<1>1. (dead => dead') /\ (converged => converged')
  BY DEF Next, ActionLoop, Main, Environment, ReadLoop, ReadError, Handle, StorePosition,
       Store, ArmAppearing, Converge, Signal, RecordReuse, HandleAtOnce, HandleDie,
       HandleStatusUpdate, HandleItemList, HandleInfo, BeginHandler, readerVars, vars,
       LoopInv, TypeInv, TypeOK, FieldsOK
<1> QED
  BY <1>1, ListsStay DEF Held

(* A decision on these grounds keeps the bot passive, or where it stands.  *)
LEMMA SettlesDecide ==
  ASSUME LoopInv, Decide
  PROVE  (dead /\ Passive => Passive') /\ (Held /\ ~ Roaming => ~ Roaming')
<1> USE DEF LoopInv, TypeInv, TypeOK, ControlOK, FieldsOK, Procs, At, Go, Say, Continue,
            Stop, Held, Passive, Roaming, Writing, Plain, About, DeathTaunt,
            DoSocialAction, DoChat, SweepLoot
<1>1. CASE AckTeleport \/ NapEnds \/ NapCancelled \/ CheckDead
  BY <1>1 DEF AckTeleport, NapEnds, NapCancelled, CheckDead
<1>2. CASE PickAction \/ CheckInventory \/ UseItem
  BY <1>2 DEF PickAction, CheckInventory, UseItem
<1>3. CASE CheckTargets
  <2>1. npcs # << >> => Ring!TargetCount # 0
    BY EmptySeq DEF Ring!TargetCount
  <2> QED
    BY <1>3, <2>1 DEF CheckTargets
<1>4. CASE BeginRoam \/ Walk \/ ArriveX \/ ArriveY
  BY <1>4 DEF BeginRoam, Walk, ArriveX, ArriveY
<1>5. CASE NextSwitch \/ ChooseTarget \/ CheckMana \/ CheckCooldown
  BY <1>5 DEF NextSwitch, ChooseTarget, CheckMana, CheckCooldown, Offenses
<1>6. CASE Drain \/ Landed \/ TimedOut \/ WaitCancelled
  BY <1>6 DEF Drain, Landed, TimedOut, WaitCancelled, NextTarget
<1> QED
  BY <1>1, <1>2, <1>3, <1>4, <1>5, <1>6 DEF Decide

(* A packet that is sent leads back to where it was built for.             *)
LEMMA SettlesWrite ==
  ASSUME LoopInv, Write("action")
  PROVE  (Passive => Passive') /\ (~ Roaming => ~ Roaming')
<1> USE DEF LoopInv, TypeInv, TypeOK, ControlOK, Procs, At, Go, Passive, Roaming, Writing
<1>1. CASE Encode("action") \/ Encrypt("action")
  BY <1>1 DEF Encode, Encrypt
<1>2. CASE Send("action") \/ SendLost("action")
  <2>1. At("action", "send") /\ pc'["action"] \in {After("action"), "done"}
    BY <1>2 DEF Send, SendLost, Return
  <2>2. out.op \in {"Say2", "Appearing"} => After("action") \in {"ack", "nap"}
    BY DEF After, Offenses
  <2>3. out.op \notin {"MoveToLocation", "ValidatePosition"}
          => After("action") \notin {"walk", "roam", "arriveX", "arriveY",
                                    "encode", "encrypt", "send"}
    BY DEF After
  <2> QED
    BY <2>1, <2>2, <2>3
<1> QED
  BY <1>1, <1>2 DEF Write

(* No step of any goroutine makes a settled bot stir.                      *)
LEMMA SettlesStep ==
  ASSUME LoopInv, [Next]_vars
  PROVE  (dead /\ Passive => Passive') /\ (Held /\ ~ Roaming => ~ Roaming')
<1>1. CASE ActionLoop
  BY <1>1, SettlesDecide, SettlesWrite DEF ActionLoop
<1>2. CASE Main \/ ReadLoop \/ Environment \/ UNCHANGED vars
  BY <1>2, OthersLeaveAction DEF Passive, Roaming, Writing
<1> QED
  BY <1>1, <1>2 DEF Next

(* A dead bot that is passive never acts again, and a converged bot that   *)
(* stands still never walks again (client.go:593-600, 613-616, 625-632).   *)
THEOREM SettlesForGoodHolds == Spec => SettlesForGood
<1>1. LoopInv /\ [Next]_vars =>
        [/\ dead /\ Passive => Passive'
         /\ converged /\ npcs # << >> /\ ~ Roaming => ~ Roaming']_vars
  BY SettlesStep DEF Held
<1> QED
  BY <1>1, LoopCorrect, PTL DEF Spec, SettlesForGood

(* Once is enough: a dead bot that is ever passive stays so, and liveness  *)
(* owes no more than that it gets there once (client.go:593-600).          *)
THEOREM DeadStaysPassive ==
  Spec => ((dead ~> Passive) => DeadBecomesPassive)
<1>1. LoopInv /\ [Next]_vars /\ dead => dead'
  BY GroundsStay
<1>2. LoopInv /\ [Next]_vars /\ dead /\ Passive => Passive'
  BY SettlesStep
<1> QED
  BY <1>1, <1>2, LoopCorrect, PTL DEF Spec, DeadBecomesPassive

(* The same for a converged bot that knows a target: it need stop walking  *)
(* only once (client.go:613-616, 625-632).                                 *)
THEOREM ConvergedStays ==
  Spec => ((converged /\ npcs # << >> ~> ~ Roaming) => HoldsOnceConverged)
<1>1. LoopInv /\ [Next]_vars /\ Held => Held'
  BY GroundsStay
<1>2. LoopInv /\ [Next]_vars /\ Held /\ ~ Roaming => ~ Roaming'
  BY SettlesStep
<1>3. Held <=> converged /\ npcs # << >>
  BY DEF Held
<1> QED
  BY <1>1, <1>2, <1>3, LoopCorrect, PTL DEF Spec, HoldsOnceConverged

-----------------------------------------------------------------------------
(***************************************************************************)
(* The target list among the goroutines.  Only HandleInfo changes it, by   *)
(* one call of addTarget, so that what TargetRingProofs shows of addTarget *)
(* alone holds of the load loop.                                           *)
(***************************************************************************)
Targets == INSTANCE TargetRingProofs

(* A step of the load loop records one id, or leaves the list alone.       *)
LEMMA TargetsStep ==
  ASSUME [Next]_vars
  PROVE  [Targets!Next]_Targets!ringVars
<1>1. ASSUME NEW p \in Inbound, HandleInfo(p) PROVE [Targets!Next]_Targets!ringVars
  <2>1. p.id \in ObjectIds
    BY <1>1, LoopAssumption DEF HandleInfo, Packets
  <2>2. Targets!Record(p.id) \/ UNCHANGED Targets!ringVars
    BY <1>1 DEF HandleInfo, Ring!AddTarget, Ring!Record, Ring!Ignores, Ring!Tracked,
       Ring!AppendTarget, Ring!ReplaceOldest, Ring!ringVars, Targets!Record,
       Targets!Ignores, Targets!Tracked, Targets!AppendTarget, Targets!ReplaceOldest,
       Targets!ringVars
  <2> QED
    BY <2>1, <2>2 DEF Targets!Next
<1>2. (\A p \in Inbound : ~ HandleInfo(p)) => UNCHANGED Targets!ringVars
  BY DEF Next, ActionLoop, Main, Environment, ReadLoop, ReadError, Handle, StorePosition,
     Store, ArmAppearing, Converge, Signal, RecordReuse, HandleAtOnce, HandleDie,
     HandleStatusUpdate, HandleItemList, BeginHandler, readerVars, vars, Targets!ringVars
<1> QED
  BY <1>1, <1>2

(* The list of the running bot evicts its targets in order of arrival,     *)
(* whatever fights and teleports go on meanwhile (client.go:947-970).      *)
THEOREM LoopEvictsOldest == Spec => Targets!EvictsOldest
<1>1. Init => Targets!Init
  BY DEF Init, Ring!Init, Targets!Init
<1>2. [Next]_vars => [Targets!Next]_Targets!ringVars
  BY TargetsStep
<1>3. Spec => Targets!Spec
  BY <1>1, <1>2, PTL DEF Spec, Targets!Spec
<1>4. Targets!Spec => Targets!EvictsOldest
  BY LoopAssumption, Targets!RingEvictsOldest
<1> QED
  BY <1>3, <1>4, PTL

(* The list of the running bot holds no id twice, and not the bot's own.   *)
THEOREM LoopTargetsSound == Spec => []Targets!RingInv
<1>1. Init => Targets!Init
  BY DEF Init, Ring!Init, Targets!Init
<1>2. [Next]_vars => [Targets!Next]_Targets!ringVars
  BY TargetsStep
<1>3. Spec => Targets!Spec
  BY <1>1, <1>2, PTL DEF Spec, Targets!Spec
<1>4. Targets!Spec => []Targets!RingInv
  BY LoopAssumption, Targets!RingCorrect
<1> QED
  BY <1>3, <1>4, PTL

(***************************************************************************)
(* From the list to the server: what is chosen, what is said of it and     *)
(* what was carried out is never the bot.                                  *)
(***************************************************************************)
Oneself == {Self, NoObject}

Aiming ==
  \/ pc["action"] \in {"offense", "castReady"}
  \/ Writing("action") /\ out.op = "Action"

AimInv ==
  /\ Aiming => target \notin Oneself
  /\ Writing("action") /\ out.op \in {"Action"} \cup Offenses => out.obj \notin Oneself
  /\ NeverAtItself

(* The bot starts without a target.                                        *)
LEMMA AimInit == Init => AimInv
BY DEF Init, AimInv, Aiming, NeverAtItself, Writing

(* It chooses from the list, and speaks of what it chose.                  *)
LEMMA AimDecide ==
  ASSUME LoopInv, AimInv, Targets!RingInv, Decide, UNCHANGED sendVars
  PROVE  AimInv'
<1> USE DEF LoopInv, TypeInv, TypeOK, ControlOK, Procs, At, Go, Say, Continue, Stop,
            AimInv, Aiming, NeverAtItself, Writing, Offenses, fightVars, sendVars,
            Plain, About, DeathTaunt, DoSocialAction, DoChat, SweepLoot
<1>1. CASE AckTeleport \/ NapEnds \/ NapCancelled \/ CheckDead \/ PickAction
  BY <1>1 DEF AckTeleport, NapEnds, NapCancelled, CheckDead, PickAction
<1>2. CASE CheckInventory \/ UseItem \/ CheckTargets \/ Walk \/ ArriveX \/ NextSwitch
  BY <1>2 DEF CheckInventory, UseItem, CheckTargets, Walk, ArriveX, NextSwitch
<1>3. CASE BeginRoam \/ ArriveY
  BY <1>3 DEF BeginRoam, ArriveY
<1>4. CASE ChooseTarget
  <2>1. \A id \in Ring!RandomTargets : id \notin Oneself
    BY DEF Ring!RandomTargets, Targets!RingInv, Targets!NeverSelf, Oneself
  <2> QED
    BY <1>4, <2>1 DEF ChooseTarget
<1>5. CASE CheckMana \/ CheckCooldown
  BY <1>5 DEF CheckMana, CheckCooldown
<1>6. CASE Drain \/ Landed \/ TimedOut \/ WaitCancelled
  BY <1>6 DEF Drain, Landed, TimedOut, WaitCancelled, NextTarget
<1> QED
  BY <1>1, <1>2, <1>3, <1>4, <1>5, <1>6 DEF Decide

(* What is delivered was said; a lost packet changes no target.            *)
LEMMA AimWrite ==
  ASSUME LoopInv, AimInv, NEW w \in Writers, Write(w), UNCHANGED target
  PROVE  AimInv'
<1> USE DEF At, Go
<1>1. pc \in [Procs -> ActionLabels \cup MainLabels \cup ReaderLabels]
  BY DEF LoopInv, TypeInv, TypeOK, ControlOK
<1>2. CASE Encode(w) \/ Encrypt(w)
  BY <1>1, <1>2
  DEF Encode, Encrypt, AimInv, Aiming, Writing, NeverAtItself, Writers, Procs
<1>3. CASE Send(w) \/ SendLost(w)
  <2>1. PICK label : /\ At(w, "send") /\ Return(w, label)
                     /\ label = After(w) \/ (w = "action" /\ label = "done")
    BY <1>3 DEF Send, SendLost
  <2>2. /\ w = "main" => pc'["action"] = pc["action"] /\ out' = out
        /\ w = "action" => pc'["action"] = label /\ ~ Writing("action")'
    BY <1>1, <2>1, AfterTypes DEF Return, Writing, Writers, Procs
  <2>3. w = "action" => pc'["action"] # "castReady"
                        /\ (pc'["action"] = "offense" => out.op = "Action")
    BY <2>1, <2>2 DEF After, Offenses
  <2>4. Aiming' => Aiming
    BY <2>1, <2>2, <2>3 DEF Aiming, Writing, Writers
  <2>5. NeverAtItself'
    <3>1. CASE SendLost(w)
      BY <3>1 DEF SendLost, sendVars, AimInv, NeverAtItself
    <3>2. CASE Send(w)
      <4>1. Message(buf.writer) = Message(w)
        BY <2>1 DEF LoopInv, WriterInv, Encrypted
      <4>2. Message(w).op \in {"Action"} \cup Offenses => Message(w).obj \notin Oneself
        <5>1. CASE w = "main"
          BY <5>1 DEF Message, Plain, About, Offenses
        <5>2. CASE w = "action"
          BY <2>1, <5>2 DEF Message, AimInv, Writing
        <5> QED
          BY <5>1, <5>2 DEF Writers
      <4> QED
        BY <3>2, <4>1, <4>2 DEF Send, Deliver, AimInv, NeverAtItself, Oneself
    <3> QED
      BY <1>3, <3>1, <3>2
  <2>6. Writing("action")' => Writing("action") /\ out' = out
    BY <2>1, <2>2 DEF Writing, Writers
  <2> QED
    BY <2>4, <2>5, <2>6 DEF AimInv
<1> QED
  BY <1>2, <1>3 DEF Write

(* No other step touches what the bot aims at.                             *)
LEMMA AimStep == LoopInv /\ AimInv /\ Targets!RingInv /\ [Next]_vars => AimInv'
<1> SUFFICES ASSUME LoopInv, AimInv, Targets!RingInv, [Next]_vars PROVE AimInv'
  OBVIOUS
<1>1. CASE ActionLoop
  <2>1. CASE Decide /\ UNCHANGED sendVars
    BY <2>1, AimDecide
  <2>2. CASE Write("action") /\ UNCHANGED fightVars
    BY <2>2, AimWrite DEF fightVars, Writers
  <2> QED
    BY <1>1, <2>1, <2>2 DEF ActionLoop
<1>2. CASE Main /\ Write("main")
  BY <1>2, AimWrite DEF Main, fightVars, Writers
<1>3. CASE \/ Main /\ ~ Write("main")
           \/ ReadLoop \/ Environment \/ UNCHANGED vars
  <2>1. pc'["action"] = pc["action"] /\ out' = out
    BY <1>3, OthersLeaveAction
  <2>2. UNCHANGED <<target, selected, struck>>
    BY <1>3 DEF Main, AwaitCancel, Join, Close, ReadLoop, Environment, vars, sendVars,
         fightVars
  <2> QED
    BY <2>1, <2>2 DEF AimInv, Aiming, Writing, NeverAtItself
<1> QED
  BY <1>1, <1>2, <1>3 DEF Next

(* The bot never targets or attacks itself (client.go:951-953, 735-763).   *)
THEOREM NeverAtItselfHolds == Spec => []NeverAtItself
<1>1. AimInv => NeverAtItself
  BY DEF AimInv
<1> QED
  BY <1>1, AimInit, AimStep, LoopCorrect, LoopTargetsSound, PTL DEF Spec

=============================================================================
