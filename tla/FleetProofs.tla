---------------------------- MODULE FleetProofs ----------------------------
(***************************************************************************)
(* What the fleet guarantees for any number of bots, any width of the key, *)
(* any backlog, and all that the network and the game server may do.       *)
(***************************************************************************)
EXTENDS Fleet, SequenceTheorems, TLAPS

Packets == [op : Ops, key : 0 .. KeyMod]

Requests ==
  {"ProtocolVersion", "AuthLogin", "CharacterCreate", "CharacterSelect", "EnterWorld"}

(***************************************************************************)
(* StageInv in parts: where each bot is, its connections, its game server, *)
(* the process.                                                            *)
(***************************************************************************)
PlaceInv ==
  /\ stage \in [Bots -> Stages]
  /\ State \in [Bots -> States]
  /\ \A b \in Bots : Accepted(b)

ConnInv ==
  /\ conn \in [Bots -> {"nil", "open", "closed"}]
  /\ gsConn \in [Bots -> {"nil", "open", "closed"}]
  /\ link \in [Bots -> BOOLEAN]

ServerInv ==
  /\ session \in [Bots -> {"none", "lobby", "inWorld", "loggedOut", "lost"}]
  /\ due \in [Bots -> Seq(Ops)]

CipherInv ==
  /\ wire \in [Bots -> Seq(Packets)]
  /\ inKey \in [Bots -> 0 .. KeyMod]
  /\ srvKey \in [Bots -> 0 .. KeyMod]

ProcessInv ==
  /\ ctxDone \in BOOLEAN
  /\ process \in {"running", "exited", "panicked"}

LEMMA StageInvParts ==
  StageInv <=> PlaceInv /\ ConnInv /\ ServerInv /\ CipherInv /\ ProcessInv
BY DEF StageInv, PlaceInv, ConnInv, ServerInv, CipherInv, ProcessInv, Packets

(***************************************************************************)
(* The pipeline.  A step moves one bot, and leaves it with the State that  *)
(* the next call demands.                                                  *)
(***************************************************************************)
LEMMA MovePlace ==
  ASSUME PlaceInv, NEW b \in Bots, NEW s \in Stages, NEW t \in Required(s),
         Goto(b, s), Become(b, t), t \in States
  PROVE  PlaceInv'
BY DEF PlaceInv, Goto, Become, Accepted

LEMMA StayInState ==
  ASSUME PlaceInv, NEW b \in Bots, NEW s \in Stages, Required(s) = States,
         Goto(b, s), State' = State \/ Become(b, State[b])
  PROVE  PlaceInv'
BY DEF PlaceInv, Goto, Become, Accepted

LEMMA FailPlace ==
  ASSUME PlaceInv, NEW b \in Bots, Fail(b)
  PROVE  PlaceInv'
<1>1. "close" \in Stages /\ Required("close") = States
  BY DEF Stages, Required
<1> QED
  BY <1>1, StayInState DEF Fail

LEMMA ExchangePlace ==
  ASSUME PlaceInv, NEW b \in Bots, NEW s, NEW next \in Stages, NEW after \in Required(next),
         after \in States, Exchange(b, s, next, after)
  PROVE  PlaceInv'
BY MovePlace, FailPlace DEF Exchange

LEMMA AskPlace ==
  ASSUME PlaceInv, NEW b \in Bots, NEW request, NEW next \in Stages,
         NEW after \in Required(next), after \in States, Ask(b, request, next, after)
  PROVE  PlaceInv'
BY MovePlace, FailPlace DEF Ask

(* The place of every stage in the pipeline.                               *)
LEMMA Demands ==
  /\ {"connect", "connectGS", "key", "result", "charInfo", "created", "selected",
      "burst", "late", "close", "ended"} \subseteq {s \in Stages : Required(s) = States}
  /\ {"init", "authGG", "login", "serverList", "selectServer", "lobby", "world"}
       \subseteq Stages
  /\ "Connected" \in Required("init") /\ "Initialized" \in Required("authGG")
  /\ "GGAuth" \in Required("login") /\ "LoggedIn" \in Required("serverList")
  /\ "LoggedIn" \in Required("selectServer") /\ "GSConnected" \in Required("lobby")
  /\ "GSLoggedIn" \in Required("world") /\ Entered \in Stages
  /\ "GSLoggedIn" \in Required(Entered)
  /\ {"Connected", "Initialized", "GGAuth", "LoggedIn", "GSConnected", "GSHandshake",
      "GSLoggedIn"} \subseteq States
BY DEF Stages, Required, States, Entered

LEMMA PlaceInit == Init => PlaceInv
BY DEF Init, PlaceInv, Accepted, Required, Stages, States

LEMMA PlaceNext == PlaceInv /\ [Next]_vars => PlaceInv'
<1> SUFFICES ASSUME PlaceInv, [Next]_vars PROVE PlaceInv'
  OBVIOUS
<1>1. ASSUME UNCHANGED <<stage, State>> PROVE PlaceInv'
  BY <1>1 DEF PlaceInv, Accepted
<1>2. ASSUME NEW b \in Bots, RunBot(b) PROVE PlaceInv'
  <2>1. CASE AwaitSlot(b)
    BY <2>1, StayInState, Demands DEF AwaitSlot
  <2>2. CASE Connect(b)
    BY <2>2, MovePlace, FailPlace, Demands DEF Connect
  <2>3. CASE LoginServer(b)
    <3>1. CASE ShortGreeting(b)
      BY <1>1, <3>1 DEF ShortGreeting, Crash
    <3> QED
      BY <2>3, <3>1, ExchangePlace, Demands
      DEF LoginServer, HandleInit, SendAuthGG, Login, FetchServerList, SelectServer
  <2>4. CASE ConnectToGameServer(b)
    BY <2>4, MovePlace, FailPlace, Demands DEF ConnectToGameServer
  <2>5. CASE SendVersion(b)
    BY <2>5, AskPlace, FailPlace, Demands DEF SendVersion, PlaceInv
  <2>6. CASE Read(b)
    <3>1. CASE ReadKey(b)
      BY <3>1, AskPlace, Demands DEF ReadKey
    <3>2. CASE ReadResult(b)
      BY <3>2, StayInState, Demands DEF ReadResult
    <3>3. CASE ReadCharInfo(b) \/ ReadCreated(b)
      BY <3>3, AskPlace, Demands DEF ReadCharInfo, ReadCreated, PlaceInv
    <3>4. CASE ReadSelected(b)
      BY <3>4, AskPlace, Demands DEF ReadSelected, EnterWorld
    <3>5. CASE ReadBurst(b)
      BY <3>5, StayInState, Demands DEF ReadBurst
    <3>6. CASE Discard(b) \/ KeepAlive(b) \/ Panic(b)
      BY <3>6, <1>1 DEF Discard, KeepAlive, Panic, Crash
    <3>7. CASE Unexpected(b) \/ Recover(b) \/ ReadFails(b)
      BY <3>7, FailPlace DEF Unexpected, Recover, ReadFails
    <3> QED
      BY <2>6, <3>1, <3>2, <3>3, <3>4, <3>5, <3>6, <3>7 DEF Read
  <2>7. CASE RunGameLoop(b)
    BY <2>7, StayInState, Demands DEF RunGameLoop
  <2>8. CASE Close(b)
    BY <2>8, StayInState, Demands DEF Close
  <2> QED
    BY <1>2, <2>1, <2>2, <2>3, <2>4, <2>5, <2>6, <2>7, <2>8 DEF RunBot
<1>3. ASSUME NEW b \in Bots, Deadline(b) \/ ReadTimeout(b) PROVE PlaceInv'
  BY <1>3, StayInState, FailPlace, Demands DEF Deadline, ReadTimeout
<1>4. ASSUME NEW b \in Bots, Server(b) \/ Lose(b) PROVE PlaceInv'
  BY <1>1, <1>4 DEF Server, Transmit, Chatter, Lose
<1>5. CASE Cancel \/ Exit \/ Finished \/ UNCHANGED vars
  BY <1>1, <1>5 DEF Cancel, Exit, Finished, vars
<1> QED
  BY <1>2, <1>3, <1>4, <1>5 DEF Next

(***************************************************************************)
(* The connections and the game server.                                    *)
(***************************************************************************)
LEMMA ConnNext == ConnInv /\ [Next]_vars => ConnInv'
<1> SUFFICES ASSUME ConnInv, [Next]_vars PROVE ConnInv'
  OBVIOUS
<1>1. ASSUME UNCHANGED connVars PROVE ConnInv'
  BY <1>1 DEF ConnInv, connVars
<1>2. ASSUME NEW b \in Bots, RunBot(b) PROVE ConnInv'
  <2>1. CASE Connect(b) \/ ConnectToGameServer(b) \/ Close(b)
    BY <2>1 DEF Connect, ConnectToGameServer, Close, ConnInv
  <2>2. CASE Panic(b) \/ ShortGreeting(b)
    BY <2>2 DEF Panic, ShortGreeting, Crash, ConnInv
  <2>3. CASE \/ AwaitSlot(b) \/ (LoginServer(b) /\ ~ ShortGreeting(b))
             \/ SendVersion(b) \/ RunGameLoop(b)
    BY <1>1, <2>3
    DEF AwaitSlot, LoginServer, HandleInit, SendAuthGG, Login, FetchServerList,
        SelectServer, Exchange, SendVersion, RunGameLoop
  <2>4. CASE Read(b) /\ ~ Panic(b)
    BY <1>1, <2>4
    DEF Read, ReadKey, ReadResult, ReadCharInfo, ReadCreated, ReadSelected, EnterWorld,
        ReadBurst, Discard, Unexpected, KeepAlive, Recover, ReadFails
  <2> QED
    BY <1>2, <2>1, <2>2, <2>3, <2>4 DEF RunBot
<1>3. ASSUME NEW b \in Bots, Deadline(b) \/ ReadTimeout(b) \/ Server(b) PROVE ConnInv'
  BY <1>1, <1>3 DEF Deadline, ReadTimeout, Server, Transmit, Chatter
<1>4. ASSUME NEW b \in Bots, Lose(b) PROVE ConnInv'
  BY <1>4 DEF Lose, ConnInv
<1>5. CASE Cancel \/ Exit \/ Finished \/ UNCHANGED vars
  BY <1>1, <1>5 DEF Cancel, Exit, Finished, vars
<1> QED
  BY <1>2, <1>3, <1>4, <1>5 DEF Next

LEMMA OpNames ==
  {"KeyPacket", "LoginResult", "CharSelectionInfo", "CharCreateSuccess", "CharCreateFail",
   "CharSelected", "CutSelected", "ItemList", "Die", "other", "empty"} \subseteq Ops
BY DEF Ops

LEMMA ShortSeqs ==
  ASSUME NEW x \in Ops, NEW y \in Ops
  PROVE  << >> \in Seq(Ops) /\ <<x>> \in Seq(Ops) /\ <<x, y>> \in Seq(Ops)
OBVIOUS

(* Answers are packets, and a request leaves a session one.                *)
LEMMA AskServer ==
  ASSUME ServerInv, NEW b \in Bots, NEW request \in Requests, NEW next, NEW after,
         Ask(b, request, next, after)
  PROVE  ServerInv'
<1>1. Answers(request) \subseteq Seq(Ops)
  <2> DEFINE Silent == IF "silence" \in Faults THEN {<< >>} ELSE {}
  <2>1. Silent \subseteq Seq(Ops)
    BY EmptySeq
  <2> HIDE DEF Silent
  <2>2. CASE request = "ProtocolVersion"
    <3>1. Answers(request) = Silent \cup {<<"KeyPacket">>}
      BY <2>2 DEF Answers, Silent
    <3> QED
      BY <2>1, <3>1, ShortSeqs, OpNames
  <2>3. CASE request = "AuthLogin"
    <3>1. Answers(request) = Silent \cup {<<"LoginResult", "CharSelectionInfo">>, <<"other">>}
      BY <2>3 DEF Answers, Silent
    <3> QED
      BY <2>1, <3>1, ShortSeqs, OpNames
  <2>4. CASE request = "CharacterCreate"
    <3>1. Answers(request) = Silent \cup {<<"CharCreateSuccess">>, <<"CharCreateFail">>}
      BY <2>4 DEF Answers, Silent
    <3> QED
      BY <2>1, <3>1, ShortSeqs, OpNames
  <2>5. CASE request = "CharacterSelect"
    <3>1. Answers(request) \subseteq Silent \cup {<<"CharSelected">>, <<"CutSelected">>}
      BY <2>5 DEF Answers, Silent
    <3> QED
      BY <2>1, <3>1, ShortSeqs, OpNames
  <2>6. CASE request = "EnterWorld"
    <3>1. Answers(request) \subseteq
            Silent \cup {<<"other", "ItemList">>, <<"Die", "ItemList">>, << >>}
      BY <2>6 DEF Answers, Silent
    <3> QED
      BY <2>1, <3>1, ShortSeqs, OpNames
  <2> QED
    BY <2>2, <2>3, <2>4, <2>5, <2>6 DEF Requests
<1>2. Admitted(request, session[b]) \in {"none", "lobby", "inWorld", "loggedOut", "lost"}
  BY DEF Admitted, ServerInv
<1>3. CASE ~ link[b]
  BY <1>3 DEF Ask, ServerInv
<1>4. CASE link[b]
  <2>1. PICK answer \in Answers(request) : due' = [due EXCEPT ![b] = @ \o answer]
    BY <1>4 DEF Ask
  <2>2. due[b] \o answer \in Seq(Ops)
    BY <1>1, <2>1, ConcatProperties DEF ServerInv
  <2>3. session' = [session EXCEPT ![b] = Admitted(request, session[b])]
    BY <1>4 DEF Ask
  <2> QED
    BY <1>2, <2>1, <2>2, <2>3 DEF ServerInv
<1> QED
  BY <1>3, <1>4

LEMMA ServerNext == ServerInv /\ [Next]_vars => ServerInv'
<1> SUFFICES ASSUME ServerInv, [Next]_vars PROVE ServerInv'
  OBVIOUS
<1>1. ASSUME UNCHANGED <<session, due>> PROVE ServerInv'
  BY <1>1 DEF ServerInv
<1>2. ASSUME NEW b \in Bots, RunBot(b) PROVE ServerInv'
  <2>1. CASE \/ SendVersion(b) \/ ReadKey(b) \/ ReadCharInfo(b) \/ ReadCreated(b)
             \/ ReadSelected(b)
    BY <1>1, <2>1, AskServer
    DEF SendVersion, ReadKey, ReadCharInfo, ReadCreated, ReadSelected, EnterWorld, Requests
  <2>2. CASE RunGameLoop(b)
    BY <2>2 DEF RunGameLoop, ServerInv
  <2>3. CASE \/ AwaitSlot(b) \/ Connect(b) \/ LoginServer(b) \/ ConnectToGameServer(b)
             \/ Close(b)
    BY <1>1, <2>3
    DEF AwaitSlot, Connect, LoginServer, HandleInit, ShortGreeting, Crash, SendAuthGG, Login,
        FetchServerList, SelectServer, Exchange, ConnectToGameServer, Close, lobbyVars
  <2>4. CASE \/ ReadResult(b) \/ ReadBurst(b) \/ Discard(b) \/ Unexpected(b) \/ KeepAlive(b)
             \/ Recover(b) \/ Panic(b) \/ ReadFails(b)
    BY <1>1, <2>4
    DEF ReadResult, ReadBurst, Discard, Unexpected, KeepAlive, Recover, Panic, ReadFails,
        lobbyVars
  <2> QED
    BY <1>2, <2>1, <2>2, <2>3, <2>4 DEF RunBot, Read
<1>3. ASSUME NEW b \in Bots, Transmit(b) PROVE ServerInv'
  BY <1>3, HeadTailProperties DEF Transmit, ServerInv
<1>4. ASSUME NEW b \in Bots, Deadline(b) \/ ReadTimeout(b) \/ Chatter(b) PROVE ServerInv'
  BY <1>1, <1>4 DEF Deadline, ReadTimeout, Chatter, lobbyVars
<1>5. ASSUME NEW b \in Bots, Lose(b) PROVE ServerInv'
  BY <1>5 DEF Lose, ServerInv
<1>6. CASE Cancel \/ Exit \/ Finished \/ UNCHANGED vars
  BY <1>1, <1>6 DEF Cancel, Exit, Finished, vars, lobbyVars
<1> QED
  BY <1>2, <1>3, <1>4, <1>5, <1>6 DEF Next, Server

(***************************************************************************)
(* The cipher.  The keys of the packets under way are a chain: the first   *)
(* is the one the bot decrypts with next, each rolls into the one after    *)
(* it, and the last into the one the server encrypts with next.            *)
(***************************************************************************)
Chain(b) ==
  LET n == Len(wire[b])
  IN  /\ n = 0 => srvKey[b] = inKey[b]
      /\ n # 0 => /\ wire[b][1].key = inKey[b]
                  /\ srvKey[b] = Roll(wire[b][n].key, wire[b][n].op)
      /\ \A i \in 1 .. n - 1 : wire[b][i + 1].key = Roll(wire[b][i].key, wire[b][i].op)

ChainInv == CipherInv /\ \A b \in Bots : Chain(b)

LEMMA RollType ==
  ASSUME NEW k \in 0 .. KeyMod, NEW op
  PROVE  Roll(k, op) \in 0 .. KeyMod
BY FleetAssumption DEF Roll

(* What the server appends continues the chain.                            *)
LEMMA EmitChain ==
  ASSUME ChainInv, NEW b \in Bots, NEW op \in Ops, Emit(b, op), UNCHANGED inKey
  PROVE  ChainInv'
<1> DEFINE w == wire[b]
           p == [op |-> op, key |-> srvKey[b]]
<1>1. w \in Seq(Packets) /\ p \in Packets
  BY DEF ChainInv, CipherInv, Packets
<1>2. /\ wire' = [wire EXCEPT ![b] = Append(w, p)]
      /\ srvKey' = [srvKey EXCEPT ![b] = Roll(srvKey[b], op)]
  BY DEF Emit
<1>3. /\ Append(w, p) \in Seq(Packets) /\ Len(Append(w, p)) = Len(w) + 1
      /\ \A i \in 1 .. Len(w) : Append(w, p)[i] = w[i]
      /\ Append(w, p)[Len(w) + 1] = p
  BY <1>1, AppendProperties
<1>4. CipherInv'
  <2>1. Roll(srvKey[b], op) \in 0 .. KeyMod
    BY RollType DEF ChainInv, CipherInv
  <2> QED
    BY <1>2, <1>3, <2>1 DEF ChainInv, CipherInv
<1>5. Chain(b)'
  <2>1. /\ wire'[b] = Append(w, p) /\ inKey'[b] = inKey[b]
        /\ srvKey'[b] = Roll(srvKey[b], op)
    BY <1>2 DEF ChainInv, CipherInv
  <2>2. Len(w) \in Nat /\ Chain(b)
    BY <1>1 DEF ChainInv
  <2>3. wire'[b][1].key = inKey[b]
    BY <1>3, <2>1, <2>2 DEF Chain
  <2>4. \A i \in 1 .. Len(w) : wire'[b][i + 1].key = Roll(wire'[b][i].key, wire'[b][i].op)
    <3> TAKE i \in 1 .. Len(w)
    <3>1. CASE i = Len(w)
      BY <1>3, <2>1, <2>2, <3>1 DEF Chain
    <3>2. CASE i # Len(w)
      <4>1. i \in 1 .. Len(w) - 1 /\ i + 1 \in 1 .. Len(w)
        BY <2>2, <3>2
      <4>2. w[i + 1].key = Roll(w[i].key, w[i].op)
        BY <2>2, <4>1 DEF Chain
      <4> QED
        BY <1>3, <2>1, <4>1, <4>2
    <3> QED
      BY <3>1, <3>2
  <2> QED
    BY <1>3, <2>1, <2>2, <2>3, <2>4 DEF Chain
<1>6. ASSUME NEW c \in Bots, c # b PROVE Chain(c)'
  BY <1>2, <1>6 DEF ChainInv, CipherInv, Chain
<1> QED
  BY <1>4, <1>5, <1>6 DEF ChainInv

(* The bot takes the first packet and rolls its key by it.                 *)
LEMMA RecvChain ==
  ASSUME ChainInv, NEW b \in Bots, wire[b] # << >>, Recv(b), UNCHANGED srvKey
  PROVE  ChainInv'
<1> DEFINE w == wire[b]
<1>1. w \in Seq(Packets) /\ w # << >> /\ Len(w) \in Nat \ {0}
  BY EmptySeq DEF ChainInv, CipherInv
<1>2. /\ Tail(w) \in Seq(Packets) /\ Len(Tail(w)) = Len(w) - 1
      /\ \A i \in 1 .. Len(Tail(w)) : Tail(w)[i] = w[i + 1]
      /\ Head(w) = w[1]
  BY <1>1, HeadTailProperties
<1>3. /\ wire' = [wire EXCEPT ![b] = Tail(w)]
      /\ inKey' = [inKey EXCEPT ![b] = Roll(inKey[b], w[1].op)]
  BY <1>2 DEF Recv, HeadOp
<1>4. CipherInv'
  <2>1. Roll(inKey[b], w[1].op) \in 0 .. KeyMod
    BY RollType DEF ChainInv, CipherInv
  <2> QED
    BY <1>2, <1>3, <2>1 DEF ChainInv, CipherInv
<1>5. Chain(b)'
  <2>1. /\ wire'[b] = Tail(w) /\ inKey'[b] = Roll(w[1].key, w[1].op)
        /\ srvKey'[b] = srvKey[b]
    BY <1>1, <1>3 DEF ChainInv, CipherInv, Chain
  <2>2. Chain(b)
    BY DEF ChainInv
  <2>3. CASE Len(w) = 1
    <3>1. Len(wire'[b]) = 0 /\ srvKey'[b] = inKey'[b]
      BY <1>2, <2>1, <2>2, <2>3 DEF Chain
    <3> QED
      BY <3>1 DEF Chain
  <2>4. CASE Len(w) # 1
    <3>1. PICK n \in Nat : Len(w) = n
      BY <1>1
    <3>2. PICK m \in Nat : 1 <= m /\ m + 1 = Len(w)
      <4>1. n # 0 /\ n # 1
        BY <1>1, <2>4, <3>1
      <4>2. n - 1 \in Nat /\ 1 <= n - 1 /\ (n - 1) + 1 = n
        BY <4>1
      <4> QED
        BY <3>1, <4>2
    <3>3. Len(wire'[b]) = m
      BY <1>2, <2>1, <3>2
    <3>4. \A i \in 1 .. m : wire'[b][i] = w[i + 1]
      BY <1>2, <2>1, <3>3
    <3>5. \A i \in 1 .. m : w[i + 1].key = Roll(w[i].key, w[i].op)
      BY <2>2, <3>2 DEF Chain
    <3>6. wire'[b][1].key = inKey'[b]
      <4>1. 1 \in 1 .. m
        BY <3>2
      <4>2. wire'[b][1] = w[2] /\ w[2].key = Roll(w[1].key, w[1].op)
        BY <3>4, <3>5, <4>1
      <4> QED
        BY <2>1, <4>2
    <3>7. srvKey'[b] = Roll(wire'[b][m].key, wire'[b][m].op)
      <4>1. m \in 1 .. m /\ m + 1 = Len(w)
        BY <3>2
      <4>2. wire'[b][m] = w[Len(w)]
        BY <3>4, <4>1
      <4>3. srvKey[b] = Roll(w[Len(w)].key, w[Len(w)].op)
        BY <1>1, <2>2 DEF Chain
      <4> QED
        BY <2>1, <4>2, <4>3
    <3>8. \A i \in 1 .. m - 1 : wire'[b][i + 1].key = Roll(wire'[b][i].key, wire'[b][i].op)
      <4> TAKE i \in 1 .. m - 1
      <4>1. i \in 1 .. m /\ i + 1 \in 1 .. m
        BY <3>2
      <4> QED
        BY <3>4, <3>5, <4>1
    <3> QED
      BY <3>2, <3>6, <3>7, <3>8, <3>3 DEF Chain
  <2> QED
    BY <2>3, <2>4
<1>6. ASSUME NEW c \in Bots, c # b PROVE Chain(c)'
  BY <1>3, <1>6 DEF ChainInv, CipherInv, Chain
<1> QED
  BY <1>4, <1>5, <1>6 DEF ChainInv

LEMMA ChainInit == Init => ChainInv
BY FleetAssumption, EmptySeq DEF Init, ChainInv, CipherInv, Chain

LEMMA ChainNext == ChainInv /\ ServerInv /\ [Next]_vars => ChainInv'
<1> SUFFICES ASSUME ChainInv, ServerInv, [Next]_vars PROVE ChainInv'
  OBVIOUS
<1>1. ASSUME UNCHANGED <<wire, inKey, srvKey>> PROVE ChainInv'
  BY <1>1 DEF ChainInv, CipherInv, Chain
<1>2. ASSUME NEW b \in Bots, RunBot(b) PROVE ChainInv'
  <2>1. CASE Read(b) /\ ~ ReadFails(b)
    <3>1. wire[b] # << >> /\ Recv(b) /\ UNCHANGED srvKey
      BY <2>1
      DEF Read, ReadKey, ReadResult, ReadCharInfo, ReadCreated, ReadSelected, EnterWorld,
          ReadBurst, Discard, Uninteresting, Unexpected, KeepAlive, Recover, Panic, Arrived,
          Empty, Fatal
    <3> QED
      BY <3>1, RecvChain
  <2>2. CASE ReadFails(b) \/ SendVersion(b) \/ RunGameLoop(b)
    BY <1>1, <2>2 DEF ReadFails, SendVersion, RunGameLoop, lobbyVars
  <2>3. CASE \/ AwaitSlot(b) \/ Connect(b) \/ LoginServer(b) \/ ConnectToGameServer(b)
             \/ Close(b)
    BY <1>1, <2>3
    DEF AwaitSlot, Connect, LoginServer, HandleInit, ShortGreeting, Crash, SendAuthGG, Login,
        FetchServerList, SelectServer, Exchange, ConnectToGameServer, Close, lobbyVars
  <2> QED
    BY <1>2, <2>1, <2>2, <2>3 DEF RunBot
<1>3. ASSUME NEW b \in Bots, Transmit(b) PROVE ChainInv'
  <2>1. Head(due[b]) \in Ops
    BY <1>3, HeadTailProperties DEF Transmit, ServerInv
  <2> QED
    BY <1>3, <2>1, EmitChain DEF Transmit
<1>4. ASSUME NEW b \in Bots, Chatter(b) PROVE ChainInv'
  <2>1. Noise \subseteq Ops
    BY FleetAssumption, OpNames
  <2> QED
    BY <1>4, <2>1, EmitChain DEF Chatter
<1>5. ASSUME NEW b \in Bots, Deadline(b) \/ ReadTimeout(b) \/ Lose(b) PROVE ChainInv'
  BY <1>1, <1>5 DEF Deadline, ReadTimeout, Lose, lobbyVars
<1>6. CASE Cancel \/ Exit \/ Finished \/ UNCHANGED vars
  BY <1>1, <1>6 DEF Cancel, Exit, Finished, vars, lobbyVars
<1> QED
  BY <1>2, <1>3, <1>4, <1>5, <1>6 DEF Next, Server

LEMMA ProcessNext == ProcessInv /\ [Next]_vars => ProcessInv'
<1> SUFFICES ASSUME ProcessInv, [Next]_vars PROVE ProcessInv'
  OBVIOUS
<1>1. ASSUME UNCHANGED <<ctxDone, process>> PROVE ProcessInv'
  BY <1>1 DEF ProcessInv
<1>2. ASSUME NEW b \in Bots, RunBot(b) PROVE ProcessInv'
  <2>1. CASE Panic(b) \/ ShortGreeting(b)
    BY <2>1 DEF Panic, ShortGreeting, Crash, ProcessInv
  <2>2. CASE Read(b) /\ ~ Panic(b)
    BY <1>1, <2>2
    DEF Read, ReadKey, ReadResult, ReadCharInfo, ReadCreated, ReadSelected, EnterWorld,
        ReadBurst, Discard, Unexpected, KeepAlive, Recover, ReadFails
  <2>3. CASE ~ Read(b) /\ ~ ShortGreeting(b)
    BY <1>1, <1>2, <2>3
    DEF RunBot, AwaitSlot, Connect, LoginServer, HandleInit, SendAuthGG, Login,
        FetchServerList, SelectServer, Exchange, ConnectToGameServer, SendVersion,
        RunGameLoop, Close
  <2> QED
    BY <2>1, <2>2, <2>3
<1>3. ASSUME NEW b \in Bots, Deadline(b) \/ ReadTimeout(b) \/ Server(b) \/ Lose(b)
      PROVE  ProcessInv'
  BY <1>1, <1>3 DEF Deadline, ReadTimeout, Server, Transmit, Chatter, Lose
<1>4. CASE Cancel \/ Exit
  BY <1>4 DEF Cancel, Exit, ProcessInv
<1>5. CASE Finished \/ UNCHANGED vars
  BY <1>1, <1>5 DEF Finished, vars
<1> QED
  BY <1>2, <1>3, <1>4, <1>5 DEF Next

FleetInv == PlaceInv /\ ConnInv /\ ServerInv /\ ChainInv /\ ProcessInv

LEMMA FleetInvHolds == Spec => []FleetInv
<1>1. Init => FleetInv
  <2> SUFFICES ASSUME Init PROVE FleetInv
    OBVIOUS
  <2>1. ConnInv /\ ProcessInv
    BY DEF Init, ConnInv, ProcessInv
  <2>2. ServerInv
    BY EmptySeq DEF Init, ServerInv
  <2> QED
    BY <2>1, <2>2, PlaceInit, ChainInit DEF FleetInv
<1>2. FleetInv /\ [Next]_vars => FleetInv'
  BY PlaceNext, ConnNext, ServerNext, ChainNext, ProcessNext DEF FleetInv
<1> QED
  BY <1>1, <1>2, PTL DEF Spec

(* Every variable has its type, and no call of the pipeline is refused for *)
(* its State (runBot, main.go:178-268).                                    *)
THEOREM StageCorrect == Spec => []StageInv
<1>1. FleetInv => StageInv
  BY StageInvParts DEF FleetInv, ChainInv
<1> QED
  BY <1>1, FleetInvHolds, PTL

(* A bot reads every packet with the key it was encrypted with, for any    *)
(* width of the key and any mix of packets (recvGS, client.go:354-361).    *)
THEOREM ReadsInStepHolds == Spec => []ReadsInStep
<1>1. FleetInv => ReadsInStep
  <2> SUFFICES ASSUME FleetInv, NEW b \in Bots, wire[b] # << >>
               PROVE  Head(wire[b]).key = inKey[b]
    BY DEF ReadsInStep
  <2>1. wire[b] \in Seq(Packets) /\ Len(wire[b]) # 0 /\ Head(wire[b]) = wire[b][1]
    BY EmptySeq DEF FleetInv, ChainInv, CipherInv
  <2> QED
    BY <2>1 DEF FleetInv, ChainInv, Chain
<1> QED
  BY <1>1, FleetInvHolds, PTL

(***************************************************************************)
(* The end.  Before its slot and after its end a bot has no connection     *)
(* open; the process exits when all bots have ended, and a panic closes    *)
(* everything.                                                             *)
(***************************************************************************)
Opened(b) == "open" \in {conn[b], gsConn[b]}

EndInv ==
  /\ \A b \in Bots : stage[b] \in {"ramp", "ended"} => ~ Opened(b)
  /\ process = "exited" => \A b \in Bots : stage[b] = "ended"
  /\ process = "panicked" => \A b \in Bots : ~ Opened(b)

LEMMA EndNext == EndInv /\ FleetInv /\ [Next]_vars => EndInv'
<1> SUFFICES ASSUME EndInv, FleetInv, [Next]_vars PROVE EndInv'
  OBVIOUS
<1> USE DEF FleetInv, PlaceInv, ConnInv, EndInv, Opened
<1>1. ASSUME UNCHANGED <<stage, conn, gsConn, process>> PROVE EndInv'
  BY <1>1
<1>2. ASSUME process = "running", UNCHANGED <<conn, gsConn, process>>,
             NEW b \in Bots, NEW s, Goto(b, s), s \notin {"ramp", "ended"}
      PROVE  EndInv'
  BY <1>2 DEF Goto
<1>3. ASSUME NEW b \in Bots, RunBot(b) PROVE EndInv'
  <2>1. CASE AwaitSlot(b)
    BY <2>1 DEF AwaitSlot, Running, Goto, connVars
  <2>2. CASE Connect(b) \/ ConnectToGameServer(b)
    BY <2>2 DEF Connect, ConnectToGameServer, Running, Goto, Fail
  <2>3. CASE Close(b)
    BY <2>3 DEF Close, Running, Goto
  <2>4. CASE Panic(b) \/ ShortGreeting(b)
    BY <2>4 DEF Panic, ShortGreeting, Crash
  <2>5. CASE (LoginServer(b) /\ ~ ShortGreeting(b)) \/ SendVersion(b) \/ RunGameLoop(b)
    BY <1>2, <2>5
    DEF LoginServer, HandleInit, SendAuthGG, Login, FetchServerList, SelectServer,
        Exchange, SendVersion, Ask, RunGameLoop, Running, Fail, connVars
  <2>6. CASE \/ ReadKey(b) \/ ReadResult(b) \/ ReadCharInfo(b) \/ ReadCreated(b)
             \/ ReadSelected(b)
    <3>1. Entered \notin {"ramp", "ended"}
      BY DEF Entered
    <3> QED
      BY <1>2, <2>6, <3>1
      DEF ReadKey, ReadResult, ReadCharInfo, ReadCreated, ReadSelected, EnterWorld, Ask,
          Arrived, Reading, Fail, connVars
  <2>7. CASE ReadBurst(b) \/ Unexpected(b) \/ Recover(b) \/ ReadFails(b)
    BY <1>2, <2>7
    DEF ReadBurst, Unexpected, Recover, ReadFails, Arrived, Empty, Fatal, Reading, Fail,
        connVars
  <2>8. CASE Discard(b) \/ KeepAlive(b)
    BY <1>1, <2>8 DEF Discard, KeepAlive, connVars
  <2> QED
    BY <1>3, <2>1, <2>2, <2>3, <2>4, <2>5, <2>6, <2>7, <2>8 DEF RunBot, Read
<1>4. ASSUME NEW b \in Bots, Deadline(b) \/ ReadTimeout(b) PROVE EndInv'
  BY <1>2, <1>4 DEF Deadline, ReadTimeout, Running, Fail, connVars
<1>5. ASSUME NEW b \in Bots, Server(b) \/ Lose(b) PROVE EndInv'
  BY <1>1, <1>5 DEF Server, Transmit, Chatter, Lose, connVars
<1>6. CASE Exit
  BY <1>6 DEF Exit, connVars
<1>7. CASE Cancel \/ Finished \/ UNCHANGED vars
  BY <1>1, <1>7 DEF Cancel, Finished, vars, connVars
<1> QED
  BY <1>3, <1>4, <1>5, <1>6, <1>7 DEF Next

(* No error return, at any call of any bot, leaves a connection open when  *)
(* the process ends (the deferred Close, main.go:196).                     *)
THEOREM AllClosedHolds == Spec => []AllClosed
<1>1. Init => EndInv
  BY DEF Init, EndInv, Opened
<1>2. EndInv /\ FleetInv => AllClosed
  BY DEF EndInv, FleetInv, ProcessInv, AllClosed, Opened
<1> QED
  BY <1>1, <1>2, EndNext, FleetInvHolds, PTL DEF Spec

(***************************************************************************)
(* The load path: whoever is in the world has a connection that works, is  *)
(* at the load loop and leaves it by Logout.                               *)
(***************************************************************************)
AtGameServer ==
  {"lobby", "key", "result", "charInfo", "created", "selected", "burst", "late",
   "world"}

WorldInv ==
  process # "panicked" =>
    \A b \in Bots :
      /\ stage[b] \in AtGameServer => gsConn[b] = "open"
      /\ session[b] = "inWorld" => stage[b] = "world" /\ link[b]

LEMMA WorldNext ==
  Scenario = "none" => (WorldInv /\ FleetInv /\ [Next]_vars => WorldInv')
<1> SUFFICES ASSUME Scenario = "none", WorldInv, FleetInv, [Next]_vars PROVE WorldInv'
  OBVIOUS
<1> USE DEF FleetInv, PlaceInv, ConnInv, ServerInv, WorldInv, AtGameServer
<1>1. ASSUME UNCHANGED <<stage, gsConn, link, session, process>> PROVE WorldInv'
  BY <1>1
<1>2. ASSUME NEW b \in Bots, stage[b] # "world", process = "running",
             UNCHANGED <<gsConn, link, process>>, UNCHANGED session,
             NEW s, Goto(b, s), s \in AtGameServer => stage[b] \in AtGameServer
      PROVE  WorldInv'
  BY <1>2 DEF Goto
<1>3. ASSUME NEW b \in Bots, stage[b] \in AtGameServer \ {"world"}, process = "running",
             UNCHANGED <<gsConn, link, process>>, NEW request \in Requests, NEW next,
             NEW after, Ask(b, request, next, after),
             request = "EnterWorld" => next = "world"
      PROVE  WorldInv'
  BY <1>3 DEF Ask, Admitted, Requests, Goto, Fail
<1>4. ASSUME NEW b \in Bots, RunBot(b) PROVE WorldInv'
  <2>1. CASE AwaitSlot(b) \/ (LoginServer(b) /\ ~ ShortGreeting(b))
    BY <1>2, <2>1
    DEF AwaitSlot, LoginServer, HandleInit, SendAuthGG, Login, FetchServerList,
        SelectServer, Exchange, Running, Fail, connVars, lobbyVars
  <2>2. CASE Connect(b)
    BY <1>2, <2>2 DEF Connect, Running, Fail, lobbyVars
  <2>3. CASE ConnectToGameServer(b)
    <3>1. CASE Goto(b, "lobby") /\ gsConn' = [gsConn EXCEPT ![b] = "open"]
      BY <2>3, <3>1 DEF ConnectToGameServer, Running, Goto, lobbyVars
    <3>2. CASE Fail(b) /\ UNCHANGED gsConn
      BY <1>2, <2>3, <3>2 DEF ConnectToGameServer, Running, Fail, lobbyVars
    <3> QED
      BY <2>3, <3>1, <3>2 DEF ConnectToGameServer
  <2>4. CASE Close(b)
    BY <2>4 DEF Close, Running, Goto, lobbyVars
  <2>5. CASE SendVersion(b)
    BY <1>2, <1>3, <2>5 DEF SendVersion, Running, Fail, Requests, connVars
  <2>6. CASE ReadKey(b) \/ ReadCharInfo(b) \/ ReadCreated(b)
    BY <1>3, <2>6
    DEF ReadKey, ReadCharInfo, ReadCreated, Arrived, Reading, Requests, connVars
  <2>7. CASE ReadSelected(b)
    <3>1. Entered = "world"
      BY DEF Entered
    <3> QED
      BY <1>3, <2>7, <3>1
      DEF ReadSelected, EnterWorld, Arrived, Reading, Requests, connVars
  <2>8. CASE \/ ReadResult(b) \/ ReadBurst(b) \/ Unexpected(b) \/ Recover(b)
             \/ ReadFails(b)
    <3>1. stage[b] # "world"
      BY <2>8
      DEF ReadResult, ReadBurst, Unexpected, Recover, ReadFails, Empty, Fatal, Arrived,
          Reading, Expected, Bursting
    <3> QED
      BY <1>2, <2>8, <3>1
      DEF ReadResult, ReadBurst, Unexpected, Recover, ReadFails, Empty, Fatal, Arrived,
          Reading, Fail, connVars, lobbyVars
  <2>9. CASE Discard(b) \/ KeepAlive(b)
    BY <1>1, <2>9 DEF Discard, KeepAlive, connVars
  <2>10. CASE Panic(b) \/ ShortGreeting(b)
    BY <2>10 DEF Panic, ShortGreeting, Crash
  <2>11. CASE RunGameLoop(b)
    BY <2>11 DEF RunGameLoop, Running, Goto, connVars
  <2> QED
    BY <1>4, <2>1, <2>2, <2>3, <2>4, <2>5, <2>6, <2>7, <2>8, <2>9, <2>10, <2>11
    DEF RunBot, Read
<1>5. ASSUME NEW b \in Bots, Deadline(b) \/ ReadTimeout(b) PROVE WorldInv'
  BY <1>2, <1>5 DEF Deadline, ReadTimeout, Running, Fail, connVars, lobbyVars
<1>6. ASSUME NEW b \in Bots, Server(b) PROVE WorldInv'
  BY <1>1, <1>6 DEF Server, Transmit, Chatter, connVars
<1>7. ASSUME NEW b \in Bots, Lose(b) PROVE WorldInv'
  BY <1>7 DEF Lose
<1>8. CASE Cancel \/ Finished \/ UNCHANGED vars
  BY <1>1, <1>8 DEF Cancel, Finished, vars, connVars, lobbyVars
<1>9. CASE Exit
  BY <1>9 DEF Exit, connVars, lobbyVars
<1> QED
  BY <1>4, <1>5, <1>6, <1>7, <1>8, <1>9 DEF Next

(* Without a scenario, a bot that entered the world keeps its connection   *)
(* until it has logged out (README.md:16), unless the process panics.      *)
THEOREM NoGhostsHold == Scenario = "none" => (Spec => []NoGhosts)
<1> SUFFICES ASSUME Scenario = "none" PROVE Spec => []NoGhosts
  OBVIOUS
<1>1. Init => WorldInv
  BY DEF Init, WorldInv, AtGameServer
<1>2. WorldInv /\ FleetInv => NoGhosts
  BY DEF WorldInv, NoGhosts, AtGameServer
<1>3. WorldInv /\ FleetInv /\ [Next]_vars => WorldInv'
  BY WorldNext
<1> QED
  BY <1>1, <1>2, <1>3, FleetInvHolds, PTL DEF Spec

-----------------------------------------------------------------------------
(***************************************************************************)
(* The fleet implements BotVisit.  Where a bot stands tells which server   *)
(* it is connected to and what its session is, if its connection works.    *)
(***************************************************************************)
Outside  == {"ramp", "connect"}
AtLogin  == {"init", "authGG", "login", "serverList", "selectServer", "connectGS"}
InLobby  == {"key", "result", "charInfo", "created", "selected"}
InWorld  == {"world", "burst", "late"}

LinesFit(b) ==
  /\ stage[b] \in Outside => conn[b] = "nil" /\ gsConn[b] = "nil"
  /\ stage[b] \in AtLogin => conn[b] = "open" /\ gsConn[b] = "nil"
  /\ stage[b] \in {"lobby"} \cup InLobby \cup InWorld => gsConn[b] = "open"

SessionFits(b) ==
  /\ stage[b] \in Outside \cup AtLogin => session[b] = "none" /\ link[b]
  /\ ~ link[b] => session[b] = "lost"
  /\ link[b] =>
       /\ stage[b] = "lobby" => session[b] = "none"
       /\ stage[b] \in InLobby => session[b] = "lobby"
       /\ stage[b] \in InWorld => session[b] = "inWorld"
  /\ stage[b] = "close" /\ session[b] = "inWorld" => Scenario # "none"
  /\ stage[b] \in InWorld \ {"world"} => Scenario # "none"

VisitInv == process = "running" => \A b \in Bots : LinesFit(b) /\ SessionFits(b)

(* Nothing changes for a bot that is not moved.                            *)
Same(b) ==
  /\ stage'[b] = stage[b] /\ conn'[b] = conn[b] /\ gsConn'[b] = gsConn[b]
  /\ link'[b] = link[b] /\ session'[b] = session[b]

LEMMA OneBot ==
  ASSUME VisitInv, process = "running", NEW b \in Bots,
         \A c \in Bots \ {b} : Same(c),
         LinesFit(b)' /\ SessionFits(b)'
  PROVE  VisitInv'
BY DEF VisitInv, Same, LinesFit, SessionFits

(* A request moves its bot on, and the session with it, or fails for want  *)
(* of a connection.                                                        *)
LEMMA AskVisit ==
  ASSUME FleetInv, VisitInv, process = "running", NEW b \in Bots,
         NEW request \in Requests, NEW next, NEW after, Ask(b, request, next, after),
         UNCHANGED connVars,
         stage[b] \in {"lobby"} \cup InLobby,
         \/ request = "ProtocolVersion" /\ stage[b] = "lobby" /\ next \in InLobby
         \/ request \notin {"ProtocolVersion", "EnterWorld"} /\ stage[b] \in InLobby
              /\ next \in InLobby
         \/ request = "EnterWorld" /\ stage[b] \in InLobby /\ next = Entered
  PROVE  /\ VisitInv'
         /\ \/ Visits!Knock(b) \/ Visits!Enter(b)
            \/ UNCHANGED <<conn, gsConn, session>>
<1>1. \/ stage' = [stage EXCEPT ![b] = next]
      \/ ~ link[b] /\ stage' = [stage EXCEPT ![b] = "close"]
  BY DEF Ask, Goto, Fail
<1>2. stage \in [Bots -> Stages] /\ session = [c \in Bots |-> session[c]] /\ link \in [Bots -> BOOLEAN]
  BY DEF FleetInv, PlaceInv, ServerInv, ConnInv
<1>3. LinesFit(b) /\ SessionFits(b)
  BY DEF VisitInv
<1>4. conn' = conn /\ gsConn' = gsConn /\ link' = link
  BY DEF connVars
<1>5. CASE ~ link[b]
  <2>1. session' = session
    BY <1>5 DEF Ask
  <2>2. \A c \in Bots \ {b} : Same(c)
    BY <1>1, <1>2, <1>4, <2>1 DEF Same
  <2>3. LinesFit(b)'
    BY <1>1, <1>2, <1>3, <1>4
    DEF LinesFit, Outside, AtLogin, InLobby, InWorld, Entered
  <2>4. SessionFits(b)'
    BY <1>1, <1>2, <1>3, <1>4, <1>5, <2>1
    DEF SessionFits, Outside, AtLogin, InLobby, InWorld, Entered
  <2> QED
    BY <1>4, <2>1, <2>2, <2>3, <2>4, OneBot
<1>6. CASE link[b]
  <2>1. /\ stage' = [stage EXCEPT ![b] = next]
        /\ session' = [session EXCEPT ![b] = Admitted(request, session[b])]
    BY <1>6 DEF Ask, Goto
  <2>2. \A c \in Bots \ {b} : Same(c)
    BY <1>2, <1>4, <2>1 DEF Same
  <2>3. LinesFit(b)'
    BY <1>2, <1>3, <1>4, <2>1
    DEF LinesFit, Outside, AtLogin, InLobby, InWorld, Entered
  <2>4. session[b] = IF stage[b] = "lobby" THEN "none" ELSE "lobby"
    BY <1>3, <1>6 DEF SessionFits, InLobby
  <2>5. /\ request = "ProtocolVersion" => session'[b] = "lobby"
        /\ request = "EnterWorld" => session'[b] = "inWorld"
        /\ request \notin {"ProtocolVersion", "EnterWorld"} => session' = session
    BY <1>2, <2>1 DEF Admitted
  <2>6. SessionFits(b)'
    BY <1>2, <1>3, <1>4, <1>6, <2>1, <2>4, <2>5
    DEF SessionFits, Outside, AtLogin, InLobby, InWorld, Entered
  <2>7. gsConn[b] = "open"
    BY <1>3 DEF LinesFit
  <2>8. \/ Visits!Knock(b) \/ Visits!Enter(b)
        \/ UNCHANGED <<conn, gsConn, session>>
    BY <1>4, <2>1, <2>4, <2>5, <2>7
    DEF Admitted, Visits!Knock, Visits!Enter, Visits!Pass, InLobby
  <2> QED
    BY <2>2, <2>3, <2>6, <2>8, OneBot
<1> QED
  BY <1>5, <1>6

(* A failure before or in the lobby.                                       *)
LEMMA FailVisit ==
  ASSUME FleetInv, VisitInv, process = "running", NEW b \in Bots,
         stage[b] \in Stages \ {"world", "close", "ended"},
         Goto(b, "close") \/ Goto(b, "ended"), UNCHANGED <<connVars, session>>
  PROVE  VisitInv'
<1>1. stage \in [Bots -> Stages] /\ conn' = conn /\ gsConn' = gsConn /\ link' = link
      /\ session' = session
  BY DEF FleetInv, PlaceInv, connVars
<1>2. \A c \in Bots \ {b} : Same(c)
  BY <1>1 DEF Same, Goto
<1>3. LinesFit(b) /\ SessionFits(b)
  BY DEF VisitInv
<1>4. stage'[b] \in {"close", "ended"}
  BY <1>1 DEF Goto
<1>5. session[b] = "inWorld" => Scenario # "none"
  BY <1>1, <1>3 DEF SessionFits, Stages, Outside, AtLogin, InLobby, InWorld, FleetInv, ConnInv
<1>6. LinesFit(b)' /\ SessionFits(b)'
  BY <1>1, <1>3, <1>4, <1>5 DEF LinesFit, SessionFits, Outside, AtLogin, InLobby, InWorld
<1> QED
  BY <1>2, <1>6, OneBot

(* Every step keeps VisitInv and is a step of the visit of one bot.        *)
Stays == UNCHANGED <<conn, gsConn, session>>

LEMMA RunBotVisit ==
  ASSUME FleetInv, EndInv, VisitInv, NEW b \in Bots, RunBot(b)
  PROVE  /\ VisitInv'
         /\ [Visits!Next]_(Visits!vars)
<1> USE DEF FleetInv, PlaceInv, ConnInv, ServerInv
<1>1. process = "running"
  BY DEF RunBot, AwaitSlot, Connect, LoginServer, HandleInit, ShortGreeting, SendAuthGG,
         Login, FetchServerList, SelectServer, Exchange, ConnectToGameServer, SendVersion,
         Read, ReadKey, ReadResult, ReadCharInfo, ReadCreated, ReadSelected, EnterWorld,
         ReadBurst, Discard, Uninteresting, Unexpected, KeepAlive, Recover, Panic, ReadFails,
         RunGameLoop, Close, Running, Arrived, Empty, Fatal, Reading
<1>2. LinesFit(b) /\ SessionFits(b)
  BY <1>1 DEF VisitInv
<1>3. ASSUME Stays, UNCHANGED <<ctxDone, process>>
      PROVE  [Visits!Next]_(Visits!vars)
  BY <1>3 DEF Stays, Visits!vars
<1>4. ASSUME Visits!Knock(b) \/ Visits!Enter(b) \/ Stays, UNCHANGED <<ctxDone, process>>
      PROVE  [Visits!Next]_(Visits!vars)
  BY <1>1, <1>3, <1>4 DEF Visits!Next, Visits!Visit
<1>5. ASSUME UNCHANGED <<stage, link>>, Stays
      PROVE  VisitInv'
  BY <1>1, <1>5 DEF Stays, VisitInv, LinesFit, SessionFits, Same
<1>6. ASSUME Fail(b) \/ Goto(b, "ended"), UNCHANGED <<connVars, session, ctxDone, process>>,
             stage[b] \notin {"world", "close", "ended"}
      PROVE  VisitInv' /\ [Visits!Next]_(Visits!vars)
  <2>1. VisitInv'
    BY <1>1, <1>6, FailVisit DEF Fail
  <2> QED
    BY <1>3, <1>6, <2>1 DEF Stays, connVars
<1>7. ASSUME NEW s \in Stages, Goto(b, s), UNCHANGED <<connVars, session, ctxDone, process>>,
             (LinesFit(b) /\ SessionFits(b))'
      PROVE  VisitInv' /\ [Visits!Next]_(Visits!vars)
  <2>1. \A c \in Bots \ {b} : Same(c)
    BY <1>7 DEF Same, Goto, connVars
  <2>2. VisitInv'
    BY <1>1, <1>7, <2>1, OneBot
  <2> QED
    BY <1>3, <1>7, <2>2 DEF Stays, connVars
<1>8. CASE AwaitSlot(b)
  <2>1. stage[b] = "ramp" /\ UNCHANGED <<connVars, session, ctxDone, process>>
    BY <1>8 DEF AwaitSlot, Running, lobbyVars
  <2>2. CASE Goto(b, "connect")
    <3>1. (LinesFit(b) /\ SessionFits(b))'
      BY <1>2, <2>1, <2>2
      DEF Goto, connVars, LinesFit, SessionFits, Outside, AtLogin, InLobby, InWorld
    <3> QED
      BY <1>7, <2>1, <2>2, <3>1 DEF Stages
  <2> QED
    BY <1>6, <1>8, <2>1, <2>2 DEF AwaitSlot
<1>9. CASE Connect(b)
  <2>1. stage[b] = "connect" /\ UNCHANGED <<gsConn, link, session, ctxDone, process>>
    BY <1>9 DEF Connect, Running, lobbyVars
  <2>2. CASE conn' = [conn EXCEPT ![b] = "open"] /\ Goto(b, "init")
    <3>1. \A c \in Bots \ {b} : Same(c)
      BY <2>1, <2>2 DEF Same, Goto
    <3>2. (LinesFit(b) /\ SessionFits(b))'
      BY <1>2, <2>1, <2>2
      DEF Goto, LinesFit, SessionFits, Outside, AtLogin, InLobby, InWorld
    <3>3. Visits!DialLogin(b)
      BY <1>2, <2>1, <2>2 DEF LinesFit, Outside, Visits!DialLogin
    <3> QED
      BY <1>1, <2>1, <3>1, <3>2, <3>3, OneBot DEF Visits!Next, Visits!Visit
  <2>3. CASE Fail(b) /\ UNCHANGED conn
    BY <1>6, <2>1, <2>3 DEF connVars
  <2> QED
    BY <1>9, <2>2, <2>3 DEF Connect
<1>10. CASE LoginServer(b) /\ ~ ShortGreeting(b)
  <2>1. /\ stage[b] \in AtLogin /\ UNCHANGED <<connVars, session, ctxDone, process>>
        /\ Fail(b) \/ \E s \in AtLogin : Goto(b, s)
    BY <1>10
    DEF LoginServer, HandleInit, SendAuthGG, Login, FetchServerList, SelectServer, Exchange,
        Running, AtLogin, lobbyVars
  <2>2. ASSUME NEW s \in AtLogin, Goto(b, s)
        PROVE  VisitInv' /\ [Visits!Next]_(Visits!vars)
    <3>1. (LinesFit(b) /\ SessionFits(b))'
      BY <1>2, <2>1, <2>2
      DEF Goto, connVars, LinesFit, SessionFits, Outside, AtLogin, InLobby, InWorld
    <3> QED
      BY <1>7, <2>1, <2>2, <3>1 DEF Stages, AtLogin
  <2> QED
    BY <1>6, <2>1, <2>2 DEF AtLogin
<1>11. CASE ConnectToGameServer(b)
  <2>1. stage[b] = "connectGS" /\ UNCHANGED <<link, session, ctxDone, process>>
    BY <1>11 DEF ConnectToGameServer, Running, lobbyVars
  <2>2. CASE /\ gsConn' = [gsConn EXCEPT ![b] = "open"] /\ conn' = [conn EXCEPT ![b] = "nil"]
             /\ Goto(b, "lobby")
    <3>1. \A c \in Bots \ {b} : Same(c)
      BY <2>1, <2>2 DEF Same, Goto
    <3>2. (LinesFit(b) /\ SessionFits(b))'
      BY <1>2, <2>1, <2>2
      DEF Goto, LinesFit, SessionFits, Outside, AtLogin, InLobby, InWorld
    <3>3. Visits!HandOver(b)
      BY <1>2, <2>1, <2>2 DEF LinesFit, AtLogin, Visits!HandOver
    <3> QED
      BY <1>1, <2>1, <3>1, <3>2, <3>3, OneBot DEF Visits!Next, Visits!Visit
  <2>3. CASE Fail(b) /\ UNCHANGED <<conn, gsConn>>
    BY <1>6, <2>1, <2>3 DEF connVars
  <2> QED
    BY <1>11, <2>2, <2>3 DEF ConnectToGameServer
<1>12. CASE SendVersion(b)
  <2>1. stage[b] = "lobby" /\ UNCHANGED <<connVars, ctxDone, process>>
    BY <1>12 DEF SendVersion, Running
  <2>2. CASE Ask(b, "ProtocolVersion", "key", State[b])
    BY <1>1, <1>4, <2>1, <2>2, AskVisit DEF Requests, InLobby, Stays
  <2>3. CASE Fail(b) /\ UNCHANGED <<session, due>>
    BY <1>6, <2>1, <2>3
  <2> QED
    BY <1>12, <2>2, <2>3 DEF SendVersion
<1>13. CASE ReadKey(b) \/ ReadCharInfo(b) \/ ReadCreated(b) \/ ReadSelected(b)
  <2>1. stage[b] \in InLobby /\ UNCHANGED <<connVars, ctxDone, process>>
    BY <1>13
    DEF ReadKey, ReadCharInfo, ReadCreated, ReadSelected, EnterWorld, Arrived, InLobby
  <2>2. \E request \in Requests : \E after :
          \/ /\ request \notin {"ProtocolVersion", "EnterWorld"}
             /\ \E next \in InLobby : Ask(b, request, next, after)
          \/ request = "EnterWorld" /\ Ask(b, request, Entered, after)
    BY <1>13
    DEF ReadKey, ReadCharInfo, ReadCreated, ReadSelected, EnterWorld, Requests, InLobby
  <2> QED
    BY <1>1, <1>4, <2>1, <2>2, AskVisit DEF Stays
<1>14. CASE ReadResult(b)
  <2>1. /\ stage[b] = "result" /\ Goto(b, "charInfo")
        /\ UNCHANGED <<connVars, session, ctxDone, process>>
    BY <1>14 DEF ReadResult, Arrived
  <2>2. (LinesFit(b) /\ SessionFits(b))'
    BY <1>2, <2>1
    DEF Goto, connVars, LinesFit, SessionFits, Outside, AtLogin, InLobby, InWorld
  <2> QED
    BY <1>7, <2>1, <2>2 DEF Stages
<1>15. CASE ReadBurst(b) \/ Unexpected(b) \/ Recover(b) \/ ReadFails(b)
  <2>1. Expected(stage[b]) # {}
    BY <1>15 DEF ReadBurst, Unexpected, Recover, ReadFails, Arrived, Empty, Fatal, Reading
  <2>2. stage[b] \notin {"world", "close", "ended"}
    BY <2>1 DEF Expected, Bursting
  <2>3. Fail(b) /\ UNCHANGED <<connVars, session, ctxDone, process>>
    BY <1>15 DEF ReadBurst, Unexpected, Recover, ReadFails, Fail, lobbyVars
  <2> QED
    BY <1>6, <2>2, <2>3
<1>16. CASE Discard(b) \/ KeepAlive(b)
  BY <1>3, <1>5, <1>16 DEF Discard, KeepAlive, Stays, connVars
<1>17. CASE Panic(b) \/ ShortGreeting(b)
  <2>1. Crash /\ session' = session
    BY <1>17 DEF Panic, ShortGreeting, lobbyVars
  <2>2. Scenario # "none" => conn[b] = "open"
    BY <1>2, <1>17 DEF Panic, Recovers, ShortGreeting, Running, LinesFit, AtLogin
  <2>3. Visits!Crash
    BY <2>1, <2>2 DEF Crash, Visits!Crash
  <2>4. VisitInv'
    BY <2>1 DEF Crash, VisitInv
  <2> QED
    BY <1>1, <2>3, <2>4 DEF Visits!Next
<1>18. CASE RunGameLoop(b)
  <2>1. /\ stage[b] = "world" /\ Goto(b, "close")
        /\ UNCHANGED <<connVars, ctxDone, process>>
    BY <1>18 DEF RunGameLoop, Running
  <2>2. Accepted(b) /\ ctxDone
    BY <1>18 DEF RunGameLoop
  <2>3. gsConn[b] = "open"
    BY <1>2, <2>1 DEF LinesFit, InWorld
  <2>4. CASE link[b]
    <3>1. session[b] = "inWorld" /\ session' = [session EXCEPT ![b] = "loggedOut"]
      BY <1>2, <1>18, <2>1, <2>2, <2>4 DEF RunGameLoop, SessionFits, InWorld
    <3>2. Visits!Logout(b)
      BY <2>1, <2>2, <2>3, <3>1 DEF Visits!Logout, Visits!Pass, connVars
    <3>3. \A c \in Bots \ {b} : Same(c)
      BY <2>1, <3>1 DEF Same, Goto, connVars
    <3>4. (LinesFit(b) /\ SessionFits(b))'
      BY <1>2, <2>1, <2>4, <3>1
      DEF Goto, connVars, LinesFit, SessionFits, Outside, AtLogin, InLobby, InWorld
    <3> QED
      BY <1>1, <2>1, <3>2, <3>3, <3>4, OneBot DEF Visits!Next, Visits!Visit
  <2>5. CASE ~ link[b]
    <3>1. session' = session
      BY <1>18, <2>5 DEF RunGameLoop
    <3>2. (LinesFit(b) /\ SessionFits(b))'
      BY <1>2, <2>1, <2>5, <3>1
      DEF Goto, connVars, LinesFit, SessionFits, Outside, AtLogin, InLobby, InWorld
    <3> QED
      BY <1>7, <2>1, <3>1, <3>2 DEF Stages
  <2> QED
    BY <2>4, <2>5
<1>19. CASE Close(b)
  <2>1. /\ stage[b] = "close" /\ Goto(b, "ended")
        /\ UNCHANGED <<link, session, ctxDone, process>>
    BY <1>19 DEF Close, Running, lobbyVars
  <2>2. Visits!HangUp(b)
    BY <1>2, <1>19, <2>1 DEF Close, SessionFits, Visits!HangUp, Visits!HungUp
  <2>3. \A c \in Bots \ {b} : Same(c)
    BY <1>19, <2>1 DEF Same, Goto, Close
  <2>4. (LinesFit(b) /\ SessionFits(b))'
    BY <1>2, <2>1
    DEF Goto, LinesFit, SessionFits, Outside, AtLogin, InLobby, InWorld
  <2> QED
    BY <1>1, <2>1, <2>2, <2>3, <2>4, OneBot DEF Visits!Next, Visits!Visit
<1> QED
  BY <1>8, <1>9, <1>10, <1>11, <1>12, <1>13, <1>14, <1>15, <1>16, <1>17, <1>18, <1>19
  DEF RunBot, Read

LEMMA VisitNext ==
  ASSUME FleetInv, EndInv, VisitInv, [Next]_vars
  PROVE  VisitInv' /\ [Visits!Next]_(Visits!vars)
<1> USE DEF FleetInv, PlaceInv, ConnInv, ServerInv
<1>1. ASSUME UNCHANGED <<stage, link, conn, gsConn, session, process>> PROVE VisitInv'
  BY <1>1 DEF VisitInv, LinesFit, SessionFits
<1>2. ASSUME NEW b \in Bots, ReadTimeout(b)
      PROVE  VisitInv' /\ [Visits!Next]_(Visits!vars)
  <2>1. VisitInv'
    BY <1>2, FailVisit DEF ReadTimeout, Running, Fail, connVars, lobbyVars
  <2> QED
    BY <1>2, <2>1 DEF ReadTimeout, Visits!vars, connVars, lobbyVars
<1>3. ASSUME NEW b \in Bots, Server(b)
      PROVE  VisitInv' /\ [Visits!Next]_(Visits!vars)
  BY <1>1, <1>3 DEF Server, Transmit, Chatter, Visits!vars, connVars
<1>4. ASSUME NEW b \in Bots, Lose(b)
      PROVE  VisitInv' /\ [Visits!Next]_(Visits!vars)
  <2>1. Visits!LoseConnection(b) /\ UNCHANGED <<ctxDone, process>> /\ process = "running"
    BY <1>4 DEF Lose, Visits!LoseConnection
  <2>2. LinesFit(b) /\ SessionFits(b)
    BY <2>1 DEF VisitInv
  <2>3. \A c \in Bots \ {b} : Same(c)
    BY <1>4 DEF Lose, Same
  <2>4. (LinesFit(b) /\ SessionFits(b))'
    BY <1>4, <2>2 DEF Lose, LinesFit, SessionFits, Outside, AtLogin, InLobby, InWorld
  <2> QED
    BY <2>1, <2>3, <2>4, OneBot DEF Visits!Next, Visits!Visit
<1>5. CASE Cancel
  BY <1>1, <1>5 DEF Cancel, connVars, lobbyVars, Visits!Next, Visits!Interrupt
<1>6. CASE Exit
  <2>1. \A b \in Bots : "open" \notin {conn[b], gsConn[b]}
    BY <1>6 DEF Exit, EndInv, Opened
  <2>2. VisitInv'
    BY <1>6 DEF Exit, VisitInv
  <2> QED
    BY <1>6, <2>1, <2>2 DEF Exit, connVars, lobbyVars, Visits!Next, Visits!Exit
<1>7. CASE Finished \/ UNCHANGED vars
  BY <1>1, <1>7 DEF Finished, vars, connVars, lobbyVars, Visits!vars
<1>8. ASSUME NEW b \in Bots, Deadline(b)
      PROVE  VisitInv' /\ [Visits!Next]_(Visits!vars)
  <2>1. /\ process = "running" /\ stage[b] = "burst" /\ Goto(b, "late")
        /\ UNCHANGED <<conn, gsConn, link, session, ctxDone, process>>
    BY <1>8 DEF Deadline, Running, connVars, lobbyVars
  <2>2. LinesFit(b) /\ SessionFits(b)
    BY <2>1 DEF VisitInv
  <2>3. \A c \in Bots \ {b} : Same(c)
    BY <2>1 DEF Same, Goto
  <2>4. (LinesFit(b) /\ SessionFits(b))'
    BY <2>1, <2>2
    DEF Goto, LinesFit, SessionFits, Outside, AtLogin, InLobby, InWorld, Bursting
  <2> QED
    BY <2>1, <2>3, <2>4, OneBot DEF Visits!vars
<1> QED
  BY <1>2, <1>3, <1>4, <1>5, <1>6, <1>7, <1>8, RunBotVisit DEF Next

(* The fleet implements BotVisit, on the load path and with a scenario:    *)
(* one server at a time, lobby before world, Logout after the interrupt    *)
(* and before the end of the connection; with a scenario the process ends  *)
(* early only while a bot is at the login server (runBot, main.go:178-240, *)
(* RunScenario, scenario.go:39-55).                                        *)
THEOREM VisitsRefinement == Spec => VisitsRefined
<1>1. Init => VisitInv /\ EndInv /\ Visits!Init
  BY DEF Init, VisitInv, LinesFit, SessionFits, Outside, AtLogin, InLobby, InWorld, EndInv,
         Opened, Visits!Init
<1>2. FleetInv /\ EndInv /\ VisitInv /\ [Next]_vars =>
        VisitInv' /\ [Visits!Next]_(Visits!vars)
  BY VisitNext
<1> QED
  BY <1>1, <1>2, EndNext, FleetInvHolds, PTL DEF Spec, VisitsRefined, Visits!Spec

=============================================================================
