------------------------------- MODULE Fleet -------------------------------
(***************************************************************************)
(* The fleet: runFleet starts one runBot per client (cmd/main.go:163-268). *)
(* A bot waits for its slot of the ramp, logs in at the login server, is   *)
(* handed to the game server, goes through the lobby                       *)
(* (internal/client/client.go:95-536) and stays in the world until the     *)
(* interrupt; with a scenario it leaves once it has asserted.  The         *)
(* bots share the context and the process.                                 *)
(*                                                                         *)
(* The world phase is one step per event BotSession knows of; GameLoop has *)
(* its details.  Both servers and the network are external.                *)
(***************************************************************************)
EXTENDS Naturals, Sequences

CONSTANTS
  Bots,      \* the clients of the fleet
  Ramped,    \* -ramp is set, for more than one client
  Scenario,  \* the -scenario: "A", "C", or "none" for the load loop
  KeyMod,    \* the number of keys a cipher rolls through
  Noise,     \* what the game server sends unasked: "empty", "other"
  Backlog,   \* bound: it does so only while fewer packets are under way
  Faults     \* "lose": a connection fails; "silence": no answer from the game
             \* server; "short": a greeting of one block, a cut CharSelected

ASSUME FleetAssumption ==
  /\ Ramped \in BOOLEAN
  /\ Scenario \in {"none", "A", "C"}
  /\ KeyMod \in Nat \ {0} /\ Backlog \in Nat
  /\ Noise \subseteq {"empty", "other"}
  /\ Faults \subseteq {"lose", "silence", "short"}

VARIABLES
  stage,      \* what runBot calls next
  State,      \* the State of the client
  conn,       \* the connection to the login server: "nil", "open" or "closed"
  gsConn,     \* the connection to the game server
  link,       \* the game connection still works
  session,    \* the game server's view: "none", "lobby", "inWorld", "loggedOut", "lost"
  due,        \* what the game server has yet to send in answer
  wire,       \* packets of the game server under way, with the key of each
  inKey,      \* gsCrypt's incoming key, 0 before Init
  srvKey,     \* the key the server encrypts with next
  ctxDone,    \* the interrupt cancelled the context
  process     \* "running", "exited" or "panicked"

lobbyVars == <<session, due, wire, inKey, srvKey>>
connVars  == <<conn, gsConn, link>>
vars == <<stage, State, connVars, lobbyVars, ctxDone, process>>

Init ==
  /\ stage = [b \in Bots |-> IF Ramped THEN "ramp" ELSE "connect"]
  /\ State = [b \in Bots |-> "Disconnected"]
  /\ conn = [b \in Bots |-> "nil"]
  /\ gsConn = [b \in Bots |-> "nil"]
  /\ link = [b \in Bots |-> TRUE]
  /\ session = [b \in Bots |-> "none"]
  /\ due = [b \in Bots |-> << >>]
  /\ wire = [b \in Bots |-> << >>]
  /\ inKey = [b \in Bots |-> 0]
  /\ srvKey = [b \in Bots |-> 0]
  /\ ctxDone = FALSE
  /\ process = "running"

Running(b, s) == process = "running" /\ stage[b] = s
Goto(b, s) == stage' = [stage EXCEPT ![b] = s]
Become(b, s) == State' = [State EXCEPT ![b] = s]

(* Mutant of Fail: an error return that forgets to close.                  *)
FailOpen(b) == Goto(b, "ended") /\ UNCHANGED State

(* runBot returns; Close is deferred.                                      *)
Fail(b) == Goto(b, "close") /\ UNCHANGED State

(* A goroutine panics: the whole process ends, and every connection.       *)
Crash ==
  /\ process' = "panicked"
  /\ conn' = [b \in Bots |-> "closed"] /\ gsConn' = [b \in Bots |-> "closed"]
  /\ UNCHANGED <<stage, State, link, ctxDone>>

-----------------------------------------------------------------------------
(***************************************************************************)
(* The ramp and the login server.                                          *)
(***************************************************************************)
AwaitSlot(b) ==
  /\ Running(b, "ramp")
  /\ Goto(b, "connect") \/ (ctxDone /\ Goto(b, "ended"))
  /\ UNCHANGED <<State, connVars, lobbyVars, ctxDone, process>>

Connect(b) ==
  /\ Running(b, "connect")
  /\ \/ /\ conn' = [conn EXCEPT ![b] = "open"]
        /\ Become(b, "Connected") /\ Goto(b, "init")
     \/ Fail(b) /\ UNCHANGED conn
  /\ UNCHANGED <<gsConn, link, lobbyVars, ctxDone, process>>

States == {"Disconnected", "Connected", "Initialized", "GGAuth", "LoggedIn",
           "GSConnected", "GSHandshake", "GSLoggedIn"}

(* The State each call checks first, and would refuse without.             *)
Required(s) ==
  CASE s = "init"         -> {"Connected"}
    [] s = "authGG"       -> {"Initialized"}
    [] s = "login"        -> {"GGAuth", "Initialized"}
    [] s = "serverList"   -> {"LoggedIn"}
    [] s = "selectServer" -> {"LoggedIn"}
    [] s = "lobby"        -> {"GSConnected"}
    [] s = "world"        -> {"GSLoggedIn"}
    [] OTHER              -> States

Accepted(b) == State[b] \in Required(stage[b])

(* A request and its reply, which is the expected one or an error.         *)
Exchange(b, s, next, after) ==
  /\ Running(b, s)
  /\ \/ Accepted(b) /\ Goto(b, next) /\ Become(b, after)
     \/ Fail(b)
  /\ UNCHANGED <<connVars, lobbyVars, ctxDone, process>>

(* DecryptInit reads before the start of a greeting of a single block (see *)
(* LoginCipher).  No scenario runs yet, whose recover would catch it.      *)
ShortGreeting(b) ==
  /\ Running(b, "init") /\ Accepted(b) /\ "short" \in Faults
  /\ Crash /\ UNCHANGED lobbyVars

(* Mutant of HandleInit: the State is not advanced.                        *)
HandleInitSilently(b) == Exchange(b, "init", "authGG", State[b]) \/ ShortGreeting(b)

HandleInit(b)      == Exchange(b, "init", "authGG", "Initialized") \/ ShortGreeting(b)
SendAuthGG(b)      == Exchange(b, "authGG", "login", "GGAuth")
Login(b)           == Exchange(b, "login", "serverList", "LoggedIn")
FetchServerList(b) == Exchange(b, "serverList", "selectServer", "LoggedIn")
SelectServer(b)    == Exchange(b, "selectServer", "connectGS", "LoggedIn")

LoginServer(b) ==
  \/ HandleInit(b) \/ SendAuthGG(b) \/ Login(b)
  \/ FetchServerList(b) \/ SelectServer(b)

(* Mutant of ConnectToGameServer: the login connection is kept.            *)
ConnectToBoth(b) ==
  /\ Running(b, "connectGS")
  /\ \/ /\ gsConn' = [gsConn EXCEPT ![b] = "open"]
        /\ Become(b, "GSConnected") /\ Goto(b, "lobby")
     \/ Fail(b) /\ UNCHANGED gsConn
  /\ UNCHANGED <<conn, link, lobbyVars, ctxDone, process>>

(* The login connection is closed once the game server is reached.         *)
ConnectToGameServer(b) ==
  /\ Running(b, "connectGS")
  /\ \/ /\ gsConn' = [gsConn EXCEPT ![b] = "open"]
        /\ conn' = [conn EXCEPT ![b] = "nil"]
        /\ Become(b, "GSConnected") /\ Goto(b, "lobby")
     \/ Fail(b) /\ UNCHANGED <<conn, gsConn>>
  /\ UNCHANGED <<link, lobbyVars, ctxDone, process>>

-----------------------------------------------------------------------------
(***************************************************************************)
(* The game server.  Its answers are due in order; what it sends is        *)
(* encrypted with the key at its turn.  Both ends roll their keys with     *)
(* every packet that is not empty, once the key is known.                  *)
(***************************************************************************)
Roll(k, op) ==
  IF op = "KeyPacket" THEN 1
  ELSE IF k = 0 \/ op = "empty" THEN k
  ELSE (k % KeyMod) + 1

Emit(b, op) ==
  /\ wire' = [wire EXCEPT ![b] = Append(@, [op |-> op, key |-> srvKey[b]])]
  /\ srvKey' = [srvKey EXCEPT ![b] = Roll(@, op)]

Answers(request) ==
  (IF "silence" \in Faults THEN {<< >>} ELSE {}) \cup
  CASE request = "ProtocolVersion" -> {<<"KeyPacket">>}
    [] request = "AuthLogin"       -> {<<"LoginResult", "CharSelectionInfo">>, <<"other">>}
    [] request = "CharacterCreate" -> {<<"CharCreateSuccess">>, <<"CharCreateFail">>}
    [] request = "CharacterSelect" -> {<<"CharSelected">>} \cup
                                      (IF "short" \in Faults THEN {<<"CutSelected">>} ELSE {})
    [] request = "EnterWorld"      -> IF Scenario = "C"
                                      THEN {<<"other", "ItemList">>, <<"Die", "ItemList">>}
                                      ELSE {<< >>}

Admitted(request, s) ==
  CASE request = "ProtocolVersion" -> "lobby"
    [] request = "EnterWorld"      -> "inWorld"
    [] OTHER                       -> s

Transmit(b) ==
  /\ process = "running" /\ link[b] /\ due[b] # << >>
  /\ Emit(b, Head(due[b]))
  /\ due' = [due EXCEPT ![b] = Tail(@)]
  /\ UNCHANGED <<stage, State, connVars, session, inKey, ctxDone, process>>

(* Of its own accord, in the lobby and to a bot that waits for its items;  *)
(* for the world of the load loop see GameLoop.                            *)
Chatter(b) ==
  /\ process = "running" /\ link[b] /\ gsConn[b] = "open"
  /\ session[b] = "lobby" \/ (session[b] = "inWorld" /\ Scenario = "C")
  /\ Len(wire[b]) < Backlog
  /\ \E op \in Noise : Emit(b, op)
  /\ UNCHANGED <<stage, State, connVars, session, due, inKey, ctxDone, process>>

(* The connection is reset.                                                *)
Lose(b) ==
  /\ process = "running" /\ "lose" \in Faults
  /\ link[b] /\ gsConn[b] = "open"
  /\ link' = [link EXCEPT ![b] = FALSE]
  /\ session' = [session EXCEPT ![b] = "lost"]
  /\ UNCHANGED <<stage, State, conn, gsConn, due, wire, inKey, srvKey, ctxDone, process>>

(* Send: over a connection that was lost, it fails or reaches nobody.      *)
Ask(b, request, next, after) ==
  \/ /\ link[b]
     /\ \E answer \in Answers(request) : due' = [due EXCEPT ![b] = @ \o answer]
     /\ session' = [session EXCEPT ![b] = Admitted(request, @)]
     /\ Goto(b, next) /\ Become(b, after)
  \/ /\ ~ link[b] /\ UNCHANGED <<session, due>>
     /\ (Goto(b, next) /\ Become(b, after)) \/ Fail(b)

-----------------------------------------------------------------------------
(***************************************************************************)
(* The lobby: HandshakeToLobby, createStarterCharacter, AuthGameServer,    *)
(* and what scenarios A and C have in their place.                         *)
(***************************************************************************)
SendVersion(b) ==
  /\ Running(b, "lobby")
  /\ \/ Accepted(b) /\ Ask(b, "ProtocolVersion", "key", State[b])
     \/ ~ Accepted(b) /\ Fail(b) /\ UNCHANGED <<session, due>>
  /\ UNCHANGED <<connVars, wire, inKey, srvKey, ctxDone, process>>

(* Scenario C waits for its items: with its deadline ahead, and passed.    *)
Bursting == {"burst", "late"}

(* What is read for at each stage; every other stage does not read.        *)
Expected(s) ==
  CASE s = "key"      -> {"KeyPacket"}
    [] s = "result"   -> {"LoginResult"}
    [] s = "charInfo" -> {"CharSelectionInfo"}
    [] s = "created"  -> {"CharCreateSuccess"}
    [] s = "selected" -> {"CharSelected"}
    [] s \in Bursting -> {"ItemList", "Die"}
    [] OTHER          -> {}

Reading(b) == process = "running" /\ Expected(stage[b]) # {}
HeadOp(b) == Head(wire[b]).op
Arrived(b, s, op) ==
  Reading(b) /\ stage[b] = s /\ wire[b] # << >> /\ HeadOp(b) = op

(* Read, then Decrypt in place.                                            *)
Recv(b) ==
  /\ wire' = [wire EXCEPT ![b] = Tail(@)]
  /\ inKey' = [inKey EXCEPT ![b] = Roll(@, HeadOp(b))]

ReadKey(b) ==
  /\ Arrived(b, "key", "KeyPacket")
  /\ Recv(b) /\ Ask(b, "AuthLogin", "result", "GSHandshake")
  /\ UNCHANGED <<connVars, srvKey, ctxDone, process>>

ReadResult(b) ==
  /\ Arrived(b, "result", "LoginResult")
  /\ Recv(b) /\ Goto(b, "charInfo")
  /\ UNCHANGED <<State, connVars, session, due, srvKey, ctxDone, process>>

(* An account without a character gets one first.                          *)
ReadCharInfo(b) ==
  /\ Arrived(b, "charInfo", "CharSelectionInfo")
  /\ Recv(b)
  /\ \/ Ask(b, "CharacterCreate", "created", State[b])
     \/ Ask(b, "CharacterSelect", "selected", State[b])
  /\ UNCHANGED <<connVars, srvKey, ctxDone, process>>

ReadCreated(b) ==
  /\ Arrived(b, "created", "CharCreateSuccess")
  /\ Recv(b) /\ Ask(b, "CharacterSelect", "selected", State[b])
  /\ UNCHANGED <<connVars, srvKey, ctxDone, process>>

(* Scenario A asserts at once where the character is, C waits for its      *)
(* items, the load loop begins.                                            *)
Entered == CASE Scenario = "A" -> "close" [] Scenario = "C" -> "burst" [] OTHER -> "world"

EnterWorld(b, after) ==
  /\ Arrived(b, "selected", "CharSelected")
  /\ Recv(b) /\ Ask(b, "EnterWorld", Entered, after)
  /\ UNCHANGED <<connVars, srvKey, ctxDone, process>>

(* Mutant of ReadSelected: the State is not advanced, the loop refuses.    *)
ReadSelectedSilently(b) == EnterWorld(b, State[b])

ReadSelected(b) == EnterWorld(b, "GSLoggedIn")

(* The items (of the second list) or the death of the character; with      *)
(* items, one is used.                                                     *)
ReadBurst(b) ==
  /\ \E s \in Bursting, op \in {"ItemList", "Die"} : Arrived(b, s, op)
  /\ Recv(b) /\ Goto(b, "close")
  /\ UNCHANGED <<State, connVars, session, due, srvKey, ctxDone, process>>

Loops(b) == stage[b] \in {"selected"} \cup Bursting

Uninteresting(b) ==
  /\ Reading(b) /\ Loops(b) /\ wire[b] # << >>
  /\ HeadOp(b) \notin Expected(stage[b]) \cup {"empty", "CutSelected"}

(* Mutant of Discard: what is skipped is not decrypted.                    *)
DiscardEncrypted(b) ==
  /\ Uninteresting(b)
  /\ wire' = [wire EXCEPT ![b] = Tail(@)]
  /\ UNCHANGED <<stage, State, connVars, session, due, inKey, srvKey, ctxDone, process>>

(* Mutant of Discard: every packet is granted the 15 seconds anew.         *)
DiscardExtends(b) ==
  /\ Uninteresting(b)
  /\ Recv(b) /\ Goto(b, IF stage[b] = "late" THEN "burst" ELSE stage[b])
  /\ UNCHANGED <<State, connVars, session, due, srvKey, ctxDone, process>>

(* The two loops skip what they do not wait for.                           *)
Discard(b) ==
  /\ Uninteresting(b)
  /\ Recv(b)
  /\ UNCHANGED <<stage, State, connVars, session, due, srvKey, ctxDone, process>>

(* Anywhere else it is an error.                                           *)
Unexpected(b) ==
  /\ Reading(b) /\ ~ Loops(b) /\ wire[b] # << >>
  /\ HeadOp(b) \notin Expected(stage[b])
  /\ HeadOp(b) = "empty" => stage[b] = "key"
  /\ Recv(b) /\ Fail(b)
  /\ UNCHANGED <<connVars, session, due, srvKey, ctxDone, process>>

(* An empty packet has no opcode.  The scenarios skip it in their loops    *)
(* and refuse it as the reply to a create; the other reads of theirs, and  *)
(* all of the load path, index data[0] and panic.                          *)
Empty(b) ==
  Reading(b) /\ stage[b] # "key" /\ wire[b] # << >> /\ HeadOp(b) = "empty"

Skips(b) == Loops(b) /\ Scenario # "none"

KeepAlive(b) ==
  /\ Empty(b) /\ Skips(b)
  /\ Recv(b)
  /\ UNCHANGED <<stage, State, connVars, session, due, srvKey, ctxDone, process>>

(* As does DecodeCharSelected of a packet cut in its last coordinate (see  *)
(* Cursor).                                                                *)
Fatal(b) ==
  \/ Empty(b) /\ ~ Skips(b)
  \/ Arrived(b, "selected", "CutSelected")

(* Mutant of Recovers: a scenario has no recover either.                   *)
NeverRecovers == FALSE

(* RunScenario recovers from a panic and returns an error.                 *)
Recovers == Scenario # "none"

Recover(b) ==
  /\ Fatal(b) /\ Recovers
  /\ Recv(b) /\ Fail(b)
  /\ UNCHANGED <<connVars, session, due, srvKey, ctxDone, process>>

Panic(b) ==
  /\ Fatal(b) /\ ~ Recovers
  /\ Recv(b) /\ Crash
  /\ UNCHANGED <<session, due, srvKey>>

(* Mutant of ReadFails: the loops try again.                               *)
ReadFailsOnce(b) ==
  /\ Reading(b) /\ ~ link[b] /\ ~ Loops(b)
  /\ Fail(b)
  /\ UNCHANGED <<connVars, lobbyVars, ctxDone, process>>

ReadFails(b) ==
  /\ Reading(b) /\ ~ link[b]
  /\ Fail(b)
  /\ UNCHANGED <<connVars, lobbyVars, ctxDone, process>>

(* Only scenario C sets a deadline, once for the whole burst.              *)
Deadline(b) ==
  /\ Running(b, "burst")
  /\ Goto(b, "late")
  /\ UNCHANGED <<State, connVars, lobbyVars, ctxDone, process>>

ReadTimeout(b) ==
  /\ Running(b, "late")
  /\ Fail(b)
  /\ UNCHANGED <<connVars, lobbyVars, ctxDone, process>>

Read(b) ==
  \/ ReadKey(b) \/ ReadResult(b) \/ ReadCharInfo(b) \/ ReadCreated(b)
  \/ ReadSelected(b) \/ ReadBurst(b) \/ Discard(b) \/ Unexpected(b)
  \/ KeepAlive(b) \/ Recover(b) \/ Panic(b) \/ ReadFails(b)

-----------------------------------------------------------------------------
(***************************************************************************)
(* The world and the end.                                                  *)
(***************************************************************************)

(* RunGameLoop: refused, or in the world until the interrupt, then Logout. *)
RunGameLoop(b) ==
  /\ Running(b, "world")
  /\ Accepted(b) => ctxDone
  /\ session' = IF Accepted(b) /\ link[b] THEN [session EXCEPT ![b] = "loggedOut"]
                ELSE session
  /\ Goto(b, "close")
  /\ UNCHANGED <<State, connVars, due, wire, inKey, srvKey, ctxDone, process>>

Close(b) ==
  /\ Running(b, "close")
  /\ Goto(b, "ended")
  /\ conn' = [conn EXCEPT ![b] = IF @ = "open" THEN "closed" ELSE @]
  /\ gsConn' = [gsConn EXCEPT ![b] = IF @ = "open" THEN "closed" ELSE @]
  /\ UNCHANGED <<State, link, lobbyVars, ctxDone, process>>

Cancel ==
  /\ process = "running" /\ ~ ctxDone
  /\ ctxDone' = TRUE
  /\ UNCHANGED <<stage, State, connVars, lobbyVars, process>>

(* runFleet has waited for every bot; run returns.                         *)
Exit ==
  /\ process = "running"
  /\ \A b \in Bots : stage[b] = "ended"
  /\ process' = "exited"
  /\ UNCHANGED <<stage, State, connVars, lobbyVars, ctxDone>>

Finished == process # "running" /\ UNCHANGED vars

RunBot(b) ==
  \/ AwaitSlot(b) \/ Connect(b) \/ LoginServer(b) \/ ConnectToGameServer(b)
  \/ SendVersion(b) \/ Read(b) \/ RunGameLoop(b) \/ Close(b)

Server(b) == Transmit(b) \/ Chatter(b)

Next ==
  \/ \E b \in Bots : RunBot(b) \/ Deadline(b) \/ ReadTimeout(b) \/ Server(b) \/ Lose(b)
  \/ Cancel \/ Exit \/ Finished

Spec == Init /\ [][Next]_vars

(* Bots that can run are scheduled, timers and deadlines fire, and what a  *)
(* server has sent arrives.  No server has to answer.                      *)
Fairness ==
  /\ \A b \in Bots :
       /\ WF_vars(RunBot(b)) /\ WF_vars(Transmit(b))
       /\ WF_vars(Deadline(b)) /\ WF_vars(ReadTimeout(b))
  /\ WF_vars(Exit)

FairSpec == Spec /\ Fairness

-----------------------------------------------------------------------------
(***************************************************************************)
(* Properties.                                                             *)
(***************************************************************************)
Stages == {"ramp", "connect", "init", "authGG", "login", "serverList", "selectServer",
           "connectGS", "lobby", "key", "result", "charInfo", "created", "selected",
           "burst", "late", "world", "close", "ended"}

Ops == {"KeyPacket", "LoginResult", "CharSelectionInfo", "CharCreateSuccess",
        "CharCreateFail", "CharSelected", "CutSelected", "ItemList", "Die", "other", "empty"}

(* Every variable has its type, and no call of the pipeline (runBot,       *)
(* main.go:178-268) is refused for its State: the success of each call     *)
(* leaves the State the next one demands.                                  *)
StageInv ==
  /\ stage \in [Bots -> Stages]
  /\ State \in [Bots -> States]
  /\ conn \in [Bots -> {"nil", "open", "closed"}]
  /\ gsConn \in [Bots -> {"nil", "open", "closed"}]
  /\ link \in [Bots -> BOOLEAN]
  /\ session \in [Bots -> {"none", "lobby", "inWorld", "loggedOut", "lost"}]
  /\ due \in [Bots -> Seq(Ops)]
  /\ wire \in [Bots -> Seq([op : Ops, key : 0 .. KeyMod])]
  /\ inKey \in [Bots -> 0 .. KeyMod]
  /\ srvKey \in [Bots -> 0 .. KeyMod]
  /\ ctxDone \in BOOLEAN
  /\ process \in {"running", "exited", "panicked"}
  /\ \A b \in Bots : Accepted(b)

(* A bot reads every packet with the key it was encrypted with, the key    *)
(* packet and what precedes it in plain, whatever it skips on the way      *)
(* (GameCrypt.Decrypt on every path, client.go:354-361 and 506).           *)
ReadsInStep ==
  \A b \in Bots : wire[b] # << >> /\ Expected(stage[b]) # {} =>
    Head(wire[b]).key = inKey[b]

(* A bot that entered the world keeps its connection until it has logged   *)
(* out (RunGameLoop before the deferred Close), so that it leaves no ghost *)
(* session behind (README.md:16).  A panic excuses it.                     *)
NoGhosts ==
  process # "panicked" =>
    \A b \in Bots : session[b] = "inWorld" => gsConn[b] = "open"

(* The same of what happens after an interrupt only.                       *)
CleanLogout ==
  [][ \A b \in Bots : ctxDone /\ session[b] = "inWorld" /\ gsConn[b] = "open"
        => gsConn'[b] = "open" ]_vars

(* No error return, at any call of any bot, leaves a connection open when  *)
(* the process ends (the deferred Close, main.go:196).                     *)
AllClosed ==
  process # "running" => \A b \in Bots : "open" \notin {conn[b], gsConn[b]}

(* An empty keep-alive packet does not end the process and with it every   *)
(* bot (scenario.go:304-306).                                              *)
NoPanic == process # "panicked"

(* What the servers see of each bot is a visit in good order: one server   *)
(* at a time, lobby before world, Logout after the interrupt and before    *)
(* the end of the connection (runBot, main.go:178-240; README.md:16).      *)
(* With a scenario, no packet of the game server ends the process, and so  *)
(* the visit of every other bot: only one of the login server can, since   *)
(* loginPipeline is outside of RunScenario's recover (main.go:198, 225).   *)
Visits == INSTANCE BotVisit WITH
  Tested <- Scenario # "none", loginConn <- conn, gameConn <- gsConn,
  interrupted <- ctxDone

VisitsRefined == Visits!Spec

(* After the interrupt the fleet ends, wherever its bots are: on the ramp, *)
(* in the middle of a login or in the world (main.go:84-94, 164-174).      *)
ExitsOnInterrupt == ctxDone ~> process # "running"

(* Scenario C ends even if the server falls silent after EnterWorld, and   *)
(* even if it never stops sending packets that are skipped: its deadline   *)
(* is for the whole burst (scenario.go:81-83).                             *)
BurstEnds ==
  \A b \in Bots :
    stage[b] \in Bursting ~> stage[b] \in {"close", "ended"} \/ process = "panicked"

=============================================================================
