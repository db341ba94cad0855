------------------------------- MODULE Lobby -------------------------------
(***************************************************************************)
(* One account at the character lobby, run after run: scenario B, which    *)
(* creates up to three characters and then deletes, restores and selects   *)
(* the one in slot 1 (internal/client/scenario.go:123-185), and scenario   *)
(* A, which needs one character and asserts where it appears (222-261).    *)
(* A run may fail at any step; the account stays as it is for the next.    *)
(*                                                                         *)
(* The server is external.  It obeys, or goes astray at most once a run:   *)
(* the scenarios exist to notice that.  The handshake before the first     *)
(* list and the bytes of the packets are left to Fleet, Wire and Cursor.   *)
(***************************************************************************)
EXTENDS Integers, Sequences

CONSTANTS
  Logins,          \* the names the account may have, sequences of symbols
  Alnum,           \* the symbols a character's name may have
  NameMax,         \* the longest name of a character: 16
  NameMin,         \* the shortest that is derived from an account: 3
  Fallback,        \* the name used for a shorter one: "BotTestPlayer"
  Others,          \* names that the bots of other accounts may take
  StarterClasses,  \* the class of scenario A, by the index of the bot
  Scenarios,       \* what is run: "A", "B"
  MaxRuns,         \* bound: the number of runs
  Radius,          \* how far from its village a character may appear
  HalfWord,        \* a coordinate is in -HalfWord .. HalfWord - 1: 2^31
  Spawns,          \* how far from the village it does appear, as <<dx, dy>>
  Trouble          \* "lose", "noise", "cut", "purge", "astray"

Classes == <<0, 10, 18>>

ASSUME LobbyAssumption ==
  /\ \A name \in Logins : name \in Seq(STRING)
  /\ {"0", "1", "2"} \subseteq Alnum /\ Alnum \subseteq STRING
  /\ Fallback \in Seq(Alnum) /\ Len(Fallback) <= NameMax
  /\ NameMax \in Nat /\ NameMax >= 2 /\ NameMin \in Nat
  /\ StarterClasses \subseteq Nat
  /\ Scenarios \subseteq {"A", "B"}
  /\ MaxRuns \in Nat
  /\ Radius \in Nat /\ HalfWord \in Nat \ {0}
  /\ Spawns \subseteq Int \X Int
  /\ Trouble \subseteq {"lose", "noise", "cut", "purge", "astray"}

VARIABLES
  login,       \* the name of the account
  account,     \* the server's list of characters; slot s is entry s + 1
  taken,       \* names of characters of other accounts
  phase,       \* what the client reads for; "idle" between two runs
  scenario,    \* the scenario of the run
  class,       \* the class scenario A was started with
  slot,        \* the slot of the character that is being created
  request,     \* the request the server has yet to serve
  inbox,       \* what it has sent
  connected,   \* the connection works
  verdict,     \* of the last run: "none", "pass" or "fail"
  selected,    \* the entry the server selected, and how far from its
  spawn,       \*   village the character appeared
  amiss,       \* history: the requests of this run the server went astray on
  spoiled,     \* history: it did so in this run or an earlier one
  purged,      \* history: a timer has expired
  disturbed,   \* history: this run lost its connection or got a bad packet
  wasPending,  \* history: slot 1 was pending deletion when the run began
  runs         \* the number of runs so far

serverVars == <<account, taken, selected, spawn, amiss, spoiled, purged>>
netVars    == <<request, inbox, connected, disturbed>>
runVars    == <<login, scenario, class, wasPending, runs>>
clientVars == <<phase, slot, verdict>>
lobbyVars  == <<serverVars, netVars, runVars, clientVars>>

None == [op |-> "none"]

LobbyInit ==
  /\ login \in Logins /\ account = << >> /\ taken = {}
  /\ phase = "idle" /\ scenario = "B" /\ class = 0 /\ slot = 0
  /\ request = None /\ inbox = << >> /\ connected = TRUE
  /\ verdict = "none" /\ selected = 0 /\ spawn = <<0, 0>>
  /\ amiss = {} /\ spoiled = FALSE /\ purged = FALSE /\ disturbed = FALSE /\ wasPending = FALSE
  /\ runs = 0

-----------------------------------------------------------------------------
(***************************************************************************)
(* Names.                                                                  *)
(***************************************************************************)
Shortened(name, n) == IF Len(name) > n THEN SubSeq(name, 1, n) ELSE name

(* What is left of a name, symbol after symbol.                            *)
Letters(name) ==
  LET kept[k \in 0 .. Len(name)] ==
        IF k = 0 THEN << >>
        ELSE IF name[k] \in Alnum THEN Append(kept[k - 1], name[k]) ELSE kept[k - 1]
  IN  kept[Len(name)]

SanitizeName ==
  LET valid == Shortened(Letters(login), NameMax)
  IN  IF Len(valid) < NameMin THEN Fallback ELSE valid

Digit(s) == <<"0", "1", "2">>[s + 1]

(* Mutants of SlotName: every slot has the name of the account; the name   *)
(* is not cut.                                                             *)
SlotNameConstant(s) == Shortened(SanitizeName, NameMax - 2)
SlotNameUncut(s) == Append(SanitizeName, Digit(s))

SlotName(s) == Append(Shortened(SanitizeName, NameMax - 2), Digit(s))

OwnNames == {account[i].name : i \in DOMAIN account}

-----------------------------------------------------------------------------
(***************************************************************************)
(* The server.                                                             *)
(***************************************************************************)
Character(n, c) == [name |-> n, class |-> c, pending |-> FALSE]

(* It does not do what this run asked of it.                               *)
Astray(kind) ==
  /\ "astray" \in Trouble /\ amiss = {}
  /\ amiss' = {kind} /\ spoiled' = TRUE

Obeys == UNCHANGED <<amiss, spoiled>>

(* A packet nobody asked for may come first; only the wait for             *)
(* CharSelected bears it.                                                  *)
Reply(packet) ==
  \/ inbox' = <<packet>> /\ UNCHANGED disturbed
  \/ /\ "noise" \in Trouble
     /\ \E op \in {"empty", "other"} : inbox' = <<[op |-> op], packet>>
     /\ disturbed' = (disturbed \/ packet.op # "CharSelected")

CharSelectionInfo(chars, whole) ==
  [op |-> "CharSelectionInfo", chars |-> chars, whole |-> whole]

ReplyList(chars) ==
  \/ Reply(CharSelectionInfo(chars, TRUE))
  \/ /\ "cut" \in Trouble
     /\ inbox' = <<CharSelectionInfo(chars, FALSE)>> /\ disturbed' = TRUE

Asked(op) == request.op = op /\ request' = None

ServeLogin ==
  /\ Asked("AuthLogin")
  /\ ReplyList(account)
  /\ Obeys /\ UNCHANGED <<account, taken, selected, spawn>>

ServeCreate ==
  /\ Asked("CharacterCreate")
  /\ \/ /\ request.name \in taken \cup OwnNames
        /\ Reply([op |-> "CharCreateFail"])
        /\ Obeys /\ UNCHANGED account
     \/ /\ request.name \notin taken \cup OwnNames
        /\ Reply([op |-> "CharCreateSuccess"])
        /\ \/ account' = Append(account, Character(request.name, request.class)) /\ Obeys
           \/ /\ Astray("create")
              /\ \E i \in 1 .. 3 :
                   /\ Classes[i] # request.class
                   /\ account' = Append(account, Character(request.name, Classes[i]))
  /\ UNCHANGED <<taken, selected, spawn>>

(* Delete starts the timer of a slot, restore stops it.  Astray, nothing   *)
(* happens or it happens to another slot.                                  *)
Marked(i, p) == [account EXCEPT ![i].pending = p]

ServeMark(op, kind, p) ==
  /\ Asked(op)
  /\ \/ account' = Marked(request.slot + 1, p) /\ Obeys
     \/ /\ Astray(kind)
        /\ \/ UNCHANGED account
           \/ \E i \in DOMAIN account \ {request.slot + 1} : account' = Marked(i, p)
  /\ ReplyList(account')
  /\ UNCHANGED <<taken, selected, spawn>>

ServeSelect ==
  /\ Asked("CharacterSelect")
  /\ \E i \in DOMAIN account :
       /\ \/ i = request.slot + 1 /\ Obeys
          \/ i # request.slot + 1 /\ Astray("select")
       /\ selected' = i
       /\ Reply([op |-> "CharSelected", class |-> account[i].class])
  /\ spawn' \in Spawns
  /\ UNCHANGED <<account, taken>>

Serve ==
  /\ connected
  /\ \/ ServeLogin \/ ServeCreate \/ ServeSelect
     \/ ServeMark("CharacterDelete", "delete", TRUE)
     \/ ServeMark("CharacterRestore", "restore", FALSE)
  /\ UNCHANGED <<purged, connected, runVars, clientVars>>

(* Between two runs a timer expires: the entries behind it move up.        *)
Purge ==
  /\ "purge" \in Trouble /\ phase = "idle"
  /\ \E i \in DOMAIN account :
       /\ account[i].pending
       /\ account' = SubSeq(account, 1, i - 1) \o SubSeq(account, i + 1, Len(account))
  /\ purged' = TRUE
  /\ UNCHANGED <<taken, selected, spawn, amiss, spoiled, netVars, runVars, clientVars>>

(* Another bot creates a character.                                        *)
OthersCreate ==
  /\ \E name \in Others \ (taken \cup OwnNames) : taken' = taken \cup {name}
  /\ UNCHANGED <<account, selected, spawn, amiss, spoiled, purged, netVars, runVars, clientVars>>

LoseLobby ==
  /\ "lose" \in Trouble /\ phase # "idle" /\ connected
  /\ connected' = FALSE /\ disturbed' = TRUE
  /\ UNCHANGED <<request, inbox, serverVars, runVars, clientVars>>

-----------------------------------------------------------------------------
(***************************************************************************)
(* The client.                                                             *)
(***************************************************************************)
StartRun ==
  /\ phase = "idle" /\ runs < MaxRuns
  /\ scenario' \in Scenarios
  /\ class' \in (IF scenario' = "A" THEN StarterClasses ELSE {0})
  /\ phase' = "list" /\ request' = [op |-> "AuthLogin"]
  /\ runs' = runs + 1 /\ connected' = TRUE /\ verdict' = "none"
  /\ amiss' = {} /\ disturbed' = FALSE
  /\ wasPending' = (Len(account) >= 2 /\ account[2].pending)
  /\ UNCHANGED <<login, account, taken, selected, spawn, spoiled, purged, inbox, slot>>

(* Send: over a lost connection it fails, now or at the read.              *)
Ask(req, next) == request' = req /\ phase' = next /\ UNCHANGED verdict

Finish(v) == request' = None /\ phase' = "idle" /\ verdict' = v

Reads(p) ==
  /\ phase = p /\ inbox # << >>
  /\ UNCHANGED <<serverVars, runVars, connected, disturbed>>

Got(op) == Head(inbox).op = op

(* A list that cannot be decoded is an error, like any other packet.       *)
GotList == Got("CharSelectionInfo") /\ Head(inbox).whole

Chars == Head(inbox).chars

Create(s) ==
  /\ Ask([op |-> "CharacterCreate", name |-> SlotName(s), class |-> Classes[s + 1]], "created")
  /\ slot' = s

(* Mutant of CharacterDelete: the last character.                          *)
DeleteLast == Ask([op |-> "CharacterDelete", slot |-> 2], "deleted") /\ UNCHANGED slot

CharacterDelete  == Ask([op |-> "CharacterDelete", slot |-> 1], "deleted") /\ UNCHANGED slot
CharacterRestore == Ask([op |-> "CharacterRestore", slot |-> 1], "restored") /\ UNCHANGED slot
CharacterSelect(s) == Ask([op |-> "CharacterSelect", slot |-> s], "selected") /\ UNCHANGED slot

(* Scenario B: the loop over the slots that are empty, then the deletion.  *)
FillFrom(s) == IF s < 3 THEN Create(s) ELSE CharacterDelete

ReadList ==
  /\ Reads("list") /\ GotList
  /\ inbox' = << >>
  /\ \/ scenario = "B" /\ FillFrom(Len(Chars))
     \/ /\ scenario = "A" /\ Chars = << >>
        /\ Ask([op |-> "CharacterCreate", name |-> SanitizeName, class |-> class], "created")
        /\ slot' = 0
     \/ scenario = "A" /\ Chars # << >> /\ CharacterSelect(0)

ReadCreatedLobby ==
  /\ Reads("created") /\ Got("CharCreateSuccess")
  /\ inbox' = << >>
  /\ IF scenario = "B" THEN FillFrom(slot + 1) ELSE CharacterSelect(0)

(* Mutant of OnlySlot1Pending: only slot 1 is looked at.                   *)
Slot1Pending(chars) == Len(chars) >= 3 /\ chars[2].pending

OnlySlot1Pending(chars) ==
  Len(chars) >= 3 /\ chars[2].pending /\ ~ chars[1].pending /\ ~ chars[3].pending

ReadDeleted ==
  /\ Reads("deleted") /\ GotList
  /\ inbox' = << >>
  /\ IF OnlySlot1Pending(Chars) THEN CharacterRestore ELSE Finish("fail") /\ UNCHANGED slot

(* Mutant of Restored: any list will do.                                   *)
AnyList(chars) == TRUE

(* A list without a second entry panics, which RunScenario recovers.       *)
Restored(chars) == Len(chars) >= 2 /\ ~ chars[2].pending

ReadRestored ==
  /\ Reads("restored") /\ GotList
  /\ inbox' = << >>
  /\ IF Restored(Chars) THEN CharacterSelect(1) ELSE Finish("fail") /\ UNCHANGED slot

(* Squares of int32 differences.                                           *)
Wrap(n) == ((n + HalfWord) % (2 * HalfWord)) - HalfWord

SquareOf(d) == d[1] * d[1] + d[2] * d[2]

(* Mutant of NearVillage: the comparison is turned around.                 *)
FarFromVillage(d) == Wrap(SquareOf(d)) >= Radius * Radius

NearVillage(d) == Wrap(SquareOf(d)) <= Radius * Radius

Asserted(c) ==
  IF scenario = "B" THEN c = Classes[2] ELSE NearVillage(spawn)

ReadSelectedLobby ==
  /\ Reads("selected") /\ Got("CharSelected")
  /\ inbox' = << >>
  /\ Finish(IF Asserted(Head(inbox).class) THEN "pass" ELSE "fail")
  /\ UNCHANGED slot

SkipUnasked ==
  /\ Reads("selected") /\ ~ Got("CharSelected")
  /\ inbox' = Tail(inbox)
  /\ UNCHANGED <<request, clientVars>>

(* Any other packet ends the run: an empty one by a panic that is          *)
(* recovered, or by the test of the reply to a create.                     *)
Wanted ==
  CASE phase = "list"     -> GotList
    [] phase = "created"  -> Got("CharCreateSuccess")
    [] phase = "deleted"  -> GotList
    [] phase = "restored" -> GotList
    [] OTHER              -> TRUE

RefuseReply ==
  /\ phase # "idle" /\ Reads(phase) /\ ~ Wanted
  /\ inbox' = << >>
  /\ Finish("fail") /\ UNCHANGED slot

(* What had arrived before the connection failed may still be read.        *)
ReadFailsLobby ==
  /\ phase # "idle" /\ ~ connected
  /\ inbox' = << >>
  /\ Finish("fail")
  /\ UNCHANGED <<serverVars, runVars, connected, disturbed, slot>>

Drive ==
  \/ StartRun \/ ReadList \/ ReadCreatedLobby \/ ReadDeleted \/ ReadRestored
  \/ ReadSelectedLobby \/ SkipUnasked \/ RefuseReply \/ ReadFailsLobby

LobbyNext == Drive \/ Serve \/ Purge \/ OthersCreate \/ LoseLobby

LobbySpec == LobbyInit /\ [][LobbyNext]_lobbyVars

-----------------------------------------------------------------------------
(***************************************************************************)
(* Properties.                                                             *)
(***************************************************************************)

(* Whatever the account is called, the client asks for no character with a *)
(* name the server must refuse: one with other symbols than letters and    *)
(* digits or of more than 16 ("valid", scenario.go:210, 326).              *)
ValidName(name) == name \in Seq(Alnum) /\ Len(name) <= NameMax

NamesValid == request.op = "CharacterCreate" => ValidName(request.name)

(* The next character scenario B would create has a name that is in use:   *)
(* by another bot, by a character that has moved up when a timer had       *)
(* expired, or by the one scenario A created for an account whose name is  *)
(* one symbol short of the longest and ends in the digit of the slot.      *)
Blocked ==
  LET name == SlotName(Len(account)) IN
    /\ Len(account) < 3
    /\ \/ name \in taken
       \/ name \in OwnNames /\ (purged \/ name = SanitizeName)

(* A scenario does not cry wolf (scenario.go:130-185, 268-324): wherever   *)
(* earlier runs were cut off, if the server obeys and the connection of    *)
(* this run holds, the run does not fail, unless the name it needs is in   *)
(* use.  Packets nobody asked for are borne while it waits for the         *)
(* character.                                                              *)
NoFalseAlarm ==
  verdict = "fail" /\ ~ spoiled /\ ~ disturbed =>
    \/ scenario = "B" /\ Blocked
    \/ scenario = "A" /\ account = << >> /\ SanitizeName \in taken
    \/ scenario = "A" /\ ~ NearVillage(spawn)

(* What scenario B cannot notice: a wrong class in a slot it does not      *)
(* select, an ignored deletion of what an earlier run left pending, and    *)
(* the selection of another character of the same class.                   *)
Unnoticed(kind) ==
  CASE kind = "create" -> account[2].class = Classes[2]
    [] kind = "delete" -> wasPending
    [] kind = "select" -> selected # 2 /\ account[selected].class = Classes[2]
    [] OTHER           -> FALSE

(* Scenario B passes only if the server did, of all it was asked, what the *)
(* scenario can see: each operation hit the slot it was meant for          *)
(* (scenario.go:126-128).                                                  *)
PassIsEarned ==
  scenario = "B" /\ verdict = "pass" =>
    /\ \A kind \in amiss : Unnoticed(kind)
    /\ Len(account) >= 3 /\ ~ account[2].pending

(* However a run ends, it leaves no character pending but slot 1, if the   *)
(* server obeys (the partial failures of scenario.go:142-160).             *)
OnlySlot1LeftPending ==
  ~ spoiled => \A i \in DOMAIN account : account[i].pending => i = 2

(* Scenario A accepts a character outside its village only if the squares  *)
(* leave the 32-bit word (scenario.go:247-248).                            *)
FarOnlyByWrapping ==
  scenario = "A" /\ verdict = "pass" /\ SquareOf(spawn) > Radius * Radius =>
    SquareOf(spawn) >= HalfWord

=============================================================================
