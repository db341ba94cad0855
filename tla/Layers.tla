------------------------------- MODULE Layers -------------------------------
(***************************************************************************)
(* The layers below the bots, for model checking: the wire of the game     *)
(* connection, the decoders, the login cipher, the character lobby and the *)
(* logger.  They share no state; a behaviour exercises one of them while   *)
(* the others rest, so that one run checks all.                            *)
(***************************************************************************)
EXTENDS Wire, Cursor, LoginCipher, Lobby, LineLog

LOCAL B == INSTANCE Bitwise

VARIABLE layer

vars == <<layer, wireVars, cursorVars, loginVars, lobbyVars, lineVars>>

Init ==
  /\ layer \in {"wire", "cursor", "login", "lobby", "log"}
  /\ WireInit /\ CursorInit /\ LoginInit /\ LobbyInit /\ LineInit
  /\ layer # "lobby" => login = <<"b", "_", "1">>

OnWire ==
  /\ layer = "wire" /\ WireNext
  /\ UNCHANGED <<layer, cursorVars, loginVars, lobbyVars, lineVars>>

OnCursor ==
  /\ layer = "cursor" /\ CursorNext
  /\ UNCHANGED <<layer, wireVars, loginVars, lobbyVars, lineVars>>

OnLogin ==
  /\ layer = "login" /\ LoginNext
  /\ UNCHANGED <<layer, wireVars, cursorVars, lobbyVars, lineVars>>

OnLobby ==
  /\ layer = "lobby" /\ LobbyNext
  /\ UNCHANGED <<layer, wireVars, cursorVars, loginVars, lineVars>>

OnLog ==
  /\ layer = "log" /\ LineNext
  /\ UNCHANGED <<layer, wireVars, cursorVars, loginVars, lobbyVars>>

(* Where a layer may stop: a decoder or DecryptInit has panicked, a bound  *)
(* is reached and nothing is under way, a connection is of no more use.    *)
Over ==
  CASE layer = "wire"   -> rpc = "failed" \/ (Len(sent) = MaxPackets /\ received = sent)
    [] layer = "cursor" -> outcome = "panicked"
    [] layer = "login"  -> lpc = "panicked" \/ requests = MaxRequests
    [] layer = "lobby"  -> phase = "idle" /\ runs = MaxRuns
    [] layer = "log"    -> dead \/ returned = MaxLines

Stopped == Over /\ UNCHANGED vars

Next == OnWire \/ OnCursor \/ OnLogin \/ OnLobby \/ OnLog \/ Stopped

(* The Reader reads on as long as bytes arrive.                            *)
Spec == Init /\ [][Next]_vars /\ WF_vars(OnWire /\ Receive)

-----------------------------------------------------------------------------
(***************************************************************************)
(* The constants of the run: small words, keys, fields and names that keep *)
(* the order and the overlaps of the real ones.                            *)
(***************************************************************************)
LayersXor(a, b) == B!^^(a, b)

LayersKey == [x \in 0 .. 1 |-> IF x = 0 THEN 2 ELSE 0]
LayersPayloads == {<<0, 0>>, <<3, 1>>}

(* Around each test of the decoders, and around two entries of a list.     *)
LayersLengths == (0 .. 100) \cup (168 .. 171) \cup (428 .. 445) \cup (850 .. 866)

(* Of one block, of two and of three.                                      *)
LayersGreetings ==
  {<<1, 0>>, <<1, 2, 0, 3>>} \cup {<<1, a, b, c, 0, 2>> : a, b, c \in 0 .. 3}

(* One bit each: the steps of the scrambling are linear.                   *)
LayersModuli == {[x \in 0 .. 5 |-> IF x = y THEN 1 ELSE 0] : y \in 0 .. 5}

(* Texts that fit their fields, fill them, and reach into the next ones.   *)
Ones(n) == [k \in 1 .. n |-> 1]
LayersAccounts == {Ones(n) : n \in {1, 2, 4, 8}}
LayersPasswords == {Ones(n) : n \in {1, 5}}
LayersSessionId == <<1, 0, 1, 1>>
LayersRequests == {<<1>>, <<1, 0, 1, 1, 1, 0, 1, 1>>, <<0, 1, 1>>}

(* Of the second the names of scenario A and of slot 1 are the same; the   *)
(* third is longer than a name may be, with and without its digit.         *)
LayersLogins ==
  {<<"b", "_", "1">>, <<"b", "2", "_", "1">>, <<"2", "1", "2", "_", "1", "b">>}
LayersFallback == <<"b">>
LayersOthers == {<<"b", "1", "0">>}
LayersSpawns == {<<0, 2>>, <<3, 0>>, <<4, 0>>}

=============================================================================
