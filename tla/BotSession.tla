----------------------------- MODULE BotSession -----------------------------
(***************************************************************************)
(* What the load loop of a bot promises the game server: a bot that was    *)
(* interrupted leaves the world with a Logout packet before it hangs up,   *)
(* and says nothing after it, so that no "ghost session" stays behind      *)
(* (README.md:16).  Only a connection that was lost excuses it.            *)
(***************************************************************************)

VARIABLES
  session,      \* how the server sees the bot: "inWorld", "loggedOut" or "lost"
  interrupted,  \* the process was asked to stop
  connected     \* the bot has not closed its end of the connection

vars == <<session, interrupted, connected>>

Init ==
  /\ session = "inWorld"
  /\ interrupted \in BOOLEAN
  /\ connected = TRUE

Interrupt ==
  /\ interrupted' = TRUE
  /\ UNCHANGED <<session, connected>>

Logout ==
  /\ interrupted /\ connected
  /\ session = "inWorld"
  /\ session' = "loggedOut"
  /\ UNCHANGED <<interrupted, connected>>

LoseConnection ==
  /\ session' = "lost"
  /\ UNCHANGED <<interrupted, connected>>

HangUp ==
  /\ interrupted
  /\ session # "inWorld"
  /\ connected' = FALSE
  /\ UNCHANGED <<session, interrupted>>

Next == Interrupt \/ Logout \/ LoseConnection \/ HangUp

Spec == Init /\ [][Next]_vars

=============================================================================
