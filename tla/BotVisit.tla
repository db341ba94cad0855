------------------------------ MODULE BotVisit ------------------------------
(***************************************************************************)
(* What the fleet promises the two servers: each bot is connected to one   *)
(* of them at a time, comes once, and passes through the lobby into the    *)
(* world.  On the load path it leaves the world with a Logout, after an    *)
(* interrupt, and hangs up after that.  A tested bot, one that runs a      *)
(* scenario, may hang up in the world, and if the process ends early it is *)
(* for what the login server has sent to one of them.                      *)
(***************************************************************************)
CONSTANTS
  Bots,
  Tested  \* the bots run a scenario

VARIABLES
  loginConn,    \* of each bot: "nil", "open" or "closed"
  gameConn,
  session,      \* its place: "none", "lobby", "inWorld", "loggedOut", "lost"
  interrupted,
  process       \* "running", "exited" or "panicked"

vars == <<loginConn, gameConn, session, interrupted, process>>

Init ==
  /\ loginConn = [b \in Bots |-> "nil"] /\ gameConn = [b \in Bots |-> "nil"]
  /\ session = [b \in Bots |-> "none"]
  /\ interrupted = FALSE
  /\ process = "running"

DialLogin(b) ==
  /\ loginConn[b] = "nil" /\ gameConn[b] = "nil"
  /\ loginConn' = [loginConn EXCEPT ![b] = "open"]
  /\ UNCHANGED <<gameConn, session>>

(* From the login server to the game server.                               *)
HandOver(b) ==
  /\ loginConn[b] = "open" /\ gameConn[b] = "nil"
  /\ loginConn' = [loginConn EXCEPT ![b] = "nil"]
  /\ gameConn' = [gameConn EXCEPT ![b] = "open"]
  /\ UNCHANGED session

Pass(b, from, to) ==
  /\ gameConn[b] = "open" /\ session[b] = from
  /\ session' = [session EXCEPT ![b] = to]
  /\ UNCHANGED <<loginConn, gameConn>>

Knock(b)  == Pass(b, "none", "lobby")
Enter(b)  == Pass(b, "lobby", "inWorld")
Logout(b) == interrupted /\ Pass(b, "inWorld", "loggedOut")

LoseConnection(b) ==
  /\ gameConn[b] = "open"
  /\ session' = [session EXCEPT ![b] = "lost"]
  /\ UNCHANGED <<loginConn, gameConn>>

HungUp(line) == IF line = "open" THEN "closed" ELSE line

HangUp(b) ==
  /\ Tested \/ session[b] # "inWorld"
  /\ loginConn' = [loginConn EXCEPT ![b] = HungUp(@)]
  /\ gameConn' = [gameConn EXCEPT ![b] = HungUp(@)]
  /\ UNCHANGED session

Visit(b) ==
  /\ \/ DialLogin(b) \/ HandOver(b) \/ Knock(b) \/ Enter(b) \/ Logout(b)
     \/ LoseConnection(b) \/ HangUp(b)
  /\ UNCHANGED <<interrupted, process>>

Interrupt ==
  /\ interrupted' = TRUE
  /\ UNCHANGED <<loginConn, gameConn, session, process>>

Exit ==
  /\ \A b \in Bots : "open" \notin {loginConn[b], gameConn[b]}
  /\ process' = "exited"
  /\ UNCHANGED <<loginConn, gameConn, session, interrupted>>

(* The process ends in the middle of everything.                           *)
Crash ==
  /\ Tested => \E b \in Bots : loginConn[b] = "open"
  /\ process' = "panicked"
  /\ loginConn' = [b \in Bots |-> "closed"] /\ gameConn' = [b \in Bots |-> "closed"]
  /\ UNCHANGED <<session, interrupted>>

Next ==
  /\ process = "running"
  /\ (\E b \in Bots : Visit(b)) \/ Interrupt \/ Exit \/ Crash

Spec == Init /\ [][Next]_vars

=============================================================================
