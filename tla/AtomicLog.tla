----------------------------- MODULE AtomicLog -----------------------------
(***************************************************************************)
(* What a logger promises: a call puts out one line of its caller, at once *)
(* and before it returns, and a line is put out by nothing else.           *)
(***************************************************************************)
EXTENDS Naturals

CONSTANT Loggers

VARIABLES
  asking,   \* of each goroutine: is it in a call?
  printed,  \* how many lines of it are out
  down      \* the process has ended

vars == <<asking, printed, down>>

Init ==
  /\ asking = [g \in Loggers |-> FALSE]
  /\ printed = [g \in Loggers |-> 0]
  /\ down = FALSE

Ask(g) ==
  /\ ~ asking[g]
  /\ asking' = [asking EXCEPT ![g] = TRUE]
  /\ UNCHANGED <<printed, down>>

(* The line comes out and the call returns.                                *)
PrintLine(g) ==
  /\ asking[g]
  /\ asking' = [asking EXCEPT ![g] = FALSE]
  /\ printed' = [printed EXCEPT ![g] = @ + 1]
  /\ UNCHANGED down

Crash == down' = TRUE /\ UNCHANGED <<asking, printed>>

Next ==
  /\ ~ down
  /\ (\E g \in Loggers : Ask(g) \/ PrintLine(g)) \/ Crash

Spec == Init /\ [][Next]_vars

=============================================================================
