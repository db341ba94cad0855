----------------------------- MODULE TargetFifo -----------------------------
(***************************************************************************)
(* What the target list of a bot promises, without the array behind it: a  *)
(* window on the objects seen around the bot.  The window keeps the        *)
(* Capacity objects that were tracked last, oldest first; an object        *)
(* already in it is not moved, and the bot itself never enters it.         *)
(* (Comment of addTarget, internal/client/client.go:947-950.)              *)
(***************************************************************************)
EXTENDS Naturals, Sequences

CONSTANTS
  ObjectIds,  \* the ids an NpcInfo or CharInfo packet may carry
  Self,       \* the id of the bot's own character
  NoObject,   \* the id 0
  Capacity    \* 256 in the code

VARIABLE window  \* tracked ids, oldest first

Init == window = << >>

InWindow(id) == \E i \in 1 .. Len(window) : window[i] = id

Observe(id) ==
  /\ id \notin {NoObject, Self}
  /\ ~ InWindow(id)
  /\ window' = IF Len(window) < Capacity
                 THEN Append(window, id)
                 ELSE Append(Tail(window), id)

Next == \E id \in ObjectIds : Observe(id)

Spec == Init /\ [][Next]_window

=============================================================================
