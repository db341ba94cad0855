----------------------------- MODULE TargetRing -----------------------------
(***************************************************************************)
(* The list of potential targets of a bot: Client.npcs and Client.npcsNext *)
(* (internal/client/client.go:947-986).  The read loop calls addTarget for *)
(* every NpcInfo and CharInfo packet; the action loop reads the list.  All *)
(* accesses hold npcsMu from the first to the last line, so each operation *)
(* is one step.                                                            *)
(***************************************************************************)
EXTENDS Naturals, Sequences

CONSTANTS
  ObjectIds,  \* the ids a packet may carry
  Self,       \* c.objectID, written before the read loop starts
  NoObject,   \* the id 0
  Capacity    \* 256 in the code

ASSUME RingAssumption ==
  /\ Capacity \in Nat \ {0}
  /\ Self \in ObjectIds
  /\ NoObject \in ObjectIds

VARIABLES
  npcs,      \* the tracked ids, in array order
  npcsNext   \* index (from 0) of the entry to replace next

ringVars == <<npcs, npcsNext>>

Init ==
  /\ npcs = << >>
  /\ npcsNext = 0

(***************************************************************************)
(* addTarget: its early returns, the append, and the ring replacement.     *)
(***************************************************************************)
Tracked(id) == \E i \in 1 .. Len(npcs) : npcs[i] = id

(* Mutant of Ignores: ids are not looked up before they are added.         *)
IgnoresOnlySelf(id) == id \in {NoObject, Self}

(* Mutant of Ignores: the bot's own id is an id like any other.            *)
IgnoresTracked(id) == id = NoObject \/ Tracked(id)

Ignores(id) == id \in {NoObject, Self} \/ Tracked(id)

AppendTarget(id) ==
  /\ Len(npcs) < Capacity
  /\ npcs' = Append(npcs, id)
  /\ UNCHANGED npcsNext

(* Mutant of ReplaceOldest: the index does not advance.                    *)
ReplaceInPlace(id) ==
  /\ Len(npcs) >= Capacity
  /\ npcs' = [npcs EXCEPT ![npcsNext + 1] = id]
  /\ UNCHANGED npcsNext

ReplaceOldest(id) ==
  /\ Len(npcs) >= Capacity
  /\ npcs' = [npcs EXCEPT ![npcsNext + 1] = id]
  /\ npcsNext' = IF npcsNext + 1 >= Capacity THEN 0 ELSE npcsNext + 1

Record(id) ==
  /\ ~ Ignores(id)
  /\ AppendTarget(id) \/ ReplaceOldest(id)

AddTarget(id) ==
  \/ Record(id)
  \/ Ignores(id) /\ UNCHANGED ringVars

(***************************************************************************)
(* randomTarget returns any member of RandomTargets, or false when there   *)
(* is none; targetCount is the length of the list.                         *)
(***************************************************************************)
RandomTargets == {npcs[i] : i \in 1 .. Len(npcs)}

TargetCount == Len(npcs)

-----------------------------------------------------------------------------

Next == \E id \in ObjectIds : Record(id)

Spec == Init /\ [][Next]_ringVars

-----------------------------------------------------------------------------

RingTypeOK ==
  /\ npcs \in Seq(ObjectIds)
  /\ npcsNext \in Nat

(***************************************************************************)
(* The replacement index stays inside the array, and stays at 0 until the  *)
(* array is full: no slot is skipped or written past the end               *)
(* (client.go:960-968).                                                    *)
(***************************************************************************)
RingBounded ==
  /\ Len(npcs) <= Capacity
  /\ npcsNext < Capacity
  /\ Len(npcs) < Capacity => npcsNext = 0

(***************************************************************************)
(* A bot never lists an object twice, nor itself, whatever order packets   *)
(* arrive in and however often the ring has wrapped (client.go:952-959).   *)
(***************************************************************************)
NoDuplicates ==
  \A i, j \in 1 .. Len(npcs) : npcs[i] = npcs[j] => i = j

NeverSelf == \A i \in 1 .. Len(npcs) : npcs[i] \notin {NoObject, Self}

RingInv == RingTypeOK /\ RingBounded /\ NoDuplicates /\ NeverSelf

(***************************************************************************)
(* The array read from the replacement index onwards is the window of      *)
(* TargetFifo, oldest entry first.                                         *)
(***************************************************************************)
ReadFrom(k, s) ==
  [i \in 1 .. Len(s) |-> IF k + i <= Len(s) THEN s[k + i] ELSE s[k + i - Len(s)]]

OldestFirst == ReadFrom(npcsNext, npcs)

Fifo == INSTANCE TargetFifo WITH window <- OldestFirst

(***************************************************************************)
(* The ring evicts in order of arrival: it implements the sliding window   *)
(* ("ring-replaces the oldest entry", client.go:947-950).                  *)
(***************************************************************************)
EvictsOldest == Fifo!Spec

=============================================================================
