-------------------------- MODULE TargetRingProofs --------------------------
(***************************************************************************)
(* The target list is well formed for every capacity and every stream of   *)
(* packets, and evicts in order of arrival.                                *)
(***************************************************************************)
EXTENDS TargetRing, SequenceTheorems, TLAPS

(***************************************************************************)
(* One call of addTarget that changes the list keeps it well formed.       *)
(***************************************************************************)
LEMMA AppendKeepsInv ==
  ASSUME RingInv, NEW id \in ObjectIds, ~ Ignores(id), AppendTarget(id)
  PROVE  RingInv'
<1>1. npcs' \in Seq(ObjectIds) /\ Len(npcs') = Len(npcs) + 1
  BY AppendProperties DEF RingInv, RingTypeOK, AppendTarget
<1>2. \A i \in 1 .. Len(npcs) : npcs'[i] = npcs[i]
  BY AppendProperties DEF RingInv, RingTypeOK, AppendTarget
<1>3. npcs'[Len(npcs) + 1] = id
  BY AppendProperties DEF RingInv, RingTypeOK, AppendTarget
<1>4. Len(npcs) \in Nat
  BY LenProperties DEF RingInv, RingTypeOK
<1>5. RingTypeOK' /\ RingBounded'
  BY <1>1, <1>4, RingAssumption DEF RingInv, RingTypeOK, RingBounded, AppendTarget
<1>6. NoDuplicates'
  BY <1>1, <1>2, <1>3, <1>4 DEF RingInv, NoDuplicates, Ignores, Tracked
<1>7. NeverSelf'
  BY <1>1, <1>2, <1>3, <1>4 DEF RingInv, NeverSelf, Ignores
<1> QED
  BY <1>5, <1>6, <1>7 DEF RingInv

(* A full list stays well formed when its oldest entry is replaced.        *)
LEMMA ReplaceKeepsInv ==
  ASSUME RingInv, NEW id \in ObjectIds, ~ Ignores(id), ReplaceOldest(id)
  PROVE  RingInv'
<1>1. Len(npcs) = Capacity /\ npcsNext \in 0 .. Capacity - 1
  BY LenProperties, RingAssumption
  DEF RingInv, RingTypeOK, RingBounded, ReplaceOldest
<1>2. /\ npcs' \in Seq(ObjectIds)
      /\ Len(npcs') = Len(npcs)
      /\ \A i \in 1 .. Len(npcs) :
           npcs'[i] = IF i = npcsNext + 1 THEN id ELSE npcs[i]
  BY <1>1, ExceptSeq DEF RingInv, RingTypeOK, ReplaceOldest
<1>3. RingTypeOK' /\ RingBounded'
  BY <1>1, <1>2, RingAssumption DEF RingTypeOK, RingBounded, ReplaceOldest
<1>4. NoDuplicates'
  BY <1>1, <1>2 DEF RingInv, NoDuplicates, Ignores, Tracked
<1>5. NeverSelf'
  BY <1>1, <1>2 DEF RingInv, NeverSelf, Ignores
<1> QED
  BY <1>3, <1>4, <1>5 DEF RingInv

(***************************************************************************)
(* The list is bounded, has no duplicates and never holds the bot, in      *)
(* every reachable state (client.go:951-969).                              *)
(***************************************************************************)
THEOREM RingCorrect == Spec => []RingInv
<1>1. Init => RingInv
  BY RingAssumption
  DEF Init, RingInv, RingTypeOK, RingBounded, NoDuplicates, NeverSelf
<1>2. RingInv /\ [Next]_ringVars => RingInv'
  <2> SUFFICES ASSUME RingInv, [Next]_ringVars PROVE RingInv'
    OBVIOUS
  <2>1. CASE Next
    <3>1. PICK id \in ObjectIds : Record(id)
      BY <2>1 DEF Next
    <3> QED
      BY <3>1, AppendKeepsInv, ReplaceKeepsInv DEF Record
  <2>2. CASE UNCHANGED ringVars
    BY <2>2 DEF ringVars, RingInv, RingTypeOK, RingBounded, NoDuplicates, NeverSelf
  <2> QED
    BY <2>1, <2>2
<1> QED
  BY <1>1, <1>2, PTL DEF Spec

-----------------------------------------------------------------------------
(***************************************************************************)
(* ReadFrom(k, s) is a rotation of s.                                      *)
(***************************************************************************)
LEMMA ReadFromSeq ==
  ASSUME NEW S, NEW s \in Seq(S), NEW k \in Nat, k = 0 \/ k < Len(s)
  PROVE  ReadFrom(k, s) \in Seq(S) /\ Len(ReadFrom(k, s)) = Len(s)
<1>1. Len(s) \in Nat /\ \A j \in 1 .. Len(s) : s[j] \in S
  BY LenProperties, ElementOfSeq
<1>2. ASSUME NEW i \in 1 .. Len(s), k + i > Len(s)
      PROVE  k + i - Len(s) \in 1 .. Len(s)
  BY <1>1, <1>2
<1>3. ReadFrom(k, s) \in [1 .. Len(s) -> S]
  BY <1>1, <1>2 DEF ReadFrom
<1>4. ReadFrom(k, s) \in Seq(S)
  BY <1>1, <1>3, SeqDef
<1> QED
  BY <1>1, <1>3, <1>4, LenProperties

(* ReadFrom keeps the elements: an id is in one list iff in the other.     *)
LEMMA ReadFromElements ==
  ASSUME NEW S, NEW s \in Seq(S), NEW k \in Nat, k = 0 \/ k < Len(s),
         NEW i \in 1 .. Len(s)
  PROVE  \E j \in 1 .. Len(s) : ReadFrom(k, s)[i] = s[j]
<1>1. Len(s) \in Nat
  BY LenProperties
<1>2. CASE k + i <= Len(s)
  BY <1>1, <1>2 DEF ReadFrom
<1>3. CASE k + i > Len(s)
  <2>1. k + i - Len(s) \in 1 .. Len(s)
    BY <1>1, <1>3
  <2> QED
    BY <1>1, <1>3, <2>1 DEF ReadFrom
<1> QED
  BY <1>1, <1>2, <1>3

(* Read from the first index, a list is itself.                            *)
LEMMA ReadFromZero ==
  ASSUME NEW S, NEW s \in Seq(S)
  PROVE  ReadFrom(0, s) = s
<1>1. Len(s) \in Nat
  BY LenProperties
<1>2. \A i \in 1 .. Len(s) : ReadFrom(0, s)[i] = s[i]
  BY <1>1 DEF ReadFrom
<1> QED
  BY <1>1, <1>2, ReadFromSeq, SeqEqual

(***************************************************************************)
(* Replacing the entry at the index and advancing it drops the oldest      *)
(* entry and appends the new one.                                          *)
(***************************************************************************)
Replaced(t, s, k, e) ==
  /\ Len(t) = Len(s)
  /\ \A j \in 1 .. Len(s) : t[j] = IF j = k + 1 THEN e ELSE s[j]

Advanced(next, s, k) == next = IF k + 1 >= Len(s) THEN 0 ELSE k + 1

(* Replacing entry k and advancing drops the head and appends.             *)
LEMMA ReadFromReplace ==
  ASSUME NEW S, NEW s \in Seq(S), NEW k \in 0 .. Len(s) - 1, NEW e \in S,
         NEW t \in Seq(S), Replaced(t, s, k, e),
         NEW next \in Nat, Advanced(next, s, k)
  PROVE  ReadFrom(next, t) = Append(Tail(ReadFrom(k, s)), e)
<1> USE DEF Replaced
<1>1. Len(s) \in Nat /\ Len(s) # 0 /\ k \in Nat /\ k < Len(s)
  BY LenProperties
<1>2. \/ next = 0 /\ k + 1 = Len(s)
      \/ next = k + 1 /\ k + 1 < Len(s)
  BY <1>1 DEF Advanced
<1>3. ReadFrom(k, s) \in Seq(S) /\ Len(ReadFrom(k, s)) = Len(s)
  BY <1>1, ReadFromSeq
<1>4. /\ Tail(ReadFrom(k, s)) \in Seq(S)
      /\ Len(Tail(ReadFrom(k, s))) = Len(s) - 1
      /\ \A i \in 1 .. Len(s) - 1 : Tail(ReadFrom(k, s))[i] = ReadFrom(k, s)[i + 1]
  BY <1>1, <1>3, EmptySeq, HeadTailProperties
<1>5. /\ Append(Tail(ReadFrom(k, s)), e) \in Seq(S)
      /\ Len(Append(Tail(ReadFrom(k, s)), e)) = Len(s)
      /\ \A i \in 1 .. Len(s) - 1 :
           Append(Tail(ReadFrom(k, s)), e)[i] = ReadFrom(k, s)[i + 1]
      /\ Append(Tail(ReadFrom(k, s)), e)[Len(s)] = e
  BY <1>1, <1>4, AppendProperties
<1>6. ReadFrom(next, t) \in Seq(S) /\ Len(ReadFrom(next, t)) = Len(s)
  BY <1>1, <1>2, ReadFromSeq
<1>7. ASSUME NEW i \in 1 .. Len(s)
      PROVE  ReadFrom(next, t)[i] = Append(Tail(ReadFrom(k, s)), e)[i]
  <2>1. ReadFrom(next, t)[i]
          = IF next + i <= Len(s) THEN t[next + i] ELSE t[next + i - Len(s)]
    BY DEF ReadFrom
  <2>2. CASE i = Len(s)
    <3>1. ReadFrom(next, t)[i] = t[k + 1]
      BY <1>1, <1>2, <2>1, <2>2
    <3> QED
      BY <1>1, <1>5, <2>2, <3>1
  <2>3. CASE i # Len(s)
    <3>1. i + 1 \in 1 .. Len(s) /\ i \in 1 .. Len(s) - 1
      BY <1>1, <2>3
    <3>2. Append(Tail(ReadFrom(k, s)), e)[i]
            = IF k + (i + 1) <= Len(s) THEN s[k + (i + 1)]
                                       ELSE s[k + (i + 1) - Len(s)]
      BY <1>5, <3>1 DEF ReadFrom
    <3>3. CASE next = 0 /\ k + 1 = Len(s)
      <4>1. ReadFrom(next, t)[i] = t[i] /\ t[i] = s[i]
        BY <1>1, <2>1, <3>1, <3>3
      <4>2. k + (i + 1) - Len(s) = i /\ ~ (k + (i + 1) <= Len(s))
        BY <1>1, <3>1, <3>3
      <4> QED
        BY <3>2, <4>1, <4>2
    <3>4. CASE next = k + 1 /\ k + 1 < Len(s) /\ k + (i + 1) <= Len(s)
      <4>1. ReadFrom(next, t)[i] = t[k + (i + 1)]
        BY <1>1, <2>1, <3>1, <3>4
      <4>2. k + (i + 1) \in 1 .. Len(s) /\ k + (i + 1) # k + 1
        BY <1>1, <3>1, <3>4
      <4> QED
        BY <3>2, <3>4, <4>1, <4>2
    <3>5. CASE next = k + 1 /\ k + 1 < Len(s) /\ ~ (k + (i + 1) <= Len(s))
      <4>1. ReadFrom(next, t)[i] = t[k + (i + 1) - Len(s)]
        BY <1>1, <2>1, <3>1, <3>5
      <4>2. k + (i + 1) - Len(s) \in 1 .. Len(s) /\ k + (i + 1) - Len(s) # k + 1
        BY <1>1, <3>1, <3>5
      <4> QED
        BY <3>2, <3>5, <4>1, <4>2
    <3> QED
      BY <1>2, <3>3, <3>4, <3>5
  <2> QED
    BY <2>2, <2>3
<1> QED
  BY <1>1, <1>5, <1>6, <1>7, SeqEqual

-----------------------------------------------------------------------------
(***************************************************************************)
(* The refinement: what Record does is what Observe does to the window.    *)
(***************************************************************************)
LEMMA RecordObserves ==
  ASSUME RingInv, RingInv', NEW id \in ObjectIds, Record(id)
  PROVE  Fifo!Observe(id)
<1>1. /\ npcs \in Seq(ObjectIds) /\ Len(npcs) \in Nat /\ npcsNext \in Nat
      /\ npcsNext = 0 \/ npcsNext < Len(npcs)
      /\ Len(npcs) <= Capacity /\ Capacity \in Nat \ {0}
  BY LenProperties, RingAssumption DEF RingInv, RingTypeOK, RingBounded
<1>2. OldestFirst \in Seq(ObjectIds) /\ Len(OldestFirst) = Len(npcs)
  BY <1>1, ReadFromSeq DEF OldestFirst
<1>3. ~ Fifo!InWindow(id)
  <2>1. SUFFICES ASSUME NEW i \in 1 .. Len(npcs), OldestFirst[i] = id
                 PROVE  Tracked(id)
    BY <1>2 DEF Record, Ignores, Fifo!InWindow
  <2> QED
    BY <1>1, <2>1, ReadFromElements DEF Tracked, OldestFirst
<1>4. CASE AppendTarget(id)
  <2>1. npcsNext = 0 /\ npcsNext' = 0 /\ Len(npcs) < Capacity
    BY <1>4 DEF AppendTarget, RingInv, RingBounded
  <2>2. npcs' \in Seq(ObjectIds) /\ npcs' = Append(npcs, id)
    BY <1>1, <1>4, AppendProperties DEF AppendTarget
  <2>3. OldestFirst = npcs
    BY <1>1, <2>1, ReadFromZero DEF OldestFirst
  <2>4. OldestFirst' = npcs'
    BY <2>1, <2>2, ReadFromZero DEF OldestFirst
  <2> QED
    BY <1>2, <1>3, <2>1, <2>2, <2>3, <2>4 DEF Record, Ignores, Fifo!Observe
<1>5. CASE ReplaceOldest(id)
  <2>1. Len(npcs) = Capacity /\ npcsNext \in 0 .. Len(npcs) - 1
    BY <1>1, <1>5 DEF ReplaceOldest, RingInv, RingBounded
  <2>2. npcs' \in Seq(ObjectIds) /\ Replaced(npcs', npcs, npcsNext, id)
    BY <1>1, <1>5, <2>1, ExceptSeq DEF ReplaceOldest, Replaced
  <2>3. npcsNext' \in Nat /\ Advanced(npcsNext', npcs, npcsNext)
    BY <1>1, <1>5, <2>1 DEF ReplaceOldest, Advanced
  <2>4. OldestFirst' = Append(Tail(OldestFirst), id)
    <3>1. npcs \in Seq(ObjectIds)
      BY <1>1
    <3>2. ReadFrom(npcsNext', npcs') = Append(Tail(ReadFrom(npcsNext, npcs)), id)
      BY <2>1, <2>2, <2>3, <3>1, ReadFromReplace
    <3> QED
      BY <3>2 DEF OldestFirst
  <2> QED
    BY <1>1, <1>2, <1>3, <2>1, <2>4 DEF Record, Ignores, Fifo!Observe
<1> QED
  BY <1>4, <1>5 DEF Record

(***************************************************************************)
(* The ring implements the sliding window: it evicts in order of arrival   *)
(* ("ring-replaces the oldest entry", client.go:947-950).                  *)
(***************************************************************************)
THEOREM RingEvictsOldest == Spec => EvictsOldest
<1>1. Init => Fifo!Init
  BY DEF Init, Fifo!Init, OldestFirst, ReadFrom
<1>2. RingInv /\ RingInv' /\ [Next]_ringVars => [Fifo!Next]_OldestFirst
  <2> SUFFICES ASSUME RingInv, RingInv', [Next]_ringVars
               PROVE  [Fifo!Next]_OldestFirst
    OBVIOUS
  <2>1. CASE Next
    BY <2>1, RecordObserves DEF Next, Fifo!Next
  <2>2. CASE UNCHANGED ringVars
    BY <2>2 DEF ringVars, OldestFirst
  <2> QED
    BY <2>1, <2>2
<1> QED
  BY <1>1, <1>2, RingCorrect, PTL DEF Spec, EvictsOldest, Fifo!Spec
=============================================================================
