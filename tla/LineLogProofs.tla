--------------------------- MODULE LineLogProofs ---------------------------
(***************************************************************************)
(* What the logger guarantees for any number of goroutines and lines of    *)
(* any length, and a buffer of any size.                                   *)
(***************************************************************************)
EXTENDS LineLog, SequenceTheorems, FiniteSetTheorems, TLAPS

Part == [of : Loggers, end : BOOLEAN]

Typed ==
  /\ caller \in [Loggers -> {"out", "lock", "write"}]
  /\ rest \in [Loggers -> Nat]
  /\ holder \subseteq Loggers
  /\ stdout \in Seq(Part) /\ outbuf \in Seq(Part)
  /\ returned \in Nat /\ dead \in BOOLEAN

(* Who writes has the mutex, and who waits for it has a line to write.     *)
Alone ==
  /\ \A g \in Loggers : caller[g] = "write" => holder = {g}
  /\ \A g \in Loggers : caller[g] = "lock" => rest[g] > 0

(* All that was written, whether it is out or not.                         *)
Written == stdout \o outbuf

Whole(s) == \A k \in DOMAIN s : k + 1 \in DOMAIN s /\ ~ s[k].end => s[k + 1].of = s[k].of

EndsOf(s) == {k \in DOMAIN s : s[k].end}

Writes(g) == caller[g] = "write"

(* A line that has begun is that of the holder, who has more to write.     *)
Begun ==
  LET s == Written IN
    s # << >> /\ ~ s[Len(s)].end =>
      \E g \in Loggers : Writes(g) /\ s[Len(s)].of = g /\ rest[g] > 0

LineOver == \E g \in Loggers : Writes(g) /\ rest[g] = 0

(* There are as many ends of lines as calls have returned, and one more    *)
(* before the flush.                                                       *)
Counted == Cardinality(EndsOf(Written)) = IF LineOver THEN returned + 1 ELSE returned

Alive == ~ dead => Whole(Written) /\ Begun /\ Counted

Out == Whole(stdout) /\ Cardinality(EndsOf(stdout)) >= returned

LineLogInv == Typed /\ Alone /\ Alive /\ Out

(***************************************************************************)
(* Ends of lines are finitely many; a part more is an end more or none.    *)
(***************************************************************************)
LEMMA EndsFinite ==
  ASSUME NEW s \in Seq(Part)
  PROVE  IsFiniteSet(EndsOf(s)) /\ Cardinality(EndsOf(s)) \in Nat
<1>1. EndsOf(s) \in SUBSET (1 .. Len(s)) /\ Len(s) \in Nat
  BY DEF EndsOf
<1>2. IsFiniteSet(1 .. Len(s))
  BY <1>1, FS_Interval
<1>3. IsFiniteSet(EndsOf(s))
  BY <1>1, <1>2, FS_Subset
<1> QED BY <1>3, FS_CardinalityType

LEMMA OneMore ==
  ASSUME NEW s \in Seq(Part), NEW p \in Part
  PROVE  /\ Append(s, p) \in Seq(Part)
         /\ Cardinality(EndsOf(Append(s, p))) =
              IF p.end THEN Cardinality(EndsOf(s)) + 1 ELSE Cardinality(EndsOf(s))
<1> DEFINE t == Append(s, p)
           n == Len(s) + 1
<1>1. t \in Seq(Part) /\ Len(t) = n /\ n \in Nat /\ n > 0
  OBVIOUS
<1>2. t[n] = p /\ \A k \in 1 .. Len(s) : t[k] = s[k]
  OBVIOUS
<1>3. n \notin EndsOf(s)
  BY DEF EndsOf
<1>4. CASE p.end
  <2>1. EndsOf(t) = EndsOf(s) \cup {n}
    <3> HIDE DEF t
    <3> QED BY <1>1, <1>2, <1>4 DEF EndsOf
  <2>2. Cardinality(EndsOf(s) \cup {n}) = Cardinality(EndsOf(s)) + 1
    BY <1>3, EndsFinite, FS_AddElement
  <2> QED BY <1>1, <1>4, <2>1, <2>2
<1>5. CASE ~ p.end
  <2>1. EndsOf(t) = EndsOf(s)
    <3> HIDE DEF t
    <3> QED BY <1>1, <1>2, <1>5 DEF EndsOf
  <2> QED BY <1>1, <1>5, <2>1
<1> QED BY <1>4, <1>5

(* A prefix has no more ends than the whole.                               *)
LEMMA PrefixEnds ==
  ASSUME NEW s \in Seq(Part), NEW t \in Seq(Part)
  PROVE  /\ s \o t \in Seq(Part)
         /\ Cardinality(EndsOf(s)) <= Cardinality(EndsOf(s \o t))
         /\ Whole(s \o t) => Whole(s)
<1> DEFINE u == s \o t
<1>1. u \in Seq(Part) /\ Len(u) = Len(s) + Len(t) /\ Len(s) \in Nat /\ Len(t) \in Nat
  OBVIOUS
<1>2. \A k \in 1 .. Len(s) : u[k] = s[k]
  OBVIOUS
<1> HIDE DEF u
<1>3. EndsOf(s) \in SUBSET EndsOf(u)
  BY <1>1, <1>2 DEF EndsOf
<1>4. Cardinality(EndsOf(s)) <= Cardinality(EndsOf(u))
  BY <1>1, <1>3, EndsFinite, FS_Subset
<1>5. Whole(u) => Whole(s)
  <2> SUFFICES ASSUME Whole(u), NEW k \in 1 .. Len(s), k + 1 \in 1 .. Len(s), ~ s[k].end
               PROVE  s[k + 1].of = s[k].of
    BY DEF Whole
  <2>1. k \in DOMAIN u /\ k + 1 \in DOMAIN u
    BY <1>1
  <2>2. u[k] = s[k] /\ u[k + 1] = s[k + 1]
    BY <1>2
  <2> QED BY <2>1, <2>2 DEF Whole
<1> QED BY <1>1, <1>4, <1>5 DEF u

(***************************************************************************)
(* The steps.                                                              *)
(***************************************************************************)
LEMMA LineLogStarts == LineInit => LineLogInv
<1> SUFFICES ASSUME LineInit PROVE LineLogInv
  OBVIOUS
<1>1. Typed /\ Alone
  <2>1. stdout \in Seq(Part) /\ outbuf \in Seq(Part)
    BY DEF LineInit
  <2>2. caller \in [Loggers -> {"out", "lock", "write"}] /\ rest \in [Loggers -> Nat]
    BY DEF LineInit
  <2>3. \A g \in Loggers : caller[g] = "out"
    BY DEF LineInit
  <2>4. Alone
    BY <2>3 DEF Alone
  <2> QED BY <2>1, <2>2, <2>4 DEF LineInit, Typed
<1>2. stdout = << >> /\ Written = << >> /\ << >> \in Seq(Part)
  BY DEF LineInit, Written
<1>3. EndsOf(<< >>) = {} /\ Whole(<< >>)
  BY DEF EndsOf, Whole
<1>4. Cardinality(EndsOf(<< >>)) = 0
  BY <1>3, FS_EmptySet
<1>5. ~ LineOver /\ returned = 0
  BY DEF LineInit, LineOver, Writes
<1> QED
  BY <1>1, <1>2, <1>3, <1>4, <1>5 DEF LineLogInv, Alive, Out, Begun, Counted

LEMMA CallLogStep ==
  ASSUME LineLogInv, NEW g \in Loggers, CallLog(g)
  PROVE  LineLogInv'
<1>1. Typed' /\ Alone'
  BY LineLogAssumption DEF LineLogInv, Typed, Alone, CallLog
<1>2. Written' = Written /\ stdout' = stdout /\ returned' = returned /\ dead' = dead
  BY DEF CallLog, Written
<1>3. \A h \in Loggers :
        (Writes(h)' <=> Writes(h)) /\ (Writes(h) => rest'[h] = rest[h])
  BY DEF LineLogInv, Typed, CallLog, Writes
<1>4. (LineOver' <=> LineOver) /\ (Begun' <=> Begun)
  BY <1>2, <1>3 DEF LineOver, Begun
<1> QED
  BY <1>1, <1>2, <1>4 DEF LineLogInv, Alive, Out, Counted

LEMMA LockLogStep ==
  ASSUME LineLogInv, NEW g \in Loggers, LockLog(g)
  PROVE  LineLogInv'
<1>1. Typed' /\ Alone'
  BY DEF LineLogInv, Typed, Alone, LockLog
<1>2. Written' = Written /\ stdout' = stdout /\ returned' = returned /\ dead' = dead
      /\ rest' = rest
  BY DEF LockLog, Written
<1>3. ~ Writes(g) /\ rest[g] > 0 /\ \A h \in Loggers : Writes(h)' <=> Writes(h) \/ h = g
  BY DEF LineLogInv, Typed, Alone, LockLog, Writes
<1>4. LineOver' <=> LineOver
  BY <1>2, <1>3 DEF LineOver, LineLogInv, Typed
<1>5. Begun => Begun'
  BY <1>2, <1>3 DEF Begun
<1> QED
  BY <1>1, <1>2, <1>4, <1>5 DEF LineLogInv, Alive, Out, Counted

LEMMA WritePartStep ==
  ASSUME LineLogInv, NEW g \in Loggers, WritePart(g)
  PROVE  LineLogInv'
<1> DEFINE p == [of |-> g, end |-> rest[g] = 1]
           s == Written
<1>1. Writes(g) /\ rest[g] \in Nat /\ rest[g] > 0 /\ ~ dead /\ rest'[g] = rest[g] - 1
      /\ p \in Part /\ returned \in Nat
  BY DEF LineLogInv, Typed, WritePart, Writes, Part
<1>2. stdout \in Seq(Part) /\ outbuf \in Seq(Part) /\ s \in Seq(Part)
  BY PrefixEnds DEF LineLogInv, Typed, Written
<1>3. outbuf' \in Seq(Part) /\ stdout' \in Seq(Part) /\ Written' = Append(s, p)
      /\ Whole(stdout') /\ Cardinality(EndsOf(stdout')) >= returned
  <2>1. CASE outbuf' = Append(outbuf, p) /\ UNCHANGED stdout
    <3>1. stdout \o Append(outbuf, p) = Append(stdout \o outbuf, p)
      BY <1>1, <1>2
    <3> QED
      BY <1>1, <1>2, <2>1, <3>1 DEF Written, LineLogInv, Out
  <2>2. CASE outbuf' = <<p>> /\ stdout' = stdout \o outbuf
    <3>1. (stdout \o outbuf) \o <<p>> = Append(stdout \o outbuf, p)
      BY <1>1, <1>2
    <3>2. <<p>> \in Seq(Part)
      BY <1>1
    <3>3. Whole(s) /\ Cardinality(EndsOf(s)) >= returned
      BY <1>1 DEF LineLogInv, Alive, Counted
    <3> QED
      BY <1>2, <2>2, <3>1, <3>2, <3>3 DEF Written
  <2> QED BY <2>1, <2>2 DEF WritePart
<1> HIDE DEF p, s
<1>4. caller' = caller /\ holder' = holder /\ returned' = returned /\ dead' = dead
      /\ rest' = [rest EXCEPT ![g] = @ - 1]
  BY DEF WritePart
<1>5. Typed' /\ Alone'
  BY <1>1, <1>3, <1>4 DEF LineLogInv, Typed, Alone, Writes
<1>6. \A h \in Loggers : Writes(h)' <=> h = g
  BY <1>1, <1>4 DEF LineLogInv, Alone, Writes
<1>7. p.of = g /\ (p.end <=> rest[g] = 1) /\ p.end \in BOOLEAN
  BY DEF p
<1>8. ~ LineOver /\ (LineOver' <=> p.end)
  <2>1. \A h \in Loggers : Writes(h) => h = g
    BY <1>1 DEF LineLogInv, Alone, Writes
  <2> QED BY <1>1, <1>6, <1>7, <2>1 DEF LineOver
<1>9. Len(Written') = Len(s) + 1 /\ Written'[Len(s) + 1] = p /\ Len(s) \in Nat
      /\ (\A k \in 1 .. Len(s) : Written'[k] = s[k]) /\ Written' \in Seq(Part)
  BY <1>1, <1>2, <1>3
<1>10. Begun'
  BY <1>1, <1>6, <1>7, <1>9 DEF Begun
<1>11. Whole(Written')
  <2> SUFFICES ASSUME NEW k \in 1 .. Len(s) + 1, k + 1 \in 1 .. Len(s) + 1,
                      ~ Written'[k].end
               PROVE  Written'[k + 1].of = Written'[k].of
    BY <1>9 DEF Whole
  <2>1. CASE k + 1 \in 1 .. Len(s)
    <3>1. k \in 1 .. Len(s)
      BY <2>1, <1>9
    <3>2. Whole(s)
      BY <1>1 DEF s, LineLogInv, Alive
    <3> QED BY <1>2, <1>9, <2>1, <3>1, <3>2 DEF Whole
  <2>2. CASE k = Len(s)
    <3>1. s # << >> /\ ~ s[Len(s)].end
      BY <1>2, <1>9, <2>2
    <3>2. s[Len(s)].of = g
      BY <1>1, <3>1 DEF s, LineLogInv, Alive, Begun, Alone, Writes
    <3> QED BY <1>7, <1>9, <2>2, <3>2
  <2> QED BY <1>9, <2>1, <2>2
<1>12. Counted'
  <2>1. Cardinality(EndsOf(s)) = returned
    BY <1>1, <1>8 DEF s, LineLogInv, Alive, Counted
  <2> QED BY <1>1, <1>2, <1>3, <1>4, <1>8, <2>1, OneMore DEF Counted
<1> QED
  BY <1>3, <1>4, <1>5, <1>10, <1>11, <1>12 DEF LineLogInv, Alive, Out

LEMMA FlushLogStep ==
  ASSUME LineLogInv, NEW g \in Loggers, FlushLog(g)
  PROVE  LineLogInv'
<1>1. Writes(g) /\ rest[g] = 0 /\ ~ dead /\ returned \in Nat /\ LineOver
  BY DEF LineLogInv, Typed, FlushLog, Writes, LineOver
<1>2. stdout \in Seq(Part) /\ outbuf \in Seq(Part) /\ Written \in Seq(Part)
  BY PrefixEnds DEF LineLogInv, Typed, Written
<1>3. stdout' = Written /\ outbuf' = << >> /\ Written' = Written
  <2>1. Written \o << >> = Written
    BY <1>2
  <2> QED BY <2>1 DEF FlushLog, Written
<1>4. Typed'
  <2>1. caller' \in [Loggers -> {"out", "lock", "write"}]
    BY DEF LineLogInv, Typed, FlushLog
  <2>2. rest' = rest /\ holder' = {} /\ returned' \in Nat /\ dead' = dead
    BY <1>1 DEF FlushLog
  <2>3. outbuf' \in Seq(Part)
    BY <1>3
  <2> QED BY <1>2, <1>3, <2>1, <2>2, <2>3 DEF LineLogInv, Typed
<1>5. \A h \in Loggers : ~ Writes(h)'
  BY <1>1 DEF LineLogInv, Typed, Alone, Writes, FlushLog
<1>6. Whole(Written) /\ Begun /\ Cardinality(EndsOf(Written)) = returned + 1
  BY <1>1 DEF LineLogInv, Alive, Counted
<1>7. returned' = returned + 1
  BY DEF FlushLog
<1>8. Written # << >> => Written[Len(Written)].end
  <2>1. \A h \in Loggers : Writes(h) => h = g
    BY <1>1 DEF LineLogInv, Alone, Writes
  <2>2. ~ \E h \in Loggers : Writes(h) /\ Written[Len(Written)].of = h /\ rest[h] > 0
    BY <1>1, <2>1
  <2> QED BY <1>6, <2>2 DEF Begun
<1>9. Begun' /\ ~ LineOver'
  BY <1>3, <1>5, <1>8 DEF Begun, LineOver
<1>10. Alone'
  BY <1>5 DEF LineLogInv, Typed, Alone, FlushLog, Writes
<1> QED
  BY <1>1, <1>3, <1>4, <1>6, <1>7, <1>9, <1>10 DEF LineLogInv, Alive, Out, Counted

LEMMA LineLogStep == LineLogInv /\ [LineNext]_lineVars => LineLogInv'
<1> SUFFICES ASSUME LineLogInv, [LineNext]_lineVars PROVE LineLogInv'
  OBVIOUS
<1>1. CASE Die
  <2>1. << >> \in Seq(Part)
    OBVIOUS
  <2> QED BY <1>1, <2>1 DEF Die, LineLogInv, Typed, Alone, Alive, Out
<1>2. CASE UNCHANGED lineVars
  BY <1>2 DEF lineVars, LineLogInv, Typed, Alone, Alive, Out, Begun, Counted, Written,
              LineOver, Writes
<1> QED
  BY <1>1, <1>2, CallLogStep, LockLogStep, WritePartStep, FlushLogStep DEF LineNext

LEMMA LineLogInvHolds == LineSpec => []LineLogInv
BY LineLogStarts, LineLogStep, PTL DEF LineSpec

(***************************************************************************)
(* The theorems.                                                           *)
(***************************************************************************)

(* Lines of different goroutines do not mix in the output, for any number  *)
(* of goroutines, lines of any length and any buffer (Logger.Log,          *)
(* logger.go:38-46).                                                       *)
THEOREM LinesAreWholeHolds == LineSpec => []LinesAreWhole
<1>1. LineLogInv => LinesAreWhole
  BY DEF LineLogInv, Out, Whole, LinesAreWhole, Ends
<1> QED BY <1>1, LineLogInvHolds, PTL

(* What a call that has returned wrote is out, and stays out when the      *)
(* process panics (logger.go:45).                                          *)
THEOREM ReturnedIsOutHolds == LineSpec => []ReturnedIsOut
<1>1. LineLogInv => ReturnedIsOut
  BY DEF LineLogInv, Out, EndsOf, ReturnedIsOut, Ends
<1> QED BY <1>1, LineLogInvHolds, PTL

(***************************************************************************)
(* One line for each call.  While no line is over, all ends of lines are   *)
(* out; when one is, its end is the last part, and the only one that is    *)
(* not out.                                                                *)
(***************************************************************************)
LastOut ==
  ~ dead =>
    /\ ~ LineOver => EndsOf(Written) = EndsOf(stdout)
    /\ \A g \in Loggers : Writes(g) /\ rest[g] = 0 =>
         /\ Len(stdout) < Len(Written)
         /\ Written[Len(Written)] = [of |-> g, end |-> TRUE]
         /\ EndsOf(Written) = EndsOf(stdout) \cup {Len(Written)}

ByOne(s, g) == {k \in EndsOf(s) : s[k].of = g}

(* Of a sequence and what is in front of it, the ends in front are the same.*)
LEMMA InFront ==
  ASSUME NEW s \in Seq(Part), NEW t \in Seq(Part), NEW g \in Loggers
  PROVE  /\ Len(s \o t) = Len(s) + Len(t) /\ Len(s) \in Nat /\ Len(t) \in Nat
         /\ \A k \in EndsOf(s) : (s \o t)[k] = s[k]
         /\ EndsOf(s \o t) = EndsOf(s) => ByOne(s \o t, g) = ByOne(s, g)
<1> DEFINE u == s \o t
<1>1. Len(u) = Len(s) + Len(t) /\ Len(s) \in Nat /\ Len(t) \in Nat
  OBVIOUS
<1>2. \A k \in 1 .. Len(s) : u[k] = s[k]
  OBVIOUS
<1>3. EndsOf(s) \subseteq 1 .. Len(s)
  BY DEF EndsOf
<1> HIDE DEF u
<1>4. \A k \in EndsOf(s) : u[k] = s[k]
  BY <1>2, <1>3
<1>5. EndsOf(u) = EndsOf(s) => ByOne(u, g) = ByOne(s, g)
  BY <1>4 DEF ByOne
<1> QED BY <1>1, <1>4, <1>5 DEF u

(* A part more: its end, if it is one.                                     *)
LEMMA EndsMore ==
  ASSUME NEW s \in Seq(Part), NEW p \in Part
  PROVE  /\ Len(Append(s, p)) = Len(s) + 1 /\ Append(s, p)[Len(s) + 1] = p
         /\ EndsOf(Append(s, p)) =
              IF p.end THEN EndsOf(s) \cup {Len(s) + 1} ELSE EndsOf(s)
<1> DEFINE t == Append(s, p)
<1>1. Len(t) = Len(s) + 1 /\ t[Len(s) + 1] = p /\ Len(s) \in Nat /\ t \in Seq(Part)
  OBVIOUS
<1>2. \A k \in 1 .. Len(s) : t[k] = s[k]
  OBVIOUS
<1> HIDE DEF t
<1>3. EndsOf(t) = IF p.end THEN EndsOf(s) \cup {Len(s) + 1} ELSE EndsOf(s)
  BY <1>1, <1>2 DEF EndsOf
<1> QED BY <1>1, <1>3 DEF t

(* Nothing is out of a line but by a flush.                                *)
LEMMA SameLines ==
  ASSUME \A g \in Loggers : ByOne(stdout, g)' = ByOne(stdout, g),
         \A g \in Loggers : caller'[g] = caller[g] \/ "out" \notin {caller[g], caller'[g]},
         dead' = dead
  PROVE  UNCHANGED AsOneLine!vars
BY DEF AsOneLine!vars, EndsBy, ByOne, EndsOf, Ends

LEMMA CallIsAsked ==
  ASSUME LineLogInv, LastOut, NEW g \in Loggers, CallLog(g)
  PROVE  LastOut' /\ AsOneLine!Next
<1>1. Written' = Written /\ stdout' = stdout /\ dead' = dead /\ ~ dead
  BY DEF CallLog, Written
<1>2. \A h \in Loggers : (Writes(h)' <=> Writes(h)) /\ (Writes(h) => rest'[h] = rest[h])
  BY DEF LineLogInv, Typed, CallLog, Writes
<1>3. LastOut'
  BY <1>1, <1>2 DEF LastOut, LineOver
<1>4. caller[g] = "out" /\ caller' = [caller EXCEPT ![g] = "lock"]
      /\ caller \in [Loggers -> {"out", "lock", "write"}]
  BY DEF CallLog, LineLogInv, Typed
<1>5. AsOneLine!Ask(g)
  BY <1>1, <1>4 DEF AsOneLine!Ask, EndsBy, Ends
<1> QED BY <1>1, <1>3, <1>5 DEF AsOneLine!Next

LEMMA LockIsHidden ==
  ASSUME LineLogInv, LastOut, NEW g \in Loggers, LockLog(g)
  PROVE  LastOut' /\ UNCHANGED AsOneLine!vars
<1>1. Written' = Written /\ stdout' = stdout /\ dead' = dead /\ rest' = rest
  BY DEF LockLog, Written
<1>2. ~ Writes(g) /\ rest[g] > 0 /\ rest[g] \in Nat
      /\ \A h \in Loggers : Writes(h)' <=> Writes(h) \/ h = g
  BY DEF LineLogInv, Typed, Alone, LockLog, Writes
<1>3. LastOut'
  BY <1>1, <1>2 DEF LastOut, LineOver
<1>4. \A h \in Loggers : caller'[h] = caller[h] \/ "out" \notin {caller[h], caller'[h]}
  BY DEF LockLog, LineLogInv, Typed
<1> QED BY <1>1, <1>3, <1>4, SameLines DEF ByOne, EndsOf

LEMMA PartIsHidden ==
  ASSUME LineLogInv, LastOut, NEW g \in Loggers, WritePart(g)
  PROVE  LastOut' /\ UNCHANGED AsOneLine!vars
<1> DEFINE p == [of |-> g, end |-> rest[g] = 1]
           s == Written
<1>1. Writes(g) /\ rest[g] \in Nat /\ rest[g] > 0 /\ ~ dead /\ rest'[g] = rest[g] - 1
      /\ p \in Part /\ caller' = caller /\ dead' = dead
  BY DEF LineLogInv, Typed, WritePart, Writes, Part
<1>2. stdout \in Seq(Part) /\ outbuf \in Seq(Part) /\ s \in Seq(Part)
  BY PrefixEnds DEF LineLogInv, Typed, Written
<1>3. Written' = Append(s, p) /\ (stdout' = stdout \/ stdout' = s)
  <2>1. stdout \o Append(outbuf, p) = Append(stdout \o outbuf, p)
    BY <1>1, <1>2
  <2>2. (stdout \o outbuf) \o <<p>> = Append(stdout \o outbuf, p)
    BY <1>1, <1>2
  <2> QED BY <2>1, <2>2 DEF WritePart, Written
<1>4. \A h \in Loggers : (Writes(h) <=> h = g) /\ (Writes(h)' <=> h = g)
  BY <1>1 DEF LineLogInv, Alone, Writes
<1>5. EndsOf(s) = EndsOf(stdout)
  BY <1>1, <1>4 DEF LastOut, LineOver
<1>6. p.of = g /\ (p.end <=> rest[g] = 1) /\ (rest[g] = 1 => p = [of |-> g, end |-> TRUE])
  OBVIOUS
<1> HIDE DEF p
<1>7. Len(stdout) <= Len(s) /\ Len(s) \in Nat
      /\ \A h \in Loggers : ByOne(s, h) = ByOne(stdout, h)
  BY <1>2, <1>5, InFront DEF Written
<1> HIDE DEF s
<1>8. EndsOf(stdout') = EndsOf(s) /\ Len(stdout') <= Len(s)
      /\ \A h \in Loggers : ByOne(stdout', h) = ByOne(stdout, h)
  BY <1>3, <1>5, <1>7
<1>9. Len(Written') = Len(s) + 1 /\ Written'[Len(s) + 1] = p
      /\ EndsOf(Written') = IF p.end THEN EndsOf(s) \cup {Len(s) + 1} ELSE EndsOf(s)
  BY <1>1, <1>2, <1>3, EndsMore
<1>10. LineOver' <=> rest[g] = 1
  BY <1>1, <1>4 DEF LineOver
<1>11. LastOut'
  <2>1. ~ LineOver' => EndsOf(Written') = EndsOf(stdout')
    BY <1>6, <1>8, <1>9, <1>10
  <2>2. ASSUME NEW h \in Loggers, Writes(h)', rest'[h] = 0
        PROVE  /\ Len(stdout') < Len(Written')
               /\ Written'[Len(Written')] = [of |-> h, end |-> TRUE]
               /\ EndsOf(Written') = EndsOf(stdout') \cup {Len(Written')}
    <3>1. h = g /\ rest[g] = 1
      BY <1>1, <1>4, <2>2
    <3> QED BY <1>6, <1>7, <1>8, <1>9, <3>1
  <2> QED BY <2>1, <2>2 DEF LastOut, EndsOf
<1>12. UNCHANGED AsOneLine!vars
  BY <1>1, <1>8, SameLines DEF ByOne, EndsOf
<1> QED BY <1>11, <1>12

LEMMA FlushPrints ==
  ASSUME LineLogInv, LastOut, NEW g \in Loggers, FlushLog(g)
  PROVE  LastOut' /\ AsOneLine!Next
<1> DEFINE n == Len(Written)
<1>1. Writes(g) /\ rest[g] = 0 /\ ~ dead /\ dead' = dead
  BY DEF LineLogInv, Typed, FlushLog, Writes
<1>2. stdout \in Seq(Part) /\ outbuf \in Seq(Part) /\ Written \in Seq(Part)
  BY PrefixEnds DEF LineLogInv, Typed, Written
<1>3. stdout' = Written /\ Written' = Written
  <2>1. Written \o << >> = Written
    BY <1>2
  <2> QED BY <2>1 DEF FlushLog, Written
<1>4. Len(stdout) < n /\ Written[n] = [of |-> g, end |-> TRUE]
      /\ EndsOf(Written) = EndsOf(stdout) \cup {n}
  BY <1>1 DEF LastOut
<1>5. \A h \in Loggers : ~ Writes(h)'
  BY <1>1 DEF LineLogInv, Typed, Alone, Writes, FlushLog
<1>6. LastOut'
  BY <1>3, <1>5 DEF LastOut, LineOver, EndsOf
<1>7. n \notin EndsOf(stdout) /\ \A k \in EndsOf(stdout) : Written[k] = stdout[k]
  <2>1. \A k \in EndsOf(stdout) : Written[k] = stdout[k]
    BY <1>2, InFront DEF Written
  <2>2. EndsOf(stdout) \subseteq 1 .. Len(stdout)
    BY <1>2 DEF EndsOf
  <2>3. Len(stdout) \in Nat /\ n \in Nat
    BY <1>2
  <2> HIDE DEF n
  <2>4. n \notin EndsOf(stdout)
    BY <1>4, <2>2, <2>3
  <2> QED BY <2>1, <2>4
<1> HIDE DEF n
<1>8. ByOne(Written, g) = ByOne(stdout, g) \cup {n} /\ n \notin ByOne(stdout, g)
      /\ \A h \in Loggers \ {g} : ByOne(Written, h) = ByOne(stdout, h)
  BY <1>4, <1>7 DEF ByOne
<1>9. \A h \in Loggers : IsFiniteSet(ByOne(stdout, h)) /\ Cardinality(ByOne(stdout, h)) \in Nat
  <2> SUFFICES ASSUME NEW h \in Loggers
               PROVE  IsFiniteSet(ByOne(stdout, h)) /\ Cardinality(ByOne(stdout, h)) \in Nat
    OBVIOUS
  <2>1. ByOne(stdout, h) \in SUBSET EndsOf(stdout)
    BY DEF ByOne
  <2> QED BY <1>2, <2>1, EndsFinite, FS_Subset, FS_CardinalityType
<1>10. Cardinality(ByOne(Written, g)) = Cardinality(ByOne(stdout, g)) + 1
  BY <1>8, <1>9, FS_AddElement
<1>11. /\ \A h \in Loggers : EndsBy(h) = ByOne(stdout, h)
       /\ \A h \in Loggers : EndsBy(h)' = ByOne(Written, h)
  BY <1>3 DEF EndsBy, ByOne, EndsOf, Ends
<1>12. caller[g] = "write" /\ caller' = [caller EXCEPT ![g] = "out"]
      /\ caller \in [Loggers -> {"out", "lock", "write"}]
  BY DEF FlushLog, LineLogInv, Typed
<1>13. [h \in Loggers |-> Cardinality(EndsBy(h))]' =
         [[h \in Loggers |-> Cardinality(EndsBy(h))] EXCEPT ![g] = @ + 1]
  BY <1>8, <1>10, <1>11
<1>14. AsOneLine!PrintLine(g)
  BY <1>1, <1>12, <1>13 DEF AsOneLine!PrintLine
<1> QED BY <1>1, <1>6, <1>14 DEF AsOneLine!Next

(* The logger implements AtomicLog: whatever the buffer, each call puts    *)
(* out one line of its caller at the flush with which it returns, and      *)
(* nothing else does, not even a panic (logger.go:38-76).                  *)
THEOREM LogRefinement == LineSpec => LogRefined
<1>1. LineInit => LastOut /\ AsOneLine!Init
  <2> SUFFICES ASSUME LineInit PROVE LastOut /\ AsOneLine!Init
    OBVIOUS
  <2>1. stdout = << >> /\ Written = << >> /\ \A g \in Loggers : caller[g] = "out"
    BY DEF LineInit, Written
  <2>2. LastOut
    BY <2>1 DEF LastOut, LineOver, Writes
  <2>3. \A g \in Loggers : EndsBy(g) = {}
    BY <2>1 DEF EndsBy, Ends
  <2>4. \A g \in Loggers : Cardinality(EndsBy(g)) = 0
    BY <2>3, FS_EmptySet
  <2> QED BY <2>1, <2>2, <2>4 DEF AsOneLine!Init, LineInit
<1>2. LineLogInv /\ LastOut /\ [LineNext]_lineVars => LastOut' /\ [AsOneLine!Next]_AsOneLine!vars
  <2> SUFFICES ASSUME LineLogInv, LastOut, [LineNext]_lineVars
               PROVE  LastOut' /\ [AsOneLine!Next]_AsOneLine!vars
    OBVIOUS
  <2>1. CASE Die
    <3>1. LastOut'
      BY <2>1 DEF Die, LastOut
    <3>2. AsOneLine!Crash /\ ~ dead
      BY <2>1 DEF Die, AsOneLine!Crash, EndsBy, Ends
    <3> QED BY <3>1, <3>2 DEF AsOneLine!Next
  <2>2. CASE UNCHANGED lineVars
    BY <2>2 DEF lineVars, LastOut, LineOver, Writes, Written, EndsOf, AsOneLine!vars, EndsBy, Ends
  <2> QED
    BY <2>1, <2>2, CallIsAsked, LockIsHidden, PartIsHidden, FlushPrints DEF LineNext
<1> QED BY <1>1, <1>2, LineLogInvHolds, PTL DEF LineSpec, LogRefined, AsOneLine!Spec

=============================================================================
