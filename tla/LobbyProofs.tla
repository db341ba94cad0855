---------------------------- MODULE LobbyProofs ----------------------------
(***************************************************************************)
(* What the scenarios promise at the lobby, for any account names, any     *)
(* number of runs and any trouble.                                         *)
(***************************************************************************)
EXTENDS Lobby, SequenceTheorems, WellFoundedInduction, TLAPS

(***************************************************************************)
(* The types: what is on the account, what is asked and what is sent.      *)
(***************************************************************************)
Names == {SanitizeName, SlotName(0), SlotName(1), SlotName(2)}

Characters == [name : Names, class : Nat, pending : BOOLEAN]

Requests ==
  [op : {"none", "AuthLogin"}]
    \cup [op : {"CharacterCreate"}, name : Names, class : Nat]
    \cup [op : {"CharacterDelete", "CharacterRestore"}, slot : {1}]
    \cup [op : {"CharacterSelect"}, slot : {0, 1}]

Noise == [op : {"empty", "other"}]

(* A list shows the account as it is.                                      *)
Replies ==
  [op : {"CharCreateFail", "CharCreateSuccess"}]
    \cup [op : {"CharSelectionInfo"}, chars : {account}, whole : BOOLEAN]
    \cup [op : {"CharSelected"}, class : {account[selected].class}]

Mail(box, replies) ==
  \/ box = << >>
  \/ \E p \in replies : box = <<p>>
  \/ \E p \in replies, q \in Noise : box = <<q, p>>

Phases == {"idle", "list", "created", "deleted", "restored", "selected"}

AskedIn(p) ==
  CASE p = "list"     -> {"AuthLogin", "none"}
    [] p = "created"  -> {"CharacterCreate", "none"}
    [] p = "deleted"  -> {"CharacterDelete", "none"}
    [] p = "restored" -> {"CharacterRestore", "none"}
    [] p = "selected" -> {"CharacterSelect", "none"}
    [] OTHER          -> {"none"}

Typed ==
  /\ account \in Seq(Characters)
  /\ phase \in Phases
  /\ scenario \in {"A", "B"} /\ class \in Nat /\ slot \in 0 .. 2
  /\ request \in Requests /\ request.op \in AskedIn(phase)
  /\ Mail(inbox, Replies)
  /\ verdict \in {"none", "pass", "fail"}
  /\ spawn \in Int \X Int

(* One thing at a time: nothing is asked before the last answer is read.   *)
Quiet ==
  /\ request.op # "none" => inbox = << >>
  /\ phase = "idle" => inbox = << >>
  /\ phase # "idle" => verdict = "none"

(* A character is created behind the last one, and there are three slots.  *)
Room ==
  /\ Len(account) <= 3
  /\ request.op = "CharacterCreate" => Len(account) = slot
  /\ phase = "created" /\ inbox # << >> /\ Got("CharCreateSuccess") => Len(account) = slot + 1

Shape == Typed /\ Quiet /\ Room

LEMMA NamesStay ==
  ASSUME login' = login
  PROVE  /\ SanitizeName' = SanitizeName
         /\ \A s : SlotName(s)' = SlotName(s)
         /\ Characters' = Characters /\ Requests' = Requests
<1>1. SanitizeName' = SanitizeName
  BY DEF SanitizeName, Shortened
<1>2. \A s : SlotName(s)' = SlotName(s)
  BY <1>1, Zenon DEF SlotName, Shortened, Digit
<1>3. Names' = Names
  BY <1>1, <1>2, Zenon DEF Names
<1> QED BY <1>1, <1>2, <1>3, Zenon DEF Characters, Requests

LEMMA SlotNames ==
  ASSUME NEW s \in 0 .. 2
  PROVE  SlotName(s) \in Names /\ Classes[s + 1] \in Nat
<1>1. s = 0 \/ s = 1 \/ s = 2
  OBVIOUS
<1>2. SlotName(s) \in Names
  BY <1>1, Zenon DEF Names
<1>3. Classes[s + 1] \in Nat
  BY <1>1 DEF Classes
<1> QED BY <1>2, <1>3

LEMMA ReplyMail ==
  ASSUME NEW packet, NEW replies, packet \in replies, Reply(packet)
  PROVE  Mail(inbox', replies)
BY DEF Reply, Mail, Noise

LEMMA ListMail ==
  ASSUME NEW chars, NEW replies, ReplyList(chars),
         [op : {"CharSelectionInfo"}, chars : {chars}, whole : BOOLEAN] \subseteq replies
  PROVE  Mail(inbox', replies)
<1>1. \A whole \in BOOLEAN : CharSelectionInfo(chars, whole) \in replies
  BY DEF CharSelectionInfo
<1>2. CASE Reply(CharSelectionInfo(chars, TRUE))
  BY <1>1, <1>2, ReplyMail
<1>3. CASE inbox' = <<CharSelectionInfo(chars, FALSE)>>
  BY <1>1, <1>3 DEF Mail
<1> QED BY <1>2, <1>3 DEF ReplyList

(***************************************************************************)
(* Names.  Letters is recursive; that it exists and what it returns is     *)
(* shown by taking the least number for which it fails.                    *)
(***************************************************************************)
LEMMA Least ==
  ASSUME NEW T \in SUBSET Nat, T # {}
  PROVE  \E n \in T : \A m \in T : n <= m
<1> DEFINE R == {ss \in Nat \X Nat : ss[1] < ss[2]}
<1>1. IsWellFoundedOn(R, Nat)
  BY NatLessThanWellFounded DEF OpToRel
<1> HIDE DEF R
<1>2. PICK n \in T : \A m \in T : ~ (<<m, n>> \in R)
  BY <1>1, WFMin
<1>3. \A m \in T : ~ (m < n)
  BY <1>2 DEF R
<1> QED BY <1>2, <1>3

KeepLetter(name, f, k) ==
  IF k = 0 THEN << >>
  ELSE IF name[k] \in Alnum THEN Append(f[k - 1], name[k]) ELSE f[k - 1]

LEMMA KeptExists ==
  ASSUME NEW name \in Seq(STRING)
  PROVE  \E f : f = [k \in 0 .. Len(name) |-> KeepLetter(name, f, k)]
<1> DEFINE Good(n) == \E f : f = [k \in 0 .. n |-> KeepLetter(name, f, k)]
           T == {n \in Nat : ~ Good(n)}
<1>1. SUFFICES ASSUME T # {}
               PROVE  FALSE
  OBVIOUS
<1>2. PICK n \in T : \A m \in T : n <= m
  BY <1>1, Least
<1>3. n # 0
  <2>1. [k \in 0 .. 0 |-> << >>] = [k \in 0 .. 0 |-> KeepLetter(name, [j \in 0 .. 0 |-> << >>], k)]
    BY DEF KeepLetter
  <2> QED BY <2>1
<1>4. n - 1 \in Nat /\ ~ (n - 1 \in T)
  BY <1>2, <1>3
<1>5. PICK f : f = [k \in 0 .. n - 1 |-> KeepLetter(name, f, k)]
  BY <1>4
<1> DEFINE g == [k \in 0 .. n |-> IF k = n THEN KeepLetter(name, f, n) ELSE f[k]]
<1>6. ASSUME NEW k \in 0 .. n
      PROVE  g[k] = KeepLetter(name, g, k)
  <2>1. CASE k = n
    <3>1. g[n - 1] = f[n - 1] /\ g[n] = KeepLetter(name, f, n)
      BY <1>4
    <3> QED BY <3>1, <2>1 DEF KeepLetter
  <2>2. CASE k # n
    <3>1. k \in 0 .. n - 1 /\ g[k] = f[k] /\ f[k] = KeepLetter(name, f, k)
      BY <2>2, <1>5
    <3>2. k # 0 => g[k - 1] = f[k - 1]
      BY <2>2
    <3> QED BY <3>1, <3>2 DEF KeepLetter
  <2> QED BY <2>1, <2>2
<1>7. g = [k \in 0 .. n |-> KeepLetter(name, g, k)]
  BY <1>6
<1> QED BY <1>7, <1>2

LEMMA LettersType ==
  ASSUME NEW name \in Seq(STRING)
  PROVE  Letters(name) \in Seq(Alnum)
<1>1. PICK N \in Nat : N = Len(name)
  OBVIOUS
<1>2. PICK f : f = (CHOOSE h : h = [k \in 0 .. Len(name) |-> KeepLetter(name, h, k)])
  OBVIOUS
<1>3. f = [k \in 0 .. N |-> KeepLetter(name, f, k)]
  BY <1>1, <1>2, KeptExists, Zenon
<1>4. Letters(name) = f[N]
  BY <1>1, <1>2, Zenon DEF Letters, KeepLetter
<1> DEFINE T == {n \in 0 .. N : ~ f[n] \in Seq(Alnum)}
<1>5. T = {}
  <2>1. SUFFICES ASSUME T # {}
                 PROVE  FALSE
    OBVIOUS
  <2>2. T \in SUBSET Nat
    OBVIOUS
  <2>3. PICK n : n \in T /\ \A m \in T : n <= m
    <3> HIDE DEF T
    <3> QED BY <2>1, <2>2, Least
  <2>4. f[n] = KeepLetter(name, f, n) /\ n \in 0 .. N
    BY <1>3, <2>3
  <2>5. f[n] \notin Seq(Alnum)
    BY <2>3
  <2>6. n # 0
    <3> SUFFICES ASSUME n = 0
                 PROVE  f[n] \in Seq(Alnum)
      BY <2>5
    <3>1. f[n] = << >>
      BY <2>4, Zenon DEF KeepLetter
    <3> QED BY <3>1
  <2>7. n - 1 \in 0 .. N /\ ~ n <= n - 1
    BY <2>4, <2>6
  <2>8. f[n - 1] \in Seq(Alnum)
    BY <2>3, <2>7
  <2>9. name[n] \in Alnum => Append(f[n - 1], name[n]) \in Seq(Alnum)
    BY <2>8
  <2>10. f[n] = IF name[n] \in Alnum THEN Append(f[n - 1], name[n]) ELSE f[n - 1]
    BY <2>4, <2>6 DEF KeepLetter
  <2> QED BY <2>5, <2>8, <2>9, <2>10
<1>6. N \in 0 .. N
  OBVIOUS
<1>7. f[N] \in Seq(Alnum)
  BY <1>5, <1>6
<1> QED BY <1>4, <1>7

(***************************************************************************)
(* The account as a list: a character more, a mark changed, one removed.   *)
(***************************************************************************)
LEMMA Added ==
  ASSUME NEW S, NEW list \in Seq(S), NEW c \in S
  PROVE  /\ Append(list, c) \in Seq(S)
         /\ Len(Append(list, c)) = Len(list) + 1
         /\ \A i \in DOMAIN list : Append(list, c)[i] = list[i]
         /\ Append(list, c)[Len(list) + 1] = c
BY AppendProperties

LEMMA MarkedList ==
  ASSUME account \in Seq(Characters), NEW i, NEW p \in BOOLEAN
  PROVE  /\ Marked(i, p) \in Seq(Characters)
         /\ Len(Marked(i, p)) = Len(account)
         /\ \A j \in DOMAIN account :
              /\ Marked(i, p)[j].name = account[j].name
              /\ Marked(i, p)[j].class = account[j].class
              /\ Marked(i, p)[j].pending = IF j = i THEN p ELSE account[j].pending
<1>1. PICK n \in Nat : n = Len(account)
  OBVIOUS
<1>2. DOMAIN account = 1 .. n /\ account \in [1 .. n -> Characters]
  BY <1>1
<1>3. Marked(i, p) = [j \in 1 .. n |-> IF j = i THEN [account[j] EXCEPT !.pending = p] ELSE account[j]]
  BY <1>2, Zenon DEF Marked
<1>4. ASSUME NEW c \in Characters
      PROVE  /\ [c EXCEPT !.pending = p] \in Characters
             /\ [c EXCEPT !.pending = p].name = c.name
             /\ [c EXCEPT !.pending = p].class = c.class
             /\ [c EXCEPT !.pending = p].pending = p
  BY DEF Characters
<1>5. \A j \in 1 .. n :
        /\ Marked(i, p)[j] \in Characters
        /\ Marked(i, p)[j].name = account[j].name
        /\ Marked(i, p)[j].class = account[j].class
        /\ Marked(i, p)[j].pending = IF j = i THEN p ELSE account[j].pending
  BY <1>2, <1>3, <1>4
<1>6. Marked(i, p) \in [1 .. n -> Characters]
  BY <1>2, <1>3, <1>4
<1>7. Marked(i, p) \in Seq(Characters) /\ Len(Marked(i, p)) = n
  BY <1>3, <1>6, <1>1
<1> QED BY <1>1, <1>2, <1>5, <1>7

Without(list, i) == SubSeq(list, 1, i - 1) \o SubSeq(list, i + 1, Len(list))

LEMMA Removed ==
  ASSUME NEW S, NEW list \in Seq(S), NEW i \in DOMAIN list
  PROVE  /\ Without(list, i) \in Seq(S)
         /\ Len(Without(list, i)) = Len(list) - 1
         /\ \A j \in 1 .. Len(list) - 1 :
              Without(list, i)[j] = IF j < i THEN list[j] ELSE list[j + 1]
<1> DEFINE a == SubSeq(list, 1, i - 1)
           b == SubSeq(list, i + 1, Len(list))
<1>1. /\ a \in Seq(S) /\ Len(a) = i - 1
      /\ \A j \in 1 .. i - 1 : a[j] = list[j]
  OBVIOUS
<1>2. /\ b \in Seq(S) /\ Len(b) = Len(list) - i
      /\ \A j \in 1 .. Len(list) - i : b[j] = list[j + i]
  OBVIOUS
<1> HIDE DEF a, b
<1>3. /\ a \o b \in Seq(S) /\ Len(a \o b) = Len(a) + Len(b)
      /\ \A j \in 1 .. Len(a) + Len(b) :
           (a \o b)[j] = IF j <= Len(a) THEN a[j] ELSE b[j - Len(a)]
  BY <1>1, <1>2, ConcatProperties
<1>4. Without(list, i) = a \o b
  BY DEF Without, a, b
<1>5. ASSUME NEW j \in 1 .. Len(list) - 1
      PROVE  (a \o b)[j] = IF j < i THEN list[j] ELSE list[j + 1]
  <2>1. i \in Nat /\ j \in Nat /\ Len(list) \in Nat /\ j \in 1 .. Len(a) + Len(b)
    BY <1>1, <1>2
  <2>2. CASE j < i
    BY <2>1, <2>2, <1>1, <1>3
  <2>3. CASE ~ j < i
    <3>1. j - (i - 1) \in 1 .. Len(list) - i
      BY <2>1, <2>3
    <3>2. b[j - (i - 1)] = list[j + 1]
      BY <3>1, <2>1, <1>2
    <3> QED BY <3>2, <2>1, <2>3, <1>1, <1>3
  <2> QED BY <2>2, <2>3
<1> QED BY <1>1, <1>2, <1>3, <1>4, <1>5

(***************************************************************************)
(* Every step keeps the types.                                             *)
(***************************************************************************)
LEMMA AskedIns ==
  /\ AskedIn("idle") = {"none"}
  /\ AskedIn("list") = {"AuthLogin", "none"}
  /\ AskedIn("created") = {"CharacterCreate", "none"}
  /\ AskedIn("deleted") = {"CharacterDelete", "none"}
  /\ AskedIn("restored") = {"CharacterRestore", "none"}
  /\ AskedIn("selected") = {"CharacterSelect", "none"}
BY DEF AskedIn

LEMMA InitShape ==
  ASSUME LobbyInit
  PROVE  Typed /\ Quiet
<1>1. request = None /\ None \in Requests /\ request.op = "none" /\ None.op = "none"
  BY DEF LobbyInit, None, Requests
<1>2. account \in Seq(Characters) /\ Mail(inbox, Replies) /\ spawn \in Int \X Int
  BY DEF LobbyInit, Mail
<1> QED BY <1>1, <1>2, AskedIns DEF LobbyInit, Typed, Quiet, Phases

(* What the client does with what it reads.                                *)
LEMMA Handled ==
  ASSUME Typed, UNCHANGED <<serverVars, runVars>>, inbox' = << >>,
         phase' \in Phases, slot' \in 0 .. 2,
         request' \in Requests, request'.op \in AskedIn(phase'),
         verdict' \in {"none", "pass", "fail"},
         phase' # "idle" => verdict' = "none"
  PROVE  Typed' /\ Quiet'
<1>1. Characters' = Characters /\ Requests' = Requests
  BY NamesStay DEF runVars
<1>2. Mail(inbox', Replies')
  BY DEF Mail
<1>3. /\ account' \in Seq(Characters) /\ spawn' \in Int \X Int
      /\ scenario' \in {"A", "B"} /\ class' \in Nat
  BY DEF Typed, serverVars, runVars
<1>4. Typed'
  BY <1>1, <1>2, <1>3, Zenon DEF Typed, Mail
<1>5. Quiet'
  BY DEF Quiet
<1> QED BY <1>4, <1>5

LEMMA Asks ==
  /\ \A s \in 0 .. 2 : Create(s) =>
       /\ phase' = "created" /\ request' \in Requests /\ request'.op \in AskedIn("created")
       /\ verdict' = verdict /\ slot' \in 0 .. 2
  /\ CharacterDelete =>
       /\ phase' = "deleted" /\ request' \in Requests /\ request'.op \in AskedIn("deleted")
       /\ verdict' = verdict /\ slot' = slot
  /\ CharacterRestore =>
       /\ phase' = "restored" /\ request' \in Requests /\ request'.op \in AskedIn("restored")
       /\ verdict' = verdict /\ slot' = slot
  /\ \A s \in 0 .. 1 : CharacterSelect(s) =>
       /\ phase' = "selected" /\ request' \in Requests /\ request'.op \in AskedIn("selected")
       /\ verdict' = verdict /\ slot' = slot
  /\ \A v : Finish(v) =>
       /\ phase' = "idle" /\ request' \in Requests /\ request'.op \in AskedIn("idle")
       /\ verdict' = v
<1>1. ASSUME NEW s \in 0 .. 2, Create(s)
      PROVE  /\ phase' = "created" /\ request' \in Requests /\ request'.op \in AskedIn("created")
             /\ verdict' = verdict /\ slot' \in 0 .. 2
  <2>1. SlotName(s) \in Names /\ Classes[s + 1] \in Nat
    BY SlotNames
  <2>2. request' = [op |-> "CharacterCreate", name |-> SlotName(s), class |-> Classes[s + 1]]
    BY <1>1, Zenon DEF Create, Ask
  <2>3. request' \in Requests /\ request'.op = "CharacterCreate"
    BY <2>1, <2>2 DEF Requests
  <2> QED BY <2>3, <1>1, AskedIns, Zenon DEF Create, Ask
<1>2. ASSUME CharacterDelete
      PROVE  /\ phase' = "deleted" /\ request' \in Requests /\ request'.op \in AskedIn("deleted")
             /\ verdict' = verdict /\ slot' = slot
  BY <1>2, AskedIns DEF CharacterDelete, Ask, Requests
<1>3. ASSUME CharacterRestore
      PROVE  /\ phase' = "restored" /\ request' \in Requests /\ request'.op \in AskedIn("restored")
             /\ verdict' = verdict /\ slot' = slot
  BY <1>3, AskedIns DEF CharacterRestore, Ask, Requests
<1>4. ASSUME NEW s \in 0 .. 1, CharacterSelect(s)
      PROVE  /\ phase' = "selected" /\ request' \in Requests /\ request'.op \in AskedIn("selected")
             /\ verdict' = verdict /\ slot' = slot
  BY <1>4, AskedIns DEF CharacterSelect, Ask, Requests
<1>5. ASSUME NEW v, Finish(v)
      PROVE  /\ phase' = "idle" /\ request' \in Requests /\ request'.op \in AskedIn("idle")
             /\ verdict' = v
  BY <1>5, AskedIns DEF Finish, Requests, None
<1> QED BY <1>1, <1>2, <1>3, <1>4, <1>5, Zenon

LEMMA MailRead ==
  ASSUME Typed, inbox # << >>
  PROVE  /\ Head(inbox) \in Replies \cup Noise
         /\ Mail(Tail(inbox), Replies)
         /\ GotList => Chars = account
<1>1. Head(inbox) \in Replies \cup Noise /\ Mail(Tail(inbox), Replies)
  <2>1. CASE \E p \in Replies : inbox = <<p>>
    <3>1. PICK p \in Replies : inbox = <<p>>
      BY <2>1
    <3>2. Head(inbox) = p /\ Tail(inbox) = << >>
      BY <3>1
    <3> QED BY <3>1, <3>2, Zenon DEF Mail
  <2>2. CASE \E p \in Replies, q \in Noise : inbox = <<q, p>>
    <3>1. PICK p \in Replies, q \in Noise : inbox = <<q, p>>
      BY <2>2
    <3>2. Head(inbox) = q /\ Tail(inbox) = <<p>>
      BY <3>1
    <3> QED BY <3>1, <3>2, Zenon DEF Mail
  <2> QED BY <2>1, <2>2 DEF Typed, Mail
<1>2. ASSUME GotList
      PROVE  Chars = account
  BY <1>1, <1>2 DEF GotList, Got, Chars, Replies, Noise
<1> QED BY <1>1, <1>2

LEMMA FillAsks ==
  ASSUME NEW s \in 0 .. 3, FillFrom(s), slot \in 0 .. 2
  PROVE  /\ phase' \in Phases \ {"idle"} /\ slot' \in 0 .. 2 /\ verdict' = verdict
         /\ request' \in Requests /\ request'.op \in AskedIn(phase')
         /\ s < 3 => Create(s)
         /\ ~ s < 3 => CharacterDelete
BY Asks DEF FillFrom, Phases

LEMMA LengthBound ==
  ASSUME Shape
  PROVE  Len(account) \in 0 .. 3
<1>1. account \in Seq(Characters) /\ Len(account) <= 3
  BY Zenon DEF Shape, Typed, Room
<1>2. PICK n \in Nat : n = Len(account)
  BY <1>1
<1>3. n <= 3
  BY <1>1, <1>2, Zenon
<1>4. n \in 0 .. 3
  BY <1>3
<1> QED BY <1>2, <1>4, Zenon

LEMMA ClientShape ==
  ASSUME Shape,
         ReadList \/ ReadCreatedLobby \/ ReadDeleted \/ ReadRestored
           \/ ReadSelectedLobby \/ SkipUnasked \/ RefuseReply \/ ReadFailsLobby
  PROVE  Typed' /\ Quiet'
<1> USE DEF Shape
<1>0. /\ slot \in 0 .. 2 /\ Len(account) \in 0 .. 3 /\ account \in Seq(Characters)
      /\ class \in Nat /\ phase \in Phases /\ SanitizeName \in Names
  <2>1. /\ slot \in 0 .. 2 /\ account \in Seq(Characters)
        /\ class \in Nat /\ phase \in Phases /\ SanitizeName \in Names
    BY DEF Typed, Names
  <2> QED BY <2>1, LengthBound
<1>1. CASE ReadList
  <2>1. /\ UNCHANGED <<serverVars, runVars>> /\ inbox' = << >> /\ Chars = account
        /\ phase = "list"
    BY <1>1, MailRead DEF ReadList, Reads
  <2>2. verdict = "none"
    BY <2>1 DEF Quiet
  <2>3. CASE FillFrom(Len(Chars))
    <3>0. Len(Chars) = Len(account)
      BY <2>1, Zenon
    <3>1. Len(Chars) \in 0 .. 3
      BY <3>0, <1>0
    <3> QED BY <2>1, <2>2, <2>3, <3>1, <1>0, FillAsks, Handled
  <2>4. CASE /\ Ask([op |-> "CharacterCreate", name |-> SanitizeName, class |-> class], "created")
             /\ slot' = 0
    <3>1. /\ request' \in Requests /\ request'.op = "CharacterCreate"
          /\ phase' = "created" /\ verdict' = verdict
      BY <2>4, <1>0 DEF Ask, Requests
    <3> QED BY <2>1, <2>2, <2>4, <3>1, Handled, AskedIns DEF Phases
  <2>5. CASE CharacterSelect(0)
    BY <2>1, <2>2, <2>5, <1>0, Asks, Handled DEF Phases
  <2> QED BY <1>1, <2>3, <2>4, <2>5 DEF ReadList
<1>2. CASE ReadCreatedLobby
  <2>1. /\ UNCHANGED <<serverVars, runVars>> /\ inbox' = << >> /\ phase = "created"
    BY <1>2 DEF ReadCreatedLobby, Reads
  <2>2. verdict = "none"
    BY <2>1 DEF Quiet
  <2>3. CASE FillFrom(slot + 1)
    <3>1. slot + 1 \in 0 .. 3
      BY <1>0
    <3> QED BY <2>1, <2>2, <2>3, <3>1, <1>0, FillAsks, Handled
  <2>4. CASE CharacterSelect(0)
    BY <2>1, <2>2, <2>4, <1>0, Asks, Handled DEF Phases
  <2> QED BY <1>2, <2>3, <2>4 DEF ReadCreatedLobby
<1>3. CASE ReadDeleted
  <2>1. /\ UNCHANGED <<serverVars, runVars>> /\ inbox' = << >> /\ phase = "deleted"
    BY <1>3 DEF ReadDeleted, Reads
  <2>2. verdict = "none"
    BY <2>1 DEF Quiet
  <2>3. CASE CharacterRestore
    BY <2>1, <2>2, <2>3, <1>0, Asks, Handled DEF Phases
  <2>4. CASE Finish("fail") /\ UNCHANGED slot
    BY <2>1, <2>2, <2>4, <1>0, Asks, Handled DEF Phases
  <2> QED BY <1>3, <2>3, <2>4 DEF ReadDeleted
<1>4. CASE ReadRestored
  <2>1. /\ UNCHANGED <<serverVars, runVars>> /\ inbox' = << >> /\ phase = "restored"
    BY <1>4 DEF ReadRestored, Reads
  <2>2. verdict = "none"
    BY <2>1 DEF Quiet
  <2>3. CASE CharacterSelect(1)
    BY <2>1, <2>2, <2>3, <1>0, Asks, Handled DEF Phases
  <2>4. CASE Finish("fail") /\ UNCHANGED slot
    BY <2>1, <2>2, <2>4, <1>0, Asks, Handled DEF Phases
  <2> QED BY <1>4, <2>3, <2>4 DEF ReadRestored
<1>5. CASE ReadSelectedLobby
  <2>1. /\ UNCHANGED <<serverVars, runVars>> /\ inbox' = << >> /\ UNCHANGED slot
    BY <1>5 DEF ReadSelectedLobby, Reads
  <2>2. PICK v \in {"pass", "fail"} : Finish(v)
    BY <1>5 DEF ReadSelectedLobby
  <2> QED BY <2>1, <2>2, <1>0, Asks, Handled DEF Phases
<1>6. CASE SkipUnasked
  <2>1. /\ UNCHANGED <<serverVars, runVars>> /\ inbox' = Tail(inbox) /\ inbox # << >>
        /\ UNCHANGED <<request, clientVars>> /\ phase = "selected"
    BY <1>6 DEF SkipUnasked, Reads
  <2>2. Characters' = Characters /\ Requests' = Requests /\ Replies' = Replies
    BY <2>1, NamesStay DEF runVars, serverVars, Replies
  <2>3. Mail(inbox', Replies)
    BY <2>1, MailRead
  <2>4. request.op = "none"
    BY <2>1 DEF Quiet
  <2>5. Typed'
    BY <2>1, <2>2, <2>3, Zenon DEF Typed, serverVars, runVars, clientVars
  <2>6. Quiet'
    BY <2>1, <2>4 DEF Quiet, clientVars
  <2> QED BY <2>5, <2>6
<1>7. CASE RefuseReply \/ ReadFailsLobby
  <2>1. /\ UNCHANGED <<serverVars, runVars>> /\ inbox' = << >> /\ UNCHANGED slot
        /\ Finish("fail")
    BY <1>7 DEF RefuseReply, ReadFailsLobby, Reads
  <2> QED BY <2>1, <1>0, Asks, Handled DEF Phases
<1> QED BY <1>1, <1>2, <1>3, <1>4, <1>5, <1>6, <1>7

LEMMA ServerShape ==
  ASSUME Typed, Quiet, Serve
  PROVE  Typed' /\ Quiet'
<1>1. /\ UNCHANGED <<runVars, clientVars>> /\ request' = None /\ phase # "idle"
  <2>1. \E op \in {"AuthLogin", "CharacterCreate", "CharacterSelect", "CharacterDelete",
                    "CharacterRestore"} : Asked(op)
    BY DEF Serve, ServeLogin, ServeCreate, ServeSelect, ServeMark
  <2>2. request' = None /\ request.op # "none"
    BY <2>1 DEF Asked
  <2>3. phase # "idle"
    BY <2>2, AskedIns DEF Typed
  <2> QED BY <2>2, <2>3 DEF Serve
<1>2. Characters' = Characters /\ Requests' = Requests
  BY <1>1, NamesStay DEF runVars
<1>3. None \in Requests /\ None.op = "none"
  BY DEF None, Requests
<1>4. account \in Seq(Characters)
  BY DEF Typed
<1>5. /\ account' \in Seq(Characters)
      /\ Mail(inbox', Replies')
      /\ spawn' \in Int \X Int
  <2>0. [op : {"CharSelectionInfo"}, chars : {account'}, whole : BOOLEAN] \subseteq Replies'
    BY DEF Replies
  <2>1. CASE ServeLogin
    <3>1. UNCHANGED <<account, selected, spawn>> /\ ReplyList(account)
      BY <2>1 DEF ServeLogin
    <3>2. ReplyList(account')
      BY <3>1
    <3>3. Mail(inbox', Replies')
      BY <3>2, <2>0, ListMail
    <3> QED BY <3>1, <3>3 DEF Typed
  <2>2. CASE ServeCreate
    <3>1. \/ account' = account
          \/ \E c \in Nat : account' = Append(account, Character(request.name, c)) /\ request.name \in Names
      <4>1. request.op = "CharacterCreate"
        BY <2>2 DEF ServeCreate, Asked
      <4>2. request.name \in Names /\ request.class \in Nat
        BY <4>1 DEF Typed, Requests
      <4>3. \A i \in 1 .. 3 : Classes[i] \in Nat
        BY DEF Classes
      <4> QED BY <2>2, <4>2, <4>3 DEF ServeCreate
    <3>2. account' \in Seq(Characters)
      <4>1. \A n \in Names, c \in Nat : Character(n, c) \in Characters
        BY DEF Character, Characters
      <4> QED BY <3>1, <4>1, <1>4, Added
    <3>3. \E op \in {"CharCreateFail", "CharCreateSuccess"} : Reply([op |-> op])
      BY <2>2 DEF ServeCreate
    <3>4. \A op \in {"CharCreateFail", "CharCreateSuccess"} : [op |-> op] \in Replies'
      BY DEF Replies
    <3>5. Mail(inbox', Replies')
      BY <3>3, <3>4, ReplyMail
    <3> QED BY <3>2, <3>5, <2>2 DEF ServeCreate, Typed
  <2>3. CASE ServeSelect
    <3>1. PICK i \in DOMAIN account :
            selected' = i /\ Reply([op |-> "CharSelected", class |-> account[i].class])
      BY <2>3 DEF ServeSelect
    <3>2. account' = account /\ spawn' \in Int \X Int
      BY <2>3, LobbyAssumption DEF ServeSelect
    <3>3. [op |-> "CharSelected", class |-> account[i].class] \in Replies'
      BY <3>1, <3>2 DEF Replies
    <3>4. Mail(inbox', Replies')
      BY <3>1, <3>3, ReplyMail
    <3> QED BY <3>2, <3>4, <1>4
  <2>4. ASSUME NEW op, NEW kind, NEW p \in BOOLEAN, ServeMark(op, kind, p)
        PROVE  /\ account' \in Seq(Characters)
               /\ Mail(inbox', Replies')
               /\ spawn' \in Int \X Int
    <3>1. account' = account \/ \E i : account' = Marked(i, p)
      BY <2>4 DEF ServeMark
    <3>2. account' \in Seq(Characters)
      BY <3>1, <1>4, MarkedList
    <3>3. ReplyList(account') /\ spawn' = spawn
      BY <2>4 DEF ServeMark
    <3>4. Mail(inbox', Replies')
      BY <3>3, <2>0, ListMail
    <3> QED BY <3>2, <3>3, <3>4 DEF Typed
  <2> QED BY <2>1, <2>2, <2>3, <2>4 DEF Serve
<1>6. Typed'
  BY <1>1, <1>2, <1>3, <1>5, AskedIns, Zenon DEF Typed, runVars, clientVars, Phases
<1>7. Quiet'
  BY <1>1, <1>3 DEF Quiet, clientVars
<1> QED BY <1>6, <1>7

(* What the phase says of the request that is served.                      *)
LEMMA Served ==
  ASSUME Typed
  PROVE  /\ ServeLogin => phase = "list"
         /\ ServeCreate => phase = "created" /\ request.op = "CharacterCreate"
         /\ ServeSelect => phase = "selected" /\ request.op = "CharacterSelect"
         /\ \A kind, p : ServeMark("CharacterDelete", kind, p) =>
              phase = "deleted" /\ request.op = "CharacterDelete" /\ request.slot = 1
         /\ \A kind, p : ServeMark("CharacterRestore", kind, p) =>
              phase = "restored" /\ request.op = "CharacterRestore" /\ request.slot = 1
<1>1. \A op : Asked(op) => request.op = op /\ op \in AskedIn(phase)
  BY DEF Asked, Typed
<1>2. phase \in Phases /\ request \in Requests
  BY DEF Typed
<1>3. request.op \in {"CharacterDelete", "CharacterRestore"} => request.slot = 1
  BY <1>2 DEF Requests
<1>4. /\ "AuthLogin" \in AskedIn(phase) => phase = "list"
      /\ "CharacterCreate" \in AskedIn(phase) => phase = "created"
      /\ "CharacterSelect" \in AskedIn(phase) => phase = "selected"
      /\ "CharacterDelete" \in AskedIn(phase) => phase = "deleted"
      /\ "CharacterRestore" \in AskedIn(phase) => phase = "restored"
  BY <1>2, AskedIns DEF Phases
<1> QED BY <1>1, <1>3, <1>4 DEF ServeLogin, ServeCreate, ServeSelect, ServeMark

LEMMA ServedRoom ==
  ASSUME Shape, Serve
  PROVE  Room'
<1> USE DEF Shape
<1>1. /\ slot' = slot /\ phase' = phase /\ request' = None
      /\ None.op = "none" /\ slot \in 0 .. 2 /\ Len(account) <= 3
      /\ account \in Seq(Characters) /\ Len(account) \in Nat
  <2>1. request' = None
    BY DEF Serve, ServeLogin, ServeCreate, ServeSelect, ServeMark, Asked
  <2> QED BY <2>1 DEF Serve, clientVars, None, Typed, Room
<1>2. CASE ServeCreate
  <2>1. /\ phase = "created" /\ Len(account) = slot
    BY <1>2, Served DEF Room
  <2>2. CASE Reply([op |-> "CharCreateFail"]) /\ UNCHANGED account
    <3>1. Head(inbox').op # "CharCreateSuccess"
      BY <2>2 DEF Reply
    <3> QED BY <1>1, <2>1, <2>2, <3>1 DEF Room, Got
  <2>3. CASE \E c : account' = Append(account, c)
    <3>1. PICK c : account' = Append(account, c)
      BY <2>3
    <3>2. account \in Seq(Characters \cup {c})
      BY <1>1
    <3>3. Len(account') = Len(account) + 1
      BY <3>1, <3>2, Added
    <3>4. Len(account') = slot + 1 /\ slot + 1 <= 3
      BY <3>3, <2>1, <1>1
    <3> QED BY <3>4, <1>1 DEF Room
  <2> QED BY <1>2, <2>2, <2>3 DEF ServeCreate
<1>3. CASE phase # "created" /\ Len(account') = Len(account)
  BY <1>1, <1>3 DEF Room
<1>4. CASE ServeLogin \/ ServeSelect
  <2>1. phase # "created" /\ account' = account
    BY <1>4, Served DEF ServeLogin, ServeSelect
  <2> QED BY <2>1, <1>3
<1>5. ASSUME NEW op \in {"CharacterDelete", "CharacterRestore"}, NEW kind, NEW p \in BOOLEAN,
             ServeMark(op, kind, p)
      PROVE  Room'
  <2>1. phase # "created"
    BY <1>5, Served
  <2>2. account' = account \/ \E i : account' = Marked(i, p)
    BY <1>5 DEF ServeMark
  <2>3. Len(account') = Len(account)
    BY <2>2, <1>1, MarkedList
  <2> QED BY <2>1, <2>3, <1>3
<1> QED BY <1>2, <1>4, <1>5 DEF Serve

LEMMA ClientRoom ==
  ASSUME Shape, Typed',
         ReadList \/ ReadCreatedLobby \/ ReadDeleted \/ ReadRestored
           \/ ReadSelectedLobby \/ SkipUnasked \/ RefuseReply \/ ReadFailsLobby
  PROVE  Room'
<1> USE DEF Shape
<1>0. /\ account' = account /\ Len(account) \in 0 .. 3 /\ slot \in 0 .. 2
  <2>1. account' = account
    BY DEF ReadList, ReadCreatedLobby, ReadDeleted, ReadRestored, ReadSelectedLobby,
           SkipUnasked, RefuseReply, ReadFailsLobby, Reads, serverVars
  <2> QED BY <2>1, LengthBound DEF Typed
<1>1. ASSUME inbox' = << >>, request'.op = "CharacterCreate" => Len(account) = slot'
      PROVE  Room'
  BY <1>0, <1>1 DEF Room
<1>2. ASSUME NEW s \in 0 .. 3, FillFrom(s), s = Len(account)
      PROVE  request'.op = "CharacterCreate" => Len(account) = slot'
  <2>1. CASE s < 3
    BY <1>2, <2>1 DEF FillFrom, Create
  <2>2. CASE ~ s < 3
    BY <1>2, <2>2 DEF FillFrom, CharacterDelete, Ask
  <2> QED BY <2>1, <2>2
<1>3. CASE ReadList
  <2>1. inbox' = << >> /\ Chars = account
    BY <1>3, MailRead DEF ReadList, Reads
  <2>2. Len(Chars) = Len(account) /\ (Chars = << >> => Len(account) = 0)
    BY <2>1
  <2>3. CASE FillFrom(Len(Chars))
    BY <2>1, <2>2, <2>3, <1>0, <1>1, <1>2
  <2>4. CASE Chars = << >> /\ slot' = 0
    BY <2>1, <2>2, <2>4, <1>1
  <2>5. CASE CharacterSelect(0)
    BY <2>1, <2>5, <1>1 DEF CharacterSelect, Ask
  <2> QED BY <1>3, <2>3, <2>4, <2>5 DEF ReadList
<1>4. CASE ReadCreatedLobby
  <2>1. inbox' = << >> /\ Len(account) = slot + 1
    BY <1>4 DEF ReadCreatedLobby, Reads, Room
  <2>2. CASE FillFrom(slot + 1)
    BY <2>1, <2>2, <1>0, <1>1, <1>2
  <2>3. CASE CharacterSelect(0)
    BY <2>1, <2>3, <1>1 DEF CharacterSelect, Ask
  <2> QED BY <1>4, <2>2, <2>3 DEF ReadCreatedLobby
<1>5. CASE ReadDeleted \/ ReadRestored \/ ReadSelectedLobby \/ RefuseReply \/ ReadFailsLobby
  <2>1. inbox' = << >>
    BY <1>5 DEF ReadDeleted, ReadRestored, ReadSelectedLobby, RefuseReply, ReadFailsLobby
  <2>2. request'.op # "CharacterCreate"
    BY <1>5 DEF ReadDeleted, ReadRestored, ReadSelectedLobby, RefuseReply, ReadFailsLobby,
                CharacterRestore, CharacterSelect, Ask, Finish, None
  <2> QED BY <2>1, <2>2, <1>1
<1>6. CASE SkipUnasked
  BY <1>6, <1>0 DEF SkipUnasked, Reads, clientVars, Room
<1> QED BY <1>3, <1>4, <1>5, <1>6

(* What is neither the server's doing nor a packet that is read.            *)
LEMMA OtherShape ==
  ASSUME Shape, StartRun \/ Purge \/ OthersCreate \/ LoseLobby \/ UNCHANGED lobbyVars
  PROVE  Shape'
<1> USE DEF Shape
<1>0. login' = login
  BY DEF StartRun, Purge, OthersCreate, LoseLobby, runVars, lobbyVars
<1>1. Characters' = Characters /\ Requests' = Requests
  BY <1>0, NamesStay
<1>2. CASE StartRun
  <2>1. request' = [op |-> "AuthLogin"] /\ phase' = "list" /\ inbox' = << >>
    BY <1>2 DEF StartRun, Quiet
  <2>2. request' \in Requests /\ request'.op = "AuthLogin"
    BY <2>1 DEF Requests
  <2>3. scenario' \in {"A", "B"} /\ class' \in Nat
    BY <1>2, LobbyAssumption DEF StartRun
  <2>4. Mail(inbox', Replies')
    BY <2>1 DEF Mail
  <2>5. Typed'
    BY <1>1, <1>2, <2>1, <2>2, <2>3, <2>4, AskedIns DEF Typed, StartRun, Phases
  <2>6. Quiet' /\ Room'
    BY <1>2, <2>1 DEF Quiet, Room, StartRun
  <2> QED BY <2>5, <2>6
<1>3. CASE Purge
  <2>1. phase = "idle" /\ UNCHANGED <<netVars, runVars, clientVars, spawn>>
    BY <1>3 DEF Purge
  <2>2. inbox = << >> /\ request.op = "none"
    BY <2>1, AskedIns DEF Quiet, Typed
  <2>3. PICK i \in DOMAIN account : account' = Without(account, i)
    BY <1>3 DEF Purge, Without
  <2>4. account \in Seq(Characters) /\ Len(account) <= 3
    BY DEF Typed, Room
  <2>5. account' \in Seq(Characters) /\ Len(account') = Len(account) - 1
    BY <2>3, <2>4, Removed
  <2>6. Len(account') <= 3
    BY <2>4, <2>5
  <2>7. Mail(inbox', Replies')
    BY <2>1, <2>2 DEF netVars, Mail
  <2>8. Typed'
    BY <1>1, <2>1, <2>5, <2>7, Zenon DEF Typed, netVars, runVars, clientVars
  <2>9. Quiet' /\ Room'
    BY <2>1, <2>2, <2>6 DEF Quiet, Room, netVars, clientVars
  <2> QED BY <2>8, <2>9
<1>4. CASE OthersCreate \/ LoseLobby \/ UNCHANGED lobbyVars
  <2>1. UNCHANGED <<account, selected, spawn, request, inbox, runVars, clientVars>>
    BY <1>4 DEF OthersCreate, LoseLobby, lobbyVars, netVars, serverVars
  <2>2. Mail(inbox', Replies')
    BY <2>1, Zenon DEF Typed, Mail, Replies
  <2>3. Typed'
    BY <1>1, <2>1, <2>2, Zenon DEF Typed, runVars, clientVars
  <2>4. Quiet' /\ Room'
    BY <2>1 DEF Quiet, Room, clientVars, Got
  <2> QED BY <2>3, <2>4
<1> QED BY <1>2, <1>3, <1>4

LEMMA StepShape ==
  ASSUME Shape, [LobbyNext]_lobbyVars
  PROVE  Shape'
<1>1. CASE Serve
  BY <1>1, ServerShape, ServedRoom DEF Shape
<1>2. CASE StartRun \/ Purge \/ OthersCreate \/ LoseLobby \/ UNCHANGED lobbyVars
  BY <1>2, OtherShape
<1>3. CASE ReadList \/ ReadCreatedLobby \/ ReadDeleted \/ ReadRestored
             \/ ReadSelectedLobby \/ SkipUnasked \/ RefuseReply \/ ReadFailsLobby
  BY <1>3, ClientShape, ClientRoom DEF Shape
<1> QED BY <1>1, <1>2, <1>3 DEF LobbyNext, Drive

LEMMA InitAll ==
  ASSUME LobbyInit
  PROVE  Shape /\ account = << >> /\ verdict = "none"
<1>1. account = << >> /\ Len(account) = 0 /\ request.op = "none" /\ inbox = << >>
  BY DEF LobbyInit, None
<1>2. Typed /\ Quiet
  BY InitShape
<1>3. Room
  BY <1>1 DEF Room
<1>4. verdict = "none"
  BY DEF LobbyInit
<1> QED BY <1>1, <1>2, <1>3, <1>4 DEF Shape

LEMMA ShapeHolds == LobbySpec => []Shape
<1>1. LobbyInit => Shape
  BY InitAll
<1>2. Shape /\ [LobbyNext]_lobbyVars => Shape'
  BY StepShape
<1> QED BY <1>1, <1>2, PTL DEF LobbySpec

(***************************************************************************)
(* What is left on the account.                                            *)
(***************************************************************************)

(* The server's part: a mark is set in slot 1 or taken away, and nobody    *)
(* else is touched; a new character is not marked.                         *)
LEMMA ServedMarks ==
  ASSUME Shape, Serve, OnlySlot1LeftPending
  PROVE  OnlySlot1LeftPending'
<1> SUFFICES ASSUME ~ spoiled'
             PROVE  \A i \in DOMAIN account' : account'[i].pending => i = 2
  BY DEF OnlySlot1LeftPending
<1> USE DEF Shape
<1>1. account \in Seq(Characters)
  BY DEF Typed
<1>2. ASSUME Obeys
      PROVE  \A i \in DOMAIN account : account[i].pending => i = 2
  BY <1>2 DEF Obeys, OnlySlot1LeftPending
<1>3. \A kind : ~ Astray(kind)
  BY DEF Astray
<1>4. CASE ServeLogin \/ ServeSelect
  BY <1>2, <1>3, <1>4 DEF ServeLogin, ServeSelect
<1>5. CASE ServeCreate
  <2>1. CASE account' = account
    BY <1>2, <1>3, <1>5, <2>1 DEF ServeCreate
  <2>2. CASE account' = Append(account, Character(request.name, request.class))
    <3>1. PICK c : c = Character(request.name, request.class)
      OBVIOUS
    <3>2. ~ c.pending
      BY <3>1 DEF Character
    <3>3. account \in Seq(Characters \cup {c})
      BY <1>1
    <3>4. PICK n \in Nat : n = Len(account) /\ DOMAIN account = 1 .. n
      BY <1>1
    <3>5. /\ account' = Append(account, c) /\ Len(account') = n + 1
          /\ account' \in Seq(Characters \cup {c})
          /\ \A i \in 1 .. n : account'[i] = account[i]
          /\ account'[n + 1] = c
      BY <2>2, <3>1, <3>3, <3>4, Added
    <3>6. DOMAIN account' = 1 .. n + 1
      BY <3>5
    <3>7. Obeys
      BY <1>3, <1>5, <2>2, Zenon DEF ServeCreate
    <3> QED BY <3>2, <3>4, <3>5, <3>6, <3>7, <1>2
  <2> QED BY <1>3, <1>5, <2>1, <2>2, Zenon DEF ServeCreate
<1>6. ASSUME NEW op \in {"CharacterDelete", "CharacterRestore"}, NEW kind, NEW p \in BOOLEAN,
             ServeMark(op, kind, p)
      PROVE  \A i \in DOMAIN account' : account'[i].pending => i = 2
  <2>1. request.slot = 1
    BY <1>6, Served
  <2>2. account' = Marked(2, p) /\ Obeys
    BY <1>3, <1>6, <2>1 DEF ServeMark
  <2>3. DOMAIN account' = DOMAIN account
    BY <2>2 DEF Marked
  <2> QED BY <2>2, <2>3, <1>1, <1>2, MarkedList
<1> QED BY <1>4, <1>5, <1>6 DEF Serve

LEMMA PurgedMarks ==
  ASSUME Shape, Purge, OnlySlot1LeftPending
  PROVE  OnlySlot1LeftPending'
<1> USE DEF Shape
<1>1. CASE spoiled
  BY <1>1 DEF Purge, OnlySlot1LeftPending
<1>2. CASE ~ spoiled
  <2>1. PICK i \in DOMAIN account : account[i].pending /\ account' = Without(account, i)
    BY DEF Purge, Without
  <2>2. i = 2 /\ \A j \in DOMAIN account : account[j].pending => j = 2
    BY <1>2, <2>1 DEF OnlySlot1LeftPending
  <2>3. account \in Seq(Characters)
    BY DEF Typed
  <2>4. PICK n \in Nat : n = Len(account) /\ DOMAIN account = 1 .. n
    BY <2>3
  <2>5. /\ account' \in Seq(Characters) /\ Len(account') = n - 1
        /\ \A j \in 1 .. n - 1 : account'[j] = IF j < 2 THEN account[j] ELSE account[j + 1]
    BY <2>1, <2>2, <2>3, <2>4, Removed
  <2>6. DOMAIN account' = 1 .. n - 1
    BY <2>5
  <2>7. ASSUME NEW j \in 1 .. n - 1
        PROVE  ~ account'[j].pending
    <3>1. j \in 1 .. n /\ j + 1 \in 1 .. n
      BY <2>4
    <3>2. CASE j < 2
      BY <3>1, <3>2, <2>2, <2>4, <2>5
    <3>3. CASE ~ j < 2
      <4>1. account'[j] = account[j + 1] /\ j + 1 # 2
        BY <3>3, <2>5
      <4> QED BY <4>1, <3>1, <2>2, <2>4
    <3> QED BY <3>2, <3>3
  <2> QED BY <2>6, <2>7 DEF OnlySlot1LeftPending
<1> QED BY <1>1, <1>2

(* Nothing else changes the account.                                       *)
LEMMA AccountStays ==
  ASSUME LobbyNext, ~ Serve, ~ Purge
  PROVE  UNCHANGED <<account, spoiled, purged>> /\ taken \subseteq taken'
BY DEF LobbyNext, Drive, StartRun, ReadList, ReadCreatedLobby, ReadDeleted, ReadRestored,
       ReadSelectedLobby, SkipUnasked, RefuseReply, ReadFailsLobby, Reads, OthersCreate,
       LoseLobby, serverVars

(* OnlySlot1LeftPending: whatever becomes of the runs, no character but    *)
(* the one of slot 1 is left pending deletion by a server that obeys.      *)
THEOREM OnlySlot1LeftPendingHolds == LobbySpec => []OnlySlot1LeftPending
<1>1. LobbyInit => OnlySlot1LeftPending
  BY DEF LobbyInit, OnlySlot1LeftPending
<1>2. Shape /\ OnlySlot1LeftPending /\ [LobbyNext]_lobbyVars => OnlySlot1LeftPending'
  <2> SUFFICES ASSUME Shape, OnlySlot1LeftPending, [LobbyNext]_lobbyVars
               PROVE  OnlySlot1LeftPending'
    OBVIOUS
  <2>1. CASE Serve
    BY <2>1, ServedMarks
  <2>2. CASE Purge
    BY <2>2, PurgedMarks
  <2>3. CASE ~ Serve /\ ~ Purge
    <3>1. UNCHANGED <<account, spoiled>>
      BY <2>3, AccountStays, Zenon DEF lobbyVars, serverVars
    <3> QED BY <3>1, Zenon DEF OnlySlot1LeftPending
  <2> QED BY <2>1, <2>2, <2>3
<1> QED BY <1>1, <1>2, ShapeHolds, PTL DEF LobbySpec

(***************************************************************************)
(* Where a character may appear.                                           *)
(***************************************************************************)

(* What scenario A asserts when it passes.                                 *)
PassedNear == verdict = "pass" /\ scenario = "A" => NearVillage(spawn)

LEMMA StepPassedNear ==
  ASSUME Shape, PassedNear, [LobbyNext]_lobbyVars
  PROVE  PassedNear'
<1> USE DEF Shape
<1>1. CASE verdict' # "pass"
  BY <1>1 DEF PassedNear
<1>2. CASE UNCHANGED <<verdict, scenario, spawn>>
  BY <1>2, Zenon DEF PassedNear, NearVillage
<1>3. CASE Serve
  <2>1. phase # "idle"
    BY <1>3, Served DEF Serve
  <2>2. verdict' # "pass"
    BY <1>3, <2>1 DEF Quiet, Serve, clientVars
  <2> QED BY <2>2, <1>1
<1>4. CASE ReadSelectedLobby
  <2>1. /\ verdict' = (IF Asserted(Head(inbox).class) THEN "pass" ELSE "fail")
        /\ UNCHANGED <<scenario, spawn>>
    BY <1>4 DEF ReadSelectedLobby, Finish, Reads, serverVars, runVars
  <2>2. verdict' = "pass" /\ scenario = "A" => NearVillage(spawn)
    BY <2>1 DEF Asserted
  <2> QED BY <2>1, <2>2, Zenon DEF PassedNear, NearVillage
<1>5. CASE StartRun \/ RefuseReply \/ ReadFailsLobby
  BY <1>1, <1>5 DEF StartRun, RefuseReply, ReadFailsLobby, Finish
<1>6. CASE ReadList \/ ReadCreatedLobby \/ ReadDeleted \/ ReadRestored
  <2>1. verdict' = verdict \/ verdict' = "fail"
    BY <1>6 DEF ReadList, ReadCreatedLobby, ReadDeleted, ReadRestored, FillFrom, Create,
               CharacterDelete, CharacterRestore, CharacterSelect, Ask, Finish
  <2>2. UNCHANGED <<scenario, spawn>>
    BY <1>6 DEF ReadList, ReadCreatedLobby, ReadDeleted, ReadRestored, Reads, serverVars, runVars
  <2> QED BY <2>1, <2>2, <1>1, <1>2
<1>7. CASE SkipUnasked \/ Purge \/ OthersCreate \/ LoseLobby \/ UNCHANGED lobbyVars
  BY <1>7, <1>2 DEF SkipUnasked, Reads, Purge, OthersCreate, LoseLobby, lobbyVars,
                    clientVars, runVars, serverVars
<1> QED BY <1>3, <1>4, <1>5, <1>6, <1>7 DEF LobbyNext, Drive

LEMMA SquarePositive ==
  ASSUME NEW d \in Int \X Int
  PROVE  SquareOf(d) \in Nat
<1>1. \A n \in Int : n * n \in Nat
  <2> SUFFICES ASSUME NEW n \in Int
               PROVE  n * n \in Nat
    OBVIOUS
  <2>1. CASE n >= 0
    BY <2>1
  <2>2. CASE n < 0
    BY <2>2
  <2> QED BY <2>1, <2>2
<1>2. PICK m, n \in Nat : m = d[1] * d[1] /\ n = d[2] * d[2]
  BY <1>1
<1>3. m + n \in Nat
  OBVIOUS
<1> QED BY <1>2, <1>3 DEF SquareOf

(* A number that fits the word is what it is.                              *)
LEMMA WrapFits ==
  ASSUME NEW n \in Nat, n < HalfWord
  PROVE  Wrap(n) = n
<1>1. HalfWord \in Nat \ {0}
  BY LobbyAssumption
<1>2. n + HalfWord \in 0 .. 2 * HalfWord - 1
  BY <1>1
<1>3. \A k \in Nat, m \in Nat \ {0} : k < m => (k % m) = k
  OBVIOUS
<1>4. ((n + HalfWord) % (2 * HalfWord)) = n + HalfWord
  BY <1>1, <1>2, <1>3
<1> QED BY <1>1, <1>4 DEF Wrap

(* FarOnlyByWrapping: a character far from its village is accepted only    *)
(* when the sum of the squares does not fit the word.                      *)
THEOREM FarOnlyByWrappingHolds == LobbySpec => []FarOnlyByWrapping
<1>1. LobbyInit => PassedNear
  BY InitAll DEF PassedNear
<1>2. Shape /\ PassedNear /\ [LobbyNext]_lobbyVars => PassedNear'
  BY StepPassedNear
<1>3. Shape /\ PassedNear => FarOnlyByWrapping
  <2> SUFFICES ASSUME Shape, PassedNear, scenario = "A", verdict = "pass",
                      SquareOf(spawn) > Radius * Radius
               PROVE  SquareOf(spawn) >= HalfWord
    BY DEF FarOnlyByWrapping
  <2>1. PICK n \in Nat : n = SquareOf(spawn)
    BY SquarePositive DEF Shape, Typed
  <2>2. Wrap(n) <= Radius * Radius /\ n > Radius * Radius
    BY <2>1 DEF PassedNear, NearVillage
  <2>3. PICK r \in Int : r = Radius * Radius
    BY LobbyAssumption
  <2>4. HalfWord \in Nat
    BY LobbyAssumption
  <2>5. n >= HalfWord
    BY <2>2, <2>3, <2>4, WrapFits
  <2> QED BY <2>1, <2>5
<1> QED BY <1>1, <1>2, <1>3, ShapeHolds, PTL DEF LobbySpec

(***************************************************************************)
(* What scenario B has seen when it passes.                                *)
(***************************************************************************)
SlotMarked == Len(account) >= 2 /\ account[2].pending

(* Before the deletion is asked for: nothing happened that B has to see    *)
(* but the wrong class of a new character.                                 *)
Untouched == amiss \subseteq {"create"} /\ (wasPending <=> SlotMarked)

(* An ignored deletion goes unseen only if slot 1 was marked before.       *)
Excused == amiss \subseteq {"create"} \/ (amiss = {"delete"} /\ wasPending)

NonePending == \A i \in DOMAIN account : ~ account[i].pending

Watch ==
  scenario = "B" =>
    /\ phase = "list" => amiss = {} /\ Untouched
    /\ phase = "created" => Untouched
    /\ phase = "deleted" =>
         /\ Len(account) = 3
         /\ request.op # "none" => Untouched
         /\ request.op = "none" /\ OnlySlot1Pending(account) => Excused
    /\ phase = "restored" =>
         /\ Len(account) = 3
         /\ request.op # "none" => OnlySlot1Pending(account) /\ Excused
         /\ request.op = "none" /\ Restored(account) => NonePending /\ Excused
    /\ phase = "selected" =>
         /\ Len(account) = 3 /\ NonePending
         /\ request.op # "none" => Excused /\ request.slot = 1
         /\ request.op = "none" => selected \in 1 .. 3
         /\ request.op = "none" /\ selected = 2 => Excused
         /\ request.op = "none" /\ selected # 2 => amiss = {"select"}
    /\ verdict = "pass" =>
         Len(account) = 3 /\ NonePending /\ \A kind \in amiss : Unnoticed(kind)

LEMMA ServedKeeps ==
  ASSUME Shape, Serve
  PROVE  /\ UNCHANGED <<login, scenario, phase, slot, wasPending>>
         /\ request.op # "none" /\ request' = None /\ request'.op = "none"
         /\ phase # "idle" /\ verdict' = "none"
<1>1. UNCHANGED <<login, scenario, phase, slot, wasPending, verdict>>
  BY DEF Serve, runVars, clientVars
<1>2. request.op # "none" /\ request' = None
  BY DEF Serve, ServeLogin, ServeCreate, ServeSelect, ServeMark, Asked
<1>3. phase # "idle"
  BY <1>2, AskedIns DEF Shape, Typed
<1>4. verdict = "none"
  BY <1>3 DEF Shape, Quiet
<1> QED BY <1>1, <1>2, <1>3, <1>4 DEF None

(* A character more does not change what is marked in slot 1.              *)
LEMMA AddedMarked ==
  ASSUME account \in Seq(Characters), NEW c, ~ c.pending, account' = Append(account, c)
  PROVE  SlotMarked' <=> SlotMarked
<1>1. account \in Seq(Characters \cup {c})
  OBVIOUS
<1>2. PICK n \in Nat : n = Len(account) /\ DOMAIN account = 1 .. n
  OBVIOUS
<1>3. /\ Len(account') = n + 1
      /\ \A i \in 1 .. n : account'[i] = account[i]
      /\ account'[n + 1] = c
  BY <1>1, <1>2, Added
<1>4. CASE n >= 2
  BY <1>2, <1>3, <1>4 DEF SlotMarked
<1>5. CASE n = 1
  BY <1>2, <1>3, <1>5 DEF SlotMarked
<1>6. CASE n = 0
  BY <1>2, <1>3, <1>6 DEF SlotMarked
<1> QED BY <1>4, <1>5, <1>6

LEMMA WatchedCreate ==
  ASSUME Shape, Watch, Serve, ServeCreate, scenario = "B"
  PROVE  Watch'
<1> USE DEF Shape
<1>1. /\ phase = "created" /\ phase' = phase /\ wasPending' = wasPending
      /\ verdict' = "none"
  BY ServedKeeps, Served
<1>2. amiss \subseteq {"create"} /\ (wasPending <=> SlotMarked)
  BY <1>1 DEF Watch, Untouched
<1>3. amiss' \subseteq {"create"}
  BY <1>2 DEF ServeCreate, Obeys, Astray
<1>4. SlotMarked' <=> SlotMarked
  <2>1. CASE account' = account
    BY <2>1 DEF SlotMarked
  <2>2. CASE \E n, c : account' = Append(account, Character(n, c))
    <3>1. PICK n, c : account' = Append(account, Character(n, c))
      BY <2>2
    <3>2. ~ Character(n, c).pending
      BY DEF Character
    <3> QED BY <3>1, <3>2, AddedMarked DEF Typed
  <2> QED BY <2>1, <2>2 DEF ServeCreate
<1>5. Untouched'
  BY <1>1, <1>2, <1>3, <1>4, Zenon DEF Untouched
<1> QED BY <1>1, <1>5 DEF Watch

LEMMA MarkedThree ==
  ASSUME account \in Seq(Characters), Len(account) = 3, NEW i, NEW p \in BOOLEAN
  PROVE  /\ DOMAIN account = 1 .. 3
         /\ Len(Marked(i, p)) = 3 /\ DOMAIN Marked(i, p) = 1 .. 3
         /\ i \in 1 .. 3 => Marked(i, p)[i].pending = p
         /\ \A j \in (1 .. 3) \ {i} : Marked(i, p)[j].pending = account[j].pending
<1>1. DOMAIN account = 1 .. 3
  OBVIOUS
<1>2. DOMAIN Marked(i, p) = 1 .. 3
  BY <1>1, Zenon DEF Marked
<1>3. i \in 1 .. 3 => Marked(i, p)[i].pending = p
  BY <1>1, MarkedList
<1>4. \A j \in (1 .. 3) \ {i} : Marked(i, p)[j].pending = account[j].pending
  BY <1>1, MarkedList
<1> QED BY <1>1, <1>2, <1>3, <1>4, MarkedList

LEMMA WatchedDelete ==
  ASSUME Shape, Watch, Serve, ServeMark("CharacterDelete", "delete", TRUE), scenario = "B"
  PROVE  Watch'
<1> USE DEF Shape
<1>1. /\ phase = "deleted" /\ phase' = phase /\ wasPending' = wasPending
      /\ verdict' = "none" /\ request.op # "none" /\ request'.op = "none" /\ request.slot = 1
  BY ServedKeeps, Served
<1>2. Len(account) = 3 /\ amiss \subseteq {"create"} /\ (wasPending <=> SlotMarked)
  BY <1>1 DEF Watch, Untouched
<1>3. account \in Seq(Characters) /\ DOMAIN account = 1 .. 3
  BY <1>2 DEF Typed
<1>4. CASE account' = Marked(2, TRUE) /\ Obeys
  <2>1. Len(account') = 3 /\ amiss' \subseteq {"create"}
    BY <1>2, <1>3, <1>4, MarkedList DEF Obeys
  <2> QED BY <2>1, <1>1 DEF Watch, Excused
<1>5. CASE Astray("delete") /\ account' = account
  <2>1. amiss' = {"delete"} /\ Len(account') = 3
    BY <1>2, <1>5 DEF Astray
  <2>2. OnlySlot1Pending(account') => wasPending
    BY <1>2, <1>5 DEF OnlySlot1Pending, SlotMarked
  <2>3. OnlySlot1Pending(account)' = OnlySlot1Pending(account')
    BY DEF OnlySlot1Pending
  <2> QED BY <2>1, <2>2, <2>3, <1>1 DEF Watch, Excused
<1>6. CASE \E i \in DOMAIN account \ {2} : account' = Marked(i, TRUE)
  <2>1. PICK i \in DOMAIN account \ {2} : account' = Marked(i, TRUE)
    BY <1>6, Zenon
  <2>2. i \in 1 .. 3 /\ (i = 1 \/ i = 3)
    BY <1>3
  <2>3. Marked(i, TRUE)[i].pending = TRUE
    BY <1>2, <1>3, <2>2, MarkedThree
  <2>4. Len(account') = 3 /\ account'[i].pending
    <3>1. Len(account') = 3
      BY <2>1, <1>2, <1>3, MarkedThree
    <3>2. account'[i].pending
      BY <2>1, <2>2, <2>3
    <3> QED BY <3>1, <3>2
  <2>5. ~ OnlySlot1Pending(account')
    BY <2>2, <2>4 DEF OnlySlot1Pending
  <2> QED BY <2>4, <2>5, <1>1 DEF Watch, OnlySlot1Pending
<1>7. request.slot + 1 = 2
  BY <1>1
<1> QED BY <1>4, <1>5, <1>6, <1>7 DEF ServeMark

LEMMA WatchedRestore ==
  ASSUME Shape, Watch, Serve, ServeMark("CharacterRestore", "restore", FALSE), scenario = "B"
  PROVE  Watch'
<1> USE DEF Shape
<1>1. /\ phase = "restored" /\ phase' = phase /\ wasPending' = wasPending
      /\ verdict' = "none" /\ request.op # "none" /\ request'.op = "none" /\ request.slot = 1
  BY ServedKeeps, Served
<1>2. Len(account) = 3 /\ OnlySlot1Pending(account) /\ Excused
  BY <1>1 DEF Watch
<1>3. account \in Seq(Characters) /\ DOMAIN account = 1 .. 3
  BY <1>2 DEF Typed
<1>4. CASE account' = Marked(2, FALSE) /\ Obeys
  <2>1. Len(account') = 3 /\ DOMAIN account' = 1 .. 3
    BY <1>2, <1>3, <1>4, MarkedList DEF Marked
  <2>2. \A i \in 1 .. 3 : ~ account'[i].pending
    <3>0. 2 \in 1 .. 3 /\ 1 \in (1 .. 3) \ {2} /\ 3 \in (1 .. 3) \ {2} /\ FALSE \in BOOLEAN
      OBVIOUS
    <3>1. account'[2].pending = FALSE
      BY <1>2, <1>3, <1>4, <3>0, MarkedThree, Zenon
    <3>2. account'[1].pending = account[1].pending /\ account'[3].pending = account[3].pending
      BY <1>2, <1>3, <1>4, <3>0, MarkedThree, Zenon
    <3>3. ~ account'[1].pending /\ ~ account'[2].pending /\ ~ account'[3].pending
      BY <3>1, <3>2, <1>2 DEF OnlySlot1Pending
    <3> QED BY <3>3
  <2>3. NonePending' /\ Excused'
    BY <2>1, <2>2, <1>1, <1>2, <1>4 DEF NonePending, Excused, Obeys
  <2> QED BY <2>1, <2>3, <1>1 DEF Watch
<1>5. CASE account' = account \/ \E i \in DOMAIN account \ {2} : account' = Marked(i, FALSE)
  <2>1. Len(account') = 3 /\ account'[2].pending
    <3>1. CASE account' = account
      BY <1>2, <3>1 DEF OnlySlot1Pending
    <3>2. CASE \E i \in DOMAIN account \ {2} : account' = Marked(i, FALSE)
      <4>1. PICK i \in DOMAIN account \ {2} : account' = Marked(i, FALSE)
        BY <3>2, Zenon
      <4>0. 2 \in (1 .. 3) \ {i} /\ FALSE \in BOOLEAN
        BY <4>1
      <4>2. Marked(i, FALSE)[2].pending = account[2].pending
        BY <1>2, <1>3, <4>0, MarkedThree, Zenon
      <4>3. Len(account') = 3
        BY <4>1, <1>2, <1>3, MarkedThree
      <4>4. account'[2].pending = account[2].pending
        BY <4>1, <4>2
      <4> QED BY <4>3, <4>4, <1>2 DEF OnlySlot1Pending
    <3> QED BY <1>5, <3>1, <3>2
  <2>2. ~ Restored(account')
    BY <2>1 DEF Restored
  <2> QED BY <2>1, <2>2, <1>1 DEF Watch, Restored
<1>6. request.slot + 1 = 2
  BY <1>1
<1> QED BY <1>4, <1>5, <1>6 DEF ServeMark

LEMMA WatchedSelect ==
  ASSUME Shape, Watch, Serve, ServeSelect, scenario = "B"
  PROVE  Watch'
<1> USE DEF Shape
<1>1. /\ phase = "selected" /\ phase' = phase /\ wasPending' = wasPending
      /\ verdict' = "none" /\ request.op # "none" /\ request'.op = "none"
  BY ServedKeeps, Served
<1>2. Len(account) = 3 /\ NonePending /\ Excused /\ request.slot = 1
  BY <1>1 DEF Watch
<1>3. DOMAIN account = 1 .. 3 /\ account' = account
  BY <1>2 DEF Typed, ServeSelect
<1>4. Len(account') = 3 /\ NonePending'
  BY <1>2, <1>3 DEF NonePending
<1>5. selected' \in 1 .. 3
  BY <1>3 DEF ServeSelect
<1>6. selected' = 2 => Excused'
  BY <1>1, <1>2 DEF ServeSelect, Obeys, Excused
<1>7. selected' # 2 => amiss' = {"select"}
  BY <1>2 DEF ServeSelect, Astray
<1> QED BY <1>1, <1>4, <1>5, <1>6, <1>7 DEF Watch

LEMMA WatchedServe ==
  ASSUME Shape, Watch, Serve
  PROVE  Watch'
<1>1. CASE scenario # "B"
  BY <1>1, ServedKeeps DEF Watch
<1>2. CASE scenario = "B" /\ ServeLogin
  <2>1. phase = "list" /\ phase' = phase /\ wasPending' = wasPending /\ verdict' = "none"
    BY <1>2, ServedKeeps, Served DEF Shape
  <2>2. amiss' = {} /\ account' = account
    BY <1>2, <2>1 DEF Watch, ServeLogin, Obeys
  <2>3. Untouched
    BY <1>2, <2>1 DEF Watch
  <2>4. Untouched'
    BY <2>1, <2>2, <2>3 DEF Untouched, SlotMarked
  <2> QED BY <2>1, <2>2, <2>4 DEF Watch
<1> QED BY <1>1, <1>2, WatchedCreate, WatchedDelete, WatchedRestore, WatchedSelect DEF Serve, Shape, Typed

(* What is read is the answer to what was asked, and nothing is asked.     *)
LEMMA ReadQuietly ==
  ASSUME Shape, NEW p, Reads(p)
  PROVE  /\ phase = p /\ request.op = "none"
         /\ UNCHANGED <<login, account, amiss, spoiled, purged, taken, selected, spawn,
                        wasPending, scenario, connected, disturbed>>
BY DEF Shape, Quiet, Reads, serverVars, runVars

LEMMA WatchedFill ==
  ASSUME NEW s \in 0 .. 3, FillFrom(s), s = Len(account), Untouched, verdict = "none",
         UNCHANGED <<account, amiss, wasPending>>
  PROVE  Watch'
<1>1. Untouched'
  BY DEF Untouched, SlotMarked
<1>2. CASE s < 3
  BY <1>1, <1>2 DEF FillFrom, Create, Ask, Watch
<1>3. CASE ~ s < 3
  <2>1. Len(account') = 3 /\ phase' = "deleted" /\ request'.op # "none" /\ verdict' = "none"
    BY <1>3 DEF FillFrom, CharacterDelete, Ask
  <2> QED BY <1>1, <2>1 DEF Watch
<1> QED BY <1>2, <1>3

(* A class that is right, of whichever character the server selected.      *)
LEMMA WatchedPass ==
  ASSUME Shape, Watch, scenario = "B", ReadSelectedLobby, verdict' = "pass"
  PROVE  Watch'
<1> USE DEF Shape
<1>1. /\ phase = "selected" /\ request.op = "none" /\ phase' = "idle"
      /\ UNCHANGED <<account, amiss, selected, wasPending, scenario>>
  BY ReadQuietly DEF ReadSelectedLobby, Finish
<1>2. /\ Len(account) = 3 /\ NonePending /\ selected \in 1 .. 3
      /\ selected = 2 => Excused
      /\ selected # 2 => amiss = {"select"}
  BY <1>1 DEF Watch
<1>3. account[selected].class = Classes[2]
  <2>1. Asserted(Head(inbox).class) /\ Head(inbox).op = "CharSelected" /\ inbox # << >>
    BY DEF ReadSelectedLobby, Finish, Reads, Got
  <2>2. Head(inbox) \in Replies
    BY <2>1, MailRead DEF Noise
  <2>3. Head(inbox).class = account[selected].class
    BY <2>1, <2>2 DEF Replies
  <2>4. Head(inbox).class = Classes[2]
    BY <2>1 DEF Asserted
  <2> QED BY <2>3, <2>4
<1>4. ASSUME NEW kind \in amiss
      PROVE  Unnoticed(kind)
  <2>1. CASE selected = 2 /\ amiss \subseteq {"create"}
    BY <1>3, <1>4, <2>1 DEF Unnoticed
  <2>2. CASE selected = 2 /\ amiss = {"delete"} /\ wasPending
    BY <1>4, <2>2 DEF Unnoticed
  <2>3. CASE selected # 2
    BY <1>2, <1>3, <1>4, <2>3 DEF Unnoticed
  <2> QED BY <1>2, <2>1, <2>2, <2>3 DEF Excused
<1>5. \A kind \in amiss' : Unnoticed(kind)'
  BY <1>1, <1>4, Zenon DEF Unnoticed
<1>6. Len(account') = 3 /\ NonePending'
  BY <1>1, <1>2 DEF NonePending
<1> QED BY <1>1, <1>5, <1>6 DEF Watch

LEMMA WatchedRead ==
  ASSUME Shape, Watch, scenario = "B",
         ReadList \/ ReadCreatedLobby \/ ReadDeleted \/ ReadRestored
           \/ ReadSelectedLobby \/ SkipUnasked \/ RefuseReply \/ ReadFailsLobby
  PROVE  Watch'
<1> USE DEF Shape
<1>0. ASSUME verdict' = "fail", phase' = "idle"
      PROVE  Watch'
  BY <1>0 DEF Watch
<1>1. CASE ReadList
  <2>1. /\ phase = "list" /\ Chars = account /\ verdict = "none" /\ Len(account) \in 0 .. 3
        /\ UNCHANGED <<account, amiss, wasPending>> /\ FillFrom(Len(Chars))
    BY <1>1, ReadQuietly, MailRead, LengthBound DEF ReadList, Reads, Quiet
  <2>2. Len(Chars) = Len(account)
    BY <2>1, Zenon
  <2>3. Untouched
    BY <2>1 DEF Watch
  <2> QED BY <2>1, <2>2, <2>3, WatchedFill
<1>2. CASE ReadCreatedLobby
  <2>1. /\ phase = "created" /\ verdict = "none" /\ UNCHANGED <<account, amiss, wasPending>>
        /\ FillFrom(slot + 1)
    BY <1>2, ReadQuietly DEF ReadCreatedLobby, Quiet
  <2>2. Len(account) = slot + 1
    BY <1>2, <2>1 DEF ReadCreatedLobby, Reads, Room
  <2>3. slot + 1 \in 0 .. 3
    BY DEF Typed
  <2>4. Untouched
    BY <2>1 DEF Watch
  <2> QED BY <2>1, <2>2, <2>3, <2>4, WatchedFill
<1>3. CASE ReadDeleted
  <2>1. /\ phase = "deleted" /\ request.op = "none" /\ verdict = "none" /\ Chars = account
        /\ UNCHANGED <<account, amiss, wasPending>>
    BY <1>3, ReadQuietly, MailRead DEF ReadDeleted, Reads, Quiet
  <2>2. CASE OnlySlot1Pending(account) /\ CharacterRestore
    <3>1. Len(account') = 3 /\ OnlySlot1Pending(account') /\ Excused'
      BY <2>1, <2>2 DEF Watch, Excused
    <3>2. phase' = "restored" /\ request'.op # "none" /\ verdict' = "none"
      BY <2>1, <2>2 DEF CharacterRestore, Ask
    <3> QED BY <3>1, <3>2 DEF Watch, OnlySlot1Pending
  <2>3. CASE Finish("fail")
    BY <2>3, <1>0 DEF Finish
  <2>4. OnlySlot1Pending(Chars) <=> OnlySlot1Pending(account)
    BY <2>1, Zenon
  <2> QED BY <1>3, <2>2, <2>3, <2>4, Zenon DEF ReadDeleted
<1>4. CASE ReadRestored
  <2>1. /\ phase = "restored" /\ request.op = "none" /\ verdict = "none" /\ Chars = account
        /\ UNCHANGED <<account, amiss, wasPending>>
    BY <1>4, ReadQuietly, MailRead DEF ReadRestored, Reads, Quiet
  <2>2. CASE Restored(account) /\ CharacterSelect(1)
    <3>1. Len(account') = 3 /\ NonePending' /\ Excused'
      BY <2>1, <2>2 DEF Watch, Excused, NonePending
    <3>2. /\ phase' = "selected" /\ request'.op # "none" /\ request'.slot = 1
          /\ verdict' = "none"
      BY <2>1, <2>2 DEF CharacterSelect, Ask
    <3> QED BY <3>1, <3>2 DEF Watch
  <2>3. CASE Finish("fail")
    BY <2>3, <1>0 DEF Finish
  <2>4. Restored(Chars) <=> Restored(account)
    BY <2>1, Zenon
  <2> QED BY <1>4, <2>2, <2>3, <2>4, Zenon DEF ReadRestored
<1>5. CASE ReadSelectedLobby
  <2>1. CASE verdict' = "pass"
    BY <1>5, <2>1, WatchedPass
  <2>2. CASE verdict' = "fail"
    BY <1>0, <1>5, <2>2 DEF ReadSelectedLobby, Finish
  <2> QED BY <1>5, <2>1, <2>2 DEF ReadSelectedLobby, Finish
<1>6. CASE SkipUnasked
  <2>1. UNCHANGED <<account, amiss, selected, wasPending, scenario, phase, request, verdict>>
    BY <1>6, ReadQuietly DEF SkipUnasked, clientVars
  <2> QED BY <2>1, Zenon DEF Watch, Untouched, SlotMarked, Excused, NonePending, OnlySlot1Pending,
                             Restored, Unnoticed
<1>7. CASE RefuseReply \/ ReadFailsLobby
  BY <1>0, <1>7 DEF RefuseReply, ReadFailsLobby, Finish
<1> QED BY <1>1, <1>2, <1>3, <1>4, <1>5, <1>6, <1>7

LEMMA WatchedElse ==
  ASSUME Shape, Watch, StartRun \/ Purge \/ OthersCreate \/ LoseLobby \/ UNCHANGED lobbyVars
  PROVE  Watch'
<1>1. CASE StartRun
  <2>1. /\ phase' = "list" /\ amiss' = {} /\ account' = account /\ verdict' = "none"
        /\ wasPending' = (Len(account) >= 2 /\ account[2].pending)
    BY <1>1 DEF StartRun
  <2>2. Untouched'
    BY <2>1 DEF Untouched, SlotMarked
  <2> QED BY <2>1, <2>2 DEF Watch
<1>2. CASE Purge
  <2>1. phase = "idle" /\ UNCHANGED <<phase, scenario, verdict>>
    BY <1>2 DEF Purge, runVars, clientVars
  <2>2. \E i \in DOMAIN account : account[i].pending
    BY <1>2 DEF Purge
  <2>3. scenario = "B" => verdict # "pass"
    BY <2>2 DEF Watch, NonePending
  <2> QED BY <2>1, <2>3 DEF Watch
<1>3. CASE OthersCreate \/ LoseLobby \/ UNCHANGED lobbyVars
  <2>1. UNCHANGED <<account, amiss, selected, wasPending, scenario, phase, request, verdict>>
    BY <1>3 DEF OthersCreate, LoseLobby, lobbyVars, serverVars, netVars, runVars, clientVars
  <2> QED BY <2>1, Zenon DEF Watch, Untouched, SlotMarked, Excused, NonePending, OnlySlot1Pending,
                             Restored, Unnoticed
<1> QED BY <1>1, <1>2, <1>3

LEMMA WatchedClient ==
  ASSUME Shape, Watch, scenario # "B",
         ReadList \/ ReadCreatedLobby \/ ReadDeleted \/ ReadRestored
           \/ ReadSelectedLobby \/ SkipUnasked \/ RefuseReply \/ ReadFailsLobby
  PROVE  Watch'
<1>1. scenario' = scenario
  BY DEF ReadList, ReadCreatedLobby, ReadDeleted, ReadRestored, ReadSelectedLobby,
         SkipUnasked, RefuseReply, ReadFailsLobby, Reads, runVars
<1> QED BY <1>1 DEF Watch

(* PassIsEarned: a pass of scenario B means that each operation hit the    *)
(* slot it was meant for, but for what the scenario cannot see.            *)
THEOREM PassIsEarnedHolds == LobbySpec => []PassIsEarned
<1>1. LobbyInit => Watch
  BY DEF LobbyInit, Watch
<1>2. Shape /\ Watch /\ [LobbyNext]_lobbyVars => Watch'
  BY WatchedServe, WatchedRead, WatchedElse, WatchedClient, Zenon DEF LobbyNext, Drive
<1>3. Shape /\ Watch => PassIsEarned
  <2> SUFFICES ASSUME Shape, Watch, scenario = "B", verdict = "pass"
               PROVE  /\ \A kind \in amiss : Unnoticed(kind)
                      /\ Len(account) >= 3 /\ ~ account[2].pending
    BY DEF PassIsEarned
  <2>1. /\ \A kind \in amiss : Unnoticed(kind)
        /\ Len(account) = 3 /\ NonePending
    BY DEF Watch
  <2>2. 2 \in DOMAIN account
    BY <2>1 DEF Shape, Typed
  <2> QED BY <2>1, <2>2 DEF NonePending
<1> QED BY <1>1, <1>2, <1>3, ShapeHolds, PTL DEF LobbySpec

LEMMA NameTypes ==
  ASSUME login \in Logins
  PROVE  /\ SanitizeName \in Seq(Alnum) /\ Len(SanitizeName) <= NameMax
         /\ Shortened(SanitizeName, NameMax - 2) \in Seq(Alnum)
         /\ Len(Shortened(SanitizeName, NameMax - 2)) <= NameMax - 2
<1>1. \A name \in Seq(Alnum), n \in Nat :
        Shortened(name, n) \in Seq(Alnum) /\ Len(Shortened(name, n)) <= n
  <2> SUFFICES ASSUME NEW name \in Seq(Alnum), NEW n \in Nat
               PROVE  Shortened(name, n) \in Seq(Alnum) /\ Len(Shortened(name, n)) <= n
    OBVIOUS
  <2>1. CASE Len(name) > n
    <3>1. SubSeq(name, 1, n) \in Seq(Alnum) /\ Len(SubSeq(name, 1, n)) = n
      BY <2>1
    <3> QED BY <3>1, <2>1 DEF Shortened
  <2>2. CASE ~ Len(name) > n
    BY <2>2 DEF Shortened
  <2> QED BY <2>1, <2>2
<1>2. Letters(login) \in Seq(Alnum) /\ Fallback \in Seq(Alnum) /\ Len(Fallback) <= NameMax
  BY LettersType, LobbyAssumption
<1>3. NameMax \in Nat /\ NameMax - 2 \in Nat
  BY LobbyAssumption
<1>4. SanitizeName \in Seq(Alnum) /\ Len(SanitizeName) <= NameMax
  BY <1>1, <1>2, <1>3, Zenon DEF SanitizeName
<1> QED BY <1>1, <1>3, <1>4

LEMMA SlotNamesDiffer ==
  ASSUME login \in Logins, NEW s \in 0 .. 2, NEW t \in 0 .. 2, s # t
  PROVE  SlotName(s) # SlotName(t)
<1>1. PICK x \in Seq(Alnum) : x = Shortened(SanitizeName, NameMax - 2)
  BY NameTypes
<1>2. Digit(s) # Digit(t)
  <2>1. (s = 0 \/ s = 1 \/ s = 2) /\ (t = 0 \/ t = 1 \/ t = 2)
    OBVIOUS
  <2>2. Digit(0) = "0" /\ Digit(1) = "1" /\ Digit(2) = "2"
    BY DEF Digit
  <2>3. Digit(0) # Digit(1) /\ Digit(0) # Digit(2) /\ Digit(1) # Digit(2)
    BY <2>2
  <2> QED BY <2>1, <2>3
<1>3. PICK d, e : d = Digit(s) /\ e = Digit(t)
  OBVIOUS
<1>4. Append(x, d)[Len(x) + 1] = d /\ Append(x, e)[Len(x) + 1] = e
  <2>1. x \in Seq(Alnum \cup {d, e})
    OBVIOUS
  <2> QED BY <2>1, Added
<1>5. SlotName(s) = Append(x, d) /\ SlotName(t) = Append(x, e)
  BY <1>1, <1>3, Zenon DEF SlotName
<1> QED BY <1>2, <1>3, <1>4, <1>5

(***************************************************************************)
(* What a server that obeys leaves on the account, and why no run of a     *)
(* scenario fails on it.                                                   *)
(***************************************************************************)

(* Each slot has the name and the class that scenario B gives it; the      *)
(* first one may be what scenario A created.                               *)
Ordinary ==
  \A i \in DOMAIN account :
    /\ account[i].name = SlotName(i - 1) \/ (i = 1 /\ account[i].name = SanitizeName)
    /\ i >= 2 => account[i].class = Classes[i]
    /\ account[i].pending => i = 2 /\ Len(account) = 3

(* The timer of slot 1 has expired: the name of slot 2 is in slot 1, and   *)
(* scenario B will never again create the third character.                 *)
Closed ==
  /\ purged /\ Len(account) = 2 /\ account[2].name = SlotName(2)
  /\ \A i \in DOMAIN account : ~ account[i].pending

(* What a run has done when it gets here.                                  *)
Course ==
  /\ scenario = "A" => phase \notin {"deleted", "restored"}
  /\ \A s \in 0 .. 2 : slot = s /\ request.op = "CharacterCreate" =>
       IF scenario = "B"
       THEN request.name = SlotName(s) /\ request.class = Classes[s + 1]
       ELSE request.name = SanitizeName /\ s = 0
  /\ scenario = "B" /\ phase \in {"deleted", "restored", "selected"} => Len(account) = 3
  /\ scenario = "B" /\ phase = "restored" /\ request.op # "none" => OnlySlot1Pending(account)
  /\ scenario = "B" /\ phase = "deleted" /\ request.op = "none" => OnlySlot1Pending(account)
  /\ scenario = "B" /\ phase = "restored" /\ request.op = "none" => Restored(account)
  /\ scenario = "B" /\ phase = "selected" /\ request.op = "none" => selected = 2
  /\ scenario = "B" /\ request.op = "CharacterSelect" => request.slot = 1

(* The reasons for a failure that NoFalseAlarm admits.                     *)
MayFail ==
  \/ scenario = "B" /\ Blocked
  \/ scenario = "A" /\ account = << >> /\ SanitizeName \in taken
  \/ scenario = "A" /\ ~ NearVillage(spawn)

Expected ==
  CASE phase = "list"     -> {"CharSelectionInfo"}
    [] phase = "created"  -> {"CharCreateSuccess", "CharCreateFail"}
    [] phase = "deleted"  -> {"CharSelectionInfo"}
    [] phase = "restored" -> {"CharSelectionInfo"}
    [] OTHER              -> {"CharSelected", "empty", "other"}

(* A run that nothing disturbs gets the packets it waits for.              *)
Clear ==
  ~ disturbed =>
    /\ phase # "idle" => connected
    /\ inbox # << >> =>
         /\ Head(inbox).op \in Expected
         /\ Got("CharSelectionInfo") => Head(inbox).whole
         /\ Got("CharCreateFail") => MayFail
    /\ verdict = "fail" => MayFail

Tame == ~ spoiled => (Ordinary \/ Closed) /\ Course /\ Clear

Known == login \in Logins

LEMMA KnownHolds == LobbySpec => []Known
<1>1. LobbyInit => Known
  BY DEF LobbyInit, Known
<1>2. Known /\ [LobbyNext]_lobbyVars => Known'
  <2> SUFFICES ASSUME Known, [LobbyNext]_lobbyVars
               PROVE  login' = login
    BY DEF Known
  <2> QED
    BY DEF LobbyNext, Drive, StartRun, ReadList, ReadCreatedLobby, ReadDeleted, ReadRestored,
           ReadSelectedLobby, SkipUnasked, RefuseReply, ReadFailsLobby, Reads, Serve, Purge,
           OthersCreate, LoseLobby, lobbyVars, runVars
<1> QED BY <1>1, <1>2, PTL DEF LobbySpec

(* A reason stays one while the account stays.                             *)
LEMMA BlockedStays ==
  ASSUME UNCHANGED <<login, account, purged>>, taken \subseteq taken', Blocked
  PROVE  Blocked'
<1>1. SanitizeName' = SanitizeName /\ \A s : SlotName(s)' = SlotName(s)
  BY NamesStay
<1>2. PICK n, name : n = Len(account) /\ name = SlotName(n)
  OBVIOUS
<1>3. SlotName(Len(account))' = name
  BY <1>1, <1>2, Zenon DEF SlotName, Shortened, Digit
<1>4. OwnNames' = OwnNames
  BY Zenon DEF OwnNames
<1>5. Blocked' <=>
        /\ n < 3
        /\ name \in taken' \/ (name \in OwnNames /\ (purged \/ name = SanitizeName))
  BY <1>1, <1>2, <1>3, <1>4, Zenon DEF Blocked
<1>6. Blocked <=>
        /\ n < 3
        /\ name \in taken \/ (name \in OwnNames /\ (purged \/ name = SanitizeName))
  BY <1>2, Zenon DEF Blocked
<1> QED BY <1>5, <1>6

LEMMA MayFailStays ==
  ASSUME UNCHANGED <<login, account, purged, scenario, spawn>>, taken \subseteq taken', MayFail
  PROVE  MayFail'
<1>1. SanitizeName' = SanitizeName
  BY NamesStay
<1>2. NearVillage(spawn)' <=> NearVillage(spawn)
  BY Zenon DEF NearVillage
<1> QED BY <1>1, <1>2, BlockedStays, Zenon DEF MayFail

LEMMA AccountTame ==
  ASSUME UNCHANGED <<login, account, purged>>, Ordinary \/ Closed
  PROVE  Ordinary' \/ Closed'
<1>1. SanitizeName' = SanitizeName /\ \A s : SlotName(s)' = SlotName(s)
  BY NamesStay
<1>2. CASE Ordinary
  <2>1. \A i \in DOMAIN account :
          /\ account[i].name = SlotName(i - 1)' \/ (i = 1 /\ account[i].name = SanitizeName)
          /\ i >= 2 => account[i].class = Classes[i]
          /\ account[i].pending => i = 2 /\ Len(account) = 3
    BY <1>1, <1>2, Zenon DEF Ordinary
  <2> QED BY <2>1, <1>1, Zenon DEF Ordinary
<1>3. CASE Closed
  BY <1>1, <1>3, Zenon DEF Closed
<1> QED BY <1>2, <1>3

(* Who is not marked cannot be removed.                                    *)
LEMMA PurgeCloses ==
  ASSUME Shape, Purge, Ordinary \/ Closed
  PROVE  Closed' /\ Len(account) = 3
<1>1. PICK i \in DOMAIN account : account[i].pending /\ account' = Without(account, i)
  BY DEF Purge, Without
<1>2. Ordinary
  BY <1>1 DEF Closed
<1>3. i = 2 /\ Len(account) = 3 /\ \A j \in DOMAIN account : account[j].pending => j = 2
  BY <1>1, <1>2 DEF Ordinary
<1>4. account \in Seq(Characters) /\ DOMAIN account = 1 .. 3
  BY <1>3 DEF Shape, Typed
<1>5. /\ account' \in Seq(Characters) /\ Len(account') = 2
      /\ \A j \in 1 .. 2 : account'[j] = IF j < 2 THEN account[j] ELSE account[j + 1]
  <2>1. /\ account' \in Seq(Characters) /\ Len(account') = Len(account) - 1
        /\ \A j \in 1 .. Len(account) - 1 : account'[j] = IF j < 2 THEN account[j] ELSE account[j + 1]
    BY <1>1, <1>3, <1>4, Removed
  <2>2. Len(account) - 1 = 2
    BY <1>3
  <2> QED BY <2>1, <2>2
<1>6. account'[1] = account[1] /\ account'[2] = account[3] /\ DOMAIN account' = 1 .. 2
  BY <1>5
<1>7. ~ account[1].pending /\ ~ account[3].pending
  BY <1>3, <1>4
<1>8. account[3].name = SlotName(2)
  <2>1. 3 \in DOMAIN account /\ 3 - 1 = 2 /\ 3 # 1
    BY <1>4
  <2>2. account[3].name = SlotName(3 - 1)
    BY <2>1, <1>2, Zenon DEF Ordinary
  <2> QED BY <2>1, <2>2
<1>9. login' = login /\ purged' = TRUE
  BY DEF Purge, runVars
<1>10. SlotName(2)' = SlotName(2)
  BY <1>9, NamesStay
<1>11. \A j \in DOMAIN account' : ~ account'[j].pending
  BY <1>6, <1>7
<1>12. account'[2].name = SlotName(2)'
  BY <1>6, <1>8, <1>10
<1> QED BY <1>3, <1>5, <1>9, <1>11, <1>12 DEF Closed

LEMMA ObeyedServe ==
  ASSUME Shape, Serve, ~ spoiled', Tame
  PROVE  /\ Obeys /\ ~ spoiled /\ \A kind : ~ Astray(kind)
         /\ Ordinary \/ Closed
         /\ Course /\ Clear
         /\ UNCHANGED <<login, scenario, phase, slot, purged, taken, connected>>
         /\ request.op # "none" /\ request'.op = "none" /\ phase # "idle" /\ verdict' = "none"
<1>1. UNCHANGED <<login, scenario, phase, slot, purged, taken, connected>>
  BY DEF Serve, ServeLogin, ServeCreate, ServeSelect, ServeMark, runVars, clientVars
<1>2. \A kind : ~ Astray(kind)
  BY DEF Astray
<1>3. Obeys
  BY <1>2, Zenon DEF Serve, ServeLogin, ServeCreate, ServeSelect, ServeMark
<1>4. ~ spoiled
  BY <1>3 DEF Obeys
<1> QED BY <1>1, <1>2, <1>3, <1>4, ServedKeeps, Zenon DEF Tame

(* What a reply is when nothing disturbs the run.                          *)
LEMMA CleanReply ==
  ASSUME NEW packet, Reply(packet), ~ disturbed'
  PROVE  /\ ~ disturbed /\ inbox' # << >>
         /\ \/ inbox' = <<packet>> /\ Head(inbox') = packet
            \/ packet.op = "CharSelected" /\ Head(inbox').op \in {"empty", "other"}
<1>1. CASE inbox' = <<packet>> /\ UNCHANGED disturbed
  BY <1>1
<1>2. CASE /\ \E op \in {"empty", "other"} : inbox' = <<[op |-> op], packet>>
           /\ disturbed' = (disturbed \/ packet.op # "CharSelected")
  <2>1. ~ disturbed /\ packet.op = "CharSelected"
    BY <1>2, Zenon
  <2>2. PICK op \in {"empty", "other"} : inbox' = <<[op |-> op], packet>>
    BY <1>2, Zenon
  <2>3. inbox' # << >> /\ Head(inbox') = [op |-> op]
    BY <2>2
  <2> QED BY <2>1, <2>3
<1> QED BY <1>1, <1>2 DEF Reply

LEMMA CleanList ==
  ASSUME NEW chars, ReplyList(chars), ~ disturbed'
  PROVE  /\ ~ disturbed /\ inbox' # << >>
         /\ Head(inbox').op = "CharSelectionInfo" /\ Head(inbox').whole
<1>1. Reply(CharSelectionInfo(chars, TRUE))
  BY DEF ReplyList
<1>2. /\ CharSelectionInfo(chars, TRUE).op = "CharSelectionInfo"
      /\ CharSelectionInfo(chars, TRUE).whole = TRUE
  BY DEF CharSelectionInfo
<1> QED BY <1>1, <1>2, CleanReply

(* The list that answers a login, a deletion or a restoration.             *)
LEMMA ClearList ==
  ASSUME Shape, Serve, ~ spoiled', Tame, NEW chars, ReplyList(chars),
         phase \in {"list", "deleted", "restored"}
  PROVE  Clear'
<1>1. /\ UNCHANGED <<phase, connected>> /\ verdict' = "none" /\ Clear /\ phase # "idle"
  BY ObeyedServe
<1> SUFFICES ASSUME ~ disturbed'
             PROVE  /\ phase' # "idle" => connected'
                    /\ inbox' # << >> =>
                         /\ Head(inbox').op \in Expected'
                         /\ Got("CharSelectionInfo")' => Head(inbox').whole
                         /\ Got("CharCreateFail")' => MayFail'
                    /\ verdict' = "fail" => MayFail'
  BY DEF Clear
<1>2. /\ ~ disturbed /\ inbox' # << >>
      /\ Head(inbox').op = "CharSelectionInfo" /\ Head(inbox').whole
  BY CleanList
<1>3. Expected' = {"CharSelectionInfo"}
  BY <1>1 DEF Expected
<1>4. ~ Got("CharCreateFail")'
  BY <1>2 DEF Got
<1> QED BY <1>1, <1>2, <1>3, <1>4 DEF Clear

LEMMA TameLogin ==
  ASSUME Shape, Serve, ServeLogin, ~ spoiled', Tame
  PROVE  (Ordinary' \/ Closed') /\ Course' /\ Clear'
<1>1. /\ Ordinary \/ Closed
      /\ UNCHANGED <<login, scenario, phase, slot, purged>> /\ request'.op = "none"
  BY ObeyedServe
<1>2. phase = "list" /\ account' = account /\ ReplyList(account)
  BY Served DEF Shape, ServeLogin
<1>3. Ordinary' \/ Closed'
  BY <1>1, <1>2, AccountTame
<1>4. Course'
  BY <1>1, <1>2 DEF Course
<1>5. Clear'
  BY <1>2, ClearList
<1> QED BY <1>3, <1>4, <1>5

(* The marks change in slot 1 only, and only when there are three.         *)
LEMMA MarkedOrdinary ==
  ASSUME Shape, Ordinary, Len(account) = 3, NEW p \in BOOLEAN, account' = Marked(2, p),
         login' = login
  PROVE  /\ Ordinary' /\ Len(account') = 3
         /\ account'[2].pending = p /\ ~ account'[1].pending /\ ~ account'[3].pending
<1>1. account \in Seq(Characters)
  BY DEF Shape, Typed
<1>2. DOMAIN account = 1 .. 3 /\ DOMAIN account' = 1 .. 3 /\ Len(account') = 3
  BY <1>1, MarkedThree
<1>3. \A i \in 1 .. 3 : account'[i].name = account[i].name /\ account'[i].class = account[i].class
  BY <1>1, <1>2, MarkedList
<1>4. ~ account[1].pending /\ ~ account[3].pending
  BY <1>2 DEF Ordinary
<1>5. account'[1].pending = account[1].pending /\ account'[3].pending = account[3].pending
  <2>1. 1 \in (1 .. 3) \ {2} /\ 3 \in (1 .. 3) \ {2}
    OBVIOUS
  <2>2. \A j \in (1 .. 3) \ {2} : Marked(2, p)[j].pending = account[j].pending
    BY <1>1, MarkedThree
  <2> QED BY <2>1, <2>2, Zenon
<1>6. account'[2].pending = p
  <2>1. 2 \in 1 .. 3
    OBVIOUS
  <2> QED BY <2>1, <1>1, MarkedThree, Zenon
<1>7. \A i \in 1 .. 3 : account'[i].pending => i = 2
  BY <1>4, <1>5
<1>8. SanitizeName' = SanitizeName /\ \A s : SlotName(s)' = SlotName(s)
  BY NamesStay
<1>9. ASSUME NEW i \in 1 .. 3
      PROVE  /\ account'[i].name = SlotName(i - 1)' \/ (i = 1 /\ account'[i].name = SanitizeName')
             /\ i >= 2 => account'[i].class = Classes[i]
  BY <1>2, <1>3, <1>8, Zenon DEF Ordinary
<1>10. Ordinary'
  BY <1>2, <1>7, <1>9, Zenon DEF Ordinary
<1> QED BY <1>2, <1>4, <1>5, <1>6, <1>10

LEMMA TameMark ==
  ASSUME Shape, Serve, ~ spoiled', Tame, NEW kind,
         ServeMark("CharacterDelete", kind, TRUE) \/ ServeMark("CharacterRestore", kind, FALSE)
  PROVE  (Ordinary' \/ Closed') /\ Course' /\ Clear'
<1>1. /\ Ordinary \/ Closed
      /\ Course /\ \A k : ~ Astray(k)
      /\ UNCHANGED <<login, scenario, phase, slot, purged>>
      /\ request.op # "none" /\ request'.op = "none"
  BY ObeyedServe
<1>2. phase \in {"deleted", "restored"} /\ request.slot = 1
  BY Served DEF Shape
<1>3. scenario = "B"
  BY <1>1, <1>2 DEF Course, Shape, Typed
<1>4. Len(account) = 3
  BY <1>1, <1>2, <1>3 DEF Course
<1>5. Ordinary
  BY <1>1, <1>4 DEF Closed
<1>6. ReplyList(account')
  BY DEF ServeMark
<1>7. Clear'
  BY <1>2, <1>6, ClearList
<1>8. CASE ServeMark("CharacterDelete", kind, TRUE)
  <2>0. account' = Marked(request.slot + 1, TRUE) /\ request.slot + 1 = 2
    <3>1. request.slot + 1 = 2
      BY <1>2
    <3> QED BY <3>1, <1>1, <1>8, Zenon DEF ServeMark
  <2>1. account' = Marked(2, TRUE) /\ phase = "deleted"
    BY <2>0, <1>8, Served DEF Shape
  <2>2. /\ Ordinary' /\ Len(account') = 3
        /\ account'[2].pending /\ ~ account'[1].pending /\ ~ account'[3].pending
    BY <2>1, <1>1, <1>4, <1>5, MarkedOrdinary
  <2>3. OnlySlot1Pending(account')
    BY <2>2 DEF OnlySlot1Pending
  <2>4. Course'
    BY <2>1, <2>2, <2>3, <1>1 DEF Course, OnlySlot1Pending
  <2> QED BY <2>2, <2>4, <1>7
<1>9. CASE ServeMark("CharacterRestore", kind, FALSE)
  <2>0. account' = Marked(request.slot + 1, FALSE) /\ request.slot + 1 = 2
    <3>1. request.slot + 1 = 2
      BY <1>2
    <3> QED BY <3>1, <1>1, <1>9, Zenon DEF ServeMark
  <2>1. account' = Marked(2, FALSE) /\ phase = "restored"
    BY <2>0, <1>9, Served DEF Shape
  <2>2. Ordinary' /\ Len(account') = 3 /\ ~ account'[2].pending
    BY <2>1, <1>1, <1>4, <1>5, MarkedOrdinary
  <2>3. Restored(account')
    BY <2>2 DEF Restored
  <2>4. Course'
    BY <2>1, <2>2, <2>3, <1>1 DEF Course, Restored
  <2> QED BY <2>2, <2>4, <1>7
<1> QED BY <1>8, <1>9

LEMMA TameSelect ==
  ASSUME Shape, Serve, ServeSelect, ~ spoiled', Tame
  PROVE  (Ordinary' \/ Closed') /\ Course' /\ Clear'
<1>1. /\ Ordinary \/ Closed
      /\ Course /\ Clear /\ \A k : ~ Astray(k)
      /\ UNCHANGED <<login, scenario, phase, slot, purged, connected>>
      /\ request.op # "none" /\ request'.op = "none" /\ verdict' = "none"
  BY ObeyedServe
<1>2. phase = "selected" /\ account' = account
  BY Served DEF Shape, ServeSelect
<1>3. selected' = request.slot + 1
  BY <1>1 DEF ServeSelect
<1>4. Ordinary' \/ Closed'
  BY <1>1, <1>2, AccountTame
<1>5. scenario = "B" => request.slot = 1
  BY <1>1, Served DEF Course, Shape
<1>6. Course'
  BY <1>1, <1>2, <1>3, <1>5 DEF Course
<1>7. PICK c : Reply([op |-> "CharSelected", class |-> c])
  BY DEF ServeSelect
<1>8. ASSUME ~ disturbed'
      PROVE  ~ disturbed /\ inbox' # << >> /\ Head(inbox').op \in {"CharSelected", "empty", "other"}
  BY <1>7, <1>8, CleanReply
<1>9. Expected' = {"CharSelected", "empty", "other"}
  BY <1>1, <1>2 DEF Expected
<1>10. Clear'
  BY <1>1, <1>8, <1>9 DEF Clear, Got
<1> QED BY <1>4, <1>6, <1>10

(* A name that is refused is taken, or in use on the account for one of    *)
(* the admitted reasons.                                                   *)
LEMMA RefusedMayFail ==
  ASSUME Shape, Known, Ordinary \/ Closed, Course, request.op = "CharacterCreate",
         request.name \in taken \cup OwnNames
  PROVE  MayFail
<1>1. PICK s \in 0 .. 2 : slot = s /\ Len(account) = s
  BY DEF Shape, Typed, Room
<1>2. CASE scenario = "B"
  <2>1. request.name = SlotName(s)
    BY <1>1, <1>2 DEF Course
  <2>2. SlotName(Len(account)) = SlotName(s) /\ Len(account) < 3
    BY <1>1
  <2>3. CASE request.name \in taken
    BY <2>1, <2>2, <2>3, <1>2, Zenon DEF MayFail, Blocked
  <2>4. CASE request.name \in OwnNames
    <3>1. PICK i \in DOMAIN account : account[i].name = SlotName(s)
      BY <2>1, <2>4 DEF OwnNames
    <3>2. purged \/ SlotName(s) = SanitizeName
      <4>1. CASE Ordinary
        <5>1. i \in 1 .. s /\ i - 1 \in 0 .. 2 /\ i - 1 # s
          BY <1>1 DEF Shape, Typed
        <5>2. SlotName(i - 1) # SlotName(s)
          BY <5>1, SlotNamesDiffer DEF Known
        <5>3. account[i].name = SlotName(i - 1) \/ account[i].name = SanitizeName
          BY <4>1, Zenon DEF Ordinary
        <5> QED BY <3>1, <5>2, <5>3
      <4>2. CASE Closed
        BY <4>2 DEF Closed
      <4> QED BY <4>1, <4>2
    <3> QED BY <2>1, <2>2, <2>4, <3>2, <1>2, Zenon DEF MayFail, Blocked
  <2> QED BY <2>3, <2>4
<1>3. CASE scenario = "A"
  <2>1. request.name = SanitizeName /\ s = 0
    BY <1>1, <1>3 DEF Course
  <2>2. account = << >>
    BY <1>1, <2>1 DEF Shape, Typed
  <2>3. OwnNames = {}
    BY <2>2 DEF OwnNames
  <2> QED BY <2>1, <2>2, <2>3, <1>3 DEF MayFail
<1> QED BY <1>2, <1>3 DEF Shape, Typed

(* A character more keeps the order of the names.                          *)
LEMMA AddedOrdinary ==
  ASSUME Shape, Known, Ordinary \/ Closed, Course, request.op = "CharacterCreate",
         request.name \notin OwnNames, login' = login,
         account' = Append(account, Character(request.name, request.class))
  PROVE  Ordinary'
<1>1. PICK s \in 0 .. 2 : slot = s /\ Len(account) = s /\ DOMAIN account = 1 .. s
  BY DEF Shape, Typed, Room
<1>2. /\ scenario = "B" => request.name = SlotName(s) /\ request.class = Classes[s + 1]
      /\ scenario = "A" => request.name = SanitizeName /\ s = 0
  BY <1>1 DEF Course
<1>3. Ordinary
  <2>1. CASE Closed
    <3>1. s = 2 /\ 2 \in DOMAIN account /\ account[2].name = SlotName(2)
      BY <1>1, <2>1 DEF Closed
    <3>2. request.name = SlotName(2)
      BY <1>2, <3>1 DEF Shape, Typed
    <3> QED BY <3>1, <3>2 DEF OwnNames
  <2> QED BY <2>1
<1>4. PICK c : c = Character(request.name, request.class)
  OBVIOUS
<1>5. c.name = request.name /\ c.class = request.class /\ ~ c.pending
  BY <1>4 DEF Character
<1>6. account \in Seq(Characters \cup {c})
  BY DEF Shape, Typed
<1>7. /\ Len(account') = s + 1 /\ DOMAIN account' = 1 .. s + 1
      /\ \A i \in 1 .. s : account'[i] = account[i]
      /\ account'[s + 1] = c
  <2>1. account' = Append(account, c)
    BY <1>4
  <2>2. /\ account' \in Seq(Characters \cup {c}) /\ Len(account') = Len(account) + 1
        /\ \A i \in DOMAIN account : account'[i] = account[i]
        /\ account'[Len(account) + 1] = c
    BY <2>1, <1>6, Added
  <2> QED BY <2>2, <1>1
<1>8. SanitizeName' = SanitizeName /\ \A k : SlotName(k)' = SlotName(k)
  BY NamesStay
<1>9. ASSUME NEW i \in 1 .. s
      PROVE  /\ account'[i].name = SlotName(i - 1)' \/ (i = 1 /\ account'[i].name = SanitizeName')
             /\ i >= 2 => account'[i].class = Classes[i]
             /\ ~ account'[i].pending
  <2>1. account'[i] = account[i] /\ i \in DOMAIN account
    BY <1>1, <1>7
  <2>2. /\ account[i].name = SlotName(i - 1) \/ (i = 1 /\ account[i].name = SanitizeName)
        /\ i >= 2 => account[i].class = Classes[i]
    BY <2>1, <1>3, Zenon DEF Ordinary
  <2>3. ~ account[i].pending
    BY <2>1, <1>1, <1>3 DEF Ordinary
  <2> QED BY <2>1, <2>2, <2>3, <1>8, Zenon
<1>10. /\ account'[s + 1].name = SlotName(s)' \/ (s = 0 /\ account'[s + 1].name = SanitizeName')
       /\ s + 1 >= 2 => account'[s + 1].class = Classes[s + 1]
       /\ ~ account'[s + 1].pending
  <2>1. scenario = "A" \/ scenario = "B"
    BY DEF Shape, Typed
  <2> QED BY <2>1, <1>2, <1>5, <1>7, <1>8
<1>11. ASSUME NEW i \in 1 .. s + 1
       PROVE  /\ account'[i].name = SlotName(i - 1)' \/ (i = 1 /\ account'[i].name = SanitizeName')
              /\ i >= 2 => account'[i].class = Classes[i]
              /\ ~ account'[i].pending
  <2>1. CASE i = s + 1
    <3>1. i - 1 = s /\ (s = 0 => i = 1)
      BY <2>1
    <3> QED BY <3>1, <2>1, <1>10, Zenon
  <2>2. CASE i # s + 1
    <3>1. i \in 1 .. s
      BY <2>2
    <3> QED BY <3>1, <1>9
  <2> QED BY <2>1, <2>2
<1> QED BY <1>7, <1>11, Zenon DEF Ordinary

LEMMA TameCreate ==
  ASSUME Shape, Known, Serve, ServeCreate, ~ spoiled', Tame
  PROVE  (Ordinary' \/ Closed') /\ Course' /\ Clear'
<1>1. /\ Ordinary \/ Closed
      /\ Course /\ Clear /\ \A k : ~ Astray(k)
      /\ UNCHANGED <<login, scenario, phase, slot, purged, taken, connected>>
      /\ request.op # "none" /\ request'.op = "none" /\ verdict' = "none" /\ phase # "idle"
  BY ObeyedServe
<1>2. phase = "created" /\ request.op = "CharacterCreate" /\ spawn' = spawn
  BY Served DEF Shape, ServeCreate
<1>3. Course'
  BY <1>1, <1>2 DEF Course
<1>4. Expected' = {"CharCreateSuccess", "CharCreateFail"}
  BY <1>1, <1>2 DEF Expected
<1>5. CASE /\ request.name \in taken \cup OwnNames
           /\ Reply([op |-> "CharCreateFail"])
           /\ UNCHANGED account
  <2>1. MayFail'
    BY <1>1, <1>2, <1>5, RefusedMayFail, MayFailStays
  <2>2. ASSUME ~ disturbed'
        PROVE  ~ disturbed /\ Head(inbox').op = "CharCreateFail"
    BY <1>5, <2>2, CleanReply
  <2>3. Clear'
    BY <1>1, <1>4, <2>1, <2>2 DEF Clear, Got
  <2> QED BY <1>1, <1>3, <1>5, <2>3, AccountTame
<1>6. CASE /\ request.name \notin taken \cup OwnNames
           /\ Reply([op |-> "CharCreateSuccess"])
           /\ account' = Append(account, Character(request.name, request.class))
  <2>1. Ordinary'
    BY <1>1, <1>2, <1>6, AddedOrdinary
  <2>2. ASSUME ~ disturbed'
        PROVE  ~ disturbed /\ Head(inbox').op = "CharCreateSuccess"
    BY <1>6, <2>2, CleanReply
  <2>3. Clear'
    BY <1>1, <1>4, <2>2 DEF Clear, Got
  <2> QED BY <1>3, <2>1, <2>3
<1> QED BY <1>1, <1>5, <1>6, Zenon DEF ServeCreate

(***************************************************************************)
(* The client.                                                             *)
(***************************************************************************)
LEMMA TameFill ==
  ASSUME NEW s \in 0 .. 3, FillFrom(s), s = Len(account), slot \in 0 .. 2,
         UNCHANGED <<login, account, scenario>>, scenario = "B"
  PROVE  Course' /\ phase' # "idle" /\ verdict' = verdict
<1>1. \A k : SlotName(k)' = SlotName(k)
  BY NamesStay
<1>2. CASE s < 3
  <2>1. /\ request' = [op |-> "CharacterCreate", name |-> SlotName(s), class |-> Classes[s + 1]]
        /\ phase' = "created" /\ slot' = s /\ verdict' = verdict
    BY <1>2 DEF FillFrom, Create, Ask
  <2>2. /\ request'.op = "CharacterCreate" /\ request'.name = SlotName(s)
        /\ request'.class = Classes[s + 1]
    BY <2>1
  <2> QED BY <2>1, <2>2, <1>1 DEF Course
<1>3. CASE ~ s < 3
  <2>1. /\ request'.op = "CharacterDelete" /\ phase' = "deleted" /\ verdict' = verdict
        /\ Len(account') = 3
    BY <1>3 DEF FillFrom, CharacterDelete, Ask
  <2> QED BY <2>1 DEF Course
<1> QED BY <1>2, <1>3

(* A step of the client that goes on leaves no reason to complain.         *)
LEMMA ClearAsked ==
  ASSUME Clear, UNCHANGED <<connected, disturbed>>, phase # "idle", inbox' = << >>, verdict' # "fail"
  PROVE  Clear'
BY DEF Clear

LEMMA ClearFailed ==
  ASSUME ~ disturbed => MayFail,
         UNCHANGED <<login, account, purged, scenario, spawn, taken, disturbed>>,
         phase' = "idle", inbox' = << >>
  PROVE  Clear'
<1>1. ~ disturbed => MayFail'
  BY MayFailStays
<1> QED BY <1>1 DEF Clear

LEMMA CourseOver ==
  ASSUME phase' = "idle", request'.op = "none"
  PROVE  Course'
BY DEF Course

LEMMA FinishTame ==
  ASSUME Finish("fail"), ~ disturbed => MayFail, inbox' = << >>,
         UNCHANGED <<login, account, purged, scenario, spawn, taken, disturbed>>
  PROVE  Course' /\ Clear'
<1>1. phase' = "idle" /\ request'.op = "none"
  BY DEF Finish, None
<1> QED BY <1>1, CourseOver, ClearFailed

(* Reading a list, the reply to a create, and what follows.                *)
LEMMA TameList ==
  ASSUME Shape, ReadList, Course, Clear
  PROVE  Course' /\ Clear'
<1>1. /\ phase = "list" /\ Chars = account /\ verdict = "none" /\ inbox' = << >>
      /\ Len(account) \in 0 .. 3 /\ slot \in 0 .. 2
      /\ UNCHANGED <<login, account, scenario, connected, disturbed, selected>>
  BY ReadQuietly, MailRead, LengthBound DEF ReadList, Reads, Shape, Quiet, Typed
<1>2. Len(Chars) = Len(account)
  BY <1>1, Zenon
<1>3. CASE scenario = "B" /\ FillFrom(Len(Chars))
  <2>1. Course' /\ verdict' = verdict
    BY <1>1, <1>2, <1>3, TameFill
  <2> QED BY <1>1, <2>1, ClearAsked
<1>4. CASE /\ scenario = "A" /\ Chars = << >>
           /\ Ask([op |-> "CharacterCreate", name |-> SanitizeName, class |-> class], "created")
           /\ slot' = 0
  <2>1. SanitizeName' = SanitizeName
    BY <1>1, NamesStay
  <2>2. /\ request'.op = "CharacterCreate" /\ request'.name = SanitizeName /\ phase' = "created"
        /\ verdict' = verdict
    BY <1>4 DEF Ask
  <2>3. Course'
    BY <1>1, <1>4, <2>1, <2>2 DEF Course
  <2> QED BY <1>1, <2>2, <2>3, ClearAsked
<1>5. CASE scenario = "A" /\ CharacterSelect(0)
  <2>1. request'.op = "CharacterSelect" /\ phase' = "selected" /\ verdict' = verdict
    BY <1>5 DEF CharacterSelect, Ask
  <2>2. Course'
    BY <1>1, <1>5, <2>1 DEF Course
  <2> QED BY <1>1, <2>1, <2>2, ClearAsked
<1> QED BY <1>3, <1>4, <1>5 DEF ReadList

LEMMA TameCreated ==
  ASSUME Shape, ReadCreatedLobby, Course, Clear
  PROVE  Course' /\ Clear'
<1>1. /\ phase = "created" /\ verdict = "none" /\ inbox' = << >>
      /\ Len(account) = slot + 1 /\ slot \in 0 .. 2 /\ slot + 1 \in 0 .. 3
      /\ UNCHANGED <<login, account, scenario, connected, disturbed, selected>>
  BY ReadQuietly DEF ReadCreatedLobby, Reads, Shape, Quiet, Typed, Room
<1>2. CASE scenario = "B" /\ FillFrom(slot + 1)
  <2>1. Course' /\ verdict' = verdict
    BY <1>1, <1>2, TameFill
  <2> QED BY <1>1, <2>1, ClearAsked
<1>3. CASE scenario # "B" /\ CharacterSelect(0)
  <2>1. request'.op = "CharacterSelect" /\ phase' = "selected" /\ verdict' = verdict
    BY <1>3 DEF CharacterSelect, Ask
  <2>2. Course'
    BY <1>1, <1>3, <2>1 DEF Course
  <2> QED BY <1>1, <2>1, <2>2, ClearAsked
<1> QED BY <1>2, <1>3 DEF ReadCreatedLobby

LEMMA TameDeleted ==
  ASSUME Shape, ReadDeleted, Course, Clear
  PROVE  Course' /\ Clear'
<1>1. /\ phase = "deleted" /\ Chars = account /\ verdict = "none" /\ inbox' = << >>
      /\ request.op = "none"
      /\ UNCHANGED <<login, account, scenario, connected, disturbed, selected>>
  BY ReadQuietly, MailRead DEF ReadDeleted, Reads, Shape, Quiet
<1>2. scenario = "B"
  BY <1>1 DEF Course, Shape, Typed
<1>3. Len(account) = 3 /\ OnlySlot1Pending(account)
  BY <1>1, <1>2 DEF Course
<1>4. OnlySlot1Pending(Chars)
  BY <1>1, <1>3, Zenon
<1>5. CharacterRestore
  BY <1>4, Zenon DEF ReadDeleted
<1>6. request'.op = "CharacterRestore" /\ phase' = "restored" /\ verdict' = verdict
  BY <1>5 DEF CharacterRestore, Ask
<1>7. OnlySlot1Pending(account') /\ Len(account') = 3
  BY <1>1, <1>3
<1>8. Course'
  BY <1>1, <1>2, <1>6, <1>7 DEF Course, OnlySlot1Pending
<1> QED BY <1>1, <1>6, <1>8, ClearAsked

LEMMA TameRestored ==
  ASSUME Shape, ReadRestored, Course, Clear
  PROVE  Course' /\ Clear'
<1>1. /\ phase = "restored" /\ Chars = account /\ verdict = "none" /\ inbox' = << >>
      /\ request.op = "none"
      /\ UNCHANGED <<login, account, scenario, connected, disturbed, selected>>
  BY ReadQuietly, MailRead DEF ReadRestored, Reads, Shape, Quiet
<1>2. scenario = "B"
  BY <1>1 DEF Course, Shape, Typed
<1>3. Len(account) = 3 /\ Restored(account)
  BY <1>1, <1>2 DEF Course
<1>4. Restored(Chars)
  BY <1>1, <1>3, Zenon
<1>5. CharacterSelect(1)
  BY <1>4, Zenon DEF ReadRestored
<1>6. /\ request'.op = "CharacterSelect" /\ request'.slot = 1 /\ phase' = "selected"
      /\ verdict' = verdict
  BY <1>5 DEF CharacterSelect, Ask
<1>7. Course'
  BY <1>1, <1>2, <1>3, <1>6 DEF Course
<1> QED BY <1>1, <1>6, <1>7, ClearAsked

(* The class is the one of slot 1, or the village is far.                  *)
LEMMA TameSelected ==
  ASSUME Shape, ReadSelectedLobby, Ordinary \/ Closed, Course, Clear
  PROVE  Course' /\ Clear'
<1>1. /\ phase = "selected" /\ inbox' = << >> /\ inbox # << >> /\ request.op = "none"
      /\ UNCHANGED <<login, account, purged, scenario, spawn, taken, disturbed>>
  BY ReadQuietly DEF ReadSelectedLobby, Reads
<1>2. /\ phase' = "idle" /\ request'.op = "none"
      /\ verdict' = (IF Asserted(Head(inbox).class) THEN "pass" ELSE "fail")
  BY DEF ReadSelectedLobby, Finish, None
<1>3. Course'
  BY <1>2, CourseOver
<1>4. CASE verdict' = "pass"
  BY <1>1, <1>2, <1>3, <1>4 DEF Clear
<1>5. CASE ~ Asserted(Head(inbox).class)
  <2>1. CASE scenario = "A"
    <3>1. MayFail
      BY <1>5, <2>1 DEF Asserted, MayFail
    <3> QED BY <1>1, <1>2, <1>3, <3>1, ClearFailed
  <2>2. CASE scenario = "B"
    <3>1. Len(account) = 3 /\ selected = 2
      BY <1>1, <2>2 DEF Course
    <3>2. account[2].class = Classes[2]
      <4>1. 2 \in DOMAIN account
        BY <3>1 DEF Shape, Typed
      <4>2. Ordinary
        BY <3>1 DEF Closed
      <4> QED BY <4>1, <4>2 DEF Ordinary
    <3>3. Head(inbox).class = account[selected].class
      <4>1. Head(inbox) \in Replies \cup Noise /\ Head(inbox).op = "CharSelected"
        BY <1>1, MailRead DEF Shape, ReadSelectedLobby, Got
      <4> QED BY <4>1 DEF Replies, Noise
    <3>4. Asserted(Head(inbox).class)
      BY <2>2, <3>1, <3>2, <3>3 DEF Asserted
    <3> QED BY <1>5, <3>4
  <2> QED BY <2>1, <2>2 DEF Shape, Typed
<1> QED BY <1>2, <1>3, <1>4, <1>5

(* While it waits for the character, the client gets nothing that it could *)
(* take for a list.                                                        *)
Answered ==
  phase = "selected" =>
    \A k \in DOMAIN inbox : inbox[k].op \in {"CharSelected", "empty", "other"}

LEMMA AnsweredHolds == LobbySpec => []Answered
<1>1. LobbyInit => Answered
  BY DEF LobbyInit, Answered
<1>2. Shape /\ Answered /\ [LobbyNext]_lobbyVars => Answered'
  <2> SUFFICES ASSUME Shape, Answered, [LobbyNext]_lobbyVars
               PROVE  Answered'
    OBVIOUS
  <2>1. CASE inbox' = << >>
    BY <2>1 DEF Answered
  <2>2. CASE UNCHANGED <<phase, inbox>>
    BY <2>2 DEF Answered
  <2>3. CASE Serve
    <3>1. phase' = phase
      BY <2>3, ServedKeeps
    <3>2. CASE ServeSelect
      <4>1. PICK c : Reply([op |-> "CharSelected", class |-> c])
        BY <3>2 DEF ServeSelect
      <4>2. CASE inbox' = <<[op |-> "CharSelected", class |-> c]>>
        BY <4>2 DEF Answered
      <4>3. CASE \E op \in {"empty", "other"} :
                   inbox' = <<[op |-> op], [op |-> "CharSelected", class |-> c]>>
        <5>1. PICK op \in {"empty", "other"} :
                inbox' = <<[op |-> op], [op |-> "CharSelected", class |-> c]>>
          BY <4>3, Zenon
        <5>2. DOMAIN inbox' = {1, 2} /\ inbox'[1].op = op /\ inbox'[2].op = "CharSelected"
          BY <5>1
        <5> QED BY <5>2 DEF Answered
      <4> QED BY <4>1, <4>2, <4>3 DEF Reply
    <3>3. CASE ~ ServeSelect
      <4>1. phase # "selected"
        BY <2>3, <3>3, Served DEF Serve, Shape
      <4> QED BY <3>1, <4>1 DEF Answered
    <3> QED BY <3>2, <3>3
  <2>4. CASE SkipUnasked
    <3>1. inbox' = Tail(inbox) /\ inbox # << >> /\ phase = "selected" /\ Mail(inbox, Replies)
      BY <2>4 DEF SkipUnasked, Reads, Shape, Typed
    <3>2. CASE \E p \in Replies : inbox = <<p>>
      <4>1. inbox' = << >>
        BY <3>1, <3>2
      <4> QED BY <4>1, <2>1
    <3>3. CASE \E p \in Replies, q \in Noise : inbox = <<q, p>>
      <4>1. PICK p, q : inbox = <<q, p>>
        BY <3>3
      <4>2. inbox' = <<p>> /\ inbox[2] = p /\ 2 \in DOMAIN inbox
        BY <3>1, <4>1
      <4>3. p.op \in {"CharSelected", "empty", "other"}
        BY <3>1, <4>2 DEF Answered
      <4> QED BY <4>2, <4>3 DEF Answered
    <3> QED BY <3>1, <3>2, <3>3 DEF Mail
  <2>5. CASE StartRun \/ ReadList \/ ReadCreatedLobby \/ ReadDeleted \/ ReadRestored
               \/ ReadSelectedLobby \/ RefuseReply \/ ReadFailsLobby
    <3>1. inbox' = << >> \/ phase' = "list"
      BY <2>5 DEF StartRun, ReadList, ReadCreatedLobby, ReadDeleted, ReadRestored,
                  ReadSelectedLobby, RefuseReply, ReadFailsLobby
    <3> QED BY <3>1, <2>1 DEF Answered
  <2>6. CASE Purge \/ OthersCreate \/ LoseLobby \/ UNCHANGED lobbyVars
    BY <2>2, <2>6 DEF Purge, OthersCreate, LoseLobby, netVars, clientVars, lobbyVars
  <2> QED BY <2>3, <2>4, <2>5, <2>6 DEF LobbyNext, Drive
<1> QED BY <1>1, <1>2, ShapeHolds, PTL DEF LobbySpec

LEMMA TameSkip ==
  ASSUME Shape, Answered, SkipUnasked, Course, Clear
  PROVE  Course' /\ Clear'
<1>1. /\ phase = "selected" /\ inbox' = Tail(inbox) /\ inbox # << >> /\ verdict = "none"
      /\ request.op = "none"
      /\ UNCHANGED <<login, account, purged, scenario, spawn, taken, disturbed, connected, selected,
                     request, phase, slot, verdict>>
  BY ReadQuietly DEF SkipUnasked, Reads, Shape, Quiet, clientVars
<1>2. Course'
  BY <1>1 DEF Course
<1>3. Expected' = {"CharSelected", "empty", "other"}
  BY <1>1 DEF Expected
<1>4. inbox' # << >> => Head(inbox').op \in {"CharSelected", "empty", "other"}
  <2>1. CASE \E p \in Replies : inbox = <<p>>
    <3>1. inbox' = << >>
      BY <1>1, <2>1
    <3> QED BY <3>1
  <2>2. CASE \E p \in Replies, q \in Noise : inbox = <<q, p>>
    <3>1. PICK p, q : inbox = <<q, p>>
      BY <2>2
    <3>2. Head(inbox') = p /\ inbox[2] = p /\ 2 \in DOMAIN inbox
      BY <1>1, <3>1
    <3> QED BY <1>1, <3>2 DEF Answered
  <2> QED BY <1>1, <2>1, <2>2 DEF Shape, Typed, Mail
<1>5. Clear'
  BY <1>1, <1>3, <1>4 DEF Clear, Got
<1> QED BY <1>2, <1>5

(* What is not wanted is a refusal that may be, when nothing disturbs.     *)
LEMMA TameRefuse ==
  ASSUME Shape, RefuseReply, Course, Clear
  PROVE  Course' /\ Clear'
<1>1. /\ phase # "idle" /\ inbox # << >> /\ inbox' = << >> /\ ~ Wanted /\ Finish("fail")
      /\ UNCHANGED <<login, account, purged, scenario, spawn, taken, disturbed>>
  BY DEF RefuseReply, Reads, serverVars, runVars
<1>2. ASSUME ~ disturbed
      PROVE  MayFail
  <2>1. /\ Head(inbox).op \in Expected
        /\ Got("CharSelectionInfo") => Head(inbox).whole
        /\ Got("CharCreateFail") => MayFail
    BY <1>1, <1>2 DEF Clear
  <2>2. CASE phase = "created"
    BY <1>1, <2>1, <2>2 DEF Wanted, Expected, Got
  <2>3. CASE phase \in {"list", "deleted", "restored"}
    <3>1. Head(inbox).op = "CharSelectionInfo"
      BY <2>1, <2>3 DEF Expected
    <3>2. GotList
      BY <3>1, <2>1 DEF GotList, Got
    <3>3. Wanted
      BY <3>2, <2>3 DEF Wanted
    <3> QED BY <1>1, <3>3
  <2>4. CASE phase = "selected"
    BY <1>1, <2>4 DEF Wanted
  <2> QED BY <1>1, <2>2, <2>3, <2>4 DEF Shape, Typed, Phases
<1> QED BY <1>1, <1>2, FinishTame

LEMMA TameLost ==
  ASSUME ReadFailsLobby, Clear
  PROVE  Course' /\ Clear'
<1>1. /\ phase # "idle" /\ ~ connected /\ inbox' = << >> /\ Finish("fail")
      /\ UNCHANGED <<login, account, purged, scenario, spawn, taken, disturbed>>
  BY DEF ReadFailsLobby, serverVars, runVars
<1>2. disturbed
  BY <1>1 DEF Clear
<1> QED BY <1>1, <1>2, FinishTame

LEMMA TameStart ==
  ASSUME Shape, StartRun
  PROVE  Course' /\ Clear'
<1>1. /\ phase' = "list" /\ request'.op = "AuthLogin" /\ connected' = TRUE /\ verdict' = "none"
      /\ inbox' = << >>
  BY DEF StartRun, Shape, Quiet
<1> QED BY <1>1 DEF Course, Clear

(* A timer expires: the account is closed, and whoever had a reason to     *)
(* fail has it still, because an account with a marked character is full.  *)
LEMMA TamePurge ==
  ASSUME Shape, Purge, Ordinary \/ Closed, Course, Clear
  PROVE  (Ordinary' \/ Closed') /\ Course' /\ Clear'
<1>1. Closed' /\ Len(account) = 3
  BY PurgeCloses
<1>2. /\ phase = "idle" /\ inbox = << >> /\ request.op = "none"
      /\ UNCHANGED <<request, inbox, connected, disturbed, login, scenario, spawn, taken, phase, slot,
                     verdict>>
  BY AskedIns DEF Purge, netVars, runVars, clientVars, Shape, Typed, Quiet
<1>3. Course'
  BY <1>2, CourseOver
<1>4. ASSUME MayFail
      PROVE  MayFail'
  <2>0. Blocked => Len(account) < 3
    BY Zenon DEF Blocked
  <2>1. ~ Blocked
    BY <1>1, <2>0
  <2>2. account # << >>
    BY <1>1
  <2>3. scenario = "A" /\ ~ NearVillage(spawn)
    BY <1>4, <2>1, <2>2 DEF MayFail
  <2>4. NearVillage(spawn)' <=> NearVillage(spawn)
    BY <1>2, Zenon DEF NearVillage
  <2> QED BY <1>2, <2>3, <2>4, Zenon DEF MayFail
<1>5. Clear'
  BY <1>2, <1>4 DEF Clear
<1> QED BY <1>1, <1>3, <1>5

LEMMA TameRest ==
  ASSUME OthersCreate \/ LoseLobby \/ UNCHANGED lobbyVars, Course, Clear
  PROVE  Course' /\ Clear'
<1>1. /\ UNCHANGED <<account, purged, spawn, selected, request, inbox, login, scenario, phase, slot,
                     verdict>>
      /\ taken \subseteq taken'
      /\ UNCHANGED <<connected, disturbed>> \/ disturbed'
  BY DEF OthersCreate, LoseLobby, lobbyVars, serverVars, netVars, runVars, clientVars
<1>2. \A s : SlotName(s)' = SlotName(s) /\ SanitizeName' = SanitizeName
  BY <1>1, NamesStay
<1>3. Course'
  BY <1>1, <1>2, Zenon DEF Course, OnlySlot1Pending, Restored
<1>4. MayFail => MayFail'
  BY <1>1, MayFailStays
<1>5. Expected' = Expected /\ (Got("CharSelectionInfo")' <=> Got("CharSelectionInfo"))
      /\ (Got("CharCreateFail")' <=> Got("CharCreateFail"))
  BY <1>1, Zenon DEF Expected, Got
<1>6. Clear'
  <2>1. CASE disturbed'
    BY <2>1, Zenon DEF Clear
  <2>2. CASE UNCHANGED <<connected, disturbed>>
    BY <2>2, <1>1, <1>4, <1>5 DEF Clear
  <2> QED BY <1>1, <2>1, <2>2
<1> QED BY <1>3, <1>6

LEMMA StepTame ==
  ASSUME Shape, Known, Answered, Tame, [LobbyNext]_lobbyVars
  PROVE  Tame'
<1> SUFFICES ASSUME ~ spoiled'
             PROVE  (Ordinary' \/ Closed') /\ Course' /\ Clear'
  BY DEF Tame
<1>1. CASE Serve
  <2>1. CASE ServeLogin
    BY <1>1, <2>1, TameLogin
  <2>2. CASE ServeCreate
    BY <1>1, <2>2, TameCreate
  <2>3. CASE ServeSelect
    BY <1>1, <2>3, TameSelect
  <2>4. CASE ServeMark("CharacterDelete", "delete", TRUE) \/ ServeMark("CharacterRestore", "restore", FALSE)
    BY <1>1, <2>4, TameMark
  <2> QED BY <1>1, <2>1, <2>2, <2>3, <2>4 DEF Serve
<1>2. CASE Purge
  BY <1>2, TamePurge DEF Purge, Tame
<1>3. CASE ~ Serve /\ ~ Purge
  <2>1. login' = login
    BY <1>3 DEF LobbyNext, Drive, StartRun, ReadList, ReadCreatedLobby, ReadDeleted, ReadRestored,
           ReadSelectedLobby, SkipUnasked, RefuseReply, ReadFailsLobby, Reads,
           OthersCreate, LoseLobby, lobbyVars, runVars
  <2>2. UNCHANGED <<account, spoiled, purged>>
    BY <1>3, AccountStays, Zenon DEF lobbyVars, serverVars
  <2>3. (Ordinary \/ Closed) /\ Course /\ Clear
    BY <2>2 DEF Tame
  <2>4. Ordinary' \/ Closed'
    BY <2>1, <2>2, <2>3, AccountTame
  <2>5. Course' /\ Clear'
    BY <1>3, <2>3, TameList, TameCreated, TameDeleted, TameRestored, TameSelected, TameSkip,
       TameRefuse, TameLost, TameStart, TameRest, Zenon DEF LobbyNext, Drive
  <2> QED BY <2>4, <2>5
<1> QED BY <1>1, <1>2, <1>3

(* NoFalseAlarm: if the server obeys and nothing disturbs the run, a       *)
(* scenario fails only because the name it needs is in use or because the  *)
(* character appeared too far from its village.                            *)
THEOREM NoFalseAlarmHolds == LobbySpec => []NoFalseAlarm
<1>1. LobbyInit => Tame
  <2> SUFFICES ASSUME LobbyInit
               PROVE  Tame
    OBVIOUS
  <2>1. /\ account = << >> /\ request.op = "none" /\ inbox = << >> /\ verdict = "none"
        /\ phase = "idle"
    BY DEF LobbyInit, None
  <2>2. Ordinary
    BY <2>1 DEF Ordinary
  <2>3. Course /\ Clear
    BY <2>1 DEF Course, Clear
  <2> QED BY <2>2, <2>3 DEF Tame
<1>2. Shape /\ Known /\ Answered /\ Tame /\ [LobbyNext]_lobbyVars => Tame'
  BY StepTame
<1>3. Tame => NoFalseAlarm
  BY Zenon DEF Tame, Clear, NoFalseAlarm, MayFail
<1> QED BY <1>1, <1>2, <1>3, ShapeHolds, KnownHolds, AnsweredHolds, PTL DEF LobbySpec

(***************************************************************************)
(* The names the client asks for.  A slot's name is cut to two symbols     *)
(* less than the longest and gets one more, a digit.                       *)
(***************************************************************************)
LEMMA NamesAreValid ==
  ASSUME login \in Logins, NEW name \in Names
  PROVE  ValidName(name)
<1>1. CASE name = SanitizeName
  BY <1>1, NameTypes, Zenon DEF ValidName
<1>2. ASSUME NEW s \in 0 .. 2, name = SlotName(s) PROVE ValidName(name)
  <2>1. PICK x \in Seq(Alnum) : x = Shortened(SanitizeName, NameMax - 2)
    BY NameTypes
  <2>2. Len(x) <= NameMax - 2 /\ NameMax \in Nat
    BY <2>1, NameTypes, LobbyAssumption
  <2>3. PICK d \in Alnum : d = Digit(s)
    <3>1. s = 0 \/ s = 1 \/ s = 2
      OBVIOUS
    <3>2. Digit(s) \in {"0", "1", "2"}
      BY <3>1 DEF Digit
    <3> QED BY <3>2, LobbyAssumption
  <2>4. name = Append(x, d)
    BY <1>2, <2>1, <2>3, Zenon DEF SlotName
  <2>5. name \in Seq(Alnum) /\ Len(name) = Len(x) + 1 /\ Len(x) \in Nat
    BY <2>4, Added
  <2> QED BY <2>2, <2>5 DEF ValidName
<1>3. 0 \in 0 .. 2 /\ 1 \in 0 .. 2 /\ 2 \in 0 .. 2
  OBVIOUS
<1> QED BY <1>1, <1>2, <1>3, Zenon DEF Names

(* No account name makes the client ask for a character whose name the     *)
(* server must refuse (slotName and sanitizeName, scenario.go:210-216,     *)
(* 326-339).                                                               *)
THEOREM NamesValidHolds == LobbySpec => []NamesValid
<1>1. Shape /\ Known => NamesValid
  <2> SUFFICES ASSUME Shape, Known, request.op = "CharacterCreate"
               PROVE  ValidName(request.name)
    BY DEF NamesValid
  <2>1. request.name \in Names
    BY DEF Shape, Typed, Requests
  <2> QED BY <2>1, NamesAreValid DEF Known
<1> QED BY <1>1, ShapeHolds, KnownHolds, PTL

=============================================================================
