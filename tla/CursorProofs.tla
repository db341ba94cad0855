---------------------------- MODULE CursorProofs ----------------------------
(***************************************************************************)
(* What the codec guarantees for packets and texts of any length, lists of *)
(* any length and strings of any length.                                   *)
(***************************************************************************)
EXTENDS Cursor, TLAPS

(***************************************************************************)
(* The formats by shape: one read behind a test of the length; a list of   *)
(* records; a request without a text.                                      *)
(***************************************************************************)
Blocks == {"Init", "LoginOk", "PlayOk", "LoginFail", "KeyPacket", "MagicSkillUse"}

Tables == {"ServerList", "StatusUpdate"}

Plain ==
  {"AuthGGRequest", "RequestServerList", "RequestServerLogin", "ProtocolVersion",
   "CharacterDelete", "CharacterRestore", "CharacterSelect", "MoveToLocation",
   "ValidatePosition", "RequestActionUse", "UseItem", "Action", "AttackRequest",
   "EnterWorld", "Appearing"}

LEMMA Kinds ==
  /\ Formats = Blocks \cup Tables \cup {"CharSelectionInfo", "CharSelected", "ItemList"}
  /\ Encoders = Plain \cup {"AuthLogin", "CharacterCreate", "Say2", "RequestMagicSkillUse"}
  /\ Formats \cap Encoders = {}
BY DEF Formats, Encoders, Blocks, Tables, Plain

LEMMA BlockShape ==
  ASSUME NEW f \in Blocks
  PROVE  /\ Layout(f).list = FALSE /\ Layout(f).start = 0
         /\ Len(Layout(f).body) = 1
         /\ Layout(f).body[1].op = "take" /\ Layout(f).body[1].n \in Nat
         /\ Layout(f).body[1].n <= Layout(f).min
<1>1. \E min, n \in Nat : n <= min /\ Layout(f) = Once(min, n)
  <2>1. CASE f = "Init"
    BY <2>1 DEF Layout
  <2>2. CASE f = "LoginOk"
    BY <2>2 DEF Layout
  <2>3. CASE f = "PlayOk"
    BY <2>3 DEF Layout
  <2>4. CASE f = "LoginFail"
    BY <2>4 DEF Layout
  <2>5. CASE f = "KeyPacket"
    BY <2>5 DEF Layout
  <2>6. CASE f = "MagicSkillUse"
    BY <2>6 DEF Layout
  <2> QED
    BY <2>1, <2>2, <2>3, <2>4, <2>5, <2>6 DEF Blocks
<1> QED
  BY <1>1 DEF Once, Take

LEMMA BlockMin ==
  ASSUME NEW f \in Blocks
  PROVE  Layout(f).min \in Nat
BY DEF Blocks, Layout, Once

LEMMA PlainShape ==
  ASSUME NEW f \in Plain
  PROVE  /\ Form(f).texts = {0}
         /\ Len(Form(f).body) = 1
         /\ Form(f).body[1].op = "take" /\ Form(f).body[1].n \in Nat
         /\ Form(f).room \in 0 .. 110 /\ Form(f).body[1].n <= Form(f).room
<1>1. \E room \in 0 .. 110, n \in Nat : n <= room /\ Form(f) = Fixed(room, n)
  <2>1. CASE f = "AuthGGRequest"
    BY <2>1 DEF Form
  <2>2. CASE f = "RequestServerList"
    BY <2>2 DEF Form
  <2>3. CASE f = "RequestServerLogin"
    BY <2>3 DEF Form
  <2>4. CASE f = "ProtocolVersion"
    BY <2>4 DEF Form
  <2>5. CASE f = "CharacterDelete"
    BY <2>5 DEF Form
  <2>6. CASE f = "CharacterRestore"
    BY <2>6 DEF Form
  <2>7. CASE f = "CharacterSelect"
    BY <2>7 DEF Form
  <2>8. CASE f = "MoveToLocation"
    BY <2>8 DEF Form
  <2>9. CASE f = "ValidatePosition"
    BY <2>9 DEF Form
  <2>10. CASE f = "RequestActionUse"
    BY <2>10 DEF Form
  <2>11. CASE f = "UseItem"
    BY <2>11 DEF Form
  <2>12. CASE f = "Action"
    BY <2>12 DEF Form
  <2>13. CASE f = "AttackRequest"
    BY <2>13 DEF Form
  <2>14. CASE f = "EnterWorld"
    BY <2>14 DEF Form
  <2>15. CASE f = "Appearing"
    BY <2>15 DEF Form
  <2> QED
    BY <2>1, <2>2, <2>3, <2>4, <2>5, <2>6, <2>7, <2>8, <2>9, <2>10, <2>11, <2>12, <2>13, <2>14, <2>15 DEF Plain
<1> QED
  BY <1>1 DEF Fixed, Request, Take

LEMMA TableShape ==
  ASSUME NEW f \in Tables
  PROVE  /\ Layout(f).list = TRUE /\ Layout(f).start \in Nat
         /\ Len(Layout(f).body) = 2
         /\ Layout(f).body[1].op = "stop" /\ Layout(f).body[2].op = "take"
         /\ Layout(f).body[1].n \in Nat /\ Layout(f).body[2].n = Layout(f).body[1].n
BY DEF Tables, Layout, List, Stop, Take

LEMMA ItemShape ==
  /\ Layout("ItemList") = List(11, 10, ItemBody)
  /\ Len(ItemBody) = 5
  /\ ItemBody[1] = Stop(43) /\ ItemBody[2] = Take(43) /\ ItemBody[3] = Bonus
  /\ ItemBody[4] = Sized /\ ItemBody[5] = Sized
BY DEF Layout, ItemBody

LEMMA CharSelectedShape ==
  /\ Layout("CharSelected") = [min |-> 1, start |-> 1, body |-> CharSelectedBody, list |-> FALSE]
  /\ Len(CharSelectedBody) = 6
  /\ CharSelectedBody[1] = Str /\ CharSelectedBody[2] = Must(4) /\ CharSelectedBody[3] = Str
  /\ CharSelectedBody[4] = Need(36) /\ CharSelectedBody[5] = Take(36)
  /\ CharSelectedBody[6] = Take(4)
BY DEF Layout, CharSelectedBody

LEMMA SelectionShape ==
  /\ Layout("CharSelectionInfo") = List(5, 18, CharSelectionInfoBody)
  /\ Len(CharSelectionInfoBody) = 13
  /\ CharSelectionInfoBody[1] = Str /\ CharSelectionInfoBody[2] = Must(4)
  /\ CharSelectionInfoBody[3] = Str /\ CharSelectionInfoBody[4] = Skip(28)
  /\ CharSelectionInfoBody[5] = Try(3) /\ CharSelectionInfoBody[6] = Skip(40)
  /\ CharSelectionInfoBody[7] = Try(1) /\ CharSelectionInfoBody[8] = Skip(25)
  /\ CharSelectionInfoBody[9] = Try(33) /\ CharSelectionInfoBody[10] = Skip(94)
  /\ CharSelectionInfoBody[11] = Try(2) /\ CharSelectionInfoBody[12] = Skip(68)
  /\ CharSelectionInfoBody[13] = Fits
BY DEF Layout, CharSelectionInfoBody

LEMMA TextShape ==
  /\ Form("AuthLogin") = Request(19, AccountLengths, <<Take(1), Text, Take(16)>>)
  /\ Form("CharacterCreate") =
       Request(100, NameLengths, <<Take(1), Text, Take(12), Take(24), Take(12)>>)
  /\ Form("Say2") = Request(256, PhraseLengths, <<Take(1), Text, Take(4)>>)
  /\ Form("RequestMagicSkillUse") = Request(15, {0}, <<Take(10), Skip(3)>>)
BY DEF Form

-----------------------------------------------------------------------------
(***************************************************************************)
(* Where the cursor is when it comes to each read, by shape.               *)
(***************************************************************************)
Running == outcome = "running"

Typed ==
  /\ format \in Formats \cup Encoders \cup {"none"}
  /\ len \in Nat /\ chars \in Nat /\ pos \in Nat /\ ip \in Nat /\ left \in Nat
  /\ missed \in BOOLEAN
  /\ outcome \in {"none", "running", "accepted", "rejected", "panicked"}
  /\ Running => format # "none"

WholeInv == ip = 1 /\ left = 1 /\ pos = 0 /\ Body[1].n <= len

TableInv == ip \in 1 .. 2 /\ left > 0 /\ (ip = 2 => pos + Body[2].n <= len)

ItemInv == ip \in 1 .. 5 /\ left > 0 /\ (ip = 2 => pos + 43 <= len)

SelectedInv ==
  ip \in 1 .. 6 /\ left = 1 /\ (ip = 5 => pos + 36 <= len) /\ (ip = 6 => pos <= len)

(* Once a field was not there the cursor is less than a field from the     *)
(* end, and behind it after the next gap.                                  *)
SelectionInv ==
  /\ ip \in 1 .. 13 /\ left > 0
  /\ missed => ip >= 6 /\ pos + 4 > len /\ (ip \in {7, 9, 11, 13} => pos > len)

AuthInv ==
  /\ left = 1
  /\ \/ /\ len = 19 + 2 * chars
        /\ \/ ip = 1 /\ pos = 0
           \/ ip = 2 /\ pos = 1
           \/ ip = 3 /\ pos = 3 + 2 * chars
     \/ len = 0 /\ chars > 32757 /\ ip = 1 /\ pos = 0

CreateInv ==
  /\ left = 1 /\ len = 100 /\ chars <= 16
  /\ \/ ip = 1 /\ pos = 0
     \/ ip = 2 /\ pos = 1
     \/ ip = 3 /\ pos = 3 + 2 * chars
     \/ ip = 4 /\ pos = 15 + 2 * chars
     \/ ip = 5 /\ pos = 39 + 2 * chars

SayInv ==
  /\ left = 1 /\ len = 256 /\ chars <= 124
  /\ \/ ip = 1 /\ pos = 0
     \/ ip = 2 /\ pos = 1
     \/ ip = 3 /\ pos = 3 + 2 * chars

MagicInv == left = 1 /\ len = 15 /\ ip \in 1 .. 2 /\ (ip = 1 => pos = 0)

Sound ==
  /\ format \in Blocks \cup Plain => WholeInv
  /\ format \in Tables => TableInv
  /\ format = "ItemList" => ItemInv
  /\ format = "CharSelected" => SelectedInv
  /\ format = "CharSelectionInfo" => SelectionInv
  /\ format = "AuthLogin" => AuthInv
  /\ format = "CharacterCreate" => CreateInv
  /\ format = "Say2" => SayInv
  /\ format = "RequestMagicSkillUse" => MagicInv

CursorInv ==
  /\ Typed
  /\ Running => Sound
  /\ AcceptedIsWhole
  /\ StaysInPacket

(* What a step from a running decoder or encoder leaves.                   *)
Kept ==
  /\ format' = format /\ Typed'
  /\ outcome' # "panicked" \/ StaysInPacket'

LEMMA WholeStep ==
  ASSUME Typed, Running, format \in Blocks \cup Plain, WholeInv, CursorNext
  PROVE  Kept /\ ~ Running'
<1>1. /\ Len(Body) = 1 /\ Body[1].op = "take" /\ Body[1].n \in Nat
  BY Kinds, BlockShape, PlainShape DEF Body
<1>2. /\ TakeBytes
  BY <1>1 DEF CursorNext, WholeInv, Running, Return, Decode, EncodeRequest, WriteText, ReadString,
     MustRead, TryRead, SkipBytes, CheckNeed, CheckStop, CheckFits, ReadBonus, ReadSized, At
<1> QED
  BY <1>1, <1>2 DEF Kept, Typed, Running, WholeInv, TakeBytes, N, End, MoveTo, NextField,
     NextEntry, packet

LEMMA TableStep ==
  ASSUME Typed, Running, format \in Tables, TableInv, CursorNext
  PROVE  Kept /\ (Running' => TableInv')
<1>1. /\ Len(Body) = 2 /\ Body[1].op = "stop" /\ Body[2].op = "take"
      /\ Body[1].n \in Nat /\ Body[2].n = Body[1].n
  BY Kinds, TableShape DEF Body
<1>2. \/ ip = 1 /\ CheckStop
      \/ ip = 2 /\ TakeBytes
  BY <1>1 DEF CursorNext, TableInv, Running, Return, Decode, EncodeRequest, WriteText, ReadString,
     MustRead, TryRead, SkipBytes, CheckNeed, CheckStop, TakeBytes, CheckFits, ReadBonus, ReadSized, At
<1>3. Body' = Body
  BY <1>2 DEF CheckStop, TakeBytes, End, MoveTo, packet, Body
<1> QED
  BY <1>1, <1>2, <1>3 DEF Kept, Typed, Running, TableInv, CheckStop, TakeBytes, N, End, MoveTo,
     NextField, NextEntry, packet

LEMMA ItemStep ==
  ASSUME Typed, Running, format = "ItemList", ItemInv, CursorNext
  PROVE  Kept /\ (Running' => ItemInv')
<1>1. Body = ItemBody
  BY Kinds, ItemShape DEF Body, List, Blocks, Tables, Plain
<1>2. \/ ip = 1 /\ CheckStop
      \/ ip = 2 /\ TakeBytes
      \/ ip = 3 /\ ReadBonus
      \/ ip \in 4 .. 5 /\ ReadSized
  BY <1>1, ItemShape DEF CursorNext, ItemInv, Running, Return, Decode, EncodeRequest, WriteText,
     ReadString, MustRead, TryRead, SkipBytes, CheckNeed, CheckStop, TakeBytes, CheckFits,
     ReadBonus, ReadSized, At, Stop, Take, Bonus, Sized
<1>3. CASE ip = 1 /\ CheckStop
  BY <1>1, <1>3, ItemShape DEF Kept, Typed, Running, ItemInv, CheckStop, N, End, MoveTo,
     NextField, NextEntry, packet, Stop
<1>4. CASE ip = 2 /\ TakeBytes
  BY <1>1, <1>4, ItemShape DEF Kept, Typed, Running, ItemInv, TakeBytes, N, End, MoveTo,
     NextField, NextEntry, packet, Take
<1>5. CASE ip = 3 /\ ReadBonus
  BY <1>1, <1>5, ItemShape DEF Kept, Typed, Running, ItemInv, ReadBonus, NextField, NextEntry, packet
<1>6. CASE ip \in 4 .. 5 /\ ReadSized
  BY <1>1, <1>6, CursorAssumption, ItemShape DEF Kept, Typed, Running, ItemInv, ReadSized, End,
     MoveTo, NextField, NextEntry, packet
<1> QED
  BY <1>2, <1>3, <1>4, <1>5, <1>6

LEMMA SelectedStep ==
  ASSUME Typed, Running, format = "CharSelected", SelectedInv, CursorNext
  PROVE  Kept /\ (Running' => SelectedInv')
<1>1. Body = CharSelectedBody
  BY Kinds, CharSelectedShape DEF Body, Blocks, Tables, Plain
<1>2. \/ ip \in {1, 3} /\ ReadString
      \/ ip = 2 /\ MustRead
      \/ ip = 4 /\ CheckNeed
      \/ ip \in {5, 6} /\ TakeBytes
  BY <1>1, CharSelectedShape DEF CursorNext, SelectedInv, Running, Return, Decode, EncodeRequest,
     WriteText, ReadString, MustRead, TryRead, SkipBytes, CheckNeed, CheckStop, TakeBytes,
     CheckFits, ReadBonus, ReadSized, At, Str, Must, Need, Take
<1>3. CASE ip \in {1, 3} /\ ReadString
  BY <1>1, <1>3, CursorAssumption, CharSelectedShape DEF Kept, Typed, Running, SelectedInv,
     ReadString, End, MoveTo, NextField, NextEntry, packet
<1>4. CASE ip = 2 /\ MustRead
  BY <1>1, <1>4, CharSelectedShape DEF Kept, Typed, Running, SelectedInv, MustRead, N, End,
     MoveTo, NextField, NextEntry, packet, Must
<1>5. CASE ip = 4 /\ CheckNeed
  BY <1>1, <1>5, CharSelectedShape DEF Kept, Typed, Running, SelectedInv, CheckNeed, N, End,
     MoveTo, NextField, NextEntry, packet, Need
<1>6. CASE ip \in {5, 6} /\ TakeBytes
  BY <1>1, <1>6, CharSelectedShape DEF Kept, Typed, Running, SelectedInv, TakeBytes, N, End,
     MoveTo, NextField, NextEntry, packet, Take, StaysInPacket
<1> QED
  BY <1>2, <1>3, <1>4, <1>5, <1>6

LEMMA SelectionStep ==
  ASSUME Typed, Running, format = "CharSelectionInfo", SelectionInv, CursorNext
  PROVE  Kept /\ (Running' => SelectionInv') /\ (outcome' = "accepted" => ~ missed')
<1>1. Body = CharSelectionInfoBody
  BY Kinds, SelectionShape DEF Body, List, Blocks, Tables, Plain
<1>2. \/ ip \in {1, 3} /\ ReadString
      \/ ip = 2 /\ MustRead
      \/ ip \in {4, 6, 8, 10, 12} /\ SkipBytes
      \/ ip \in {5, 7, 9, 11} /\ TryRead
      \/ ip = 13 /\ CheckFits
  BY <1>1, SelectionShape DEF CursorNext, SelectionInv, Running, Return, Decode, EncodeRequest,
     WriteText, ReadString, MustRead, TryRead, SkipBytes, CheckNeed, CheckStop, TakeBytes,
     CheckFits, ReadBonus, ReadSized, At, Str, Must, Skip, Try, Fits
<1>3. CASE ip \in {1, 3} /\ ReadString
  BY <1>1, <1>3, CursorAssumption, SelectionShape DEF Kept, Typed, Running, SelectionInv,
     ReadString, End, MoveTo, NextField, NextEntry, packet
<1>4. CASE ip = 2 /\ MustRead
  BY <1>1, <1>4, SelectionShape DEF Kept, Typed, Running, SelectionInv, MustRead, N, End,
     MoveTo, NextField, NextEntry, packet, Must
<1>5. CASE ip \in {4, 6, 8, 10, 12} /\ SkipBytes
  <2>1. N \in Nat /\ N >= 4
    BY <1>1, <1>5, SelectionShape DEF N, Skip
  <2> QED
    BY <1>1, <1>5, <2>1, SelectionShape DEF Kept, Typed, Running, SelectionInv, SkipBytes,
       MoveTo, NextField, NextEntry, packet
<1>6. CASE ip \in {5, 7, 9, 11} /\ TryRead
  <2>1. N \in Nat
    BY <1>1, <1>6, SelectionShape DEF N, Try
  <2>2. There \in Nat /\ (pos <= len => 4 * There <= len - pos /\ pos + 4 * There + 4 > len)
        /\ (pos > len => There = 0)
    BY DEF There, Typed
  <2>3. PICK k \in Nat : /\ k = IF There < N THEN There ELSE N
                         /\ MoveTo(pos + 4 * k) /\ missed' = (missed \/ k < N)
    BY <1>6, <2>1, <2>2 DEF TryRead
  <2>4. /\ format' = format /\ len' = len /\ chars' = chars /\ pos' = pos + 4 * k
        /\ ip' = ip + 1 /\ left' = left /\ outcome' = outcome
    BY <1>1, <1>6, <2>3, SelectionShape DEF MoveTo, NextField, NextEntry, packet
  <2>5. pos' + 4 > len \/ ~ (missed \/ k < N)
    BY <2>1, <2>2, <2>3, <2>4 DEF SelectionInv, Typed
  <2> QED
    BY <1>6, <2>1, <2>2, <2>3, <2>4, <2>5 DEF Kept, Typed, Running, SelectionInv
<1>7. CASE ip = 13 /\ CheckFits
  BY <1>1, <1>7, SelectionShape DEF Kept, Typed, Running, SelectionInv, CheckFits, End, MoveTo,
     NextField, NextEntry, packet
<1> QED
  BY <1>2, <1>3, <1>4, <1>5, <1>6, <1>7

LEMMA AuthStep ==
  ASSUME Typed, Running, format = "AuthLogin", AuthInv, CursorNext
  PROVE  Kept /\ (Running' => AuthInv')
<1>1. Body = <<Take(1), Text, Take(16)>>
  BY Kinds, TextShape DEF Body, Request, Blocks, Tables, Plain
<1>2. \/ Body[ip].op = "take" /\ TakeBytes
      \/ Body[ip].op = "text" /\ WriteText
  BY <1>1 DEF CursorNext, AuthInv, Running, Return, Decode, EncodeRequest, WriteText, ReadString,
     MustRead, TryRead, SkipBytes, CheckNeed, CheckStop, TakeBytes, CheckFits, ReadBonus,
     ReadSized, At, Take, Text
<1>3. CASE len = 0
  <2>1. ip = 1 /\ pos = 0 /\ chars > 32757
    BY <1>3 DEF AuthInv, Typed
  <2>2. TakeBytes /\ N = 1
    BY <1>1, <1>2, <2>1 DEF N, Take, Text
  <2>3. End("panicked")
    BY <1>3, <2>1, <2>2 DEF TakeBytes
  <2> QED
    BY <2>1, <2>3 DEF Kept, Typed, Running, End, packet, StaysInPacket
<1>4. CASE len # 0
  <2>1. len = 19 + 2 * chars
    BY <1>4 DEF AuthInv
  <2> QED
    BY <1>1, <1>2, <1>4, <2>1
    DEF Kept, Typed, Running, AuthInv, TakeBytes, WriteText, N, End, MoveTo, NextField,
        NextEntry, packet, Take, Text
<1> QED
  BY <1>3, <1>4

LEMMA CreateStep ==
  ASSUME Typed, Running, format = "CharacterCreate", CreateInv, CursorNext
  PROVE  Kept /\ (Running' => CreateInv')
<1>1. Body = <<Take(1), Text, Take(12), Take(24), Take(12)>>
  BY Kinds, TextShape DEF Body, Request, Blocks, Tables, Plain
<1>2. \/ Body[ip].op = "take" /\ TakeBytes
      \/ Body[ip].op = "text" /\ WriteText
  BY <1>1 DEF CursorNext, CreateInv, Running, Return, Decode, EncodeRequest, WriteText, ReadString,
     MustRead, TryRead, SkipBytes, CheckNeed, CheckStop, TakeBytes, CheckFits, ReadBonus,
     ReadSized, At, Take, Text
<1> QED
  BY <1>1, <1>2 DEF Kept, Typed, Running, CreateInv, TakeBytes, WriteText, N, End, MoveTo, NextField,
     NextEntry, packet, Take, Text

LEMMA SayStep ==
  ASSUME Typed, Running, format = "Say2", SayInv, CursorNext
  PROVE  Kept /\ (Running' => SayInv')
<1>1. Body = <<Take(1), Text, Take(4)>>
  BY Kinds, TextShape DEF Body, Request, Blocks, Tables, Plain
<1>2. \/ Body[ip].op = "take" /\ TakeBytes
      \/ Body[ip].op = "text" /\ WriteText
  BY <1>1 DEF CursorNext, SayInv, Running, Return, Decode, EncodeRequest, WriteText, ReadString,
     MustRead, TryRead, SkipBytes, CheckNeed, CheckStop, TakeBytes, CheckFits, ReadBonus,
     ReadSized, At, Take, Text
<1> QED
  BY <1>1, <1>2 DEF Kept, Typed, Running, SayInv, TakeBytes, WriteText, N, End, MoveTo, NextField,
     NextEntry, packet, Take, Text

LEMMA MagicStep ==
  ASSUME Typed, Running, format = "RequestMagicSkillUse", MagicInv, CursorNext
  PROVE  Kept /\ (Running' => MagicInv')
<1>1. Body = <<Take(10), Skip(3)>>
  BY Kinds, TextShape DEF Body, Request, Blocks, Tables, Plain
<1>2. \/ Body[ip].op = "take" /\ TakeBytes
      \/ Body[ip].op = "skip" /\ SkipBytes
  BY <1>1 DEF CursorNext, MagicInv, Running, Return, Decode, EncodeRequest, WriteText, ReadString,
     MustRead, TryRead, SkipBytes, CheckNeed, CheckStop, TakeBytes, CheckFits, ReadBonus,
     ReadSized, At, Take, Skip
<1> QED
  BY <1>1, <1>2 DEF Kept, Typed, Running, MagicInv, TakeBytes, SkipBytes, N, End, MoveTo, NextField,
     NextEntry, packet, Take, Skip

-----------------------------------------------------------------------------
(***************************************************************************)
(* A packet arrives, or a request is begun, with the cursor in its place.  *)
(***************************************************************************)
LEMMA DecodeSound ==
  ASSUME Decode
  PROVE  Typed' /\ (Running' => Sound') /\ outcome' # "panicked" /\ ~ missed'
<1>1. Layout(format').start \in Nat
  <2>1. CASE format' \in Blocks
    <3>1. Layout(format').start = 0
      BY <2>1, BlockShape
    <3> QED
      BY <3>1
  <2>2. CASE format' \in Tables
    BY <2>2, TableShape
  <2>3. CASE format' = "CharSelectionInfo"
    BY <2>3, SelectionShape DEF List
  <2>4. CASE format' = "CharSelected"
    BY <2>4, CharSelectedShape
  <2>5. CASE format' = "ItemList"
    BY <2>5, ItemShape DEF List
  <2> QED
    BY <2>1, <2>2, <2>3, <2>4, <2>5, Kinds DEF Decode
<1>2. /\ format' \in Formats /\ len' \in Nat /\ chars' = 0 /\ left' \in Nat
      /\ pos' = Layout(format').start /\ ip' = 1 /\ missed' = FALSE
      /\ outcome' \in {"rejected", "accepted", "running"}
      /\ outcome' = "running" => ~ (len' < Layout(format').min) /\ left' # 0
      /\ ~ Layout(format').list => left' = 1
  BY CursorAssumption DEF Decode
<1>3. Typed'
  BY <1>1, <1>2, Kinds DEF Typed, Running, Formats
<1>4. ASSUME Running', format' \in Blocks PROVE WholeInv'
  <2>1. format' \notin Encoders /\ Body' = Layout(format').body
    BY <1>2, Kinds DEF Body
  <2>2. Layout(format').min \in Nat
    BY <1>4, BlockMin
  <2> QED
    <3>1. /\ ~ Layout(format').list /\ Layout(format').start = 0
          /\ Layout(format').body[1].n \in Nat
          /\ Layout(format').body[1].n <= Layout(format').min
      BY <1>4, BlockShape
    <3> QED
      BY <1>2, <1>4, <2>1, <2>2, <3>1 DEF WholeInv, Running
<1>5. ASSUME Running', format' = "CharSelected" PROVE SelectedInv'
  BY <1>2, <1>5, CharSelectedShape DEF SelectedInv, Running
<1>6. Running' => Sound'
  BY <1>2, <1>4, <1>5, Kinds DEF Sound, Running, TableInv, ItemInv, SelectionInv, Plain,
     Formats, Encoders
<1> QED
  BY <1>2, <1>3, <1>6

LEMMA EncodeSound ==
  ASSUME EncodeRequest
  PROVE  Typed' /\ (Running' => Sound') /\ outcome' # "panicked" /\ ~ missed'
<1>1. /\ format' \in Encoders /\ chars' \in Form(format').texts
      /\ len' = Prepared(Room(format', chars')) /\ pos' = 0 /\ ip' = 1 /\ left' = 1
      /\ missed' = FALSE /\ outcome' = "running"
  BY DEF EncodeRequest
<1>0. /\ \A n \in 0 .. 256 : Prepared(n) = n
      /\ \A n \in Nat :
           \/ Prepared(19 + 2 * n) = 19 + 2 * n /\ 19 + 2 * n \in Nat
           \/ Prepared(19 + 2 * n) = 0 /\ n > 32757
  BY DEF Prepared, MaxPayload
<1>2. CASE format' \in Plain
  <2>1. chars' = 0 /\ len' = Form(format').room /\ len' \in Nat /\ Form(format').body[1].n <= len'
    <3>1. Room(format', chars') = Form(format').room
      BY <1>2 DEF Room, Plain
    <3> QED
      BY <1>0, <1>1, <1>2, <3>1, PlainShape
  <2>2. Body' = Form(format').body
    BY <1>1 DEF Body
  <2>3. Typed'
    BY <1>1, <2>1 DEF Typed, Encoders
  <2> QED
    BY <1>1, <1>2, <2>1, <2>2, <2>3 DEF Sound, WholeInv, Plain, Tables
<1>3. CASE format' = "AuthLogin"
  <2>1. AuthInv' /\ chars' \in Nat /\ len' \in Nat
    <3>1. Form(format').texts = AccountLengths /\ Form(format').room = 19
      BY <1>3, TextShape DEF Request
    <3> QED
      <4>1. chars' \in AccountLengths
        BY <1>1, <3>1
      <4>2. chars' \in Nat
        BY <4>1, CursorAssumption
      <4>3. len' = Prepared(19 + 2 * chars')
        BY <1>1, <1>3, <3>1 DEF Room
      <4>4. \/ len' = 19 + 2 * chars' /\ len' \in Nat
            \/ len' = 0 /\ chars' > 32757
        <5>1. PICK n \in Nat : chars' = n
          BY <4>2
        <5>2. \/ Prepared(19 + 2 * n) = 19 + 2 * n /\ 19 + 2 * n \in Nat
              \/ Prepared(19 + 2 * n) = 0 /\ n > 32757
          BY <1>0
        <5>3. len' = Prepared(19 + 2 * n)
          BY <4>3, <5>1
        <5> QED
          BY <5>1, <5>2, <5>3
      <4>5. AuthInv'
        BY <1>1, <4>4 DEF AuthInv
      <4> QED
        BY <4>2, <4>4, <4>5
  <2>2. Typed'
    BY <1>1, <2>1 DEF Typed, Encoders
  <2> QED
    BY <1>1, <1>3, <2>1, <2>2 DEF Sound, Blocks, Plain, Tables
<1>4. CASE format' = "CharacterCreate"
  <2>1. CreateInv' /\ chars' \in Nat /\ len' \in Nat
    <3>1. Form(format').texts = NameLengths /\ Form(format').room = 100
      BY <1>4, TextShape DEF Request
    <3> QED
      <4>1. chars' \in NameLengths
        BY <1>1, <3>1
      <4>2. chars' \in Nat /\ chars' <= 16
        BY <4>1, CursorAssumption
      <4>3. len' = 100
        BY <1>0, <1>1, <1>4, <3>1 DEF Room
      <4> QED
        BY <1>1, <4>2, <4>3 DEF CreateInv
  <2>2. Typed'
    BY <1>1, <2>1 DEF Typed, Encoders
  <2> QED
    BY <1>1, <1>4, <2>1, <2>2 DEF Sound, Blocks, Plain, Tables
<1>5. CASE format' = "Say2"
  <2>1. SayInv' /\ chars' \in Nat /\ len' \in Nat
    <3>1. Form(format').texts = PhraseLengths /\ Form(format').room = 256
      BY <1>5, TextShape DEF Request
    <3> QED
      <4>1. chars' \in PhraseLengths
        BY <1>1, <3>1
      <4>2. chars' \in Nat /\ chars' <= 124
        BY <4>1, CursorAssumption
      <4>3. len' = 256
        BY <1>0, <1>1, <1>5, <3>1 DEF Room
      <4> QED
        BY <1>1, <4>2, <4>3 DEF SayInv
  <2>2. Typed'
    BY <1>1, <2>1 DEF Typed, Encoders
  <2> QED
    BY <1>1, <1>5, <2>1, <2>2 DEF Sound, Blocks, Plain, Tables
<1>6. CASE format' = "RequestMagicSkillUse"
  <2>1. MagicInv' /\ chars' \in Nat /\ len' \in Nat
    <3>1. Form(format').texts = {0} /\ Form(format').room = 15
      BY <1>6, TextShape DEF Request
    <3>2. chars' = 0 /\ len' = Prepared(15)
      BY <1>1, <1>6, <3>1 DEF Room
    <3> QED
      BY <1>0, <1>1, <3>2 DEF MagicInv
  <2>2. Typed'
    BY <1>1, <2>1 DEF Typed, Encoders
  <2> QED
    BY <1>1, <1>6, <2>1, <2>2 DEF Sound, Blocks, Plain, Tables
<1> QED
  BY <1>1, <1>2, <1>3, <1>4, <1>5, <1>6, Kinds

LEMMA RunningStep ==
  ASSUME CursorInv, Running, CursorNext
  PROVE  CursorInv'
<1> USE DEF CursorInv
<1>1. CASE format \in Blocks \cup Plain
  <2>1. Kept /\ ~ Running'
    BY <1>1, WholeStep DEF Sound
  <2> QED
    BY <1>1, <2>1 DEF Kept, AcceptedIsWhole, StaysInPacket, Blocks, Plain
<1>2. CASE format \in Tables
  <2>1. Kept /\ (Running' => TableInv')
    BY <1>2, TableStep DEF Sound
  <2> QED
    BY <1>2, <2>1 DEF Kept, Sound, AcceptedIsWhole, StaysInPacket, Tables, Blocks, Plain
<1>3. CASE format = "ItemList"
  <2>1. Kept /\ (Running' => ItemInv')
    BY <1>3, ItemStep DEF Sound
  <2> QED
    BY <1>3, <2>1 DEF Kept, Sound, AcceptedIsWhole, StaysInPacket, Tables, Blocks, Plain
<1>4. CASE format = "CharSelected"
  <2>1. Kept /\ (Running' => SelectedInv')
    BY <1>4, SelectedStep DEF Sound
  <2> QED
    BY <1>4, <2>1 DEF Kept, Sound, AcceptedIsWhole, StaysInPacket, Tables, Blocks, Plain
<1>5. CASE format = "AuthLogin"
  <2>1. Kept /\ (Running' => AuthInv')
    BY <1>5, AuthStep DEF Sound
  <2> QED
    BY <1>5, <2>1 DEF Kept, Sound, AcceptedIsWhole, StaysInPacket, Tables, Blocks, Plain
<1>6. CASE format = "CharacterCreate"
  <2>1. Kept /\ (Running' => CreateInv')
    BY <1>6, CreateStep DEF Sound
  <2> QED
    BY <1>6, <2>1 DEF Kept, Sound, AcceptedIsWhole, StaysInPacket, Tables, Blocks, Plain
<1>7. CASE format = "Say2"
  <2>1. Kept /\ (Running' => SayInv')
    BY <1>7, SayStep DEF Sound
  <2> QED
    BY <1>7, <2>1 DEF Kept, Sound, AcceptedIsWhole, StaysInPacket, Tables, Blocks, Plain
<1>8. CASE format = "RequestMagicSkillUse"
  <2>1. Kept /\ (Running' => MagicInv')
    BY <1>8, MagicStep DEF Sound
  <2> QED
    BY <1>8, <2>1 DEF Kept, Sound, AcceptedIsWhole, StaysInPacket, Tables, Blocks, Plain
<1>9. CASE format = "CharSelectionInfo"
  <2>1. Kept /\ (Running' => SelectionInv') /\ (outcome' = "accepted" => ~ missed')
    BY <1>9, SelectionStep DEF Sound
  <2> QED
    BY <1>9, <2>1 DEF Kept, Sound, AcceptedIsWhole, StaysInPacket, Tables, Blocks, Plain
<1> QED
  BY <1>1, <1>2, <1>3, <1>4, <1>5, <1>6, <1>7, <1>8, <1>9, Kinds DEF Typed

LEMMA CursorInductive ==
  CursorSpec => []CursorInv
<1>1. CursorInit => CursorInv
  <2> SUFFICES ASSUME CursorInit PROVE CursorInv
    OBVIOUS
  <2>1. Typed
    BY DEF CursorInit, Typed, Running
  <2> QED
    BY <2>1 DEF CursorInit, CursorInv, Running, AcceptedIsWhole, StaysInPacket
<1>2. CursorInv /\ [CursorNext]_cursorVars => CursorInv'
  <2> SUFFICES ASSUME CursorInv, [CursorNext]_cursorVars
               PROVE  CursorInv'
    OBVIOUS
  <2>1. CASE UNCHANGED cursorVars
    <3>1. Body' = Body
      BY <2>1 DEF cursorVars, packet, Body
    <3> QED
      BY <2>1, <3>1 DEF cursorVars, packet, CursorInv, Typed, Running, Sound, WholeInv, TableInv,
         ItemInv, SelectedInv, SelectionInv, AuthInv, CreateInv, SayInv, MagicInv,
         AcceptedIsWhole, StaysInPacket
  <2>2. CASE CursorNext /\ Running
    BY <2>2, RunningStep
  <2>3. CASE Decode
    BY <2>3, DecodeSound DEF CursorInv, AcceptedIsWhole, StaysInPacket
  <2>4. CASE EncodeRequest
    BY <2>4, EncodeSound DEF CursorInv, AcceptedIsWhole, StaysInPacket
  <2>5. CASE Return
    <3>1. Typed' /\ outcome' = "none"
      BY <2>5 DEF Return, Typed, Running
    <3> QED
      BY <3>1 DEF CursorInv, Running, AcceptedIsWhole, StaysInPacket
  <2> QED
    BY <2>1, <2>2, <2>3, <2>4, <2>5 DEF CursorNext, Running, WriteText, ReadString, MustRead,
       TryRead, SkipBytes, CheckNeed, CheckStop, TakeBytes, CheckFits, ReadBonus, ReadSized, At
<1> QED
  BY <1>1, <1>2, PTL DEF CursorSpec

(***************************************************************************)
(* The one test at the end of an entry is enough for its 39 reads, for     *)
(* packets of any length, any number of entries and strings of any length. *)
(***************************************************************************)
THEOREM AcceptedIsWholeHolds ==
  CursorSpec => []AcceptedIsWhole
<1>1. CursorInv => AcceptedIsWhole
  BY DEF CursorInv
<1> QED
  BY <1>1, CursorInductive, PTL

(***************************************************************************)
(* No decoder reads past the end of any packet, but for the last           *)
(* coordinate of CharSelected, and no encoder writes past the room that    *)
(* Prepare gives it, but for the account that leaves it none: one of more  *)
(* than 32757 bytes, and no shorter one.                                   *)
(***************************************************************************)
THEOREM StaysInPacketHolds ==
  CursorSpec => []StaysInPacket
<1>1. CursorInv => StaysInPacket
  BY DEF CursorInv
<1> QED
  BY <1>1, CursorInductive, PTL

=============================================================================
