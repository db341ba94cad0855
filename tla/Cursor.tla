------------------------------- MODULE Cursor -------------------------------
(***************************************************************************)
(* The decoders of internal/net/protocol.go, each a cursor that moves over *)
(* the bytes of one packet, and the encoders, each a cursor over the room  *)
(* its caller has prepared.  What the bytes say is any choice; what a      *)
(* decoder tests before it reads, and by how much the cursor moves, is     *)
(* the code's.  A packet may have any length and any count of entries.     *)
(***************************************************************************)
EXTENDS Integers, Sequences

CONSTANTS
  Lengths,    \* the lengths of a packet
  MaxEntries, \* bound: the count of entries a packet announces
  MaxString,  \* bound: the characters of a string
  MaxSpec,    \* bound: the size of a soul crystal's list of effects
  AccountLengths, \* the lengths of an account
  NameLengths,    \* of a character's name: sanitizeName and slotName cut it to 16
  PhraseLengths   \* of the phrases of doChat and doDeathTaunt

ASSUME CursorAssumption ==
  /\ Lengths \subseteq Nat /\ MaxEntries \in Nat /\ MaxString \in Nat /\ MaxSpec \in Nat
  /\ AccountLengths \subseteq Nat /\ NameLengths \subseteq 0 .. 16
  /\ PhraseLengths \subseteq 0 .. 124

(* What is done at the cursor.                                             *)
Str     == [op |-> "str", n |-> 0]      \* to the end of a string, else reject
Must(n) == [op |-> "must", n |-> n]     \* read n bytes, reject if they are not there
Try(n)  == [op |-> "try", n |-> n]      \* n times 4 bytes, each 0 if it is not there
Skip(n) == [op |-> "skip", n |-> n]
Need(n) == [op |-> "need", n |-> n]     \* reject unless n bytes are left
Stop(n) == [op |-> "stop", n |-> n]     \* return what there is unless n bytes are left
Take(n) == [op |-> "take", n |-> n]     \* read or write n bytes, whether they are there or not
Fits    == [op |-> "fits", n |-> 0]     \* reject if the cursor has left the packet
Text    == [op |-> "text", n |-> 2]    \* write a text in UTF-16, with its end
Bonus   == [op |-> "bonus", n |-> 0]    \* the bonuses of an item, by its mask
Sized   == [op |-> "sized", n |-> 0]    \* a list of effects, its size first

CharSelectionInfoBody ==
  <<Str, Must(4), Str, Skip(28), Try(3), Skip(40), Try(1), Skip(25), Try(33),
    Skip(94), Try(2), Skip(68), Fits>>

CharSelectedBody == <<Str, Must(4), Str, Need(36), Take(36), Take(4)>>

ItemBody == <<Stop(43), Take(43), Bonus, Sized, Sized>>

Once(min, n) == [min |-> min, start |-> 0, body |-> <<Take(n)>>, list |-> FALSE]

List(min, start, body) == [min |-> min, start |-> start, body |-> body, list |-> TRUE]

Formats ==
  {"Init", "LoginOk", "PlayOk", "LoginFail", "KeyPacket", "MagicSkillUse",
   "ServerList", "CharSelectionInfo", "CharSelected", "ItemList", "StatusUpdate"}

Layout(f) ==
  CASE f = "Init"              -> Once(170, 169)
    [] f = "LoginOk"           -> Once(9, 9)
    [] f = "PlayOk"            -> Once(9, 9)
    [] f = "LoginFail"         -> Once(5, 5)
    [] f = "KeyPacket"         -> Once(18, 18)
    [] f = "MagicSkillUse"     -> Once(33, 33)
    [] f = "ServerList"        -> List(3, 3, <<Stop(21), Take(21)>>)
    [] f = "CharSelectionInfo" -> List(5, 18, CharSelectionInfoBody)
    [] f = "ItemList"          -> List(11, 10, ItemBody)
    [] f = "StatusUpdate"      -> List(11, 11, <<Stop(5), Take(5)>>)
    [] f = "CharSelected"      ->
         [min |-> 1, start |-> 1, body |-> CharSelectedBody, list |-> FALSE]

(* The requests: the room the caller asks for, what a text in it may       *)
(* measure, and what is written.                                           *)
Request(room, texts, body) == [room |-> room, texts |-> texts, body |-> body]

Fixed(room, n) == Request(room, {0}, <<Take(n)>>)

Encoders ==
  {"AuthGGRequest", "RequestServerList", "RequestServerLogin", "ProtocolVersion",
   "AuthLogin", "CharacterDelete", "CharacterRestore", "CharacterCreate",
   "CharacterSelect", "MoveToLocation", "ValidatePosition", "RequestActionUse",
   "UseItem", "Action", "AttackRequest", "RequestMagicSkillUse", "EnterWorld",
   "Say2", "Appearing"}

Form(f) ==
  CASE f = "AuthGGRequest"        -> Fixed(25, 25)
    [] f = "RequestServerList"    -> Fixed(9, 9)
    [] f = "RequestServerLogin"   -> Fixed(10, 10)
    [] f = "ProtocolVersion"      -> Fixed(5, 5)
    [] f = "AuthLogin"            -> Request(19, AccountLengths, <<Take(1), Text, Take(16)>>)
    [] f = "CharacterDelete"      -> Fixed(16, 5)
    [] f = "CharacterRestore"     -> Fixed(16, 5)
    [] f = "CharacterCreate"      -> Request(100, NameLengths, <<Take(1), Text, Take(12), Take(24), Take(12)>>)
    [] f = "CharacterSelect"      -> Fixed(30, 19)
    [] f = "MoveToLocation"       -> Fixed(30, 29)
    [] f = "ValidatePosition"     -> Fixed(30, 21)
    [] f = "RequestActionUse"     -> Fixed(15, 10)
    [] f = "UseItem"              -> Fixed(15, 9)
    [] f = "Action"               -> Fixed(20, 18)
    [] f = "AttackRequest"        -> Fixed(20, 18)
    [] f = "RequestMagicSkillUse" -> Request(15, {0}, <<Take(10), Skip(3)>>)
    [] f = "EnterWorld"           -> Fixed(110, 105)
    [] f = "Say2"                 -> Request(256, PhraseLengths, <<Take(1), Text, Take(4)>>)
    [] f = "Appearing"            -> Fixed(4, 1)

(* Only AuthLogin's room grows with its text.                              *)
Room(f, n) == IF f = "AuthLogin" THEN Form(f).room + 2 * n ELSE Form(f).room

(* MaxPacketSize less HeaderSize, see Wire.                                *)
MaxPayload == 65535 - 2

(* What Prepare gives: nil, which has no bytes, if the packet would be too *)
(* large.  No caller tests for it.                                         *)
Prepared(room) == IF room > MaxPayload THEN 0 ELSE room

VARIABLES
  format,   \* of the packet, "none" before the first
  len,      \* len(data)
  chars,    \* the length of the text of a request
  pos,      \* the cursor
  ip,       \* the next entry of the body
  left,     \* entries still to be decoded
  missed,   \* history: a field was not there and was left 0
  outcome   \* "none", "running", "accepted", "rejected" or "panicked"

packet == <<format, len, chars>>
cursorVars == <<packet, pos, ip, left, missed, outcome>>

CursorInit ==
  /\ format = "none" /\ len = 0 /\ chars = 0 /\ pos = 0 /\ ip = 1 /\ left = 0
  /\ missed = FALSE /\ outcome = "none"

Body == IF format \in Encoders THEN Form(format).body ELSE Layout(format).body

(* A packet arrives.  An empty list, or a packet that is too short for its *)
(* format, is decided at once.                                             *)
Decode ==
  /\ outcome = "none"
  /\ format' \in Formats /\ len' \in Lengths /\ chars' = 0
  /\ left' \in (IF Layout(format').list THEN 0 .. MaxEntries ELSE {1})
  /\ pos' = Layout(format').start /\ ip' = 1 /\ missed' = FALSE
  /\ outcome' = IF len' < Layout(format').min THEN "rejected"
                ELSE IF left' = 0 THEN "accepted" ELSE "running"

(* A request is built.                                                     *)
EncodeRequest ==
  /\ outcome = "none"
  /\ format' \in Encoders /\ chars' \in Form(format').texts
  /\ len' = Prepared(Room(format', chars'))
  /\ pos' = 0 /\ ip' = 1 /\ left' = 1 /\ missed' = FALSE /\ outcome' = "running"

At(op) == outcome = "running" /\ Body[ip].op = op
N == Body[ip].n

End(how) == outcome' = how /\ UNCHANGED <<packet, pos, ip, left, missed>>

(* On to the next field, the next entry, or the end.                       *)
NextEntry ==
  /\ left' = left - 1
  /\ ip' = IF left = 1 THEN ip ELSE 1
  /\ outcome' = IF left = 1 THEN "accepted" ELSE outcome

NextField ==
  \/ ip < Len(Body) /\ ip' = ip + 1 /\ UNCHANGED <<left, outcome>>
  \/ ip = Len(Body) /\ NextEntry

MoveTo(p) == pos' = p /\ NextField /\ UNCHANGED packet

(* Strings end with two zero bytes, at an even distance.                   *)
ReadString ==
  /\ At("str")
  /\ \/ \E k \in 0 .. MaxString :
          pos + 2 * k + 1 < len /\ MoveTo(pos + 2 * k + 2) /\ UNCHANGED missed
     \/ End("rejected")

MustRead ==
  /\ At("must")
  /\ IF pos + N > len THEN End("rejected") ELSE MoveTo(pos + N) /\ UNCHANGED missed

(* The cursor stays where it is if the field is not there.                 *)
There == IF pos > len THEN 0 ELSE (len - pos) \div 4

TryRead ==
  /\ At("try")
  /\ LET k == IF There < N THEN There ELSE N IN
       MoveTo(pos + 4 * k) /\ missed' = (missed \/ k < N)

SkipBytes == At("skip") /\ MoveTo(pos + N) /\ UNCHANGED missed

CheckNeed ==
  /\ At("need")
  /\ IF pos + N > len THEN End("rejected") ELSE MoveTo(pos) /\ UNCHANGED missed

(* Mutant of CheckStop: one byte too lenient.                              *)
CheckStopLate ==
  /\ At("stop")
  /\ IF pos + N > len + 1 THEN End("accepted") ELSE MoveTo(pos) /\ UNCHANGED missed

CheckStop ==
  /\ At("stop")
  /\ IF pos + N > len THEN End("accepted") ELSE MoveTo(pos) /\ UNCHANGED missed

TakeBytes ==
  /\ At("take")
  /\ IF pos + N > len THEN End("panicked") ELSE MoveTo(pos + N) /\ UNCHANGED missed

(* Each character takes two bytes.                                         *)
WriteText ==
  /\ At("text")
  /\ LET n == 2 * chars + N IN
       IF pos + n > len THEN End("panicked") ELSE MoveTo(pos + n) /\ UNCHANGED missed

(* Mutant of CheckFits: the cursor is not looked at.                       *)
CheckNothing == At("fits") /\ MoveTo(pos) /\ UNCHANGED missed

CheckFits ==
  /\ At("fits")
  /\ IF pos > len THEN End("rejected") ELSE MoveTo(pos) /\ UNCHANGED missed

(* Augmentation, elements, enchantment, appearance; and in the end, maybe, *)
(* two lists of effects.                                                   *)
ReadBonus ==
  /\ At("bonus")
  /\ \E a \in {0, 8}, b \in {0, 16}, c \in {0, 12}, d \in {0, 4} :
       pos' = pos + a + b + c + d
  /\ NextField \/ NextEntry
  /\ UNCHANGED <<packet, missed>>

ReadSized ==
  /\ At("sized")
  /\ IF pos >= len THEN End("accepted")
     ELSE \E size \in 0 .. MaxSpec : MoveTo(pos + 1 + 4 * size) /\ UNCHANGED missed

(* The decoder or the encoder has returned.                                *)
Return ==
  /\ outcome \in {"accepted", "rejected"}
  /\ format' = "none" /\ len' = 0 /\ chars' = 0 /\ pos' = 0 /\ ip' = 1 /\ left' = 0
  /\ missed' = FALSE /\ outcome' = "none"

CursorNext ==
  \/ Return \/ Decode \/ EncodeRequest \/ WriteText \/ ReadString \/ MustRead \/ TryRead \/ SkipBytes \/ CheckNeed
  \/ CheckStop \/ TakeBytes \/ CheckFits \/ ReadBonus \/ ReadSized

CursorSpec == CursorInit /\ [][CursorNext]_cursorVars

-----------------------------------------------------------------------------
(***************************************************************************)
(* Properties.                                                             *)
(***************************************************************************)

(* DecodeCharSelectionInfo tests the cursor once per entry                 *)
(* (protocol.go:426-428) and ignores that single fields were not there     *)
(* (391-423).  Still, what it accepts has every field of every entry:      *)
(* a deletion timer it reports as 0 was sent as 0.                         *)
AcceptedIsWhole ==
  format = "CharSelectionInfo" /\ outcome = "accepted" => ~ missed

(* A packet of any length and content is decoded without reading past its  *)
(* end, and every request is written into the room prepared for it, but    *)
(* for two: DecodeCharSelected tests for 36 bytes and reads 40             *)
(* (protocol.go:550-569), so that a packet cut in its last coordinate      *)
(* panics; and for an account of more than 32757 bytes HandshakeToLobby    *)
(* (client.go:393-395) writes into the nil that Prepare returns for more   *)
(* than 65533 bytes (packet.go:92-95).                                     *)
StaysInPacket ==
  outcome = "panicked" =>
    \/ format = "CharSelected" /\ ip = 6 /\ len - pos \in 0 .. 3
    \/ format = "AuthLogin" /\ chars > 32757

=============================================================================
