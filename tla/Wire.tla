-------------------------------- MODULE Wire --------------------------------
(***************************************************************************)
(* One direction of the game connection, byte by byte: a packet is built   *)
(* in the buffer of the Writer, encrypted there and written with its size; *)
(* the stream delivers it in pieces of any length; the Reader collects it  *)
(* in its one buffer, where it is decrypted (internal/net/packet.go,       *)
(* internal/crypto/game_crypt.go, client.go:346-361).                      *)
(*                                                                         *)
(* Of each direction one end is in the program and the other, in the       *)
(* server, its mirror image.  This module puts the program's two ends      *)
(* together: what it says holds of both directions if the server's end     *)
(* does what the program's does.                                           *)
(*                                                                         *)
(* The first packet of a direction goes in plain (client.go:371-389); the  *)
(* key it negotiates is installed at both ends before the second.          *)
(***************************************************************************)
EXTENDS Naturals, Sequences

CONSTANTS
  Radix,         \* a byte is in 0 .. Radix - 1: 256
  ByteXor(_, _), \* the exclusive or of two bytes
  KeyLen,        \* the bytes of a key: 16
  CounterAt,     \* the first byte of the counter in it: 8
  CounterLen,    \* the bytes of the counter: 4
  FixedKey,      \* what GameCrypt.Init copies into the key
  FirstCounter,  \* the counter as it is at first, part of the static key
  Payloads,      \* the packets sent, as <<length, bytes the encoder sets>>
  Values,        \* the bytes it sets them to
  MaxPackets     \* bound: packets sent

Byte == 0 .. Radix - 1
HeaderSize == 2
MaxPacketSize == Radix * Radix - 1
Counters == Radix ^ CounterLen

ASSUME WireAssumption ==
  /\ Radix \in Nat /\ Radix >= 2
  /\ KeyLen \in Nat \ {0} /\ CounterAt \in Nat /\ CounterLen \in Nat
  /\ \A d \in 0 .. CounterLen : Radix ^ d \in Nat \ {0}
  /\ FixedKey \in [0 .. KeyLen - 1 -> Byte]
  /\ FirstCounter \in 0 .. Counters - 1
  /\ \A p \in Payloads : p \in Nat \X Nat /\ p[2] <= p[1]
  /\ Values \subseteq Byte
  /\ MaxPackets \in Nat

ASSUME XorAssumption ==
  /\ \A a, b \in Byte : ByteXor(a, b) \in Byte /\ ByteXor(a, b) = ByteXor(b, a)
  /\ \A a, b, c \in Byte : ByteXor(ByteXor(a, b), c) = ByteXor(a, ByteXor(b, c))
  /\ \A a, b \in Byte : ByteXor(ByteXor(a, b), b) = a

VARIABLES
  spc,          \* the sender: "idle", "encrypt" or "stopped"
  wbuf,         \* Writer.buf
  plain,        \* history: the payload as the encoder left it
  i, prev,      \* the locals of Encrypt
  outCount,     \* the counter in outKey
  tape,         \* history: all that was written to the stream
  rpos,         \* how much of it the Reader has read
  broken,       \* nothing more comes
  rpc,          \* the receiver: "header", "payload", "decrypt" or "failed"
  rbuf,         \* Reader.buf
  got,          \* what io.ReadFull has of what it was asked for
  payloadSize,  \* the local of Read
  j, rprev,     \* the locals of Decrypt
  inCount,      \* the counter in inKey
  sent,         \* history: the payloads written
  received,     \* history: the payloads decrypted
  starts,       \* history: where on the tape each packet begins, and the next
  counts        \* history: the counter each was encrypted with, and the next

senderVars   == <<spc, wbuf, plain, i, prev, outCount>>
receiverVars == <<rpc, rbuf, got, payloadSize, j, rprev, inCount, rpos, received>>
streamVars   == <<tape, broken, sent, starts, counts>>
wireVars     == <<senderVars, receiverVars, streamVars>>

Zeros == [x \in 0 .. MaxPacketSize - 1 |-> 0]

WireInit ==
  /\ spc = "idle" /\ wbuf = Zeros /\ plain = << >> /\ i = 0 /\ prev = 0
  /\ outCount = FirstCounter
  /\ tape = << >> /\ broken = FALSE
  /\ sent = << >> /\ starts = <<0>> /\ counts = <<FirstCounter>>
  /\ rpc = "header" /\ rbuf = Zeros /\ got = 0 /\ payloadSize = 0
  /\ j = 0 /\ rprev = 0 /\ inCount = FirstCounter
  /\ rpos = 0 /\ received = << >>

-----------------------------------------------------------------------------
(***************************************************************************)
(* The cipher.                                                             *)
(***************************************************************************)
KeyByte(count, x) ==
  LET k == x % KeyLen IN
    IF k \in CounterAt .. CounterAt + CounterLen - 1
    THEN (count \div (Radix ^ (k - CounterAt))) % Radix   \* little endian
    ELSE FixedKey[k]

Mix(b, count, x, before) == ByteXor(ByteXor(b, KeyByte(count, x)), before)

UpdateKey(count, size) == (count + size) % Counters

-----------------------------------------------------------------------------
(***************************************************************************)
(* The sender.                                                             *)
(***************************************************************************)

(* Prepare returns a part of the buffer; an encoder sets its first bytes,  *)
(* not always all it then counts (EncodeGSRequestMagicSkillUseTo).         *)
Encode ==
  /\ spc = "idle" /\ Len(sent) < MaxPackets
  /\ \E p \in Payloads :
       /\ p[1] + HeaderSize <= MaxPacketSize
       /\ \E bytes \in [1 .. p[2] -> Values] :
            wbuf' = [x \in DOMAIN wbuf |->
                       IF x - HeaderSize + 1 \in 1 .. p[2] THEN bytes[x - HeaderSize + 1]
                       ELSE wbuf[x]]
       /\ plain' = [x \in 1 .. p[1] |-> wbuf'[x + HeaderSize - 1]]
  /\ spc' = "encrypt" /\ i' = 0 /\ prev' = 0
  /\ UNCHANGED <<outCount, streamVars, receiverVars>>

(* Without a key Encrypt returns at once.                                  *)
Keyed(packets) == packets # << >>

EncryptByte ==
  /\ spc = "encrypt" /\ Keyed(sent) /\ i < Len(plain)
  /\ LET c == Mix(wbuf[i + HeaderSize], outCount, i, prev) IN
       /\ wbuf' = [wbuf EXCEPT ![i + HeaderSize] = c]
       /\ prev' = c
  /\ i' = i + 1
  /\ UNCHANGED <<spc, plain, outCount, streamVars, receiverVars>>

Rolled(packets, count, size) ==
  IF Keyed(packets) THEN UpdateKey(count, size) ELSE count

(* The end of Encrypt, and Send: the size goes in front.                   *)
Send ==
  /\ spc = "encrypt" /\ (Keyed(sent) => i = Len(plain))
  /\ LET size == Len(plain) + HeaderSize IN
       /\ wbuf' = [wbuf EXCEPT ![0] = size % Radix, ![1] = size \div Radix]
       /\ tape' = tape \o [x \in 1 .. size |-> wbuf'[x - 1]]
       /\ starts' = Append(starts, starts[Len(starts)] + size)
  /\ outCount' = Rolled(sent, outCount, Len(plain))
  /\ counts' = Append(counts, outCount')
  /\ sent' = Append(sent, plain)
  /\ spc' = "idle" /\ plain' = << >>
  /\ UNCHANGED <<i, prev, broken, receiverVars>>

(* The other end sends a header that announces less than a header.         *)
SendRunt ==
  /\ spc = "idle"
  /\ \E b \in {0, 1} : tape' = tape \o <<b, 0>>
  /\ spc' = "stopped"
  /\ UNCHANGED <<wbuf, plain, i, prev, outCount, broken, sent, starts, counts, receiverVars>>

(* The connection is reset, and with it what had not yet been read.        *)
Break ==
  /\ ~ broken
  /\ broken' = TRUE /\ spc' = "stopped"
  /\ \E k \in rpos .. Len(tape) : tape' = SubSeq(tape, 1, k)
  /\ UNCHANGED <<wbuf, plain, i, prev, outCount, sent, starts, counts, receiverVars>>

-----------------------------------------------------------------------------
(***************************************************************************)
(* The receiver.                                                           *)
(***************************************************************************)

(* Mutant of Quota: the payload with the bytes of the header.              *)
QuotaTooLarge == IF rpc = "header" THEN HeaderSize ELSE payloadSize + HeaderSize

(* What io.ReadFull waits for.                                             *)
Quota == IF rpc = "header" THEN HeaderSize ELSE payloadSize

Filling == rpc \in {"header", "payload"}

(* A read returns what is there, up to what was asked.                     *)
ReadSome ==
  /\ Filling
  /\ \E k \in 1 .. Quota - got :
       /\ rpos + k <= Len(tape)
       /\ rbuf' = [x \in DOMAIN rbuf |->
                     IF x \in got .. got + k - 1 THEN tape[rpos + 1 + x - got] ELSE rbuf[x]]
       /\ rpos' = rpos + k /\ got' = got + k
  /\ UNCHANGED <<rpc, payloadSize, j, rprev, inCount, received, senderVars, streamVars>>

Announced == rbuf[0] + Radix * rbuf[1]

(* The payload goes where the header was.                                  *)
ReadHeader ==
  /\ rpc = "header" /\ got = HeaderSize
  /\ IF Announced < HeaderSize
     THEN rpc' = "failed" /\ UNCHANGED <<payloadSize, got>>
     ELSE rpc' = "payload" /\ payloadSize' = Announced - HeaderSize /\ got' = 0
  /\ UNCHANGED <<rbuf, j, rprev, inCount, rpos, received, senderVars, streamVars>>

ReadPayload ==
  /\ rpc = "payload" /\ got = Quota
  /\ rpc' = "decrypt" /\ j' = 0 /\ rprev' = 0
  /\ UNCHANGED <<rbuf, got, payloadSize, inCount, rpos, received, senderVars, streamVars>>

(* Mutant of DecryptByte: the byte is chained on after it was decrypted.   *)
DecryptByteLate ==
  /\ rpc = "decrypt" /\ Keyed(received) /\ j < payloadSize
  /\ rbuf' = [rbuf EXCEPT ![j] = Mix(@, inCount, j, rprev)]
  /\ rprev' = rbuf'[j]
  /\ j' = j + 1
  /\ UNCHANGED <<rpc, got, payloadSize, inCount, rpos, received, senderVars, streamVars>>

DecryptByte ==
  /\ rpc = "decrypt" /\ Keyed(received) /\ j < payloadSize
  /\ rbuf' = [rbuf EXCEPT ![j] = Mix(@, inCount, j, rprev)]
  /\ rprev' = rbuf[j]
  /\ j' = j + 1
  /\ UNCHANGED <<rpc, got, payloadSize, inCount, rpos, received, senderVars, streamVars>>

(* Decrypt is done; the caller has the slice until the next Read.          *)
Deliver ==
  /\ rpc = "decrypt" /\ (Keyed(received) => j = payloadSize)
  /\ received' = Append(received, [x \in 1 .. payloadSize |-> rbuf[x - 1]])
  /\ inCount' = Rolled(received, inCount, payloadSize)
  /\ rpc' = "header" /\ got' = 0
  /\ UNCHANGED <<rbuf, payloadSize, j, rprev, rpos, senderVars, streamVars>>

(* The end of the stream, inside a packet or between two.                  *)
ReadEnds ==
  /\ Filling /\ broken
  /\ got < Quota /\ rpos = Len(tape)
  /\ rpc' = "failed"
  /\ UNCHANGED <<rbuf, got, payloadSize, j, rprev, inCount, rpos, received,
                 senderVars, streamVars>>

Receive ==
  \/ ReadSome \/ ReadHeader \/ ReadPayload \/ DecryptByte \/ Deliver \/ ReadEnds

WireNext ==
  Encode \/ EncryptByte \/ Send \/ SendRunt \/ Break \/ Receive

WireSpec == WireInit /\ [][WireNext]_wireVars

-----------------------------------------------------------------------------
(***************************************************************************)
(* Properties.                                                             *)
(***************************************************************************)
Pipe == INSTANCE PacketPipe

(* However the stream is cut into reads, the packets that come out are     *)
(* those that went in, in order and byte for byte: the header is gone      *)
(* before the payload takes its place (packet.go:40-57), the chain of the  *)
(* cipher is undone in place, and both counters stay in step although they *)
(* wrap (game_crypt.go:31-71).  A connection that breaks inside a packet   *)
(* delivers nothing of it.                                                 *)
DeliversPackets == Pipe!Spec

(* While the stream flows, every packet written is delivered.              *)
EverythingArrives ==
  \A k \in 1 .. MaxPackets : Len(sent) >= k ~> Len(received) >= k \/ rpc = "failed"

=============================================================================
