----------------------------- MODULE WireProofs -----------------------------
(***************************************************************************)
(* One direction of the game connection implements PacketPipe, for bytes   *)
(* of any width, keys and counters of any length, packets of any length    *)
(* and number, and any cut of the stream into reads.                       *)
(***************************************************************************)
EXTENDS Wire, SequenceTheorems, TLAPS

(***************************************************************************)
(* Bytes.                                                                  *)
(***************************************************************************)
LEMMA Sizes ==
  /\ Radix \in Nat /\ Radix >= 2 /\ 0 \in Byte /\ 1 \in Byte
  /\ MaxPacketSize \in Nat /\ MaxPacketSize >= 3
<1>1. Radix \in Nat /\ Radix >= 2
  BY WireAssumption
<1>2. Radix * Radix \in Nat /\ Radix * Radix >= 4
  BY <1>1
<1> QED
  BY <1>1, <1>2 DEF MaxPacketSize, Byte

LEMMA Header ==
  ASSUME NEW n \in Nat, n <= MaxPacketSize
  PROVE  /\ (n % Radix) \in Byte /\ (n \div Radix) \in Byte
         /\ (n % Radix) + Radix * (n \div Radix) = n
<1>1. Radix \in Nat /\ Radix >= 2
  BY WireAssumption
<1>2. (n % Radix) \in 0 .. Radix - 1 /\ (n \div Radix) \in Nat
      /\ n = Radix * (n \div Radix) + (n % Radix)
  BY <1>1
<1>3. (n \div Radix) < Radix
  <2> DEFINE d == n \div Radix
  <2>1. d \in Nat /\ Radix * d <= n /\ n < Radix * Radix
    BY <1>1, <1>2 DEF MaxPacketSize
  <2> HIDE DEF d
  <2>2. CASE d >= Radix
    <3>1. Radix * d >= Radix * Radix
      BY <1>1, <2>1, <2>2
    <3>2. Radix * d \in Nat /\ Radix * Radix \in Nat
      BY <1>1, <2>1
    <3> QED
      BY <3>1, <3>2, <2>1
  <2> QED
    BY <1>1, <2>1, <2>2 DEF d
<1> QED
  BY <1>1, <1>2, <1>3 DEF Byte

LEMMA KeyBytes ==
  ASSUME NEW count \in Nat, NEW x \in Nat
  PROVE  KeyByte(count, x) \in Byte
<1> DEFINE k == x % KeyLen
<1>1. /\ KeyLen \in Nat \ {0} /\ CounterAt \in Nat /\ CounterLen \in Nat
      /\ \A d \in 0 .. CounterLen : Radix ^ d \in Nat \ {0}
      /\ FixedKey \in [0 .. KeyLen - 1 -> Byte] /\ Radix \in Nat /\ Radix >= 2
  BY WireAssumption
<1>2. k \in 0 .. KeyLen - 1
  BY <1>1
<1> HIDE DEF k
<1>3. CASE k \in CounterAt .. CounterAt + CounterLen - 1
  <2>1. k - CounterAt \in 0 .. CounterLen
    BY <1>1, <1>2, <1>3
  <2>2. \A d \in Nat \ {0} : (count \div d) \in Nat
    OBVIOUS
  <2>3. \A y \in Nat : (y % Radix) \in 0 .. Radix - 1
    BY <1>1
  <2>4. ((count \div (Radix ^ (k - CounterAt))) % Radix) \in Byte
    BY <1>1, <2>1, <2>2, <2>3 DEF Byte
  <2> QED
    BY <1>3, <2>4 DEF KeyByte, k
<1>4. CASE k \notin CounterAt .. CounterAt + CounterLen - 1
  BY <1>1, <1>2, <1>4 DEF KeyByte, k
<1> QED
  BY <1>3, <1>4

(* One byte of the cipher undone: the same key byte and chain byte.        *)
LEMMA MixTwice ==
  ASSUME NEW b \in Byte, NEW count \in Nat, NEW x \in Nat, NEW before \in Byte
  PROVE  /\ Mix(b, count, x, before) \in Byte
         /\ Mix(Mix(b, count, x, before), count, x, before) = b
<1> DEFINE kb == KeyByte(count, x)
<1>1. kb \in Byte
  BY KeyBytes
<1> HIDE DEF kb
<1>2. /\ \A p, q \in Byte : ByteXor(p, q) \in Byte /\ ByteXor(p, q) = ByteXor(q, p)
      /\ \A p, q, r \in Byte : ByteXor(ByteXor(p, q), r) = ByteXor(p, ByteXor(q, r))
      /\ \A p, q \in Byte : ByteXor(ByteXor(p, q), q) = p
  BY XorAssumption
<1>3. \A c \in Byte : Mix(c, count, x, before) = ByteXor(ByteXor(c, kb), before)
  BY DEF Mix, kb
<1>4. ByteXor(b, kb) \in Byte /\ ByteXor(ByteXor(b, kb), before) \in Byte
  BY <1>1, <1>2
<1>5. ByteXor(ByteXor(ByteXor(b, kb), before), kb)
        = ByteXor(ByteXor(b, kb), ByteXor(before, kb))
  BY <1>1, <1>2, <1>4
<1>6. ByteXor(before, kb) = ByteXor(kb, before) /\ ByteXor(kb, before) \in Byte
  BY <1>1, <1>2
<1>7. ByteXor(ByteXor(b, kb), ByteXor(kb, before))
        = ByteXor(ByteXor(ByteXor(b, kb), kb), before)
  BY <1>1, <1>2, <1>4
<1>8. ByteXor(ByteXor(b, kb), kb) = b
  BY <1>1, <1>2
<1>9. ByteXor(ByteXor(ByteXor(ByteXor(b, kb), before), kb), before) = ByteXor(ByteXor(b, before), before)
  BY <1>5, <1>6, <1>7, <1>8
<1>10. ByteXor(ByteXor(b, before), before) = b
  BY <1>2
<1> QED
  BY <1>3, <1>4, <1>9, <1>10

LEMMA Counting ==
  ASSUME NEW count \in Nat, NEW size \in Nat
  PROVE  UpdateKey(count, size) \in Nat /\ FirstCounter \in Nat
<1>1. Counters \in Nat \ {0} /\ FirstCounter \in 0 .. Counters - 1
  BY WireAssumption DEF Counters
<1> QED
  BY <1>1 DEF UpdateKey

(***************************************************************************)
(* The tape: packet k begins behind position starts[k], with its header.   *)
(***************************************************************************)
At(k, x) == starts[k] + 2 + x
Chain(k, x) == IF x = 1 THEN 0 ELSE tape[At(k, x - 1)]
Cipher(k, x) == IF k = 1 THEN sent[k][x] ELSE Mix(sent[k][x], counts[k], x - 1, Chain(k, x))
End == starts[Len(sent) + 1]

History ==
  /\ sent \in Seq(Seq(Byte)) /\ starts \in Seq(Nat) /\ counts \in Seq(Nat) /\ tape \in Seq(Byte)
  /\ Len(starts) = Len(sent) + 1 /\ Len(counts) = Len(sent) + 1
  /\ starts[1] = 0 /\ counts[1] = FirstCounter
  /\ \A k \in 1 .. Len(sent) :
       /\ Len(sent[k]) + 2 <= MaxPacketSize
       /\ starts[k + 1] = starts[k] + 2 + Len(sent[k])
       /\ starts[k + 1] <= End
       /\ counts[k + 1] = (IF k = 1 THEN counts[k] ELSE UpdateKey(counts[k], Len(sent[k])))

(* What was written for packet k, as far as the tape still has it.         *)
Written(k) ==
  /\ starts[k] + 1 <= Len(tape) => tape[starts[k] + 1] = ((Len(sent[k]) + 2) % Radix)
  /\ starts[k] + 2 <= Len(tape) => tape[starts[k] + 2] = ((Len(sent[k]) + 2) \div Radix)
  /\ \A x \in 1 .. Len(sent[k]) : At(k, x) <= Len(tape) => tape[At(k, x)] = Cipher(k, x)

(* Behind the last packet there may be a header of less than a header.     *)
Runt ==
  /\ spc # "stopped" => Len(tape) = End
  /\ End + 1 <= Len(tape) => tape[End + 1] \in {0, 1}
  /\ End + 2 <= Len(tape) => tape[End + 2] = 0

Tape == History /\ Runt /\ \A k \in 1 .. Len(sent) : Written(k)

(***************************************************************************)
(* The sender, inside Encrypt.                                             *)
(***************************************************************************)
Sender ==
  /\ spc \in {"idle", "encrypt", "stopped"}
  /\ wbuf \in [0 .. MaxPacketSize - 1 -> Byte]
  /\ spc # "stopped" => outCount = counts[Len(sent) + 1]
  /\ spc = "encrypt" =>
       /\ plain \in Seq(Byte) /\ Len(plain) + 2 <= MaxPacketSize
       /\ i \in Nat /\ i <= Len(plain) /\ (sent = << >> => i = 0)
       /\ prev = (IF i = 0 THEN 0 ELSE wbuf[i + 1])
       /\ \A x \in 1 .. i :
            wbuf[x + 1] = Mix(plain[x], outCount, x - 1, IF x = 1 THEN 0 ELSE wbuf[x])
       /\ \A x \in i + 1 .. Len(plain) : wbuf[x + 1] = plain[x]

(***************************************************************************)
(* The receiver.                                                           *)
(***************************************************************************)
N == Len(received)

Collected(from) == \A x \in 0 .. got - 1 : rbuf[x] = tape[from + 1 + x]

Reading ==
  /\ rpc = "header" => got <= 2 /\ rpos = starts[N + 1] + got /\ Collected(starts[N + 1])
  /\ rpc = "payload" =>
       /\ N < Len(sent) /\ payloadSize = Len(sent[N + 1])
       /\ got <= payloadSize /\ rpos = starts[N + 1] + 2 + got /\ Collected(starts[N + 1] + 2)

Decrypting ==
  rpc = "decrypt" =>
    /\ N < Len(sent) /\ payloadSize = Len(sent[N + 1])
    /\ rpos = starts[N + 1] + 2 + payloadSize
    /\ j \in Nat /\ j <= payloadSize /\ (N = 0 => j = 0)
    /\ rprev = Chain(N + 1, j + 1)
    /\ \A x \in 1 .. j : rbuf[x - 1] = sent[N + 1][x]
    /\ \A x \in j + 1 .. payloadSize : rbuf[x - 1] = tape[At(N + 1, x)]

Receiver ==
  /\ rpc \in {"header", "payload", "decrypt", "failed"}
  /\ rbuf \in [0 .. MaxPacketSize - 1 -> Byte]
  /\ received \in Seq(Seq(Byte)) /\ N <= Len(sent)
  /\ \A k \in 1 .. N : received[k] = sent[k]
  /\ rpos \in Nat /\ rpos <= Len(tape) /\ got \in Nat
  /\ rpc # "failed" => inCount = counts[N + 1]
  /\ Reading /\ Decrypting

WireInv == Tape /\ Sender /\ Receiver

LEMMA WireStarts == WireInit => WireInv
<1> SUFFICES ASSUME WireInit PROVE WireInv
  OBVIOUS
<1>1. wbuf \in [0 .. MaxPacketSize - 1 -> Byte] /\ rbuf \in [0 .. MaxPacketSize - 1 -> Byte]
  BY Sizes DEF WireInit, Zeros
<1>2. FirstCounter \in Nat
  BY Counting
<1>3. Tape
  BY <1>2 DEF WireInit, Tape, History, Runt, Written, End
<1>4. Sender
  BY <1>1, <1>2 DEF WireInit, Sender
<1>5. Receiver
  BY <1>1, <1>2 DEF WireInit, Receiver, Reading, Decrypting, Collected, N
<1> QED
  BY <1>3, <1>4, <1>5 DEF WireInv

(***************************************************************************)
(* What the sender and the stream do leaves alone what is on the tape up   *)
(* to the end of the last packet, and so the receiver.                     *)
(***************************************************************************)
Kept ==
  /\ Len(sent) <= Len(sent') /\ \A k \in 1 .. Len(sent) : sent'[k] = sent[k]
  /\ \A k \in 1 .. Len(sent) + 1 : starts'[k] = starts[k] /\ counts'[k] = counts[k]
  /\ tape' \in Seq(Byte)
  /\ \A p \in 1 .. Len(tape') : p <= End => p <= Len(tape) /\ tape'[p] = tape[p]

LEMMA WrittenKept ==
  ASSUME Tape, Kept, NEW k \in 1 .. Len(sent)
  PROVE  Written(k)'
<1>0. sent \in Seq(Seq(Byte)) /\ starts \in Seq(Nat) /\ Len(starts) = Len(sent) + 1
      /\ tape \in Seq(Byte) /\ tape' \in Seq(Byte)
  BY DEF Tape, History, Kept
<1>1. /\ Len(sent[k]) + 2 <= MaxPacketSize /\ starts[k + 1] = starts[k] + 2 + Len(sent[k])
      /\ starts[k + 1] <= End /\ Written(k)
  BY DEF Tape, History
<1>2. Len(sent[k]) \in Nat /\ starts[k] \in Nat /\ End \in Nat /\ Len(tape) \in Nat /\ Len(tape') \in Nat
  <2>1. Len(sent) \in Nat
    BY <1>0
  <2>2. k \in 1 .. Len(starts) /\ Len(sent) + 1 \in 1 .. Len(starts)
    BY <1>0, <2>1
  <2>3. sent[k] \in Seq(Byte)
    BY <1>0
  <2>4. Len(sent[k]) \in Nat
    BY <2>3
  <2>5. starts[k] \in Nat /\ starts[Len(sent) + 1] \in Nat
    BY <1>0, <2>2
  <2> QED
    BY <1>0, <2>4, <2>5 DEF End
<1>3. starts'[k] = starts[k] /\ counts'[k] = counts[k] /\ sent'[k] = sent[k]
  <2>1. k \in 1 .. Len(sent) + 1
    BY <1>0
  <2> QED
    BY <2>1 DEF Kept
<1>4. ASSUME NEW p \in 1 .. Len(tape'), p <= starts[k] + 2 + Len(sent[k])
      PROVE  p <= Len(tape) /\ tape'[p] = tape[p]
  <2>1. p <= starts[k + 1]
    BY <1>1, <1>4
  <2>2. starts[k + 1] \in Nat /\ starts[k + 1] <= End /\ p \in Nat
    BY <1>1, <1>2
  <2>3. p <= End
    BY <2>1, <2>2, <1>2
  <2> QED
    BY <2>3, <1>4 DEF Kept
<1>5. starts[k] + 1 <= Len(tape') => tape'[starts[k] + 1] = ((Len(sent[k]) + 2) % Radix)
  <2> SUFFICES ASSUME starts[k] + 1 <= Len(tape')
               PROVE  tape'[starts[k] + 1] = ((Len(sent[k]) + 2) % Radix)
    OBVIOUS
  <2>1. starts[k] + 1 <= Len(tape) /\ tape'[starts[k] + 1] = tape[starts[k] + 1]
    BY <1>2, <1>4
  <2> QED
    BY <2>1, <1>1 DEF Written
<1>6. starts[k] + 2 <= Len(tape') => tape'[starts[k] + 2] = ((Len(sent[k]) + 2) \div Radix)
  <2> SUFFICES ASSUME starts[k] + 2 <= Len(tape')
               PROVE  tape'[starts[k] + 2] = ((Len(sent[k]) + 2) \div Radix)
    OBVIOUS
  <2>1. starts[k] + 2 <= Len(tape) /\ tape'[starts[k] + 2] = tape[starts[k] + 2]
    BY <1>2, <1>4
  <2> QED
    BY <2>1, <1>1 DEF Written
<1>7. \A x \in 1 .. Len(sent[k]) :
        starts[k] + 2 + x <= Len(tape') => tape'[starts[k] + 2 + x] = Cipher(k, x)'
  <2> SUFFICES ASSUME NEW x \in 1 .. Len(sent[k]), starts[k] + 2 + x <= Len(tape')
               PROVE  tape'[starts[k] + 2 + x] = Cipher(k, x)'
    OBVIOUS
  <2>1. starts[k] + 2 + x <= Len(tape) /\ tape'[starts[k] + 2 + x] = tape[starts[k] + 2 + x]
    BY <1>2, <1>4
  <2>2. tape[starts[k] + 2 + x] = Cipher(k, x)
    BY <2>1, <1>1 DEF Written, At
  <2>3. Chain(k, x)' = Chain(k, x)
    <3>1. CASE x = 1
      BY <3>1 DEF Chain
    <3>2. CASE x # 1
      <4>1. starts[k] + 2 + (x - 1) \in 1 .. Len(tape') /\ starts[k] + 2 + (x - 1) <= starts[k] + 2 + Len(sent[k])
        BY <3>2, <1>2
      <4>2. tape'[starts[k] + 2 + (x - 1)] = tape[starts[k] + 2 + (x - 1)]
        BY <4>1, <1>4
      <4> QED
        BY <4>2, <1>3 DEF Chain, At
    <3> QED
      BY <3>1, <3>2
  <2>4. Cipher(k, x)' = Cipher(k, x)
    BY <2>3, <1>3 DEF Cipher
  <2> QED
    BY <2>1, <2>2, <2>4
<1> QED
  BY <1>3, <1>5, <1>6, <1>7 DEF Written, At

(* Nor is anything taken back that was read.                               *)
ReadKept == \A p \in 1 .. rpos : p <= Len(tape') /\ tape'[p] = tape[p]

LEMMA ReceiverKept ==
  ASSUME Tape, Receiver, Kept, ReadKept, UNCHANGED receiverVars
  PROVE  Receiver'
<1>1. /\ rpc' = rpc /\ rbuf' = rbuf /\ got' = got /\ payloadSize' = payloadSize /\ j' = j
      /\ rprev' = rprev /\ inCount' = inCount /\ rpos' = rpos /\ received' = received
  BY DEF receiverVars
<1>2. N' = N /\ N \in Nat /\ N <= Len(sent) /\ Len(sent) \in Nat /\ Len(sent') \in Nat
  <2>1. received \in Seq(Seq(Byte)) /\ N <= Len(sent) /\ sent \in Seq(Seq(Byte))
    BY DEF Receiver, Tape, History
  <2> QED
    BY <2>1, <1>1 DEF N, Kept
<1>3. starts'[N + 1] = starts[N + 1] /\ counts'[N + 1] = counts[N + 1]
      /\ (N < Len(sent) => sent'[N + 1] = sent[N + 1])
  <2>1. N + 1 \in 1 .. Len(sent) + 1 /\ (N < Len(sent) => N + 1 \in 1 .. Len(sent))
    BY <1>2
  <2> QED
    BY <2>1 DEF Kept
<1>4. rpos \in Nat /\ got \in Nat /\ starts[N + 1] \in Nat /\ Len(tape') \in Nat
      /\ rpos <= Len(tape')
  <2>1. rpos \in Nat /\ got \in Nat /\ starts \in Seq(Nat) /\ N + 1 \in 1 .. Len(starts)
        /\ tape' \in Seq(Byte)
    BY <1>2 DEF Receiver, Tape, History, Kept
  <2>2. rpos <= Len(tape')
    <3>1. CASE rpos = 0
      BY <2>1, <3>1
    <3>2. CASE rpos # 0
      BY <2>1, <3>2 DEF ReadKept
    <3> QED
      BY <3>1, <3>2
  <2> QED
    BY <2>1, <2>2
<1>5. ASSUME NEW from \in Nat, rpos = from + got, Collected(from)
      PROVE  \A x \in 0 .. got - 1 : rbuf[x] = tape'[from + 1 + x]
  <2> SUFFICES ASSUME NEW x \in 0 .. got - 1 PROVE rbuf[x] = tape'[from + 1 + x]
    OBVIOUS
  <2>1. from + 1 + x \in 1 .. rpos
    BY <1>4, <1>5
  <2> QED
    BY <2>1, <1>5 DEF ReadKept, Collected
<1>6. Reading'
  <2>1. rpc = "header" => got <= 2 /\ rpos = starts[N + 1] + got
           /\ \A x \in 0 .. got - 1 : rbuf[x] = tape'[starts[N + 1] + 1 + x]
    BY <1>4, <1>5 DEF Receiver, Reading
  <2>2. rpc = "payload" =>
           /\ N < Len(sent) /\ payloadSize = Len(sent[N + 1]) /\ got <= payloadSize
           /\ rpos = starts[N + 1] + 2 + got
           /\ \A x \in 0 .. got - 1 : rbuf[x] = tape'[starts[N + 1] + 2 + 1 + x]
    <3>1. starts[N + 1] + 2 \in Nat
      BY <1>4
    <3> QED
      BY <3>1, <1>5 DEF Receiver, Reading
  <2>3. N < Len(sent) => N' < Len(sent')
    BY <1>2 DEF Kept
  <2> QED
    BY <2>1, <2>2, <2>3, <1>1, <1>2, <1>3 DEF Reading, Collected
<1>7. Decrypting'
  <2> SUFFICES ASSUME rpc = "decrypt" PROVE Decrypting'
    BY <1>1 DEF Decrypting
  <2>1. /\ N < Len(sent) /\ payloadSize = Len(sent[N + 1])
        /\ rpos = starts[N + 1] + 2 + payloadSize
        /\ j \in Nat /\ j <= payloadSize /\ (N = 0 => j = 0)
        /\ rprev = Chain(N + 1, j + 1)
        /\ \A x \in 1 .. j : rbuf[x - 1] = sent[N + 1][x]
        /\ \A x \in j + 1 .. payloadSize : rbuf[x - 1] = tape[At(N + 1, x)]
    BY DEF Receiver, Decrypting
  <2>2. payloadSize \in Nat
    <3>1. sent[N + 1] \in Seq(Byte)
      BY <2>1, <1>2 DEF Tape, History
    <3> QED
      BY <3>1, <2>1
  <2>3. ASSUME NEW x \in 1 .. payloadSize PROVE tape'[At(N + 1, x)'] = tape[At(N + 1, x)]
    <3>1. At(N + 1, x) \in 1 .. rpos
      BY <1>4, <2>1, <2>2, <2>3 DEF At
    <3>2. At(N + 1, x)' = At(N + 1, x)
      BY <1>2, <1>3 DEF At
    <3> QED
      BY <3>1, <3>2 DEF ReadKept
  <2>4. Chain(N + 1, j + 1)' = Chain(N + 1, j + 1)
    <3>1. CASE j = 0
      BY <3>1, <1>1 DEF Chain
    <3>2. CASE j # 0
      <4>1. j \in 1 .. payloadSize /\ j + 1 # 1 /\ j + 1 - 1 = j
        BY <3>2, <2>1, <2>2
      <4>2. Chain(N + 1, j + 1) = tape[At(N + 1, j)]
        BY <4>1 DEF Chain
      <4>3. Chain(N + 1, j + 1)' = tape'[At(N + 1, j)']
        BY <4>1, <1>1 DEF Chain
      <4> QED
        BY <4>1, <4>2, <4>3, <2>3, <1>1
    <3> QED
      BY <3>1, <3>2
  <2>5. \A x \in j + 1 .. payloadSize : rbuf[x - 1] = tape'[At(N + 1, x)']
    <3> SUFFICES ASSUME NEW x \in j + 1 .. payloadSize
                 PROVE  rbuf[x - 1] = tape'[At(N + 1, x)']
      OBVIOUS
    <3>1. x \in 1 .. payloadSize
      BY <2>1, <2>2
    <3> QED
      BY <3>1, <2>1, <2>3
  <2>6. N < Len(sent')
    BY <2>1, <1>2 DEF Kept
  <2>7. sent'[N + 1] = sent[N + 1]
    BY <1>3, <2>1
  <2> QED
    BY <1>1, <1>2, <1>3, <2>1, <2>4, <2>5, <2>6, <2>7 DEF Decrypting
<1>8. N <= Len(sent') /\ \A k \in 1 .. N : received[k] = sent'[k]
  BY <1>2 DEF Receiver, Kept
<1> QED
  BY <1>1, <1>2, <1>3, <1>4, <1>6, <1>7, <1>8 DEF Receiver

LEMMA StreamRests ==
  ASSUME Tape, Receiver, UNCHANGED streamVars, spc' # "stopped" => spc # "stopped"
  PROVE  Tape' /\ Kept /\ ReadKept
<1>1. tape' = tape /\ sent' = sent /\ starts' = starts /\ counts' = counts
  BY DEF streamVars
<1>2. Kept
  <2>1. Len(sent) <= Len(sent)
    BY DEF Tape, History
  <2> QED
    BY <1>1, <2>1 DEF Kept, Tape, History
<1>3. ReadKept
  BY <1>1 DEF ReadKept, Receiver, Tape, History
<1>4. Tape'
  <2>1. History'
    BY <1>1 DEF Tape, History, End
  <2>2. Runt'
    BY <1>1 DEF Tape, Runt, End
  <2>3. \A k \in 1 .. Len(sent') : Written(k)'
    BY <1>1, <1>2, WrittenKept
  <2> QED
    BY <2>1, <2>2, <2>3 DEF Tape
<1> QED
  BY <1>2, <1>3, <1>4

LEMMA EncodeStep == WireInv /\ Encode => WireInv'
<1> SUFFICES ASSUME WireInv, Encode PROVE WireInv'
  OBVIOUS
<1>1. PICK p \in Payloads :
        /\ p[1] + 2 <= MaxPacketSize
        /\ \E bytes \in [1 .. p[2] -> Values] :
             wbuf' = [x \in DOMAIN wbuf |->
                        IF x - 2 + 1 \in 1 .. p[2] THEN bytes[x - 2 + 1] ELSE wbuf[x]]
        /\ plain' = [x \in 1 .. p[1] |-> wbuf'[x + 2 - 1]]
  BY DEF Encode, HeaderSize
<1>2. /\ spc = "idle" /\ spc' = "encrypt" /\ i' = 0 /\ prev' = 0 /\ outCount' = outCount
      /\ UNCHANGED streamVars /\ UNCHANGED receiverVars
  BY DEF Encode
<1>3. p[1] \in Nat /\ Values \subseteq Byte
  BY WireAssumption
<1>4. wbuf \in [0 .. MaxPacketSize - 1 -> Byte]
  BY DEF WireInv, Sender
<1>5. wbuf' \in [0 .. MaxPacketSize - 1 -> Byte]
  BY <1>1, <1>3, <1>4
<1>6. plain' \in Seq(Byte) /\ Len(plain') = p[1] /\ \A x \in 1 .. p[1] : plain'[x] = wbuf'[x + 1]
  <2>1. \A x \in 1 .. p[1] : x + 2 - 1 = x + 1 /\ x + 1 \in 0 .. MaxPacketSize - 1
    BY <1>1, <1>3, Sizes
  <2>2. \A x \in 1 .. p[1] : plain'[x] = wbuf'[x + 1] /\ wbuf'[x + 1] \in Byte
    BY <1>1, <1>5, <2>1
  <2>3. PICK n \in Nat : n = p[1]
    BY <1>3
  <2>5. plain' = [x \in 1 .. n |-> wbuf'[x + 2 - 1]] /\ \A x \in 1 .. n : wbuf'[x + 2 - 1] \in Byte
    BY <1>1, <1>5, <2>1, <2>3
  <2>6. plain' \in Seq(Byte)
    BY <2>5
  <2>7. Len(plain') = n
    BY <2>5
  <2>4. plain' \in Seq(Byte) /\ Len(plain') = p[1]
    BY <2>3, <2>6, <2>7
  <2> QED
    BY <2>2, <2>4
<1>7. Tape' /\ Receiver'
  BY <1>2, StreamRests, ReceiverKept DEF WireInv
<1>8. Sender'
  <2>1. outCount' = counts'[Len(sent') + 1]
    BY <1>2 DEF WireInv, Sender, streamVars
  <2>2. 1 .. 0 = {} /\ \A x \in 0 + 1 .. p[1] : wbuf'[x + 1] = plain'[x]
    BY <1>6
  <2> QED
    BY <1>1, <1>2, <1>3, <1>5, <1>6, <2>1, <2>2 DEF Sender
<1> QED
  BY <1>7, <1>8 DEF WireInv

LEMMA EncryptStep == WireInv /\ EncryptByte => WireInv'
<1> SUFFICES ASSUME WireInv, EncryptByte PROVE WireInv'
  OBVIOUS
<1>1. /\ spc = "encrypt" /\ spc' = spc /\ sent # << >> /\ i < Len(plain) /\ i' = i + 1
      /\ prev' = Mix(wbuf[i + 2], outCount, i, prev)
      /\ wbuf' = [wbuf EXCEPT ![i + 2] = prev']
      /\ plain' = plain /\ outCount' = outCount
      /\ UNCHANGED streamVars /\ UNCHANGED receiverVars
  BY DEF EncryptByte, HeaderSize, Keyed
<1>2. /\ wbuf \in [0 .. MaxPacketSize - 1 -> Byte]
      /\ outCount = counts[Len(sent) + 1]
      /\ plain \in Seq(Byte) /\ Len(plain) + 2 <= MaxPacketSize
      /\ i \in Nat
      /\ prev = (IF i = 0 THEN 0 ELSE wbuf[i + 1])
      /\ \A x \in 1 .. i :
           wbuf[x + 1] = Mix(plain[x], outCount, x - 1, IF x = 1 THEN 0 ELSE wbuf[x])
      /\ \A x \in i + 1 .. Len(plain) : wbuf[x + 1] = plain[x]
  BY <1>1 DEF WireInv, Sender
<1>3. Len(plain) \in Nat /\ i + 2 \in 0 .. MaxPacketSize - 1 /\ i + 1 \in 0 .. MaxPacketSize - 1
      /\ i + 1 \in i + 1 .. Len(plain)
  BY <1>1, <1>2, Sizes
<1>4. outCount \in Nat
  <2>1. sent \in Seq(Seq(Byte)) /\ counts \in Seq(Nat) /\ Len(counts) = Len(sent) + 1
    BY DEF WireInv, Tape, History
  <2>2. Len(sent) + 1 \in 1 .. Len(counts)
    BY <2>1
  <2> QED
    BY <2>1, <2>2, <1>2
<1>5. prev \in Byte /\ wbuf[i + 2] \in Byte /\ wbuf[i + 2] = plain[i + 1]
  <2>1. wbuf[i + 1 + 1] = plain[i + 1]
    BY <1>2, <1>3
  <2>2. i + 1 + 1 = i + 2
    BY <1>2
  <2> QED
    BY <2>1, <2>2, <1>2, <1>3, Sizes
<1>6. prev' \in Byte
  BY <1>1, <1>2, <1>4, <1>5, MixTwice
<1>7. /\ wbuf' \in [0 .. MaxPacketSize - 1 -> Byte] /\ wbuf'[i + 2] = prev'
      /\ \A x \in 0 .. MaxPacketSize - 1 : x # i + 2 => wbuf'[x] = wbuf[x]
  BY <1>1, <1>2, <1>3, <1>6
<1>8. ASSUME NEW x \in 1 .. i + 1
      PROVE  wbuf'[x + 1] = Mix(plain[x], outCount, x - 1, IF x = 1 THEN 0 ELSE wbuf'[x])
  <2>1. CASE x = i + 1
    <3>1. wbuf'[i + 1] = wbuf[i + 1]
      BY <1>2, <1>3, <1>7
    <3>2. prev = IF x = 1 THEN 0 ELSE wbuf'[x]
      BY <3>1, <2>1, <1>2
    <3>3. x + 1 = i + 2 /\ x - 1 = i
      BY <2>1, <1>2
    <3> QED
      BY <3>2, <3>3, <2>1, <1>1, <1>5, <1>7
  <2>2. CASE x # i + 1
    <3>1. x \in 1 .. i /\ x \in 0 .. MaxPacketSize - 1 /\ x + 1 \in 0 .. MaxPacketSize - 1
          /\ x # i + 2 /\ x + 1 # i + 2
      BY <2>2, <1>2, <1>3, Sizes
    <3>2. wbuf'[x] = wbuf[x] /\ wbuf'[x + 1] = wbuf[x + 1]
      BY <3>1, <1>7
    <3> QED
      BY <3>1, <3>2, <1>2
  <2> QED
    BY <2>1, <2>2
<1>9. ASSUME NEW x \in i + 1 + 1 .. Len(plain) PROVE wbuf'[x + 1] = plain[x]
  <2>1. x \in i + 1 .. Len(plain) /\ x + 1 \in 0 .. MaxPacketSize - 1 /\ x + 1 # i + 2
    BY <1>2, <1>3, Sizes
  <2> QED
    BY <2>1, <1>2, <1>7
<1>10. Tape' /\ Receiver'
  BY <1>1, StreamRests, ReceiverKept DEF WireInv
<1>11. Sender'
  <2>1. outCount' = counts'[Len(sent') + 1] /\ sent' = sent
    BY <1>1, <1>2 DEF streamVars
  <2>2. i' \in Nat /\ i' <= Len(plain') /\ i' # 0 /\ prev' = wbuf'[i' + 1]
    <3>1. i' + 1 = i + 2
      BY <1>1, <1>2
    <3> QED
      BY <3>1, <1>1, <1>2, <1>3, <1>7
  <2>3. \A x \in 1 .. i' :
          wbuf'[x + 1] = Mix(plain'[x], outCount', x - 1, IF x = 1 THEN 0 ELSE wbuf'[x])
    BY <1>1, <1>8
  <2>4. \A x \in i' + 1 .. Len(plain') : wbuf'[x + 1] = plain'[x]
    BY <1>1, <1>9
  <2> QED
    BY <1>1, <1>2, <1>7, <2>1, <2>2, <2>3, <2>4 DEF Sender
<1> QED
  BY <1>10, <1>11 DEF WireInv

LEMMA StartsTyped ==
  ASSUME History
  PROVE  /\ Len(sent) \in Nat /\ End \in Nat /\ Len(tape) \in Nat
         /\ \A k \in 1 .. Len(sent) + 1 : starts[k] \in Nat /\ counts[k] \in Nat /\ starts[k] <= End
         /\ \A k \in 1 .. Len(sent) : sent[k] \in Seq(Byte) /\ Len(sent[k]) \in Nat
<1>1. /\ sent \in Seq(Seq(Byte)) /\ starts \in Seq(Nat) /\ counts \in Seq(Nat) /\ tape \in Seq(Byte)
      /\ Len(starts) = Len(sent) + 1 /\ Len(counts) = Len(sent) + 1 /\ starts[1] = 0
      /\ \A k \in 1 .. Len(sent) : starts[k + 1] <= End
  BY DEF History
<1>2. Len(sent) \in Nat /\ Len(tape) \in Nat
  BY <1>1
<1>3. \A k \in 1 .. Len(sent) + 1 : starts[k] \in Nat /\ counts[k] \in Nat
  BY <1>1, <1>2
<1>4. End \in Nat
  BY <1>2, <1>3 DEF End
<1>5. ASSUME NEW k \in 1 .. Len(sent) + 1 PROVE starts[k] <= End
  <2>1. CASE k = 1
    BY <2>1, <1>1, <1>4
  <2>2. CASE k # 1
    <3>1. k - 1 \in 1 .. Len(sent) /\ k - 1 + 1 = k
      BY <1>2, <2>2
    <3> QED
      BY <3>1, <1>1
  <2> QED
    BY <2>1, <2>2
<1>6. \A k \in 1 .. Len(sent) : sent[k] \in Seq(Byte)
  BY <1>1
<1>7. \A k \in 1 .. Len(sent) : Len(sent[k]) \in Nat
  BY <1>6
<1> QED
  BY <1>2, <1>3, <1>4, <1>5, <1>6, <1>7

LEMMA SendStep == WireInv /\ Send => WireInv'
<1> SUFFICES ASSUME WireInv, Send PROVE WireInv'
  OBVIOUS
<1>0. PICK n \in Nat : n = Len(sent)
  BY StartsTyped DEF WireInv, Tape
<1>1. /\ plain \in Seq(Byte) /\ Len(plain) + 2 <= MaxPacketSize /\ i \in Nat
      /\ (sent = << >> => i = 0)
      /\ \A x \in 1 .. i :
           wbuf[x + 1] = Mix(plain[x], outCount, x - 1, IF x = 1 THEN 0 ELSE wbuf[x])
      /\ \A x \in i + 1 .. Len(plain) : wbuf[x + 1] = plain[x]
      /\ wbuf \in [0 .. MaxPacketSize - 1 -> Byte] /\ outCount = counts[n + 1]
  BY <1>0 DEF Send, WireInv, Sender
<1>2. PICK z \in Nat : z = Len(plain) + 2
  BY <1>1
<1>3. /\ spc = "encrypt" /\ spc' = "idle" /\ (sent # << >> => i = Len(plain))
      /\ wbuf' = [wbuf EXCEPT ![0] = z % Radix, ![1] = z \div Radix]
      /\ tape' = tape \o [x \in 1 .. z |-> wbuf'[x - 1]]
      /\ starts' = Append(starts, starts[Len(starts)] + z)
      /\ outCount' = Rolled(sent, outCount, Len(plain))
      /\ counts' = Append(counts, outCount')
      /\ sent' = Append(sent, plain)
      /\ UNCHANGED receiverVars
  BY <1>2 DEF Send, HeaderSize, Keyed
<1>4. /\ sent \in Seq(Seq(Byte)) /\ starts \in Seq(Nat) /\ counts \in Seq(Nat) /\ tape \in Seq(Byte)
      /\ Len(starts) = n + 1 /\ Len(counts) = n + 1 /\ Len(tape) = End
      /\ starts[1] = 0 /\ counts[1] = FirstCounter /\ History /\ Tape /\ Receiver
  BY <1>0, <1>3 DEF WireInv, Tape, History, Runt
<1>5. /\ n \in Nat /\ End \in Nat /\ starts[n + 1] = End
      /\ \A k \in 1 .. n + 1 : starts[k] \in Nat /\ counts[k] \in Nat /\ starts[k] <= End
      /\ z >= 2 /\ z <= MaxPacketSize
  BY <1>0, <1>1, <1>2, <1>4, StartsTyped DEF End
<1>6. /\ wbuf' \in [0 .. MaxPacketSize - 1 -> Byte]
      /\ wbuf'[0] = (z % Radix) /\ wbuf'[1] = (z \div Radix)
      /\ \A x \in 2 .. MaxPacketSize - 1 : wbuf'[x] = wbuf[x]
  <2>1. (z % Radix) \in Byte /\ (z \div Radix) \in Byte
    BY <1>5, Header
  <2>2. 0 \in 0 .. MaxPacketSize - 1 /\ 1 \in 0 .. MaxPacketSize - 1
        /\ \A x \in 2 .. MaxPacketSize - 1 : x \in 0 .. MaxPacketSize - 1 /\ x # 0 /\ x # 1
    BY Sizes
  <2> QED
    BY <2>1, <2>2, <1>1, <1>3
<1>7. /\ tape' \in Seq(Byte) /\ Len(tape') = End + z
      /\ \A p \in 1 .. End : tape'[p] = tape[p]
      /\ \A x \in 1 .. z : tape'[End + x] = wbuf'[x - 1]
  <2> DEFINE new == [x \in 1 .. z |-> wbuf'[x - 1]]
  <2>1. \A x \in 1 .. z : x - 1 \in 0 .. MaxPacketSize - 1
    BY <1>5, Sizes
  <2>2. \A x \in 1 .. z : wbuf'[x - 1] \in Byte
    BY <2>1, <1>6
  <2>3. new \in Seq(Byte) /\ Len(new) = z
    BY <2>2
  <2>4. \A x \in 1 .. z : new[x] = wbuf'[x - 1]
    OBVIOUS
  <2> HIDE DEF new
  <2>5. /\ tape \o new \in Seq(Byte) /\ Len(tape \o new) = End + z
        /\ \A p \in 1 .. End + z :
             (tape \o new)[p] = IF p <= End THEN tape[p] ELSE new[p - End]
    BY <2>3, <1>4, ConcatProperties
  <2>6. tape' = tape \o new
    BY <1>3 DEF new
  <2>7. ASSUME NEW p \in 1 .. End PROVE tape'[p] = tape[p]
    <3>1. p \in 1 .. End + z /\ p <= End
      BY <1>5
    <3> QED
      BY <3>1, <2>5, <2>6
  <2>8. ASSUME NEW x \in 1 .. z PROVE tape'[End + x] = wbuf'[x - 1]
    <3>1. PICK p \in 1 .. End + z : p = End + x /\ ~ (p <= End) /\ p - End = x
      BY <1>5
    <3>3. (tape \o new)[p] = new[p - End]
      BY <3>1, <2>5
    <3>2. tape'[End + x] = new[x]
      BY <3>1, <3>3, <2>6
    <3> QED
      BY <3>2, <2>4
  <2> QED
    BY <2>5, <2>6, <2>7, <2>8
<1>8. outCount' \in Nat /\ outCount' = (IF n + 1 = 1 THEN outCount ELSE UpdateKey(outCount, Len(plain)))
  <2>1. outCount \in Nat /\ Len(plain) \in Nat
    BY <1>1, <1>5
  <2>2. sent = << >> <=> n = 0
    BY <1>0, <1>4
  <2>3. sent = << >> <=> n + 1 = 1
    BY <2>2, <1>5
  <2>4. UpdateKey(outCount, Len(plain)) \in Nat
    BY <2>1, Counting
  <2> QED
    BY <2>1, <2>3, <2>4, <1>3 DEF Rolled, Keyed
<1>9. /\ sent' \in Seq(Seq(Byte)) /\ Len(sent') = n + 1 /\ sent'[n + 1] = plain
      /\ \A k \in 1 .. n : sent'[k] = sent[k]
  BY <1>0, <1>1, <1>3, <1>4
<1>10. /\ counts' \in Seq(Nat) /\ Len(counts') = n + 2 /\ counts'[n + 2] = outCount'
       /\ \A k \in 1 .. n + 1 : counts'[k] = counts[k]
  <2>1. PICK c \in Nat : c = outCount'
    BY <1>8
  <2>2. counts' = Append(counts, c)
    BY <2>1, <1>3
  <2>3. counts' \in Seq(Nat) /\ Len(counts') = n + 2
    BY <2>2, <1>4, <1>5
  <2>4. counts'[n + 2] = c /\ \A k \in 1 .. n + 1 : counts'[k] = counts[k]
    BY <2>2, <1>4, <1>5
  <2> QED
    BY <2>1, <2>3, <2>4
<1>11. /\ starts' \in Seq(Nat) /\ Len(starts') = n + 2 /\ starts'[n + 2] = End + z
       /\ \A k \in 1 .. n + 1 : starts'[k] = starts[k]
  <2>1. starts[Len(starts)] + z = End + z /\ End + z \in Nat
    BY <1>4, <1>5
  <2>2. starts' = Append(starts, End + z)
    BY <2>1, <1>3
  <2>3. starts' \in Seq(Nat) /\ Len(starts') = n + 2
    BY <2>1, <2>2, <1>4, <1>5
  <2>4. starts'[n + 2] = End + z /\ \A k \in 1 .. n + 1 : starts'[k] = starts[k]
    BY <2>1, <2>2, <1>4, <1>5
  <2> QED
    BY <2>3, <2>4
<1>12. Kept
  <2>1. \A p \in 1 .. Len(tape') : p <= End => p <= Len(tape) /\ tape'[p] = tape[p]
    BY <1>4, <1>5, <1>7
  <2>2. Len(sent) <= Len(sent')
    BY <1>0, <1>5, <1>9
  <2> QED
    BY <2>1, <2>2, <1>0, <1>7, <1>9, <1>10, <1>11 DEF Kept
<1>13. ReadKept
  BY <1>4, <1>5, <1>7 DEF ReadKept, Receiver
<1>14. Receiver'
  BY <1>3, <1>4, <1>12, <1>13, ReceiverKept
<1>15. End' = End + z
  <2>1. Len(sent') + 1 = n + 2
    BY <1>5, <1>9
  <2> QED
    BY <2>1, <1>11 DEF End
<1>16. History'
  <2>1. ASSUME NEW k \in 1 .. n + 1
        PROVE  /\ Len(sent'[k]) + 2 <= MaxPacketSize
               /\ starts'[k + 1] = starts'[k] + 2 + Len(sent'[k])
               /\ starts'[k + 1] <= End'
               /\ counts'[k + 1] = (IF k = 1 THEN counts'[k] ELSE UpdateKey(counts'[k], Len(sent'[k])))
    <3>1. CASE k = n + 1
      <4>1. k + 1 = n + 2 /\ n + 1 \in 1 .. n + 1
        BY <3>1, <1>5
      <4>2. starts'[k] = End /\ counts'[k] = outCount /\ sent'[k] = plain
        BY <3>1, <4>1, <1>1, <1>5, <1>9, <1>10, <1>11
      <4>3. starts'[k + 1] = End + z /\ counts'[k + 1] = outCount'
        BY <4>1, <1>10, <1>11
      <4>4. End + z = End + 2 + Len(plain) /\ End + z <= End + z
        BY <1>1, <1>2, <1>5
      <4> QED
        BY <3>1, <4>2, <4>3, <4>4, <1>1, <1>8, <1>15
    <3>2. CASE k # n + 1
      <4>1. k \in 1 .. n /\ k \in 1 .. n + 1 /\ k + 1 \in 1 .. n + 1
        BY <3>2, <1>5
      <4>2. starts'[k] = starts[k] /\ starts'[k + 1] = starts[k + 1] /\ sent'[k] = sent[k]
            /\ counts'[k] = counts[k] /\ counts'[k + 1] = counts[k + 1]
        BY <4>1, <1>9, <1>10, <1>11
      <4>3. /\ Len(sent[k]) + 2 <= MaxPacketSize
            /\ starts[k + 1] = starts[k] + 2 + Len(sent[k])
            /\ counts[k + 1] = (IF k = 1 THEN counts[k] ELSE UpdateKey(counts[k], Len(sent[k])))
        BY <4>1, <1>0, <1>4 DEF History
      <4>4. starts[k + 1] <= End + z
        <5>1. starts[k + 1] \in Nat /\ starts[k + 1] <= End
          BY <4>1, <1>5
        <5> QED
          BY <5>1, <1>5
      <4> QED
        BY <4>2, <4>3, <4>4, <1>15
    <3> QED
      BY <3>1, <3>2
  <2>2. 1 \in 1 .. n + 1
    BY <1>5
  <2>3. starts'[1] = 0 /\ counts'[1] = FirstCounter
    BY <2>2, <1>4, <1>10, <1>11
  <2>4. Len(starts') = Len(sent') + 1 /\ Len(counts') = Len(sent') + 1
    BY <1>5, <1>9, <1>10, <1>11
  <2> QED
    BY <2>1, <2>3, <2>4, <1>7, <1>9, <1>10, <1>11 DEF History
<1>17. Runt'
  BY <1>5, <1>7, <1>15 DEF Runt
<1>18. Written(n + 1)'
  <2>1. starts'[n + 1] = End /\ sent'[n + 1] = plain /\ counts'[n + 1] = outCount
    BY <1>1, <1>5, <1>9, <1>10, <1>11
  <2>2. tape'[End + 1] = (z % Radix) /\ tape'[End + 2] = (z \div Radix)
    <3>1. 1 \in 1 .. z /\ 2 \in 1 .. z
      BY <1>5
    <3>2. tape'[End + 1] = wbuf'[1 - 1] /\ tape'[End + 2] = wbuf'[2 - 1]
      BY <3>1, <1>7
    <3> QED
      BY <3>2, <1>6
  <2>3. ASSUME NEW x \in 1 .. Len(plain) PROVE tape'[End + 2 + x] = wbuf[x + 1]
    <3>1. x + 2 \in 1 .. z /\ x + 2 - 1 = x + 1 /\ End + (x + 2) = End + 2 + x
          /\ x + 1 \in 2 .. MaxPacketSize - 1
      BY <1>1, <1>2, <1>5, Sizes
    <3>2. tape'[End + (x + 2)] = wbuf'[x + 2 - 1]
      BY <3>1, <1>7
    <3> QED
      BY <3>1, <3>2, <1>6
  <2>4. ASSUME NEW x \in 1 .. Len(plain)
        PROVE  tape'[End + 2 + x] =
                 IF n + 1 = 1 THEN plain[x]
                 ELSE Mix(plain[x], outCount, x - 1, IF x = 1 THEN 0 ELSE tape'[End + 2 + (x - 1)])
    <3>1. sent = << >> <=> n + 1 = 1
      <4>1. sent = << >> <=> n = 0
        BY <1>0, <1>4
      <4> QED
        BY <4>1, <1>5
    <3>2. CASE sent = << >>
      <4>1. x \in i + 1 .. Len(plain)
        BY <3>2, <1>1
      <4> QED
        BY <4>1, <3>1, <3>2, <2>3, <1>1
    <3>3. CASE sent # << >>
      <4>1. x \in 1 .. i
        BY <3>3, <1>3
      <4>2. wbuf[x + 1] = Mix(plain[x], outCount, x - 1, IF x = 1 THEN 0 ELSE wbuf[x])
        BY <4>1, <1>1
      <4>3. x # 1 => tape'[End + 2 + (x - 1)] = wbuf[x]
        <5> SUFFICES ASSUME x # 1 PROVE tape'[End + 2 + (x - 1)] = wbuf[x]
          OBVIOUS
        <5>1. x - 1 \in 1 .. Len(plain) /\ x - 1 + 1 = x
          BY <1>1
        <5> QED
          BY <5>1, <2>3
      <4> QED
        BY <4>2, <4>3, <3>1, <3>3, <2>3
    <3> QED
      BY <3>2, <3>3
  <2> QED
    BY <2>1, <2>2, <2>4, <1>2 DEF Written, At, Cipher, Chain
<1>19. Tape'
  <2>1. ASSUME NEW k \in 1 .. n + 1 PROVE Written(k)'
    <3>1. CASE k = n + 1
      BY <3>1, <1>18
    <3>2. CASE k # n + 1
      <4>1. k \in 1 .. Len(sent)
        BY <3>2, <1>0, <1>5
      <4> QED
        BY <4>1, <1>4, <1>12, WrittenKept
    <3> QED
      BY <3>1, <3>2
  <2> QED
    BY <2>1, <1>9, <1>16, <1>17 DEF Tape
<1>20. Sender'
  <2>1. outCount' = counts'[Len(sent') + 1]
    <3>1. Len(sent') + 1 = n + 2
      BY <1>5, <1>9
    <3> QED
      BY <3>1, <1>10
  <2> QED
    BY <2>1, <1>3, <1>6 DEF Sender
<1> QED
  BY <1>14, <1>19, <1>20 DEF WireInv

LEMMA RuntStep == WireInv /\ SendRunt => WireInv'
<1> SUFFICES ASSUME WireInv, SendRunt PROVE WireInv'
  OBVIOUS
<1>1. PICK b \in {0, 1} : tape' = tape \o <<b, 0>>
  BY DEF SendRunt
<1>2. /\ spc = "idle" /\ spc' = "stopped" /\ wbuf' = wbuf
      /\ sent' = sent /\ starts' = starts /\ counts' = counts /\ UNCHANGED receiverVars
  BY DEF SendRunt
<1>3. Tape /\ Receiver /\ History /\ Len(tape) = End /\ tape \in Seq(Byte)
  BY <1>2 DEF WireInv, Tape, History, Runt
<1>4. End \in Nat /\ Len(sent) \in Nat
  BY <1>3, StartsTyped
<1>5. /\ tape' \in Seq(Byte) /\ Len(tape') = End + 2
      /\ \A p \in 1 .. End : tape'[p] = tape[p]
      /\ tape'[End + 1] = b /\ tape'[End + 2] = 0
  <2> DEFINE new == <<b, 0>>
  <2>1. new \in Seq(Byte) /\ Len(new) = 2 /\ new[1] = b /\ new[2] = 0
    BY Sizes
  <2> HIDE DEF new
  <2>2. /\ tape \o new \in Seq(Byte) /\ Len(tape \o new) = End + 2
        /\ \A p \in 1 .. End + 2 :
             (tape \o new)[p] = IF p <= End THEN tape[p] ELSE new[p - End]
    <3>1. new \in Seq(Byte) /\ tape \in Seq(Byte)
      BY <2>1, <1>3
    <3>2. /\ tape \o new \in Seq(Byte) /\ Len(tape \o new) = Len(tape) + Len(new)
          /\ \A p \in 1 .. Len(tape) + Len(new) :
               (tape \o new)[p] = IF p <= Len(tape) THEN tape[p] ELSE new[p - Len(tape)]
      BY <3>1, ConcatProperties
    <3> QED
      BY <3>2, <2>1, <1>3
  <2>3. ASSUME NEW p \in 1 .. End PROVE (tape \o new)[p] = tape[p]
    <3>1. p \in 1 .. End + 2 /\ p <= End
      BY <1>4
    <3> QED
      BY <3>1, <2>2
  <2>4. ASSUME NEW x \in 1 .. 2 PROVE (tape \o new)[End + x] = new[x]
    <3>1. PICK p \in 1 .. End + 2 : p = End + x /\ ~ (p <= End) /\ p - End = x
      BY <1>4
    <3>2. (tape \o new)[p] = new[p - End]
      BY <3>1, <2>2
    <3> QED
      BY <3>1, <3>2
  <2>5. tape' = tape \o new
    BY <1>1 DEF new
  <2>6. 1 \in 1 .. 2 /\ 2 \in 1 .. 2
    OBVIOUS
  <2>7. (tape \o new)[End + 1] = b /\ (tape \o new)[End + 2] = 0
    BY <2>1, <2>4, <2>6
  <2> QED
    BY <2>2, <2>3, <2>5, <2>7
<1>6. Kept
  BY <1>2, <1>3, <1>4, <1>5 DEF Kept
<1>7. ReadKept
  BY <1>3, <1>4, <1>5 DEF ReadKept, Receiver
<1>8. Receiver'
  BY <1>2, <1>3, <1>6, <1>7, ReceiverKept
<1>9. End' = End
  BY <1>2 DEF End
<1>10. Tape'
  <2>1. History'
    BY <1>2, <1>3, <1>5, <1>9 DEF History
  <2>2. Runt'
    BY <1>2, <1>5, <1>9 DEF Runt
  <2>3. \A k \in 1 .. Len(sent') : Written(k)'
    BY <1>2, <1>3, <1>6, WrittenKept
  <2> QED
    BY <2>1, <2>2, <2>3 DEF Tape
<1>11. Sender'
  BY <1>2 DEF WireInv, Sender
<1> QED
  BY <1>8, <1>10, <1>11 DEF WireInv

LEMMA BreakStep == WireInv /\ Break => WireInv'
<1> SUFFICES ASSUME WireInv, Break PROVE WireInv'
  OBVIOUS
<1>1. PICK m \in rpos .. Len(tape) : tape' = SubSeq(tape, 1, m)
  BY DEF Break
<1>2. /\ spc' = "stopped" /\ wbuf' = wbuf
      /\ sent' = sent /\ starts' = starts /\ counts' = counts /\ UNCHANGED receiverVars
  BY DEF Break
<1>3. Tape /\ Receiver /\ History /\ Runt /\ tape \in Seq(Byte) /\ rpos \in Nat
  BY DEF WireInv, Tape, History, Receiver
<1>4. End \in Nat /\ Len(sent) \in Nat /\ Len(tape) \in Nat
  BY <1>3, StartsTyped
<1>5. m \in Nat /\ rpos <= m /\ m <= Len(tape)
  BY <1>3, <1>4
<1>6. tape' \in Seq(Byte) /\ Len(tape') = m /\ \A p \in 1 .. m : tape'[p] = tape[p]
  <2>1. \A p \in 1 .. m : p \in 1 .. Len(tape)
    BY <1>4, <1>5
  <2>2. \A p \in 1 .. m : tape[p] \in Byte
    BY <2>1, <1>3
  <2>3. SubSeq(tape, 1, m) \in Seq(Byte) /\ Len(SubSeq(tape, 1, m)) = m
        /\ \A p \in 1 .. m : SubSeq(tape, 1, m)[p] = tape[p]
    <3>1. /\ SubSeq(tape, 1, m) \in Seq(Byte)
          /\ Len(SubSeq(tape, 1, m)) = IF 1 <= m THEN m - 1 + 1 ELSE 0
          /\ \A p \in 1 .. m - 1 + 1 : SubSeq(tape, 1, m)[p] = tape[1 + p - 1]
      BY <1>5, <2>2, SubSeqProperties
    <3>2. m - 1 + 1 = m /\ \A p \in 1 .. m : 1 + p - 1 = p
      BY <1>5
    <3> QED
      BY <3>1, <3>2, <1>5
  <2> QED
    BY <1>1, <2>3
<1>7. Kept
  <2>1. \A p \in 1 .. Len(tape') : p <= End => p <= Len(tape) /\ tape'[p] = tape[p]
    BY <1>4, <1>5, <1>6
  <2> QED
    BY <2>1, <1>2, <1>4, <1>6 DEF Kept
<1>8. ReadKept
  BY <1>3, <1>5, <1>6 DEF ReadKept
<1>9. Receiver'
  BY <1>2, <1>3, <1>7, <1>8, ReceiverKept
<1>10. End' = End
  BY <1>2 DEF End
<1>11. Tape'
  <2>1. History'
    BY <1>2, <1>3, <1>6, <1>10 DEF History
  <2>2. Runt'
    <3>1. End + 1 <= m => tape'[End + 1] = tape[End + 1] /\ End + 1 <= Len(tape)
      BY <1>4, <1>5, <1>6
    <3>2. End + 2 <= m => tape'[End + 2] = tape[End + 2] /\ End + 2 <= Len(tape)
      BY <1>4, <1>5, <1>6
    <3> QED
      BY <3>1, <3>2, <1>2, <1>3, <1>6, <1>10 DEF Runt
  <2>3. \A k \in 1 .. Len(sent') : Written(k)'
    BY <1>2, <1>3, <1>7, WrittenKept
  <2> QED
    BY <2>1, <2>2, <2>3 DEF Tape
<1>12. Sender'
  BY <1>2 DEF WireInv, Sender
<1> QED
  BY <1>9, <1>11, <1>12 DEF WireInv

(***************************************************************************)
(* The receiver's steps leave the tape and the sender alone.               *)
(***************************************************************************)
LEMMA SenderRests ==
  ASSUME WireInv, UNCHANGED senderVars, UNCHANGED streamVars
  PROVE  Tape' /\ Sender'
<1>1. Tape'
  BY StreamRests DEF WireInv, senderVars
<1>2. Sender'
  BY DEF WireInv, Sender, senderVars, streamVars
<1> QED
  BY <1>1, <1>2

LEMMA NTyped ==
  ASSUME Tape, Receiver
  PROVE  /\ N \in Nat /\ Len(sent) \in Nat /\ Len(tape) \in Nat
         /\ starts[N + 1] \in Nat /\ counts[N + 1] \in Nat
         /\ N < Len(sent) => sent[N + 1] \in Seq(Byte) /\ Len(sent[N + 1]) \in Nat
<1>1. received \in Seq(Seq(Byte)) /\ N <= Len(sent) /\ History
  BY DEF Tape, Receiver
<1>2. N \in Nat /\ Len(sent) \in Nat /\ Len(tape) \in Nat
  BY <1>1, StartsTyped DEF N
<1>3. N + 1 \in 1 .. Len(sent) + 1 /\ (N < Len(sent) => N + 1 \in 1 .. Len(sent))
  BY <1>1, <1>2
<1> QED
  BY <1>1, <1>2, <1>3, StartsTyped

LEMMA ReadSomeStep == WireInv /\ ReadSome => WireInv'
<1> SUFFICES ASSUME WireInv, ReadSome PROVE WireInv'
  OBVIOUS
<1>1. /\ rpc \in {"header", "payload"} /\ rpc' = rpc
      /\ payloadSize' = payloadSize /\ inCount' = inCount /\ received' = received
      /\ UNCHANGED senderVars /\ UNCHANGED streamVars
  BY DEF ReadSome, Filling
<1>2. Tape /\ Receiver /\ N' = N
  BY <1>1 DEF WireInv, N
<1>3. Tape' /\ Sender' /\ tape' = tape /\ sent' = sent /\ starts' = starts /\ counts' = counts
  BY <1>1, SenderRests DEF streamVars
<1>4. /\ rpos \in Nat /\ rpos <= Len(tape) /\ got \in Nat
      /\ rbuf \in [0 .. MaxPacketSize - 1 -> Byte] /\ tape \in Seq(Byte)
  BY <1>2 DEF Receiver, Tape, History
<1>5. N \in Nat /\ Len(sent) \in Nat /\ Len(tape) \in Nat /\ starts[N + 1] \in Nat
  BY <1>2, NTyped
<1>6. PICK q \in Nat : q = Quota /\ got <= q
  <2>1. CASE rpc = "header"
    BY <2>1, <1>2 DEF Quota, HeaderSize, Receiver, Reading
  <2>2. CASE rpc = "payload"
    <3>1. payloadSize \in Nat /\ got <= payloadSize
      BY <2>2, <1>2, NTyped DEF Receiver, Reading
    <3> QED
      BY <2>2, <3>1 DEF Quota
  <2> QED
    BY <2>1, <2>2, <1>1
<1>7. PICK k \in 1 .. q - got :
        /\ rpos + k <= Len(tape)
        /\ rbuf' = [x \in DOMAIN rbuf |->
                      IF x \in got .. got + k - 1 THEN tape[rpos + 1 + x - got] ELSE rbuf[x]]
        /\ rpos' = rpos + k /\ got' = got + k
  BY <1>6 DEF ReadSome
<1>8. k \in Nat /\ got + k <= q
  BY <1>4, <1>6, <1>7
<1>9. ASSUME NEW x \in got .. got + k - 1 PROVE tape[rpos + 1 + x - got] \in Byte
  <2>1. rpos + 1 + x - got \in 1 .. Len(tape)
    BY <1>4, <1>5, <1>7, <1>8
  <2> QED
    BY <2>1, <1>4
<1>10. rbuf' \in [0 .. MaxPacketSize - 1 -> Byte]
  BY <1>4, <1>7, <1>9
<1>11. q <= MaxPacketSize
  <2>1. CASE rpc = "header"
    BY <2>1, <1>6, Sizes DEF Quota, HeaderSize
  <2>2. CASE rpc = "payload"
    <3>1. N < Len(sent) /\ payloadSize = Len(sent[N + 1]) /\ Len(sent[N + 1]) \in Nat
      BY <2>2, <1>2, NTyped DEF Receiver, Reading
    <3>2. N + 1 \in 1 .. Len(sent)
      BY <3>1, <1>5
    <3>3. Len(sent[N + 1]) + 2 <= MaxPacketSize
      BY <3>2, <1>2 DEF Tape, History
    <3> QED
      BY <2>2, <3>1, <3>3, <1>6, Sizes DEF Quota
  <2> QED
    BY <2>1, <2>2, <1>1
<1>12. ASSUME NEW from \in Nat, rpos = from + got, Collected(from)
       PROVE  rpos' = from + got' /\ \A x \in 0 .. got' - 1 : rbuf'[x] = tape[from + 1 + x]
  <2>1. rpos' = from + got'
    BY <1>4, <1>7, <1>8, <1>12
  <2>2. ASSUME NEW x \in 0 .. got + k - 1 PROVE rbuf'[x] = tape[from + 1 + x]
    <3>1. x \in 0 .. MaxPacketSize - 1
      BY <1>4, <1>8, <1>11, Sizes
    <3>2. CASE x \in got .. got + k - 1
      <4>1. rbuf'[x] = tape[rpos + 1 + x - got]
        BY <3>1, <3>2, <1>4, <1>7
      <4>2. rpos + 1 + x - got = from + 1 + x
        BY <1>4, <1>12
      <4> QED
        BY <4>1, <4>2
    <3>3. CASE x \notin got .. got + k - 1
      <4>1. rbuf'[x] = rbuf[x]
        BY <3>1, <3>3, <1>4, <1>7
      <4>2. x \in 0 .. got - 1
        BY <3>3, <1>4, <1>8
      <4> QED
        BY <4>1, <4>2, <1>12 DEF Collected
    <3> QED
      BY <3>2, <3>3
  <2>3. got' = got + k
    BY <1>7
  <2>4. ASSUME NEW x \in 0 .. got' - 1 PROVE rbuf'[x] = tape[from + 1 + x]
    <3>1. x \in 0 .. got + k - 1
      BY <2>3, <1>4, <1>8
    <3> QED
      BY <3>1, <2>2
  <2> QED
    BY <2>1, <2>4
<1>13. Reading'
  <2>1. CASE rpc = "header"
    <3>1. q = 2 /\ rpos = starts[N + 1] + got /\ Collected(starts[N + 1])
      BY <2>1, <1>2, <1>6 DEF Receiver, Reading, Quota, HeaderSize
    <3>2. rpos' = starts[N + 1] + got' /\ \A x \in 0 .. got' - 1 : rbuf'[x] = tape[starts[N + 1] + 1 + x]
      BY <3>1, <1>5, <1>12
    <3> QED
      BY <2>1, <3>1, <3>2, <1>1, <1>2, <1>3, <1>7, <1>8 DEF Reading, Collected
  <2>2. CASE rpc = "payload"
    <3>1. /\ q = payloadSize /\ rpos = starts[N + 1] + 2 + got /\ Collected(starts[N + 1] + 2)
          /\ N < Len(sent) /\ payloadSize = Len(sent[N + 1])
      BY <2>2, <1>2, <1>6 DEF Receiver, Reading, Quota
    <3>2. starts[N + 1] + 2 \in Nat
      BY <1>5
    <3>3. rpos' = starts[N + 1] + 2 + got'
          /\ \A x \in 0 .. got' - 1 : rbuf'[x] = tape[starts[N + 1] + 2 + 1 + x]
      BY <3>1, <3>2, <1>12
    <3> QED
      BY <2>2, <3>1, <3>3, <1>1, <1>2, <1>3, <1>7, <1>8 DEF Reading, Collected
  <2> QED
    BY <2>1, <2>2, <1>1
<1>14. Receiver'
  <2>1. rpos' \in Nat /\ rpos' <= Len(tape') /\ got' \in Nat
    BY <1>3, <1>4, <1>7, <1>8
  <2> QED
    BY <2>1, <1>1, <1>2, <1>3, <1>10, <1>13 DEF Receiver, Decrypting
<1> QED
  BY <1>3, <1>14 DEF WireInv

LEMMA ReadHeaderStep == WireInv /\ ReadHeader => WireInv'
<1> SUFFICES ASSUME WireInv, ReadHeader PROVE WireInv'
  OBVIOUS
<1>1. /\ rpc = "header" /\ got = 2
      /\ IF Announced < 2 THEN rpc' = "failed" /\ got' = got
         ELSE rpc' = "payload" /\ payloadSize' = Announced - 2 /\ got' = 0
      /\ rbuf' = rbuf /\ inCount' = inCount /\ rpos' = rpos /\ received' = received
      /\ UNCHANGED senderVars /\ UNCHANGED streamVars
  BY DEF ReadHeader, HeaderSize
<1>2. Tape /\ Receiver /\ N' = N
  BY <1>1 DEF WireInv, N
<1>3. Tape' /\ Sender' /\ tape' = tape /\ sent' = sent /\ starts' = starts /\ counts' = counts
  BY <1>1, SenderRests DEF streamVars
<1>4. /\ rpos \in Nat /\ rpos <= Len(tape) /\ N <= Len(sent)
      /\ rpos = starts[N + 1] + 2 /\ Collected(starts[N + 1])
  BY <1>1, <1>2 DEF Receiver, Reading
<1>5. N \in Nat /\ Len(sent) \in Nat /\ Len(tape) \in Nat /\ starts[N + 1] \in Nat
  BY <1>2, NTyped
<1>6. rbuf[0] = tape[starts[N + 1] + 1] /\ rbuf[1] = tape[starts[N + 1] + 2]
  <2>1. 0 \in 0 .. got - 1 /\ 1 \in 0 .. got - 1
    BY <1>1
  <2>2. rbuf[0] = tape[starts[N + 1] + 1 + 0] /\ rbuf[1] = tape[starts[N + 1] + 1 + 1]
    BY <2>1, <1>4 DEF Collected
  <2> QED
    BY <2>2, <1>5
<1>7. CASE N = Len(sent)
  <2>1. starts[N + 1] = End /\ End + 1 <= Len(tape) /\ End + 2 <= Len(tape)
    BY <1>4, <1>5, <1>7 DEF End
  <2>2. rbuf[0] \in {0, 1} /\ rbuf[1] = 0
    BY <2>1, <1>2, <1>6 DEF Tape, Runt
  <2>3. Announced < 2
    BY <2>2, Sizes DEF Announced
  <2>4. rpc' = "failed" /\ got' \in Nat
    BY <2>3, <1>1
  <2>5. Receiver'
    BY <2>4, <1>1, <1>2, <1>3 DEF Receiver, Reading, Decrypting
  <2> QED
    BY <2>5, <1>3 DEF WireInv
<1>8. CASE N # Len(sent)
  <2>1. N < Len(sent) /\ N + 1 \in 1 .. Len(sent)
    BY <1>4, <1>5, <1>8
  <2>2. PICK z \in Nat : z = Len(sent[N + 1]) + 2 /\ z <= MaxPacketSize
    <3>1. Len(sent[N + 1]) \in Nat
      BY <2>1, <1>2, NTyped
    <3>2. Len(sent[N + 1]) + 2 <= MaxPacketSize
      BY <2>1, <1>2 DEF Tape, History
    <3> QED
      BY <3>1, <3>2
  <2>3. rbuf[0] = (z % Radix) /\ rbuf[1] = (z \div Radix)
    <3>1. Written(N + 1)
      BY <2>1, <1>2 DEF Tape
    <3>2. starts[N + 1] + 1 <= Len(tape) /\ starts[N + 1] + 2 <= Len(tape)
      BY <1>4, <1>5
    <3> QED
      BY <3>1, <3>2, <2>2, <1>6 DEF Written
  <2>4. Announced = z
    BY <2>2, <2>3, Header DEF Announced
  <2>5. rpc' = "payload" /\ payloadSize' = z - 2 /\ got' = 0
    <3>1. ~ (z < 2)
      <4>1. Len(sent[N + 1]) \in Nat
        BY <2>1, <1>2, NTyped
      <4> QED
        BY <4>1, <2>2
    <3> QED
      BY <3>1, <2>4, <1>1
  <2>6. payloadSize' = Len(sent[N + 1]) /\ Len(sent[N + 1]) \in Nat
    <3>1. Len(sent[N + 1]) \in Nat
      BY <2>1, <1>2, NTyped
    <3> QED
      BY <3>1, <2>2, <2>5
  <2>7. Reading'
    <3>1. rpos' = starts'[N + 1] + 2 + got' /\ got' <= payloadSize'
      BY <2>5, <2>6, <1>1, <1>3, <1>4, <1>5
    <3>2. Collected(starts[N + 1] + 2)'
      BY <2>5 DEF Collected
    <3> QED
      BY <3>1, <3>2, <2>1, <2>5, <2>6, <1>2, <1>3 DEF Reading, Collected
  <2>8. Receiver'
    BY <2>5, <2>7, <1>1, <1>2, <1>3 DEF Receiver, Decrypting
  <2> QED
    BY <2>8, <1>3 DEF WireInv
<1> QED
  BY <1>7, <1>8

LEMMA ReadPayloadStep == WireInv /\ ReadPayload => WireInv'
<1> SUFFICES ASSUME WireInv, ReadPayload PROVE WireInv'
  OBVIOUS
<1>1. /\ rpc = "payload" /\ got = payloadSize /\ rpc' = "decrypt" /\ j' = 0 /\ rprev' = 0
      /\ rbuf' = rbuf /\ got' = got /\ payloadSize' = payloadSize
      /\ inCount' = inCount /\ rpos' = rpos /\ received' = received
      /\ UNCHANGED senderVars /\ UNCHANGED streamVars
  BY DEF ReadPayload, Quota
<1>2. Tape /\ Receiver /\ N' = N
  BY <1>1 DEF WireInv, N
<1>3. Tape' /\ Sender' /\ tape' = tape /\ sent' = sent /\ starts' = starts /\ counts' = counts
  BY <1>1, SenderRests DEF streamVars
<1>4. /\ N < Len(sent) /\ payloadSize = Len(sent[N + 1])
      /\ rpos = starts[N + 1] + 2 + payloadSize /\ Collected(starts[N + 1] + 2)
  BY <1>1, <1>2 DEF Receiver, Reading
<1>5. N \in Nat /\ starts[N + 1] \in Nat /\ payloadSize \in Nat
  BY <1>2, <1>4, NTyped
<1>6. ASSUME NEW x \in 0 + 1 .. payloadSize PROVE rbuf[x - 1] = tape[starts[N + 1] + 2 + x]
  <2>1. x - 1 \in 0 .. got - 1
    BY <1>1, <1>5
  <2>2. rbuf[x - 1] = tape[starts[N + 1] + 2 + 1 + (x - 1)]
    BY <2>1, <1>4 DEF Collected
  <2>3. starts[N + 1] + 2 + 1 + (x - 1) = starts[N + 1] + 2 + x
    BY <1>5
  <2> QED
    BY <2>2, <2>3
<1>7. Decrypting'
  <2>1. 1 .. 0 = {} /\ 0 + 1 = 1
    OBVIOUS
  <2> QED
    BY <2>1, <1>1, <1>2, <1>3, <1>4, <1>5, <1>6 DEF Decrypting, Chain, At
<1> QED
  BY <1>1, <1>2, <1>3, <1>7 DEF WireInv, Receiver, Reading

LEMMA DecryptStep == WireInv /\ DecryptByte => WireInv'
<1> SUFFICES ASSUME WireInv, DecryptByte PROVE WireInv'
  OBVIOUS
<1>1. /\ rpc = "decrypt" /\ rpc' = "decrypt" /\ received # << >> /\ j < payloadSize
      /\ rbuf' = [rbuf EXCEPT ![j] = Mix(rbuf[j], inCount, j, rprev)]
      /\ rprev' = rbuf[j] /\ j' = j + 1
      /\ got' = got /\ payloadSize' = payloadSize
      /\ inCount' = inCount /\ rpos' = rpos /\ received' = received
      /\ UNCHANGED senderVars /\ UNCHANGED streamVars
  BY DEF DecryptByte, Keyed
<1>2. Tape /\ Receiver /\ N' = N
  BY <1>1 DEF WireInv, N
<1>3. Tape' /\ Sender' /\ tape' = tape /\ sent' = sent /\ starts' = starts /\ counts' = counts
  BY <1>1, SenderRests DEF streamVars
<1>4. /\ N < Len(sent) /\ payloadSize = Len(sent[N + 1])
      /\ rpos = starts[N + 1] + 2 + payloadSize /\ j \in Nat
      /\ rprev = Chain(N + 1, j + 1)
      /\ \A x \in 1 .. j : rbuf[x - 1] = sent[N + 1][x]
      /\ \A x \in j + 1 .. payloadSize : rbuf[x - 1] = tape[At(N + 1, x)]
  BY <1>1, <1>2 DEF Receiver, Decrypting
<1>5. /\ N \in Nat /\ starts[N + 1] \in Nat /\ payloadSize \in Nat /\ Len(tape) \in Nat
      /\ counts[N + 1] \in Nat /\ sent[N + 1] \in Seq(Byte) /\ Len(sent) \in Nat
  BY <1>2, <1>4, NTyped
<1>6. /\ rbuf \in [0 .. MaxPacketSize - 1 -> Byte] /\ rpos <= Len(tape) /\ rpos \in Nat
      /\ inCount = counts[N + 1] /\ tape \in Seq(Byte)
  BY <1>1, <1>2 DEF Receiver, Tape, History
<1>7. N + 1 \in 1 .. Len(sent) /\ N + 1 # 1
  <2>1. received \in Seq(Seq(Byte))
    BY <1>2 DEF Receiver
  <2>2. N # 0
    BY <2>1, <1>1 DEF N
  <2> QED
    BY <2>2, <1>4, <1>5
<1>8. payloadSize + 2 <= MaxPacketSize /\ Written(N + 1)
  BY <1>2, <1>4, <1>7 DEF Tape, History
<1>9. j \in 0 .. MaxPacketSize - 1 /\ j + 1 \in 1 .. payloadSize /\ j + 1 \in j + 1 .. payloadSize
  BY <1>1, <1>4, <1>5, <1>8, Sizes
<1>10. rbuf[j] = tape[At(N + 1, j + 1)]
  <2>1. rbuf[j + 1 - 1] = tape[At(N + 1, j + 1)]
    BY <1>4, <1>9
  <2>2. j + 1 - 1 = j
    BY <1>4
  <2> QED
    BY <2>1, <2>2
<1>11. At(N + 1, j + 1) <= Len(tape)
  <2>1. starts[N + 1] + 2 + (j + 1) <= rpos
    BY <1>4, <1>5, <1>9
  <2> QED
    BY <2>1, <1>4, <1>5, <1>6 DEF At
<1>12. rbuf[j] = Mix(sent[N + 1][j + 1], inCount, j, rprev)
  <2>1. tape[At(N + 1, j + 1)] = Cipher(N + 1, j + 1)
    BY <1>4, <1>8, <1>9, <1>11 DEF Written
  <2>2. PICK k \in Nat, y \in Nat : k = N + 1 /\ y = j + 1 /\ k # 1 /\ y - 1 = j
    BY <1>4, <1>5, <1>7
  <2>3. Cipher(k, y) = Mix(sent[k][y], counts[k], y - 1, Chain(k, y))
    BY <2>2 DEF Cipher
  <2>4. rbuf[j] = Cipher(k, y) /\ rprev = Chain(k, y) /\ inCount = counts[k]
    BY <2>1, <2>2, <1>4, <1>6, <1>10
  <2>5. rbuf[j] = Mix(sent[k][y], inCount, j, rprev)
    BY <2>2, <2>3, <2>4
  <2> QED
    BY <2>2, <2>5
<1>13. rprev \in Byte
  <2>1. CASE j = 0
    <3>1. j + 1 = 1
      BY <2>1
    <3> QED
      BY <3>1, <1>4, Sizes DEF Chain
  <2>2. CASE j # 0
    <3>1. j + 1 # 1 /\ j + 1 - 1 = j
      BY <2>2, <1>4
    <3>2. rprev = tape[At(N + 1, j)]
      BY <3>1, <1>4 DEF Chain
    <3>4. starts[N + 1] + 2 + j \in Nat /\ starts[N + 1] + 2 + j >= 1 /\ starts[N + 1] + 2 + j <= rpos
      BY <1>4, <1>5, <1>9
    <3>3. At(N + 1, j) \in 1 .. Len(tape)
      BY <3>4, <1>5, <1>6 DEF At
    <3> QED
      BY <3>2, <3>3, <1>6
  <2> QED
    BY <2>1, <2>2
<1>14. sent[N + 1][j + 1] \in Byte
  BY <1>4, <1>5, <1>9
<1>15. Mix(rbuf[j], inCount, j, rprev) = sent[N + 1][j + 1]
  BY <1>4, <1>5, <1>6, <1>12, <1>13, <1>14, MixTwice
<1>16. /\ rbuf' \in [0 .. MaxPacketSize - 1 -> Byte] /\ rbuf'[j] = sent[N + 1][j + 1]
       /\ \A x \in 0 .. MaxPacketSize - 1 : x # j => rbuf'[x] = rbuf[x]
  BY <1>1, <1>6, <1>9, <1>14, <1>15
<1>17. ASSUME NEW x \in 1 .. j + 1 PROVE rbuf'[x - 1] = sent[N + 1][x]
  <2>1. CASE x = j + 1
    <3>1. x - 1 = j
      BY <2>1, <1>4
    <3> QED
      BY <3>1, <2>1, <1>16
  <2>2. CASE x # j + 1
    <3>1. x \in 1 .. j
      BY <2>2, <1>4
    <3>2. x - 1 \in 0 .. MaxPacketSize - 1 /\ x - 1 # j
      BY <3>1, <1>4, <1>9, Sizes
    <3> QED
      BY <3>1, <3>2, <1>4, <1>16
  <2> QED
    BY <2>1, <2>2
<1>18. ASSUME NEW x \in j + 1 + 1 .. payloadSize PROVE rbuf'[x - 1] = tape[At(N + 1, x)]
  <2>1. x \in j + 1 .. payloadSize /\ x - 1 \in 0 .. MaxPacketSize - 1 /\ x - 1 # j
    BY <1>4, <1>5, <1>8, Sizes
  <2> QED
    BY <2>1, <1>4, <1>16
<1>19. rprev' = Chain(N + 1, j + 1 + 1)
  <2>1. j + 1 + 1 # 1 /\ j + 1 + 1 - 1 = j + 1
    BY <1>4
  <2> QED
    BY <2>1, <1>1, <1>10 DEF Chain
<1>20. Decrypting'
  <2>1. j' \in Nat /\ j' <= payloadSize' /\ N # 0
    BY <1>1, <1>4, <1>5, <1>7, <1>9
  <2>2. \A x \in 1 .. j' : rbuf'[x - 1] = sent'[N + 1][x]
    BY <1>1, <1>3, <1>17
  <2>3. \A x \in j' + 1 .. payloadSize' : rbuf'[x - 1] = tape'[At(N + 1, x)']
    BY <1>1, <1>2, <1>3, <1>18 DEF At
  <2>4. rprev' = Chain(N + 1, j + 1)'
    BY <1>1, <1>2, <1>3, <1>19 DEF Chain, At
  <2> QED
    BY <2>1, <2>2, <2>3, <2>4, <1>1, <1>2, <1>3, <1>4 DEF Decrypting
<1> QED
  BY <1>1, <1>2, <1>3, <1>16, <1>20 DEF WireInv, Receiver, Reading

LEMMA DeliverStep ==
  WireInv /\ Deliver =>
    /\ WireInv'
    /\ Len(received) < Len(sent) /\ received' = Append(received, sent[Len(received) + 1])
    /\ sent' = sent
<1> SUFFICES ASSUME WireInv, Deliver
             PROVE  /\ WireInv' /\ N < Len(sent)
                    /\ received' = Append(received, sent[N + 1]) /\ sent' = sent
  BY DEF N
<1>1. /\ rpc = "decrypt" /\ rpc' = "header" /\ (received # << >> => j = payloadSize) /\ got' = 0
      /\ received' = Append(received, [x \in 1 .. payloadSize |-> rbuf[x - 1]])
      /\ inCount' = Rolled(received, inCount, payloadSize)
      /\ rbuf' = rbuf /\ rpos' = rpos
      /\ UNCHANGED senderVars /\ UNCHANGED streamVars
  BY DEF Deliver, Keyed
<1>2. Tape /\ Receiver
  BY DEF WireInv
<1>3. Tape' /\ Sender' /\ tape' = tape /\ sent' = sent /\ starts' = starts /\ counts' = counts
  BY <1>1, SenderRests DEF streamVars
<1>4. /\ N < Len(sent) /\ payloadSize = Len(sent[N + 1])
      /\ rpos = starts[N + 1] + 2 + payloadSize /\ j \in Nat /\ j <= payloadSize /\ (N = 0 => j = 0)
      /\ \A x \in 1 .. j : rbuf[x - 1] = sent[N + 1][x]
      /\ \A x \in j + 1 .. payloadSize : rbuf[x - 1] = tape[At(N + 1, x)]
      /\ inCount = counts[N + 1] /\ received \in Seq(Seq(Byte)) /\ rpos \in Nat /\ rpos <= Len(tape)
  BY <1>1, <1>2 DEF Receiver, Decrypting
<1>5. /\ N \in Nat /\ starts[N + 1] \in Nat /\ payloadSize \in Nat /\ Len(tape) \in Nat
      /\ sent[N + 1] \in Seq(Byte) /\ Len(sent) \in Nat
  BY <1>2, <1>4, NTyped
<1>6. received = << >> <=> N = 0
  BY <1>4 DEF N
<1>7. N + 1 \in 1 .. Len(sent)
  BY <1>4, <1>5
<1>8. /\ Written(N + 1) /\ starts[N + 1 + 1] = starts[N + 1] + 2 + Len(sent[N + 1])
      /\ counts[N + 1 + 1] = (IF N + 1 = 1 THEN counts[N + 1] ELSE UpdateKey(counts[N + 1], Len(sent[N + 1])))
  BY <1>2, <1>7 DEF Tape, History
<1>9. ASSUME NEW x \in 1 .. payloadSize PROVE rbuf[x - 1] = sent[N + 1][x]
  <2>1. CASE N = 0
    <3>1. x \in j + 1 .. payloadSize
      BY <2>1, <1>4
    <3>2. rbuf[x - 1] = tape[At(N + 1, x)]
      BY <3>1, <1>4
    <3>3. At(N + 1, x) <= Len(tape)
      <4>1. starts[N + 1] + 2 + x <= rpos
        BY <1>4, <1>5
      <4> QED
        BY <4>1, <1>4, <1>5 DEF At
    <3>4. tape[At(N + 1, x)] = Cipher(N + 1, x)
      BY <3>3, <1>4, <1>8 DEF Written
    <3>5. N + 1 = 1
      BY <2>1
    <3> QED
      BY <3>2, <3>4, <3>5 DEF Cipher
  <2>2. CASE N # 0
    <3>1. x \in 1 .. j
      BY <2>2, <1>1, <1>6
    <3> QED
      BY <3>1, <1>4
  <2> QED
    BY <2>1, <2>2
<1>10. [x \in 1 .. payloadSize |-> rbuf[x - 1]] = sent[N + 1]
  <2>1. sent[N + 1] = [x \in 1 .. payloadSize |-> sent[N + 1][x]]
    BY <1>4, <1>5
  <2> QED
    BY <2>1, <1>9
<1>11. received' = Append(received, sent[N + 1])
  BY <1>1, <1>10
<1>12. /\ received' \in Seq(Seq(Byte)) /\ N' = N + 1
       /\ \A k \in 1 .. N + 1 : received'[k] = sent[k]
  <2>1. PICK p \in Seq(Byte) : p = sent[N + 1]
    BY <1>5
  <2>2. received' = Append(received, p)
    BY <2>1, <1>11
  <2>3. received' \in Seq(Seq(Byte)) /\ Len(received') = Len(received) + 1
        /\ received'[Len(received) + 1] = p
        /\ \A k \in 1 .. Len(received) : received'[k] = received[k]
    BY <2>2, <1>4
  <2>4. \A k \in 1 .. N : received[k] = sent[k]
    BY <1>2 DEF Receiver
  <2>5. ASSUME NEW k \in 1 .. N + 1 PROVE received'[k] = sent[k]
    <3>1. CASE k = N + 1
      BY <3>1, <2>1, <2>3 DEF N
    <3>2. CASE k # N + 1
      <4>1. k \in 1 .. N
        BY <3>2, <1>5
      <4> QED
        BY <4>1, <2>3, <2>4 DEF N
    <3> QED
      BY <3>1, <3>2
  <2> QED
    BY <2>3, <2>5 DEF N
<1>13. inCount' = counts[N + 1 + 1]
  <2>1. N + 1 = 1 <=> received = << >>
    BY <1>5, <1>6
  <2> QED
    BY <2>1, <1>1, <1>4, <1>8 DEF Rolled, Keyed
<1>14. Reading'
  <2>1. rpos' = starts'[N + 1 + 1] + 0 /\ got' <= 2
    <3>1. starts[N + 1 + 1] = rpos
      BY <1>4, <1>8
    <3> QED
      BY <3>1, <1>1, <1>3, <1>4
  <2>2. 0 .. 0 - 1 = {}
    OBVIOUS
  <2> QED
    BY <2>1, <2>2, <1>1, <1>12 DEF Reading, Collected
<1>15. Receiver'
  <2>1. N' <= Len(sent')
    BY <1>3, <1>4, <1>5, <1>12
  <2>2. rbuf' \in [0 .. MaxPacketSize - 1 -> Byte]
    BY <1>1, <1>2 DEF Receiver
  <2> QED
    BY <2>1, <2>2, <1>1, <1>3, <1>4, <1>12, <1>13, <1>14 DEF Receiver, Decrypting
<1> QED
  BY <1>3, <1>4, <1>11, <1>15 DEF WireInv

LEMMA ReadEndsStep == WireInv /\ ReadEnds => WireInv'
<1> SUFFICES ASSUME WireInv, ReadEnds PROVE WireInv'
  OBVIOUS
<1>1. /\ rpc' = "failed" /\ rbuf' = rbuf /\ got' = got /\ rpos' = rpos /\ received' = received
      /\ UNCHANGED senderVars /\ UNCHANGED streamVars
  BY DEF ReadEnds
<1>2. Tape' /\ Sender' /\ tape' = tape /\ sent' = sent
  BY <1>1, SenderRests DEF streamVars
<1> QED
  BY <1>1, <1>2 DEF WireInv, Receiver, Reading, Decrypting, N

LEMMA WireStep == WireInv /\ [WireNext]_wireVars => WireInv'
<1> SUFFICES ASSUME WireInv, [WireNext]_wireVars PROVE WireInv'
  OBVIOUS
<1>1. CASE UNCHANGED wireVars
  <2>1. UNCHANGED senderVars /\ UNCHANGED streamVars /\ UNCHANGED receiverVars
    BY <1>1 DEF wireVars
  <2>2. Tape' /\ Sender' /\ Kept /\ ReadKept
    BY <2>1, SenderRests, StreamRests DEF WireInv, senderVars
  <2> QED
    BY <2>1, <2>2, ReceiverKept DEF WireInv
<1> QED
  BY <1>1, EncodeStep, EncryptStep, SendStep, RuntStep, BreakStep, ReadSomeStep, ReadHeaderStep,
     ReadPayloadStep, DecryptStep, DeliverStep, ReadEndsStep DEF WireNext, Receive

(* However the stream is cut, and whether or not it breaks, what comes out *)
(* of the Reader and its cipher is what went into the Writer's: every step *)
(* puts a packet in, takes the next one out, or does neither               *)
(* (packet.go, game_crypt.go).                                             *)
THEOREM DeliversPacketsHolds == WireSpec => DeliversPackets
<1>1. WireInit => Pipe!Init
  BY DEF WireInit, Pipe!Init
<1>2. WireInv /\ [WireNext]_wireVars => [Pipe!Next]_<<sent, received>>
  <2> SUFFICES ASSUME WireInv, [WireNext]_wireVars PROVE [Pipe!Next]_<<sent, received>>
    OBVIOUS
  <2>1. CASE Send
    <3>1. sent \in Seq(Seq(Byte)) /\ plain \in Seq(Byte) /\ sent' = Append(sent, plain)
          /\ received' = received
      BY <2>1 DEF Send, WireInv, Tape, History, Sender, receiverVars
    <3>2. Len(sent') = Len(sent) + 1 /\ sent' \in Seq(Seq(Byte)) /\ Len(sent) \in Nat
          /\ \A k \in 1 .. Len(sent) : sent'[k] = sent[k]
      BY <3>1
    <3>3. SubSeq(sent', 1, Len(sent)) = sent
      <4>1. \A k \in 1 .. Len(sent) : sent'[k] \in Seq(Byte)
        BY <3>1, <3>2
      <4>2. PICK n \in Nat : n = Len(sent)
        BY <3>2
      <4>3. /\ SubSeq(sent', 1, n) \in Seq(Seq(Byte))
            /\ Len(SubSeq(sent', 1, n)) = IF 1 <= n THEN n - 1 + 1 ELSE 0
            /\ \A k \in 1 .. n - 1 + 1 : SubSeq(sent', 1, n)[k] = sent'[1 + k - 1]
        BY <4>1, <4>2, SubSeqProperties
      <4>4. n - 1 + 1 = n /\ \A k \in 1 .. n : 1 + k - 1 = k
        OBVIOUS
      <4>5. Len(SubSeq(sent', 1, n)) = n /\ \A k \in 1 .. n : SubSeq(sent', 1, n)[k] = sent[k]
        BY <4>2, <4>3, <4>4, <3>2
      <4> QED
        BY <4>2, <4>3, <4>5, <3>1, SeqEqual
    <3> QED
      BY <3>1, <3>2, <3>3 DEF Pipe!Next, Pipe!Put
  <2>2. CASE Deliver
    BY <2>2, DeliverStep DEF Pipe!Next, Pipe!Get
  <2>3. Encode \/ EncryptByte \/ SendRunt \/ Break \/ ReadSome \/ ReadHeader \/ ReadPayload
          \/ DecryptByte \/ ReadEnds \/ UNCHANGED wireVars
        => UNCHANGED <<sent, received>>
    BY DEF Encode, EncryptByte, SendRunt, Break, ReadSome, ReadHeader, ReadPayload, DecryptByte,
           ReadEnds, wireVars, senderVars, receiverVars, streamVars
  <2> QED
    BY <2>1, <2>2, <2>3 DEF WireNext, Receive
<1> QED
  BY <1>1, <1>2, WireStarts, WireStep, PTL DEF WireSpec, DeliversPackets, Pipe!Spec

=============================================================================
