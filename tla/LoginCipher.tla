---------------------------- MODULE LoginCipher ----------------------------
(***************************************************************************)
(* What lies under the dialogue with the login server: the greeting, which *)
(* a pass of additions and exclusive ors hides, with a scrambled RSA       *)
(* modulus; the block of credentials; and requests with padding and        *)
(* checksum (internal/crypto/server_crypt.go, rsa.go,                      *)
(* internal/net/protocol.go:157-179).  Blowfish and RSA themselves are     *)
(* libraries: what one end encrypts the other decrypts, and the buffer     *)
(* holds anything afterwards.                                              *)
(***************************************************************************)
EXTENDS Integers, Sequences

CONSTANTS
  WordMod,        \* the number of values of a word: 2^32
  WordXor(_, _),
  Greetings,      \* the greeting in words, each a sequence
  PassKeys,       \* what the server starts its pass from
  Octets,         \* the values of a byte of a request
  OctetXor(_, _),
  Half,           \* half the length of the modulus: 64
  Quad,           \* the bytes of the two small steps: 4
  MidLow, MidHigh, SwapAt,  \* where they are: 13, 52 and 77
  Moduli,
  Accounts, Passwords,
  SessionId,      \* in four bytes
  AccountAt, PasswordAt, SessionAt, RSABlock,  \* 94, 108, 124 and 128
  Requests,       \* the payloads sent, each a sequence of bytes
  MaxTotal,       \* bound: the length of a packet
  MaxRequests     \* bound: the number of requests

Word == 0 .. WordMod - 1
Lanes == 0 .. 3

ASSUME LoginAssumption ==
  /\ WordMod \in Nat \ {0} /\ PassKeys \subseteq Word
  /\ \A g \in Greetings : g \in Seq(Word) /\ Len(g) >= 2 /\ Len(g) % 2 = 0
  /\ \A a, b \in Word : WordXor(a, b) \in Word /\ WordXor(WordXor(a, b), b) = a
  /\ 0 \in Octets
  /\ \A a, b \in Octets : OctetXor(a, b) \in Octets /\ OctetXor(a, b) = OctetXor(b, a)
  /\ \A a, b \in Octets : OctetXor(OctetXor(a, b), b) = a
  /\ \A a \in Octets : OctetXor(a, a) = 0 /\ OctetXor(a, 0) = a
  /\ Half \in Nat /\ Quad \in Nat /\ MidLow \in Nat /\ MidHigh \in Nat /\ SwapAt \in Nat
  /\ MidLow + Quad <= MidHigh /\ MidHigh + Quad <= Half
  /\ Half <= SwapAt /\ SwapAt + Quad <= 2 * Half
  /\ Moduli \subseteq [0 .. 2 * Half - 1 -> Octets]
  /\ AccountAt \in Nat /\ PasswordAt \in Nat /\ SessionAt \in Nat /\ RSABlock \in Nat
  /\ AccountAt <= PasswordAt /\ PasswordAt <= SessionAt /\ SessionAt + 4 = RSABlock
  /\ Accounts \subseteq Seq(Octets) /\ Passwords \subseteq Seq(Octets)
  /\ SessionId \in Seq(Octets) /\ Len(SessionId) = 4
  /\ Requests \subseteq Seq(Octets)
  /\ MaxTotal \in Nat /\ MaxRequests \in Nat
  /\ \A r \in Requests : Len(r) + 24 <= MaxTotal

VARIABLES
  lpc,       \* "connect", "scramble", "descramble", "initialized", "checksum"
             \*   or "panicked"
  raw,       \* the words of the greeting, as the buffer holds them
  clear,     \* history: as the server meant them
  ecx, at,   \* the accumulator of the pass and the word it is at
  sums,      \* history: the accumulator after each word
  modulus,   \* history: the server's modulus
  unscrambled, \* what NewRSA makes of it
  creds,     \* the account and the password, once they are encoded
  block,     \* what RSA encrypts
  lbuf,      \* the buffer of the Writer
  payload,   \* history: the request as it was encoded
  total,     \* totalLen of Encrypt
  chk,       \* its checksum, by byte
  updatedKey,
  arrived,   \* the last packet the server got, deciphered
  requests   \* the number of requests

greetingVars == <<raw, clear, ecx, at, sums, modulus, unscrambled>>
requestVars  == <<creds, block, lbuf, payload, total, chk, updatedKey, arrived, requests>>
loginVars    == <<lpc, greetingVars, requestVars>>

NoBlock == [x \in 0 .. RSABlock - 1 |-> 0]

LoginInit ==
  /\ lpc = "connect"
  /\ raw = << >> /\ clear = << >> /\ ecx = 0 /\ at = 0 /\ sums = << >>
  /\ modulus = << >> /\ unscrambled = << >>
  /\ creds = << >> /\ block = NoBlock
  /\ lbuf = [x \in 0 .. MaxTotal - 1 |-> 0] /\ payload = << >>
  /\ total = 0 /\ chk = [l \in Lanes |-> 0] /\ updatedKey = FALSE
  /\ arrived = << >> /\ requests = 0

-----------------------------------------------------------------------------
(***************************************************************************)
(* The modulus.  Each loop of UnscrambleModulus writes bytes it does not   *)
(* read, so that it is one function of the bytes before.                   *)
(***************************************************************************)
XorHigh(m) == [x \in DOMAIN m |-> IF x >= Half THEN OctetXor(m[x], m[x - Half]) ELSE m[x]]
XorLow(m)  == [x \in DOMAIN m |-> IF x < Half THEN OctetXor(m[x], m[x + Half]) ELSE m[x]]

XorMid(m) ==
  [x \in DOMAIN m |->
     IF x \in MidLow .. MidLow + Quad - 1 THEN OctetXor(m[x], m[x - MidLow + MidHigh]) ELSE m[x]]

SwapQuads(m) ==
  [x \in DOMAIN m |->
     IF x \in 0 .. Quad - 1 THEN m[x + SwapAt]
     ELSE IF x \in SwapAt .. SwapAt + Quad - 1 THEN m[x - SwapAt]
     ELSE m[x]]

(* Mutant of UnscrambleModulus: the steps of the server, in its order.     *)
UnscrambleForward(m) == XorHigh(XorLow(XorMid(SwapQuads(m))))

UnscrambleModulus(m) == SwapQuads(XorLow(XorMid(XorHigh(m))))

ScrambleModulus(m) == XorHigh(XorMid(XorLow(SwapQuads(m))))

-----------------------------------------------------------------------------
(***************************************************************************)
(* The greeting: the server's pass goes forward from the second word and   *)
(* leaves the accumulator in the last but one.                             *)
(***************************************************************************)
Words == Len(raw)

ServeInit ==
  /\ lpc = "connect"
  /\ \E g \in Greetings : raw' = g /\ clear' = g
  /\ \E key \in PassKeys : ecx' = key /\ sums' = <<key>>
  /\ \E m \in Moduli : modulus' = m /\ unscrambled' = ScrambleModulus(m)
  /\ at' = 2 /\ lpc' = "scramble"
  /\ UNCHANGED requestVars

ScrambleWord ==
  /\ lpc = "scramble" /\ at < Words - 1
  /\ ecx' = (ecx + raw[at]) % WordMod
  /\ raw' = [raw EXCEPT ![at] = WordXor(@, ecx')]
  /\ sums' = Append(sums, ecx')
  /\ at' = at + 1
  /\ UNCHANGED <<lpc, clear, modulus, unscrambled, requestVars>>

(* The packet arrives: decXorPass starts from the accumulator.  Words are  *)
(* counted from one, so that pos = 4 * (at - 1).  In a greeting of one     *)
(* Blowfish block pos is 0 there, and pos -= 4 wraps.                      *)
BeginPass ==
  /\ lpc = "scramble" /\ at >= Words - 1
  /\ raw' = [raw EXCEPT ![Words - 1] = ecx]
  /\ at' = Words - 2
  /\ lpc' = IF Words = 2 THEN "panicked" ELSE "descramble"
  /\ UNCHANGED <<clear, ecx, sums, modulus, unscrambled, requestVars>>

(* Mutant of DescrambleWord: the accumulator gives back the hidden word.   *)
DescrambleWordLate ==
  /\ lpc = "descramble" /\ at >= 2
  /\ raw' = [raw EXCEPT ![at] = WordXor(@, ecx)]
  /\ ecx' = (ecx - raw[at] + WordMod) % WordMod
  /\ at' = at - 1
  /\ UNCHANGED <<lpc, clear, sums, modulus, unscrambled, requestVars>>

DescrambleWord ==
  /\ lpc = "descramble" /\ at >= 2
  /\ raw' = [raw EXCEPT ![at] = WordXor(@, ecx)]
  /\ ecx' = (ecx - raw'[at] + WordMod) % WordMod
  /\ at' = at - 1
  /\ UNCHANGED <<lpc, clear, sums, modulus, unscrambled, requestVars>>

(* NewRSA takes its copy; the buffer is free for the next packet.          *)
HandleGreeting ==
  /\ lpc = "descramble" /\ at < 2
  /\ unscrambled' = UnscrambleModulus(unscrambled)
  /\ lpc' = "initialized"
  /\ raw' = << >> /\ clear' = << >> /\ ecx' = 0 /\ at' = 0 /\ sums' = << >>
  /\ UNCHANGED <<modulus, requestVars>>

-----------------------------------------------------------------------------
(***************************************************************************)
(* Requests.                                                               *)
(***************************************************************************)

(* copy(block[from:], text): what does not fit is left out.                *)
Copied(b, from, text) ==
  [x \in DOMAIN b |-> IF x - from + 1 \in 1 .. Len(text) THEN text[x - from + 1] ELSE b[x]]

(* Mutant of CredentialBlock: the password first.                          *)
PasswordFirst(account, password) ==
  Copied(Copied(NoBlock, PasswordAt, password), AccountAt, account)

CredentialBlock(account, password) ==
  Copied(Copied(Copied(NoBlock, AccountAt, account), PasswordAt, password),
         SessionAt, SessionId)

(* RSA makes a request of the block, of which nothing is left to see.      *)
EncodeLoginRequest ==
  /\ lpc = "initialized" /\ creds = << >>
  /\ \E a \in Accounts, p \in Passwords : creds' = <<a, p>> /\ block' = CredentialBlock(a, p)
  /\ UNCHANGED <<lpc, greetingVars, lbuf, payload, total, chk, updatedKey, arrived, requests>>

Reserve == IF updatedKey THEN 12 ELSE 16

Padded(n) == n + ((8 - (n % 8)) % 8)

(* Mutant of Cleared: the reserve is left as it was.                       *)
NotCleared(b, from, to) == b

Cleared(b, from, to) == [x \in DOMAIN b |-> IF x \in from .. to - 1 THEN 0 ELSE b[x]]

(* A request is encoded; Encrypt makes room and clears it.  The slice is a *)
(* part of the Writer's buffer, whose capacity is always enough.           *)
BeginEncrypt ==
  /\ lpc = "initialized" /\ requests < MaxRequests
  /\ \E r \in Requests :
       /\ payload' = r
       /\ total' = Padded(Len(r) + Reserve)
       /\ lbuf' = Cleared(Copied(lbuf, 0, r), Len(r), total')
  /\ chk' = [l \in Lanes |-> 0] /\ at' = 0
  /\ requests' = requests + 1 /\ lpc' = "checksum"
  /\ UNCHANGED <<raw, clear, ecx, sums, modulus, unscrambled, creds, block, updatedKey, arrived>>

AddWord ==
  /\ lpc = "checksum" /\ at < total - 4
  /\ chk' = [l \in Lanes |-> OctetXor(chk[l], lbuf[at + l])]
  /\ at' = at + 4
  /\ UNCHANGED <<lpc, raw, clear, ecx, sums, modulus, unscrambled,
                 creds, block, lbuf, payload, total, updatedKey, arrived, requests>>

(* The checksum goes last.  Blowfish leaves its output in the buffer.      *)
EndEncrypt ==
  /\ lpc = "checksum" /\ at >= total - 4
  /\ arrived' = [x \in 1 .. total |->
                   IF x > total - 4 THEN chk[x - 1 - (total - 4)] ELSE lbuf[x - 1]]
  /\ \E v \in Octets : lbuf' = [x \in DOMAIN lbuf |-> IF x < total THEN v ELSE lbuf[x]]
  /\ updatedKey' = TRUE /\ lpc' = "initialized" /\ at' = 0
  /\ UNCHANGED <<raw, clear, ecx, sums, modulus, unscrambled,
                 creds, block, payload, total, chk, requests>>

LoginNext ==
  \/ ServeInit \/ ScrambleWord \/ BeginPass \/ DescrambleWord \/ HandleGreeting
  \/ EncodeLoginRequest \/ BeginEncrypt \/ AddWord \/ EndEncrypt

LoginSpec == LoginInit /\ [][LoginNext]_loginVars

-----------------------------------------------------------------------------
(***************************************************************************)
(* Properties.                                                             *)
(***************************************************************************)

(* decXorPass gives back every word the server hid (server_crypt.go:       *)
(* 109-123), from the last to the second, in place; and it runs out of the *)
(* packet only when that is a single block of Blowfish.                    *)
GreetingRestored ==
  /\ lpc = "descramble" => \A w \in at + 1 .. Words - 2 : raw[w] = clear[w]
  /\ lpc = "panicked" => Words = 2

(* The modulus RSA uses is the server's (rsa.go:41-58): the four loops     *)
(* undo the server's, whose steps overlap in the middle.                   *)
ModulusRestored == lpc \in {"initialized", "checksum"} => unscrambled = modulus

(* What the block has of a text in the field that begins at from and ends  *)
(* before to.                                                              *)
HasField(from, to, text) ==
  \A x \in from .. to - 1 :
    block[x] = IF x - from < Len(text) THEN text[x - from + 1] ELSE 0

(* Credentials that are too long for their fields are cut, and the session *)
(* id stands (protocol.go:157-164); only the password is not safe: an      *)
(* account that is longer than its field shows behind a password that is   *)
(* shorter than what is too much of it.                                    *)
CredentialsInPlace ==
  creds # << >> =>
    /\ HasField(AccountAt, PasswordAt, creds[1])
    /\ HasField(SessionAt, RSABlock, SessionId)
    /\ \/ HasField(PasswordAt, SessionAt, creds[2])
       \/ Len(creds[1]) > PasswordAt - AccountAt + Len(creds[2])

(* The exclusive or of lane l of all words of the packet, word by word,    *)
(* ends at 0.                                                              *)
ZeroInAll(l) ==
  LET words == Len(arrived) \div 4 IN
    \E acc \in [0 .. words -> Octets] :
      /\ acc[0] = 0 /\ acc[words] = 0
      /\ \A k \in 1 .. words : acc[k] = OctetXor(acc[k - 1], arrived[4 * (k - 1) + l + 1])

(* A request arrives as the server wants it (server_crypt.go:37-83): whole *)
(* blocks, the payload in front, zeros behind it although the buffer is    *)
(* full of what was sent before, and a checksum that makes the exclusive   *)
(* or of all words 0.                                                      *)
RequestsWhole ==
  lpc = "initialized" /\ arrived # << >> =>
    /\ Len(arrived) % 8 = 0
    /\ Len(payload) + 8 <= Len(arrived) - 4
    /\ \A x \in 1 .. Len(arrived) - 4 :
         arrived[x] = IF x <= Len(payload) THEN payload[x] ELSE 0
    /\ \A l \in Lanes : ZeroInAll(l)

=============================================================================
