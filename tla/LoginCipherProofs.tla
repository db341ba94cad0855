-------------------------- MODULE LoginCipherProofs --------------------------
(***************************************************************************)
(* What the login dialogue guarantees for greetings and requests of any    *)
(* length, words and bytes of any width, and any credentials.              *)
(***************************************************************************)
EXTENDS LoginCipher, TLAPS

(***************************************************************************)
(* Arithmetic.                                                             *)
(***************************************************************************)
LEMMA SubtractBack ==
  ASSUME NEW M \in Nat \ {0}, NEW a \in 0 .. M - 1, NEW b \in 0 .. M - 1
  PROVE  /\ ((a + b) % M) \in 0 .. M - 1
         /\ ((((a + b) % M) - b + M) % M) = a
<1>1. \A x \in 0 .. M - 1 : (x % M) = x
  OBVIOUS
<1>2. \A x \in M .. 2 * M - 1 : (x % M) = x - M
  OBVIOUS
<1>3. CASE a + b < M
  <2>1. ((a + b) % M) = a + b
    BY <1>1, <1>3
  <2>2. ((a + M) % M) = a
    BY <1>2
  <2> QED
    BY <2>1, <2>2, <1>3
<1>4. CASE a + b >= M
  <2>1. ((a + b) % M) = a + b - M
    BY <1>2, <1>4
  <2>2. (a % M) = a
    BY <1>1
  <2> QED
    BY <2>1, <2>2, <1>4
<1> QED
  BY <1>3, <1>4

LEMMA XorBack == \A a, b \in Word : WordXor(a, b) \in Word /\ WordXor(WordXor(a, b), b) = a
BY LoginAssumption

LEMMA PaddedFits ==
  ASSUME NEW n \in Nat
  PROVE  /\ Padded(n) \in Nat /\ Padded(n) % 8 = 0
         /\ n <= Padded(n) /\ Padded(n) <= n + 7
BY DEF Padded

(***************************************************************************)
(* The greeting.                                                           *)
(***************************************************************************)
OnGreeting == {"scramble", "descramble", "panicked"}
Serving == {"initialized", "checksum"}

GreetingType ==
  /\ lpc \in {"connect"} \cup OnGreeting \cup Serving
  /\ lpc \in OnGreeting =>
       /\ raw \in Seq(Word) /\ clear \in Seq(Word) /\ sums \in Seq(Word)
       /\ Len(raw) = Len(clear) /\ Len(raw) >= 2 /\ Len(raw) % 2 = 0
       /\ ecx \in Word /\ at \in Nat

(* A word of the pass, and what hides it.                                  *)
Summed(w) == sums[w] = ((sums[w - 1] + clear[w]) % WordMod)
Hidden(w) == raw[w] = WordXor(clear[w], sums[w])

Scrambling ==
  lpc = "scramble" =>
    /\ at >= 2 /\ (at = 2 \/ at <= Words - 1)
    /\ Len(sums) = at - 1 /\ ecx = sums[at - 1]
    /\ \A w \in 2 .. at - 1 : Summed(w) /\ Hidden(w)
    /\ \A w \in at .. Words : raw[w] = clear[w]

Descrambling ==
  lpc = "descramble" =>
    /\ at >= 1 /\ at <= Words - 2
    /\ Len(sums) = Words - 2 /\ ecx = sums[at]
    /\ \A w \in 2 .. Words - 2 : Summed(w)
    /\ \A w \in 2 .. at : Hidden(w)
    /\ \A w \in at + 1 .. Words - 2 : raw[w] = clear[w]

GreetingInv ==
  GreetingType /\ Scrambling /\ Descrambling /\ (lpc = "panicked" => Words = 2)

LEMMA GreetingStarts == LoginInit => GreetingInv
BY DEF LoginInit, GreetingInv, GreetingType, Scrambling, Descrambling, OnGreeting, Serving

LEMMA GreetingServed == GreetingInv /\ ServeInit => GreetingInv'
<1> SUFFICES ASSUME ServeInit PROVE GreetingInv'
  OBVIOUS
<1>1. PICK g \in Greetings : raw' = g /\ clear' = g
  BY DEF ServeInit
<1>2. PICK key \in PassKeys : ecx' = key /\ sums' = <<key>>
  BY DEF ServeInit
<1>3. lpc' = "scramble" /\ at' = 2
  BY DEF ServeInit
<1>4. g \in Seq(Word) /\ Len(g) >= 2 /\ Len(g) % 2 = 0 /\ key \in Word
  BY LoginAssumption
<1>5. GreetingType'
  BY <1>1, <1>2, <1>3, <1>4 DEF GreetingType, OnGreeting, Serving
<1>6. Scrambling'
  BY <1>1, <1>2, <1>3, <1>4 DEF Scrambling, Words
<1> QED
  BY <1>3, <1>5, <1>6 DEF GreetingInv, Descrambling

LEMMA GreetingScrambled == GreetingInv /\ ScrambleWord => GreetingInv'
<1> SUFFICES ASSUME GreetingInv, ScrambleWord PROVE GreetingInv'
  OBVIOUS
<1>1. lpc = "scramble" /\ lpc' = "scramble" /\ at < Words - 1 /\ at' = at + 1 /\ clear' = clear
      /\ ecx' = ((ecx + raw[at]) % WordMod) /\ sums' = Append(sums, ecx')
      /\ raw' = [raw EXCEPT ![at] = WordXor(@, ecx')]
  BY DEF ScrambleWord
<1>2. /\ raw \in Seq(Word) /\ clear \in Seq(Word) /\ sums \in Seq(Word)
      /\ Len(raw) = Len(clear) /\ Len(raw) >= 2 /\ Len(raw) % 2 = 0
      /\ ecx \in Word /\ at \in Nat /\ Len(raw) \in Nat
  BY <1>1 DEF GreetingInv, GreetingType, OnGreeting
<1>3. /\ at >= 2 /\ Len(sums) = at - 1 /\ ecx = sums[at - 1]
      /\ \A w \in 2 .. at - 1 : Summed(w) /\ Hidden(w)
      /\ \A w \in at .. Words : raw[w] = clear[w]
  BY <1>1 DEF GreetingInv, Scrambling
<1>4. at \in 1 .. Len(raw) /\ raw[at] \in Word /\ raw[at] = clear[at]
  <2>1. at \in 1 .. Len(raw) /\ at \in at .. Words
    BY <1>1, <1>2, <1>3 DEF Words
  <2> QED
    BY <2>1, <1>2, <1>3
<1>5. ecx' \in Word
  BY <1>1, <1>2, <1>4, SubtractBack, LoginAssumption DEF Word
<1>6. WordXor(raw[at], ecx') \in Word
  BY <1>4, <1>5, LoginAssumption
<1>7. raw' \in Seq(Word) /\ Len(raw') = Len(raw) /\ raw'[at] = WordXor(raw[at], ecx')
      /\ \A w \in 1 .. Len(raw) : w # at => raw'[w] = raw[w]
  BY <1>1, <1>2, <1>4, <1>6
<1>8. /\ sums' \in Seq(Word) /\ Len(sums') = at /\ sums'[at] = ecx'
      /\ \A w \in 1 .. at - 1 : sums'[w] = sums[w]
  BY <1>1, <1>2, <1>3, <1>5
<1>9. GreetingType'
  BY <1>1, <1>2, <1>5, <1>7, <1>8 DEF GreetingType, OnGreeting, Serving
<1>10. \A w \in 2 .. at' - 1 : Summed(w)' /\ Hidden(w)'
  <2> SUFFICES ASSUME NEW w \in 2 .. at PROVE Summed(w)' /\ Hidden(w)'
    BY <1>1, <1>2
  <2>1. CASE w = at
    <3>1. sums'[w - 1] = ecx
      BY <1>2, <1>3, <1>8, <2>1
    <3> QED
      BY <3>1, <2>1, <1>1, <1>4, <1>7, <1>8 DEF Summed, Hidden
  <2>2. CASE w < at
    <3>1. w \in 2 .. at - 1 /\ w - 1 \in 1 .. at - 1 /\ w \in 1 .. Len(raw) /\ w \in 1 .. at - 1
      BY <2>2, <1>2, <1>4
    <3>2. sums'[w - 1] = sums[w - 1] /\ sums'[w] = sums[w] /\ raw'[w] = raw[w]
      BY <3>1, <2>2, <1>7, <1>8
    <3>3. Summed(w) /\ Hidden(w)
      BY <3>1, <1>3
    <3> QED
      BY <3>2, <3>3, <1>1 DEF Summed, Hidden
  <2> QED
    BY <2>1, <2>2, <1>2
<1>11. \A w \in at' .. Words' : raw'[w] = clear'[w]
  <2>1. Words' = Len(raw)
    BY <1>7 DEF Words
  <2> SUFFICES ASSUME NEW w \in at + 1 .. Len(raw) PROVE raw'[w] = clear[w]
    BY <1>1, <2>1
  <2>2. w \in at .. Words /\ w \in 1 .. Len(raw) /\ w # at
    BY <1>2, <1>4 DEF Words
  <2> QED
    BY <2>2, <1>3, <1>7
<1>12. Scrambling'
  <2>1. at' >= 2 /\ at' <= Words' - 1 /\ Len(sums') = at' - 1 /\ ecx' = sums'[at' - 1]
    BY <1>1, <1>2, <1>3, <1>7, <1>8 DEF Words
  <2> QED
    BY <2>1, <1>10, <1>11 DEF Scrambling
<1> QED
  BY <1>1, <1>9, <1>12 DEF GreetingInv, Descrambling

LEMMA GreetingArrives == GreetingInv /\ BeginPass => GreetingInv'
<1> SUFFICES ASSUME GreetingInv, BeginPass PROVE GreetingInv'
  OBVIOUS
<1>1. lpc = "scramble" /\ at >= Words - 1 /\ at' = Words - 2 /\ clear' = clear
      /\ ecx' = ecx /\ sums' = sums /\ raw' = [raw EXCEPT ![Words - 1] = ecx]
      /\ lpc' = (IF Words = 2 THEN "panicked" ELSE "descramble")
  BY DEF BeginPass
<1>2. /\ raw \in Seq(Word) /\ clear \in Seq(Word) /\ sums \in Seq(Word)
      /\ Len(raw) = Len(clear) /\ Len(raw) >= 2 /\ Len(raw) % 2 = 0
      /\ ecx \in Word /\ at \in Nat /\ Len(raw) \in Nat
  BY <1>1 DEF GreetingInv, GreetingType, OnGreeting
<1>3. /\ at >= 2 /\ (at = 2 \/ at <= Words - 1) /\ Len(sums) = at - 1 /\ ecx = sums[at - 1]
      /\ \A w \in 2 .. at - 1 : Summed(w) /\ Hidden(w)
  BY <1>1 DEF GreetingInv, Scrambling
<1>4. raw' \in Seq(Word) /\ Len(raw') = Len(raw)
      /\ \A w \in 1 .. Len(raw) : w # Len(raw) - 1 => raw'[w] = raw[w]
  BY <1>1, <1>2 DEF Words
<1>5. GreetingType'
  BY <1>1, <1>2, <1>4 DEF GreetingType, OnGreeting, Serving, Words
<1>6. Words' = Words /\ Words = Len(raw)
  BY <1>4 DEF Words
<1>7. CASE Words = 2
  BY <1>1, <1>5, <1>6, <1>7 DEF GreetingInv, Scrambling, Descrambling
<1>8. CASE Words # 2
  <2>1. Words >= 4 /\ at = Words - 1
    BY <1>1, <1>2, <1>3, <1>8 DEF Words
  <2>2. \A w \in 2 .. Words - 2 : Summed(w)' /\ Hidden(w)'
    <3> SUFFICES ASSUME NEW w \in 2 .. Words - 2 PROVE Summed(w)' /\ Hidden(w)'
      OBVIOUS
    <3>1. w \in 2 .. at - 1 /\ w \in 1 .. Len(raw) /\ w # Len(raw) - 1
      BY <1>2, <2>1 DEF Words
    <3> QED
      BY <3>1, <1>1, <1>3, <1>4 DEF Summed, Hidden
  <2>3. at' >= 1 /\ at' = Words' - 2 /\ Len(sums') = Words' - 2 /\ ecx' = sums'[at']
    BY <1>1, <1>2, <1>3, <1>6, <2>1
  <2>4. at' + 1 .. Words' - 2 = {}
    BY <2>3, <1>2, <1>6
  <2>5. Descrambling'
    BY <2>2, <2>3, <2>4, <1>2, <1>6 DEF Descrambling
  <2> QED
    BY <2>5, <1>1, <1>5, <1>8 DEF GreetingInv, Scrambling
<1> QED
  BY <1>7, <1>8

LEMMA GreetingDescrambled == GreetingInv /\ DescrambleWord => GreetingInv'
<1> SUFFICES ASSUME GreetingInv, DescrambleWord PROVE GreetingInv'
  OBVIOUS
<1>1. lpc = "descramble" /\ lpc' = "descramble" /\ at >= 2 /\ at' = at - 1 /\ clear' = clear
      /\ ecx' = ((ecx - raw'[at] + WordMod) % WordMod) /\ sums' = sums
      /\ raw' = [raw EXCEPT ![at] = WordXor(@, ecx)]
  BY DEF DescrambleWord
<1>2. /\ raw \in Seq(Word) /\ clear \in Seq(Word) /\ sums \in Seq(Word)
      /\ Len(raw) = Len(clear) /\ Len(raw) >= 2 /\ Len(raw) % 2 = 0
      /\ ecx \in Word /\ at \in Nat /\ Len(raw) \in Nat
  BY <1>1 DEF GreetingInv, GreetingType, OnGreeting
<1>3. /\ at <= Words - 2 /\ Len(sums) = Words - 2 /\ ecx = sums[at]
      /\ \A w \in 2 .. Words - 2 : Summed(w)
      /\ \A w \in 2 .. at : Hidden(w)
      /\ \A w \in at + 1 .. Words - 2 : raw[w] = clear[w]
  BY <1>1 DEF GreetingInv, Descrambling
<1>4. at \in 1 .. Len(raw) /\ at \in 2 .. at /\ at \in 2 .. Words - 2 /\ at - 1 \in 1 .. Len(sums)
      /\ at \in 1 .. Len(clear)
  BY <1>1, <1>2, <1>3 DEF Words
<1>5. clear[at] \in Word /\ sums[at - 1] \in Word
  BY <1>2, <1>4
<1>6. raw[at] = WordXor(clear[at], ecx) /\ ecx = ((sums[at - 1] + clear[at]) % WordMod)
  BY <1>3, <1>4 DEF Hidden, Summed
<1>7. WordXor(raw[at], ecx) = clear[at]
  <2>1. raw[at] = WordXor(clear[at], ecx)
    BY <1>6
  <2>2. clear[at] \in Word /\ ecx \in Word
    BY <1>2, <1>5
  <2>3. WordXor(WordXor(clear[at], ecx), ecx) = clear[at]
    BY <2>2, XorBack
  <2> QED
    BY <2>1, <2>3, Zenon
<1>8. raw' \in Seq(Word) /\ Len(raw') = Len(raw) /\ raw'[at] = clear[at]
      /\ \A w \in 1 .. Len(raw) : w # at => raw'[w] = raw[w]
  BY <1>1, <1>2, <1>4, <1>5, <1>7
<1>9. ecx' = sums[at - 1]
  <2>1. WordMod \in Nat \ {0} /\ sums[at - 1] \in 0 .. WordMod - 1 /\ clear[at] \in 0 .. WordMod - 1
    BY <1>5, LoginAssumption DEF Word
  <2>2. ((((sums[at - 1] + clear[at]) % WordMod) - clear[at] + WordMod) % WordMod) = sums[at - 1]
    BY <2>1, SubtractBack
  <2> QED
    BY <2>2, <1>1, <1>6, <1>8
<1>10. Words' = Words /\ Words = Len(raw)
  BY <1>8 DEF Words
<1>11. GreetingType'
  BY <1>1, <1>2, <1>5, <1>8, <1>9 DEF GreetingType, OnGreeting, Serving
<1>12. \A w \in 2 .. at - 1 : Hidden(w)'
  <2> SUFFICES ASSUME NEW w \in 2 .. at - 1 PROVE Hidden(w)'
    OBVIOUS
  <2>1. w \in 2 .. at /\ w \in 1 .. Len(raw) /\ w # at
    BY <1>2, <1>4
  <2> QED
    BY <2>1, <1>1, <1>3, <1>8 DEF Hidden
<1>13. \A w \in at .. Words - 2 : raw'[w] = clear[w]
  <2> SUFFICES ASSUME NEW w \in at .. Words - 2 PROVE raw'[w] = clear[w]
    OBVIOUS
  <2>1. CASE w = at
    BY <2>1, <1>8
  <2>2. CASE w # at
    <3>1. w \in at + 1 .. Words - 2 /\ w \in 1 .. Len(raw)
      BY <2>2, <1>2, <1>4 DEF Words
    <3> QED
      BY <3>1, <2>2, <1>3, <1>8
  <2> QED
    BY <2>1, <2>2
<1>14. \A w \in 2 .. Words - 2 : Summed(w)'
  BY <1>1, <1>3 DEF Summed
<1>15. Descrambling'
  <2>1. at' >= 1 /\ at' <= Words' - 2 /\ Len(sums') = Words' - 2 /\ ecx' = sums'[at']
    BY <1>1, <1>2, <1>3, <1>9, <1>10
  <2>2. at' + 1 = at
    BY <1>1, <1>2
  <2> QED
    BY <2>1, <2>2, <1>1, <1>10, <1>12, <1>13, <1>14 DEF Descrambling
<1> QED
  BY <1>1, <1>11, <1>15 DEF GreetingInv, Scrambling

LEMMA GreetingStep == GreetingInv /\ [LoginNext]_loginVars => GreetingInv'
<1> SUFFICES ASSUME GreetingInv, [LoginNext]_loginVars PROVE GreetingInv'
  OBVIOUS
<1>1. CASE lpc \in {"initialized", "checksum"} /\ lpc' \in {"initialized", "checksum"}
  BY <1>1 DEF GreetingInv, GreetingType, Scrambling, Descrambling, OnGreeting, Serving
<1>2. CASE HandleGreeting
  BY <1>2 DEF HandleGreeting, GreetingInv, GreetingType, Scrambling, Descrambling, OnGreeting, Serving
<1>3. EncodeLoginRequest \/ BeginEncrypt \/ AddWord \/ EndEncrypt =>
        lpc \in {"initialized", "checksum"} /\ lpc' \in {"initialized", "checksum"}
  BY DEF EncodeLoginRequest, BeginEncrypt, AddWord, EndEncrypt
<1>4. CASE UNCHANGED loginVars
  BY <1>4 DEF loginVars, greetingVars, requestVars, GreetingInv, GreetingType, Scrambling,
              Descrambling, OnGreeting, Serving, Words, Summed, Hidden
<1> QED
  BY <1>1, <1>2, <1>3, <1>4, GreetingServed, GreetingScrambled, GreetingArrives,
     GreetingDescrambled DEF LoginNext

(* Whatever the greeting and the key it was hidden with, the pass gives    *)
(* back every word, and runs out of a greeting of one block only           *)
(* (server_crypt.go:99-123).                                               *)
THEOREM GreetingRestoredHolds == LoginSpec => []GreetingRestored
<1>1. GreetingInv => GreetingRestored
  BY DEF GreetingInv, Descrambling, GreetingRestored
<1> QED
  BY <1>1, GreetingStarts, GreetingStep, PTL DEF LoginSpec

(***************************************************************************)
(* The modulus: each step of the program undoes one of the server.         *)
(***************************************************************************)
Modulus == [0 .. 2 * Half - 1 -> Octets]

LEMMA OctetFacts ==
  /\ 0 \in Octets
  /\ \A a, b \in Octets : OctetXor(a, b) \in Octets /\ OctetXor(OctetXor(a, b), b) = a
  /\ \A a \in Octets : OctetXor(a, a) = 0 /\ OctetXor(a, 0) = a
BY LoginAssumption

LEMMA PlaceFacts ==
  /\ Half \in Nat /\ Quad \in Nat /\ MidLow \in Nat /\ MidHigh \in Nat /\ SwapAt \in Nat
  /\ MidLow + Quad <= MidHigh /\ MidHigh + Quad <= Half
  /\ Half <= SwapAt /\ SwapAt + Quad <= 2 * Half
BY LoginAssumption

LEMMA SameBytes ==
  ASSUME NEW m \in Modulus, NEW n \in Modulus,
         \A x \in 0 .. 2 * Half - 1 : n[x] = m[x]
  PROVE  n = m
<1> DEFINE D == 0 .. 2 * Half - 1
<1>1. m = [x \in D |-> m[x]] /\ n = [x \in D |-> n[x]]
  BY DEF Modulus
<1>2. \A x \in D : n[x] = m[x]
  OBVIOUS
<1> HIDE DEF D
<1> QED
  BY <1>1, <1>2, Zenon

LEMMA XorHighTwice ==
  ASSUME NEW m \in Modulus
  PROVE  XorHigh(m) \in Modulus /\ XorHigh(XorHigh(m)) = m
<1> DEFINE n == XorHigh(m)
<1>1. \A x \in 0 .. 2 * Half - 1 : m[x] \in Octets /\ (x >= Half => x - Half \in 0 .. 2 * Half - 1 /\ x - Half < Half)
  BY PlaceFacts DEF Modulus
<1>2. DOMAIN m = 0 .. 2 * Half - 1
  BY DEF Modulus
<1>3. n = [x \in 0 .. 2 * Half - 1 |-> IF x >= Half THEN OctetXor(m[x], m[x - Half]) ELSE m[x]]
  BY <1>2 DEF XorHigh
<1>4. n \in Modulus
  BY <1>1, <1>3, OctetFacts DEF Modulus
<1>5. XorHigh(n) = [x \in 0 .. 2 * Half - 1 |-> IF x >= Half THEN OctetXor(n[x], n[x - Half]) ELSE n[x]]
  BY <1>3 DEF XorHigh
<1>6. \A x \in 0 .. 2 * Half - 1 : XorHigh(n)[x] = m[x]
  <2> SUFFICES ASSUME NEW x \in 0 .. 2 * Half - 1 PROVE XorHigh(n)[x] = m[x]
    OBVIOUS
  <2>1. CASE x >= Half
    <3>1. XorHigh(n)[x] = OctetXor(n[x], n[x - Half])
      BY <1>5, <2>1
    <3>a. x - Half \in 0 .. 2 * Half - 1 /\ ~ (x - Half >= Half)
      BY <1>1, <2>1, PlaceFacts
    <3>b. n[x] = OctetXor(m[x], m[x - Half])
      BY <1>3, <2>1
    <3>c. n[x - Half] = m[x - Half]
      BY <1>3, <3>a
    <3>2. n[x] = OctetXor(m[x], m[x - Half]) /\ n[x - Half] = m[x - Half]
      BY <3>b, <3>c
    <3>3. OctetXor(OctetXor(m[x], m[x - Half]), m[x - Half]) = m[x]
      BY <1>1, <2>1, OctetFacts
    <3> QED
      BY <3>1, <3>2, <3>3
  <2>2. CASE ~ (x >= Half)
    BY <1>3, <1>5, <2>2
  <2> QED
    BY <2>1, <2>2
<1>7. XorHigh(n) \in Modulus
  BY <1>1, <1>5, <1>6 DEF Modulus
<1> HIDE DEF n
<1>8. XorHigh(n) = m
  BY <1>6, <1>7, SameBytes
<1> QED
  BY <1>4, <1>8 DEF n

LEMMA XorLowTwice ==
  ASSUME NEW m \in Modulus
  PROVE  XorLow(m) \in Modulus /\ XorLow(XorLow(m)) = m
<1> DEFINE n == XorLow(m)
<1>1. \A x \in 0 .. 2 * Half - 1 : m[x] \in Octets /\ (x < Half => x + Half \in 0 .. 2 * Half - 1 /\ ~ (x + Half < Half))
  BY PlaceFacts DEF Modulus
<1>2. DOMAIN m = 0 .. 2 * Half - 1
  BY DEF Modulus
<1>3. n = [x \in 0 .. 2 * Half - 1 |-> IF x < Half THEN OctetXor(m[x], m[x + Half]) ELSE m[x]]
  BY <1>2 DEF XorLow
<1>4. n \in Modulus
  BY <1>1, <1>3, OctetFacts DEF Modulus
<1>5. XorLow(n) = [x \in 0 .. 2 * Half - 1 |-> IF x < Half THEN OctetXor(n[x], n[x + Half]) ELSE n[x]]
  BY <1>3 DEF XorLow
<1>6. \A x \in 0 .. 2 * Half - 1 : XorLow(n)[x] = m[x]
  <2> SUFFICES ASSUME NEW x \in 0 .. 2 * Half - 1 PROVE XorLow(n)[x] = m[x]
    OBVIOUS
  <2>1. CASE x < Half
    <3>1. XorLow(n)[x] = OctetXor(n[x], n[x + Half])
      BY <1>5, <2>1
    <3>2. n[x] = OctetXor(m[x], m[x + Half]) /\ n[x + Half] = m[x + Half]
      BY <1>1, <1>3, <2>1
    <3>3. OctetXor(OctetXor(m[x], m[x + Half]), m[x + Half]) = m[x]
      BY <1>1, <2>1, OctetFacts
    <3> QED
      BY <3>1, <3>2, <3>3
  <2>2. CASE ~ (x < Half)
    BY <1>3, <1>5, <2>2
  <2> QED
    BY <2>1, <2>2
<1>7. XorLow(n) \in Modulus
  BY <1>1, <1>5, <1>6 DEF Modulus
<1> HIDE DEF n
<1>8. XorLow(n) = m
  BY <1>6, <1>7, SameBytes
<1> QED
  BY <1>4, <1>8 DEF n

LEMMA XorMidTwice ==
  ASSUME NEW m \in Modulus
  PROVE  XorMid(m) \in Modulus /\ XorMid(XorMid(m)) = m
<1> DEFINE n == XorMid(m)
           mid == MidLow .. MidLow + Quad - 1
<1>1. \A x \in 0 .. 2 * Half - 1 :
        m[x] \in Octets
        /\ (x \in mid => x - MidLow + MidHigh \in 0 .. 2 * Half - 1 /\ x - MidLow + MidHigh \notin mid)
  BY PlaceFacts DEF Modulus
<1>2. DOMAIN m = 0 .. 2 * Half - 1
  BY DEF Modulus
<1>3. n = [x \in 0 .. 2 * Half - 1 |->
             IF x \in mid THEN OctetXor(m[x], m[x - MidLow + MidHigh]) ELSE m[x]]
  BY <1>2 DEF XorMid
<1>4. n \in Modulus
  BY <1>1, <1>3, OctetFacts DEF Modulus
<1>5. XorMid(n) = [x \in 0 .. 2 * Half - 1 |->
                     IF x \in mid THEN OctetXor(n[x], n[x - MidLow + MidHigh]) ELSE n[x]]
  BY <1>3 DEF XorMid
<1>6. \A x \in 0 .. 2 * Half - 1 : XorMid(n)[x] = m[x]
  <2> SUFFICES ASSUME NEW x \in 0 .. 2 * Half - 1 PROVE XorMid(n)[x] = m[x]
    OBVIOUS
  <2>1. CASE x \in mid
    <3>1. XorMid(n)[x] = OctetXor(n[x], n[x - MidLow + MidHigh])
      BY <1>5, <2>1
    <3>2. n[x] = OctetXor(m[x], m[x - MidLow + MidHigh])
          /\ n[x - MidLow + MidHigh] = m[x - MidLow + MidHigh]
      BY <1>1, <1>3, <2>1
    <3>3. OctetXor(OctetXor(m[x], m[x - MidLow + MidHigh]), m[x - MidLow + MidHigh]) = m[x]
      BY <1>1, <2>1, OctetFacts
    <3> QED
      BY <3>1, <3>2, <3>3
  <2>2. CASE x \notin mid
    BY <1>3, <1>5, <2>2
  <2> QED
    BY <2>1, <2>2
<1>7. XorMid(n) \in Modulus
  BY <1>1, <1>5, <1>6 DEF Modulus
<1> HIDE DEF n
<1>8. XorMid(n) = m
  BY <1>6, <1>7, SameBytes
<1> QED
  BY <1>4, <1>8 DEF n

LEMMA SwapTwice ==
  ASSUME NEW m \in Modulus
  PROVE  SwapQuads(m) \in Modulus /\ SwapQuads(SwapQuads(m)) = m
<1> DEFINE n == SwapQuads(m)
           low == 0 .. Quad - 1
           high == SwapAt .. SwapAt + Quad - 1
<1>1. \A x \in 0 .. 2 * Half - 1 :
        /\ m[x] \in Octets
        /\ x \in low => x + SwapAt \in 0 .. 2 * Half - 1 /\ x + SwapAt \in high /\ x + SwapAt \notin low
                        /\ x + SwapAt - SwapAt = x
        /\ x \in high => x - SwapAt \in 0 .. 2 * Half - 1 /\ x - SwapAt \in low /\ x \notin low
                        /\ x - SwapAt + SwapAt = x
  BY PlaceFacts DEF Modulus
<1>2. DOMAIN m = 0 .. 2 * Half - 1
  BY DEF Modulus
<1>3. n = [x \in 0 .. 2 * Half - 1 |->
             IF x \in low THEN m[x + SwapAt] ELSE IF x \in high THEN m[x - SwapAt] ELSE m[x]]
  BY <1>2 DEF SwapQuads
<1>4. n \in Modulus
  BY <1>1, <1>3 DEF Modulus
<1>5. SwapQuads(n) = [x \in 0 .. 2 * Half - 1 |->
             IF x \in low THEN n[x + SwapAt] ELSE IF x \in high THEN n[x - SwapAt] ELSE n[x]]
  BY <1>3 DEF SwapQuads
<1>6. \A x \in 0 .. 2 * Half - 1 : SwapQuads(n)[x] = m[x]
  <2> SUFFICES ASSUME NEW x \in 0 .. 2 * Half - 1 PROVE SwapQuads(n)[x] = m[x]
    OBVIOUS
  <2>1. CASE x \in low
    <3>1. SwapQuads(n)[x] = n[x + SwapAt]
      BY <1>5, <2>1
    <3>a. x + SwapAt \in 0 .. 2 * Half - 1 /\ x + SwapAt \in high /\ x + SwapAt \notin low
      BY <1>1, <2>1
    <3> DEFINE y == x + SwapAt
    <3> HIDE DEF n, low, high, y
    <3>b. y \in 0 .. 2 * Half - 1 /\ y \in high /\ y \notin low
      BY <3>a DEF y
    <3>c. n[y] = m[y - SwapAt]
      BY <1>3, <3>b
    <3>d. y - SwapAt = x
      BY PlaceFacts DEF y
    <3> QED
      BY <3>1, <3>c, <3>d DEF y
  <2>2. CASE x \in high
    <3>1. SwapQuads(n)[x] = n[x - SwapAt]
      BY <1>1, <1>5, <2>2
    <3>2. n[x - SwapAt] = m[x - SwapAt + SwapAt]
      BY <1>1, <1>3, <2>2
    <3> QED
      BY <3>1, <3>2, <1>1, <2>2
  <2>3. CASE x \notin low /\ x \notin high
    BY <1>3, <1>5, <2>3
  <2> QED
    BY <2>1, <2>2, <2>3
<1>7. SwapQuads(n) \in Modulus
  BY <1>1, <1>5, <1>6 DEF Modulus
<1> HIDE DEF n
<1>8. SwapQuads(n) = m
  BY <1>6, <1>7, SameBytes
<1> QED
  BY <1>4, <1>8 DEF n

LEMMA Unscrambles ==
  ASSUME NEW m \in Modulus
  PROVE  UnscrambleModulus(ScrambleModulus(m)) = m
<1> DEFINE a == SwapQuads(m)
           b == XorLow(a)
           c == XorMid(b)
           d == XorHigh(c)
<1>1. a \in Modulus /\ SwapQuads(a) = m
  BY SwapTwice
<1>2. b \in Modulus /\ XorLow(b) = a
  BY <1>1, XorLowTwice
<1>3. c \in Modulus /\ XorMid(c) = b
  BY <1>2, XorMidTwice
<1>4. d \in Modulus /\ XorHigh(d) = c
  BY <1>3, XorHighTwice
<1>5. UnscrambleModulus(d) = SwapQuads(XorLow(XorMid(XorHigh(d))))
  BY DEF UnscrambleModulus
<1>6. ScrambleModulus(m) = d
  BY DEF ScrambleModulus
<1> QED
  BY <1>1, <1>2, <1>3, <1>4, <1>5, <1>6

ModulusInv ==
  /\ lpc \in {"connect"} \cup OnGreeting \cup Serving
  /\ lpc \in OnGreeting => modulus \in Moduli /\ unscrambled = ScrambleModulus(modulus)
  /\ ModulusRestored

LEMMA ModulusStep == ModulusInv /\ [LoginNext]_loginVars => ModulusInv'
<1> SUFFICES ASSUME ModulusInv, [LoginNext]_loginVars PROVE ModulusInv'
  OBVIOUS
<1> USE DEF ModulusInv, ModulusRestored, OnGreeting, Serving
<1>1. CASE ServeInit
  BY <1>1 DEF ServeInit
<1>2. CASE HandleGreeting
  <2>1. modulus \in Moduli /\ unscrambled = ScrambleModulus(modulus)
    BY <1>2 DEF HandleGreeting
  <2>2. modulus \in Modulus
    BY <2>1, LoginAssumption DEF Modulus
  <2>3. unscrambled' = modulus
    BY <1>2, <2>1, <2>2, Unscrambles DEF HandleGreeting
  <2> QED
    BY <1>2, <2>3 DEF HandleGreeting
<1>3. CASE ScrambleWord \/ BeginPass \/ DescrambleWord
  BY <1>3 DEF ScrambleWord, BeginPass, DescrambleWord
<1>4. CASE EncodeLoginRequest \/ BeginEncrypt \/ AddWord \/ EndEncrypt
  BY <1>4 DEF EncodeLoginRequest, BeginEncrypt, AddWord, EndEncrypt, greetingVars
<1>5. CASE UNCHANGED loginVars
  BY <1>5 DEF loginVars, greetingVars
<1> QED
  BY <1>1, <1>2, <1>3, <1>4, <1>5 DEF LoginNext

(* The four loops of UnscrambleModulus give back the server's modulus, for *)
(* any length of it and any places of the two small steps that do not      *)
(* overlap with themselves (rsa.go:41-58).                                 *)
THEOREM ModulusRestoredHolds == LoginSpec => []ModulusRestored
<1>1. LoginInit => ModulusInv
  BY DEF LoginInit, ModulusInv, ModulusRestored, OnGreeting, Serving
<1>2. ModulusInv => ModulusRestored
  BY DEF ModulusInv
<1> QED
  BY <1>1, <1>2, ModulusStep, PTL DEF LoginSpec

(***************************************************************************)
(* The credentials.                                                        *)
(***************************************************************************)
LEMMA BlockBytes ==
  ASSUME NEW a \in Accounts, NEW p \in Passwords, NEW x \in 0 .. RSABlock - 1
  PROVE  CredentialBlock(a, p)[x] =
           IF x - SessionAt + 1 \in 1 .. Len(SessionId) THEN SessionId[x - SessionAt + 1]
           ELSE IF x - PasswordAt + 1 \in 1 .. Len(p) THEN p[x - PasswordAt + 1]
           ELSE IF x - AccountAt + 1 \in 1 .. Len(a) THEN a[x - AccountAt + 1]
           ELSE 0
<1> DEFINE b1 == Copied(NoBlock, AccountAt, a)
           b2 == Copied(b1, PasswordAt, p)
<1>1. DOMAIN NoBlock = 0 .. RSABlock - 1 /\ NoBlock[x] = 0
  BY DEF NoBlock
<1>2. DOMAIN b1 = 0 .. RSABlock - 1
      /\ b1[x] = (IF x - AccountAt + 1 \in 1 .. Len(a) THEN a[x - AccountAt + 1] ELSE 0)
  BY <1>1 DEF Copied
<1> HIDE DEF b1
<1>3. DOMAIN b2 = 0 .. RSABlock - 1
      /\ b2[x] = (IF x - PasswordAt + 1 \in 1 .. Len(p) THEN p[x - PasswordAt + 1] ELSE b1[x])
  BY <1>2 DEF Copied
<1> HIDE DEF b2
<1>4. Copied(b2, SessionAt, SessionId)[x] =
        (IF x - SessionAt + 1 \in 1 .. Len(SessionId) THEN SessionId[x - SessionAt + 1] ELSE b2[x])
  BY <1>3 DEF Copied
<1>5. CredentialBlock(a, p) = Copied(b2, SessionAt, SessionId)
  BY DEF CredentialBlock, b1, b2
<1> QED
  BY <1>2, <1>3, <1>4, <1>5

CredentialInv ==
  creds # << >> =>
    \E a \in Accounts, p \in Passwords : creds = <<a, p>> /\ block = CredentialBlock(a, p)

LEMMA CredentialsFollow == CredentialInv => CredentialsInPlace
<1> SUFFICES ASSUME NEW a \in Accounts, NEW p \in Passwords,
                    creds = <<a, p>>, block = CredentialBlock(a, p)
             PROVE  CredentialsInPlace
  BY DEF CredentialInv, CredentialsInPlace
<1>1. /\ AccountAt \in Nat /\ PasswordAt \in Nat /\ SessionAt \in Nat /\ RSABlock \in Nat
      /\ AccountAt <= PasswordAt /\ PasswordAt <= SessionAt /\ SessionAt + 4 = RSABlock
      /\ a \in Seq(Octets) /\ p \in Seq(Octets)
      /\ Len(SessionId) = 4
  BY LoginAssumption
<1>2. Len(a) \in Nat /\ Len(p) \in Nat /\ Len(SessionId) = 4
  BY <1>1
<1>3. HasField(AccountAt, PasswordAt, a)
  <2> SUFFICES ASSUME NEW x \in AccountAt .. PasswordAt - 1
               PROVE  block[x] = IF x - AccountAt < Len(a) THEN a[x - AccountAt + 1] ELSE 0
    BY DEF HasField
  <2>1. x \in 0 .. RSABlock - 1 /\ x - SessionAt + 1 \notin 1 .. 4
        /\ x - PasswordAt + 1 \notin 1 .. Len(p)
        /\ (x - AccountAt + 1 \in 1 .. Len(a) <=> x - AccountAt < Len(a))
    BY <1>1, <1>2
  <2> QED
    BY <2>1, <1>2, BlockBytes
<1>4. HasField(SessionAt, RSABlock, SessionId)
  <2> SUFFICES ASSUME NEW x \in SessionAt .. RSABlock - 1
               PROVE  block[x] = IF x - SessionAt < Len(SessionId) THEN SessionId[x - SessionAt + 1] ELSE 0
    BY DEF HasField
  <2>1. x \in 0 .. RSABlock - 1 /\ x - SessionAt + 1 \in 1 .. 4 /\ x - SessionAt < 4
    BY <1>1
  <2> QED
    BY <2>1, <1>2, BlockBytes
<1>5. ASSUME ~ (Len(a) > PasswordAt - AccountAt + Len(p))
      PROVE  HasField(PasswordAt, SessionAt, p)
  <2> SUFFICES ASSUME NEW x \in PasswordAt .. SessionAt - 1
               PROVE  block[x] = IF x - PasswordAt < Len(p) THEN p[x - PasswordAt + 1] ELSE 0
    BY DEF HasField
  <2>1. x \in 0 .. RSABlock - 1 /\ x - SessionAt + 1 \notin 1 .. 4
        /\ (x - PasswordAt + 1 \in 1 .. Len(p) <=> x - PasswordAt < Len(p))
        /\ (x - PasswordAt >= Len(p) => x - AccountAt + 1 \notin 1 .. Len(a))
    BY <1>1, <1>2, <1>5
  <2>2. x - PasswordAt < Len(p) \/ x - PasswordAt >= Len(p)
    BY <1>1, <1>2
  <2> QED
    BY <2>1, <2>2, <1>2, BlockBytes
<1> QED
  BY <1>3, <1>4, <1>5 DEF CredentialsInPlace

LEMMA CredentialStep == CredentialInv /\ [LoginNext]_loginVars => CredentialInv'
<1> SUFFICES ASSUME CredentialInv, [LoginNext]_loginVars PROVE CredentialInv'
  OBVIOUS
<1>1. CASE EncodeLoginRequest
  BY <1>1 DEF EncodeLoginRequest, CredentialInv
<1>2. CASE UNCHANGED <<creds, block>>
  BY <1>2 DEF CredentialInv
<1>3. ServeInit \/ ScrambleWord \/ BeginPass \/ DescrambleWord \/ HandleGreeting
        \/ BeginEncrypt \/ AddWord \/ EndEncrypt \/ UNCHANGED loginVars
      => UNCHANGED <<creds, block>>
  BY DEF ServeInit, ScrambleWord, BeginPass, DescrambleWord, HandleGreeting, BeginEncrypt,
         AddWord, EndEncrypt, loginVars, requestVars
<1> QED
  BY <1>1, <1>2, <1>3 DEF LoginNext

(* Account, password and session id stand in their fields, whatever their  *)
(* lengths, but for a password behind a long account                       *)
(* (protocol.go:157-164).                                                  *)
THEOREM CredentialsInPlaceHolds == LoginSpec => []CredentialsInPlace
<1>1. LoginInit => CredentialInv
  BY DEF LoginInit, CredentialInv
<1> QED
  BY <1>1, CredentialStep, CredentialsFollow, PTL DEF LoginSpec

(***************************************************************************)
(* The requests.                                                           *)
(***************************************************************************)

(* The exclusive or of lane l of the first n words of the buffer.          *)
PartialSum(l, n) ==
  \E acc \in [0 .. n -> Octets] :
    /\ acc[0] = 0 /\ acc[n] = chk[l]
    /\ \A k \in 1 .. n : acc[k] = OctetXor(acc[k - 1], lbuf[4 * (k - 1) + l])

RequestType ==
  /\ lpc \in {"connect"} \cup OnGreeting \cup Serving
  /\ lbuf \in [0 .. MaxTotal - 1 -> Octets]
  /\ lpc \notin Serving => arrived = << >>

Checksumming ==
  lpc = "checksum" =>
    /\ payload \in Requests
    /\ total \in Nat /\ total % 8 = 0 /\ total <= MaxTotal /\ Len(payload) + 12 <= total
    /\ at \in Nat /\ at % 4 = 0 /\ at <= total - 4
    /\ chk \in [Lanes -> Octets]
    /\ \A x \in 0 .. total - 1 : lbuf[x] = IF x < Len(payload) THEN payload[x + 1] ELSE 0
    /\ \A l \in Lanes : PartialSum(l, at \div 4)

RequestInv == RequestType /\ Checksumming /\ RequestsWhole

LEMMA RequestEncoded == RequestInv /\ BeginEncrypt => RequestInv'
<1> SUFFICES ASSUME RequestInv, BeginEncrypt PROVE RequestInv'
  OBVIOUS
<1>1. PICK r \in Requests : /\ payload' = r
                             /\ total' = Padded(Len(r) + Reserve)
                             /\ lbuf' = Cleared(Copied(lbuf, 0, r), Len(r), total')
  BY DEF BeginEncrypt
<1>2. /\ r \in Seq(Octets) /\ Len(r) \in Nat /\ Len(r) + 24 <= MaxTotal /\ MaxTotal \in Nat
      /\ 0 \in Octets
  BY LoginAssumption
<1>3. lpc = "initialized" /\ lpc' = "checksum" /\ at' = 0 /\ chk' = [l \in Lanes |-> 0] /\ arrived' = arrived
  BY DEF BeginEncrypt
<1>4. PICK t \in Nat : total' = t /\ t % 8 = 0 /\ t <= MaxTotal /\ Len(r) + 12 <= t
  <2>1. Len(r) + Reserve \in Nat /\ Reserve \in {12, 16}
    BY <1>2 DEF Reserve
  <2>2. /\ Padded(Len(r) + Reserve) \in Nat /\ Padded(Len(r) + Reserve) % 8 = 0
        /\ Len(r) + Reserve <= Padded(Len(r) + Reserve)
        /\ Padded(Len(r) + Reserve) <= Len(r) + Reserve + 7
    BY <2>1, PaddedFits
  <2> QED
    BY <1>1, <1>2, <2>1, <2>2
<1>5. lbuf \in [0 .. MaxTotal - 1 -> Octets]
  BY DEF RequestInv, RequestType
<1>6. \A x \in 0 .. MaxTotal - 1 :
        lbuf'[x] = (IF x \in Len(r) .. t - 1 THEN 0
                    ELSE IF x + 1 \in 1 .. Len(r) THEN r[x + 1] ELSE lbuf[x])
  BY <1>1, <1>2, <1>4, <1>5 DEF Cleared, Copied
<1>7. DOMAIN lbuf' = 0 .. MaxTotal - 1 /\ lbuf' = [x \in 0 .. MaxTotal - 1 |-> lbuf'[x]]
  BY <1>1, <1>5 DEF Cleared, Copied
<1>8. \A x \in 0 .. MaxTotal - 1 : lbuf'[x] \in Octets
  BY <1>2, <1>5, <1>6
<1>9. lbuf' \in [0 .. MaxTotal - 1 -> Octets]
  BY <1>7, <1>8
<1>10. \A x \in 0 .. t - 1 : lbuf'[x] = IF x < Len(r) THEN r[x + 1] ELSE 0
  <2> SUFFICES ASSUME NEW x \in 0 .. t - 1
               PROVE  lbuf'[x] = IF x < Len(r) THEN r[x + 1] ELSE 0
    OBVIOUS
  <2>1. x \in 0 .. MaxTotal - 1
    BY <1>2, <1>4
  <2>2. CASE x < Len(r)
    <3>1. x \notin Len(r) .. t - 1 /\ x + 1 \in 1 .. Len(r)
      BY <2>2, <1>2, <1>4
    <3> QED
      BY <3>1, <2>1, <2>2, <1>6
  <2>3. CASE ~ (x < Len(r))
    <3>1. x \in Len(r) .. t - 1
      BY <2>3, <1>2, <1>4
    <3> QED
      BY <3>1, <2>1, <2>3, <1>6
  <2> QED
    BY <2>2, <2>3
<1>11. \A l \in Lanes : PartialSum(l, 0)'
  <2> SUFFICES ASSUME NEW l \in Lanes PROVE PartialSum(l, 0)'
    OBVIOUS
  <2> DEFINE acc == [k \in 0 .. 0 |-> 0]
  <2>1. acc \in [0 .. 0 -> Octets] /\ acc[0] = 0 /\ acc[0] = chk'[l]
    BY <1>2, <1>3
  <2>2. 1 .. 0 = {}
    OBVIOUS
  <2> QED
    BY <2>1, <2>2 DEF PartialSum
<1>12. (0 \div 4) = 0 /\ (0 % 4) = 0
  OBVIOUS
<1>13. chk' \in [Lanes -> Octets]
  BY <1>2, <1>3
<1>14. Checksumming'
  <2>1. at' \in Nat /\ at' % 4 = 0 /\ at' <= t - 4
    BY <1>2, <1>3, <1>4, <1>12
  <2>2. \A l \in Lanes : PartialSum(l, at \div 4)'
    BY <1>3, <1>11, <1>12 DEF PartialSum
  <2> QED
    BY <1>1, <1>4, <1>10, <1>13, <2>1, <2>2 DEF Checksumming
<1> QED
  BY <1>3, <1>9, <1>14 DEF RequestInv, RequestType, RequestsWhole, OnGreeting, Serving

LEMMA Quarters ==
  ASSUME NEW n \in Nat, n % 4 = 0
  PROVE  \E q \in Nat : n = 4 * q /\ n \div 4 = q
OBVIOUS

LEMMA Eighths ==
  ASSUME NEW n \in Nat, n % 8 = 0
  PROVE  \E h \in Nat : n = 8 * h /\ n % 4 = 0 /\ n \div 4 = 2 * h
OBVIOUS

LEMMA RequestAdded == RequestInv /\ AddWord => RequestInv'
<1> SUFFICES ASSUME RequestInv, AddWord PROVE RequestInv'
  OBVIOUS
<1>1. /\ lpc = "checksum" /\ lpc' = "checksum" /\ at < total - 4 /\ at' = at + 4
      /\ chk' = [l \in Lanes |-> OctetXor(chk[l], lbuf[at + l])]
      /\ UNCHANGED <<lbuf, payload, total, arrived>>
  BY DEF AddWord
<1>2. /\ payload \in Requests /\ total \in Nat /\ total % 8 = 0 /\ total <= MaxTotal
      /\ Len(payload) + 12 <= total /\ at \in Nat /\ at % 4 = 0
      /\ chk \in [Lanes -> Octets]
      /\ \A x \in 0 .. total - 1 : lbuf[x] = IF x < Len(payload) THEN payload[x + 1] ELSE 0
      /\ \A l \in Lanes : PartialSum(l, at \div 4)
  BY <1>1 DEF RequestInv, Checksumming
<1>3. lbuf \in [0 .. MaxTotal - 1 -> Octets] /\ MaxTotal \in Nat
  BY LoginAssumption DEF RequestInv, RequestType
<1>4. PICK q \in Nat : at = 4 * q /\ at \div 4 = q
  BY <1>2, Quarters
<1>5. PICK h \in Nat : total = 8 * h
  BY <1>2, Eighths
<1>6. at + 4 <= total - 4
  BY <1>1, <1>4, <1>5
<1>7. at' \in Nat /\ at' = 4 * (q + 1) /\ at' % 4 = 0 /\ at' \div 4 = q + 1
  <2>1. at' = 4 * (q + 1)
    BY <1>1, <1>4
  <2>2. \A n \in Nat : (4 * (n + 1)) % 4 = 0 /\ (4 * (n + 1)) \div 4 = n + 1
    OBVIOUS
  <2> QED
    BY <2>1, <2>2
<1>8. \A l \in Lanes : chk[l] \in Octets /\ lbuf[at + l] \in Octets
      /\ chk'[l] = OctetXor(chk[l], lbuf[4 * q + l]) /\ chk'[l] \in Octets
  <2> SUFFICES ASSUME NEW l \in Lanes
               PROVE  chk[l] \in Octets /\ lbuf[at + l] \in Octets
                      /\ chk'[l] = OctetXor(chk[l], lbuf[4 * q + l]) /\ chk'[l] \in Octets
    OBVIOUS
  <2>1. at + l \in 0 .. MaxTotal - 1
    BY <1>1, <1>2, <1>3 DEF Lanes
  <2>2. chk[l] \in Octets /\ lbuf[at + l] \in Octets
    BY <2>1, <1>2, <1>3
  <2>3. chk'[l] = OctetXor(chk[l], lbuf[4 * q + l])
    BY <1>1, <1>4
  <2> QED
    BY <2>2, <2>3, <1>4, OctetFacts
<1>9. chk' \in [Lanes -> Octets]
  BY <1>1, <1>8
<1>10. \A l \in Lanes : PartialSum(l, q + 1)'
  <2> SUFFICES ASSUME NEW l \in Lanes PROVE PartialSum(l, q + 1)'
    OBVIOUS
  <2>1. PICK acc \in [0 .. q -> Octets] :
          /\ acc[0] = 0 /\ acc[q] = chk[l]
          /\ \A k \in 1 .. q : acc[k] = OctetXor(acc[k - 1], lbuf[4 * (k - 1) + l])
    <3>1. PartialSum(l, q)
      BY <1>2, <1>4
    <3> QED
      BY <3>1 DEF PartialSum
  <2> DEFINE more == [k \in 0 .. q + 1 |-> IF k = q + 1 THEN chk'[l] ELSE acc[k]]
  <2>2. more \in [0 .. q + 1 -> Octets]
    BY <1>8
  <2>3. more[0] = 0 /\ more[q + 1] = chk'[l]
    BY <2>1
  <2>4. \A k \in 1 .. q + 1 : more[k] = OctetXor(more[k - 1], lbuf[4 * (k - 1) + l])
    <3> SUFFICES ASSUME NEW k \in 1 .. q + 1
                 PROVE  more[k] = OctetXor(more[k - 1], lbuf[4 * (k - 1) + l])
      OBVIOUS
    <3>1. CASE k = q + 1
      <4>1. k - 1 = q /\ more[k - 1] = acc[q] /\ more[k] = chk'[l]
        BY <3>1
      <4> QED
        BY <4>1, <2>1, <1>8
    <3>2. CASE k # q + 1
      <4>1. k \in 1 .. q /\ more[k] = acc[k] /\ more[k - 1] = acc[k - 1]
        BY <3>2
      <4> QED
        BY <4>1, <2>1
    <3> QED
      BY <3>1, <3>2
  <2> HIDE DEF more
  <2> QED
    BY <2>2, <2>3, <2>4, <1>1 DEF PartialSum
<1>11. \A l \in Lanes : PartialSum(l, at \div 4)'
  BY <1>7, <1>10 DEF PartialSum
<1>12. Checksumming'
  <2>1. at' <= total' - 4
    BY <1>1, <1>6
  <2> QED
    BY <2>1, <1>1, <1>2, <1>7, <1>9, <1>11 DEF Checksumming
<1> QED
  BY <1>1, <1>3, <1>12 DEF RequestInv, RequestType, RequestsWhole, OnGreeting, Serving

LEMMA RequestEncrypted == RequestInv /\ EndEncrypt => RequestInv'
<1> SUFFICES ASSUME RequestInv, EndEncrypt PROVE RequestInv'
  OBVIOUS
<1>1. /\ lpc = "checksum" /\ lpc' = "initialized" /\ at >= total - 4
      /\ arrived' = [x \in 1 .. total |->
                       IF x > total - 4 THEN chk[x - 1 - (total - 4)] ELSE lbuf[x - 1]]
      /\ \E v \in Octets : lbuf' = [x \in DOMAIN lbuf |-> IF x < total THEN v ELSE lbuf[x]]
      /\ payload' = payload
  BY DEF EndEncrypt
<1>2. /\ payload \in Requests /\ total \in Nat /\ total % 8 = 0 /\ total <= MaxTotal
      /\ Len(payload) + 12 <= total /\ at \in Nat /\ at % 4 = 0 /\ at <= total - 4
      /\ chk \in [Lanes -> Octets]
      /\ \A x \in 0 .. total - 1 : lbuf[x] = IF x < Len(payload) THEN payload[x + 1] ELSE 0
      /\ \A l \in Lanes : PartialSum(l, at \div 4)
  BY <1>1 DEF RequestInv, Checksumming
<1>3. lbuf \in [0 .. MaxTotal - 1 -> Octets] /\ MaxTotal \in Nat
      /\ payload \in Seq(Octets) /\ Len(payload) \in Nat
  <2>1. MaxTotal \in Nat /\ payload \in Seq(Octets)
    BY <1>2, LoginAssumption
  <2> QED
    BY <2>1 DEF RequestInv, RequestType
<1>4. lbuf' \in [0 .. MaxTotal - 1 -> Octets]
  BY <1>1, <1>3
<1>5. PICK h \in Nat : total = 8 * h /\ total \div 4 = 2 * h
  BY <1>2, Eighths
<1>6. PICK q \in Nat : at = 4 * q /\ at \div 4 = q
  BY <1>2, Quarters
<1>7. at = total - 4 /\ q = 2 * h - 1 /\ h >= 1
  BY <1>1, <1>2, <1>3, <1>5, <1>6
<1>8. \A x \in 1 .. total :
        arrived'[x] = (IF x > total - 4 THEN chk[x - 1 - (total - 4)] ELSE lbuf[x - 1])
  BY <1>1
<1>9. Len(arrived') = total
  BY <1>1, <1>2
<1>10. \A x \in 1 .. total - 4 : arrived'[x] = IF x <= Len(payload) THEN payload[x] ELSE 0
  <2> SUFFICES ASSUME NEW x \in 1 .. total - 4
               PROVE  arrived'[x] = IF x <= Len(payload) THEN payload[x] ELSE 0
    OBVIOUS
  <2>1. x \in 1 .. total /\ ~ (x > total - 4) /\ x - 1 \in 0 .. total - 1
        /\ (x - 1 < Len(payload) <=> x <= Len(payload)) /\ x - 1 + 1 = x
    BY <1>2, <1>3
  <2>2. arrived'[x] = lbuf[x - 1]
    BY <2>1, <1>8
  <2>3. lbuf[x - 1] = IF x - 1 < Len(payload) THEN payload[x - 1 + 1] ELSE 0
    BY <2>1, <1>2
  <2> QED
    BY <2>1, <2>2, <2>3
<1>11. \A l \in Lanes : ZeroInAll(l)'
  <2> SUFFICES ASSUME NEW l \in Lanes PROVE ZeroInAll(l)'
    OBVIOUS
  <2>1. PICK acc \in [0 .. q -> Octets] :
          /\ acc[0] = 0 /\ acc[q] = chk[l]
          /\ \A k \in 1 .. q : acc[k] = OctetXor(acc[k - 1], lbuf[4 * (k - 1) + l])
    <3>1. PartialSum(l, q)
      BY <1>2, <1>6
    <3> QED
      BY <3>1 DEF PartialSum
  <2> DEFINE more == [k \in 0 .. q + 1 |-> IF k = q + 1 THEN 0 ELSE acc[k]]
  <2>2. more \in [0 .. q + 1 -> Octets]
    BY OctetFacts
  <2>3. more[0] = 0 /\ more[q + 1] = 0
    BY <2>1
  <2>4. \A k \in 1 .. q + 1 : more[k] = OctetXor(more[k - 1], arrived'[4 * (k - 1) + l + 1])
    <3> SUFFICES ASSUME NEW k \in 1 .. q + 1
                 PROVE  more[k] = OctetXor(more[k - 1], arrived'[4 * (k - 1) + l + 1])
      OBVIOUS
    <3>0. l \in Nat /\ l <= 3
      BY DEF Lanes
    <3> DEFINE x == 4 * (k - 1) + l + 1
    <3>1. CASE k = q + 1
      <4>1. k - 1 = q /\ more[k - 1] = acc[q] /\ more[k] = 0
        BY <3>1
      <4>2. x \in 1 .. total /\ x > total - 4 /\ x - 1 - (total - 4) = l
        BY <3>0, <3>1, <1>5, <1>7
      <4>3. arrived'[x] = chk[l]
        BY <4>2, <1>8
      <4>4. OctetXor(chk[l], chk[l]) = 0
        BY <1>2, OctetFacts
      <4> QED
        BY <4>1, <4>3, <4>4, <2>1
    <3>2. CASE k # q + 1
      <4>1. k \in 1 .. q /\ more[k] = acc[k] /\ more[k - 1] = acc[k - 1]
        BY <3>2
      <4>2. x \in 1 .. total /\ ~ (x > total - 4) /\ x - 1 = 4 * (k - 1) + l
        BY <3>0, <4>1, <1>5, <1>7
      <4>3. arrived'[x] = lbuf[4 * (k - 1) + l]
        BY <4>2, <1>8
      <4> QED
        BY <4>1, <4>3, <2>1
    <3> QED
      BY <3>1, <3>2
  <2>5. (Len(arrived') \div 4) = q + 1
    BY <1>5, <1>7, <1>9
  <2> HIDE DEF more
  <2> QED
    BY <2>2, <2>3, <2>4, <2>5 DEF ZeroInAll
<1>12. RequestsWhole'
  <2>1. Len(arrived') % 8 = 0 /\ Len(payload') + 8 <= Len(arrived') - 4
    BY <1>1, <1>2, <1>3, <1>9
  <2> QED
    BY <2>1, <1>1, <1>9, <1>10, <1>11 DEF RequestsWhole
<1> QED
  BY <1>1, <1>4, <1>12 DEF RequestInv, RequestType, Checksumming, OnGreeting, Serving

LEMMA RequestStep == RequestInv /\ [LoginNext]_loginVars => RequestInv'
<1> SUFFICES ASSUME RequestInv, [LoginNext]_loginVars PROVE RequestInv'
  OBVIOUS
<1> USE DEF RequestInv, RequestType, Checksumming, RequestsWhole, OnGreeting, Serving
<1>1. CASE ServeInit \/ ScrambleWord \/ BeginPass \/ DescrambleWord \/ HandleGreeting
  BY <1>1 DEF ServeInit, ScrambleWord, BeginPass, DescrambleWord, HandleGreeting, requestVars
<1>2. CASE EncodeLoginRequest
  BY <1>2 DEF EncodeLoginRequest, ZeroInAll
<1>3. CASE UNCHANGED loginVars
  BY <1>3 DEF loginVars, greetingVars, requestVars, ZeroInAll, PartialSum
<1> QED
  BY <1>1, <1>2, <1>3, RequestEncoded, RequestAdded, RequestEncrypted DEF LoginNext

(* Every request, of any length and after any other, arrives in whole      *)
(* blocks with its padding cleared and a checksum that holds               *)
(* (server_crypt.go:37-83).                                                *)
THEOREM RequestsWholeHolds == LoginSpec => []RequestsWhole
<1>1. LoginInit => RequestInv
  BY LoginAssumption
     DEF LoginInit, RequestInv, RequestType, Checksumming, RequestsWhole, OnGreeting, Serving
<1>2. RequestInv => RequestsWhole
  BY DEF RequestInv
<1> QED
  BY <1>1, <1>2, RequestStep, PTL DEF LoginSpec

=============================================================================
