# l2go-headless-client: TLA+ models and proofs

The program under `src/` is a headless client for Lineage 2 servers. It starts a
fleet of bots; each logs in at a login server, is handed to a game server, enters
the world and then loads that server with moves, chat, item use and fights until
it is interrupted. A scenario mode drives the character lobby instead.

This directory models the parts of the program that are hard to test: one bot in
the world, with its goroutines, the cipher they share, and the list of targets
they exchange; the fleet, from the ramp through both logins and the lobby to
the end of the process; and the layers below the bots: the wire of the game
connection, the decoders and encoders, the login cipher, the character lobby the
scenarios drive, and the logger. Line numbers below are of `src/internal/client/client.go` unless
another file is named.

## Inventory

| Component | State | Operations | Interacts with | Hard | Correct when |
|---|---|---|---|---|---|
| Fleet (`cmd/main.go`) | context, wait group | interrupt, ramp schedule, `runBot` | every bot | one interrupt for all, a panic ends every bot | every bot that started ends, and only after its logout |
| Login session (95-307) | `State`, session keys, server list | Connect, HandleInit, SendAuthGG, Login, FetchServerList, SelectServer | login server; codec; login cipher | replies out of order, short packets, no deadlines | each step runs only after the one before succeeded |
| Game login (310-536) | `gsConn`, `gsCrypt`, character | ConnectToGameServer, HandshakeToLobby, AuthGameServer | game server | key installed between two packets, empty lobby | enters the world with a known character |
| Scenarios (`scenario.go`) | slots of the lobby | create, delete, restore, select, assert | game server | partial failure, spawn distance in 32 bits | passes only if the server did what was asked; leaves cleanly |
| Load loop (548-1048) | the fields of `Client` shared by two goroutines | RunGameLoop, action loop, read loop, Logout, Close | game server, cipher, framing, target list | all of it: three goroutines, cancellation, teleports, death, lost connections | below |
| Target list (947-986) | `npcs`, `npcsNext` | addTarget, randomTarget, targetCount | both loops | wrap around | bounded, no duplicates, evicts the oldest |
| Game cipher (`game_crypt.go`) | two 16-byte keys | Init, Encrypt, Decrypt | load loop, server's copy | never resynchronises | both ends agree on the key of every packet |
| Framing (`packet.go`) | one buffer per direction | Read, Write, Prepare, Send | socket | shared buffer, 16-bit size | a packet is sent as it was prepared |
| Codec (`protocol.go`) | none | encoders, decoders | all | short and truncated packets | decodes what the server encoded |
| Login cipher (`server_crypt.go`, `rsa.go`) | Blowfish key, RSA modulus | Encrypt, Decrypt, DecryptInit | login session | checksum, XOR pass | inverse of the server's |
| Logger (`logger.go`) | buffer, mutex | Log, LogErr, LogPacket, Flush | all | one buffer for all bots, written out when it is full; a panic ends the process | lines do not mix; a line whose call returned is out |
| Command line (`cmd/main.go`) | none | flags, prompts, credentials | fleet | - | - |

`PROJECT.json` lists the hazards of this code, each at its line, with the
properties that cover it or the reason none does yet.

## Modules

| Module | What it is |
|---|---|
| `TargetFifo` | abstract: a sliding window on the objects seen |
| `TargetRing` | `addTarget`, `randomTarget`, `targetCount`; implements `TargetFifo` |
| `BotSession` | abstract: interrupted, logged out, hung up, in this order |
| `BotVisit` | abstract: each bot visits one server at a time, lobby before world, and leaves the world by Logout after the interrupt |
| `GameLoop` | the load loop; uses `TargetRing`, implements `BotSession` and, from the world on, `BotVisit` |
| `Fleet` | `runFleet`, `runBot`, the logins, the lobby and scenarios A and C; the world is one stage; implements `BotVisit` |
| `PacketPipe` | abstract: packets come out as they went in, in order |
| `Wire` | `Prepare`, `Encrypt`, `Send`, the stream, `Read`, `Decrypt`; implements `PacketPipe` |
| `Cursor` | every decoder and encoder of `protocol.go` as a cursor over one packet |
| `LoginCipher` | `decXorPass`, `UnscrambleModulus`, the block of credentials, `Crypt.Encrypt` |
| `Lobby` | scenarios A and B on one account, run after run, and the server's list |
| `AtomicLog` | abstract: a call puts out one line, at once |
| `LineLog` | the shared logger; implements `AtomicLog` |
| `Layers` | puts the five together for one run: a behaviour exercises one of them |
| `MCTargetRing`, `MCGameLoop` | instances for TLC |
| `TargetRingProofs`, `GameLoopProofs`, `FleetProofs`, `WireProofs`, `CursorProofs`, `LoginCipherProofs`, `LobbyProofs`, `LineLogProofs` | theorems and proofs |

### GameLoop and the code

`pc` holds where each of three goroutines is: `main` (RunGameLoop 565-567, Logout,
and Close, which `runBot` defers), `action` (runActionLoop and its helpers) and
`reader` (runReadLoop and its handlers). A step is one access to state that
another goroutine uses: an atomic load or store, a channel operation, a critical
section, or a use of the write buffer. What is computed in between is part of a
neighbouring step.

- **Sending** takes three steps, as in every helper: `Encode` (Prepare and the
  encoder fill the one shared buffer), `Encrypt` (in place, then the key rolls by
  the size of the packet, `game_crypt.go:48-71`), `Send`. The buffer records who
  encoded last and with which keys it was encrypted; the server (external) reads a packet only if
  it was encrypted once with the key it expects, and counts every packet's size.
- **The action loop**: `AckTeleport` (651), the nap (588-591), `CheckDead` and
  `DeathTaunt` (593-600, 666), `PickAction` with its fall-backs `CheckInventory`
  and `CheckTargets` (609-632), `UseItem` (734), `BeginRoam` ... `ArriveY` (687-718),
  and the fight: `NextSwitch`, `ChooseTarget`, `CheckMana`, `CheckCooldown`, `Drain`,
  `Landed`, `TimedOut`, `WaitCancelled`, `NextTarget`, `SweepLoot` (750-822).
- **The read loop**: handlers with one access to shared state are one step
  (`HandleAtOnce`); `handleTeleport` stores three coordinates and two flags in five
  steps; `handleCombatBroadcast` signals, then records the reuse delay.
- **The environment**: the interrupt (`cmd/main.go:84-94`), a connection that
  fails, a server that stops and resumes reading, the cooldown that runs out.
  The server sends any packet of `Inbound` at any time, except that it tells of an
  attack of the bot only after it received one on that victim (`Truthful`).

What is abstracted: coordinates are members of a small set and headings are any
choice; mana is "enough or not" (15, line 1039); the skill table holds one
cooldown; text, wording and logging are left out; chat phrases have one length.
A packet that is too short for its handler changes nothing and is left out,
except a short teleport, which still sets both flags (909-916). `attackChan` holds
a token in the code; the model remembers for which victim it was put there, and
no action depends on that. What `Send` hands to the kernel is taken to reach the
server at once, unless the connection is lost; after that a write may succeed or
fail, and nothing arrives.

### Fleet and the code

`stage[b]` names what the goroutine of bot `b` does next (`cmd/main.go:178-240`);
one action is one call of the pipeline, or in the lobby one read with the
packets sent in reply to it (`HandshakeToLobby`, `createStarterCharacter`,
`AuthGameServer`, 363-536, and their like in `scenario.go`). Bots share nothing
but the context and the process, so a whole call is one step; the server, the
network and the interrupt come between any two.

- **The State**: `Accepted` is the check each call begins with, `Fail` any error
  return, after which the deferred `Close` runs (`cmd/main.go:196`).
- **The cipher**: `wire` carries each packet of the game server with the key it was
  encrypted with; `Recv` decrypts with `inKey`. Keys roll through `KeyMod` values, by
  one for every packet with contents and by none for an empty one. The size of
  the step is `GameLoop`'s business; here the question is whether each read path
  decrypts each packet once.
- **Packets**: those the lobby waits for, `"other"` for all else, and `"empty"`, a
  packet that is only a header. `Discard`, `Unexpected`, `KeepAlive`, `Recover` and
  `Panic` are what each kind of read does with them. With the fault `"short"` the
  login server may send a greeting of one block (`ShortGreeting`) and the game server a
  CharSelected that ends in its last coordinate (`"CutSelected"`); both make
  the decoder panic (`LoginCipher` and `Cursor` say why).
- **A panic** ends the process and every connection (`Crash`). `RunScenario` recovers from
  those it meets (`scenario.go:39-44`), but not from one in `loginPipeline`, which has returned
  before it is called (`cmd/main.go:198, 225`).
- **The server** answers in order, or with the fault `"silence"` not at all; unasked
  packets come at any time in the lobby, and in the world to a bot of scenario C, which
  waits for its items. With `"lose"` a connection is reset at any time; reads then
  fail, writes fail or vanish.
- **The deadline** of scenario C is set once for all it reads in the world: `Deadline` takes
  the bot from `burst` to `late`, where it reads on, until `ReadTimeout` (`scenario.go:81-83`).

Left out: session keys and the contents of replies (an account without a
character is a choice; packets are well formed but for the cut ones above, although on the load
path a CharSelected that cannot be decoded is ignored, 512), accounts of more than 32757
bytes (see `StaysInPacket` in `Cursor`), the length of the ramp's
delays (`cmd/main.go:182-185`; whatever the timers say, the goroutines may run in
any order), and the use of an item at the end of scenario C. What scenarios A and B
do with the lobby is in `Lobby`.

### Wire and the code

One direction of the game connection: the sender is the program's own (`Prepare`,
an encoder, `Encrypt`, `Send`), the receiver is the program's own (`Read`,
`Decrypt`), and the server's ends are taken to be their mirror images. `wbuf` and
`rbuf` are the two reused buffers, `tape` is the stream, of which `ReadSome` delivers a
piece of any length up to what `io.ReadFull` still waits for (`Quota`). Encryption and
decryption go byte by byte in place, with the bytes of the counter inside the
key (`KeyByte`, little endian, `game_crypt.go:66-71`). The first packet is plain. An
encoder may leave some of the bytes it counts as they were. Faults: a header that
announces less than a header (`SendRunt`), and a reset (`Break`) that cuts the stream
anywhere behind what was read. `Writer.Write` has no caller.

### Cursor and the code

A decoder is a list of steps at a cursor (`Layout`): read what must be there, read
what may be missing, skip, test, take without a test, a string, a list of effects.
What the bytes say is any choice, and so are the length of the packet and the
count of entries in it. An encoder is the same over the room its caller has
prepared (`Form`, `Room`): taking or writing past the end panics. What `Prepare` refuses, a
packet of more than 65535 bytes with its header, has no room at all (`Prepared`): the
encoder gets nil and its first write panics. A count that an
attentive server would never send is as good as any other here; what the decoded
fields mean is in the modules that use them.

### LoginCipher and the code

The greeting is a sequence of words; the server's pass goes forward and hides each
by the sum so far, `DescrambleWord` (`server_crypt.go:116-122`) goes back. The four
loops of `UnscrambleModulus` are four functions, each reading only bytes it does not
write. `CredentialBlock` copies as `copy` does: what does not fit is left out.
`BeginEncrypt`, `AddWord`, `EndEncrypt` are `Crypt.Encrypt` in the Writer's buffer, which
holds whatever the last ciphertext left. Blowfish and RSA are keyed functions that
the server inverts: `arrived` is what it has after it did.

### Lobby and the code

`account` is the server's list: names, classes, and whether a deletion is pending.
`phase` is what the client reads for (`list`, `created`, `deleted`, `restored`, `selected`); each
action is one read with the request sent in reply to it. The server obeys, or goes
astray at most once a run (`Astray`: a wrong class, another slot, nothing at all); a
packet may come unasked, a list may be cut (a decoding error), the connection may
fail, timers expire between two runs (`Purge`: entries behind move up), and bots
of other accounts take names. `SanitizeName` and `SlotName` are computed on sequences
of symbols, since the collisions of names are the point. Coordinates wrap at `HalfWord`
as int32 does. The handshake before the first list, empty packets and the cipher
are `Fleet`'s, `Cursor`'s and `Wire`'s business. Timers do not expire within a run, and
the reply to a request is sent when it is served.

### LineLog and the code

A call takes the mutex, writes its line in parts, and flushes; when the buffer is
full, what is in it goes out within the line. `Die` is the panic of a goroutine, which
loses what is buffered. `LogPacket` is the same call, when it is switched on; `Flush`
of its own (at the end of `run`) always finds the buffer empty; `Write` has no caller.

## Runs

| Run | Question | Bounds and why they are enough |
|---|---|---|
| `target_ring` | Is the list well formed and does it evict the oldest, after wraps and returning ids? | Capacity 3, five foreign ids: two more than fit, so that an evicted id can come back |
| `combat` | Do both ends of the cipher agree; is offense on the selected target; does the bot ever turn on itself; is a confirmation always the bot's own? | a mystic, two foreign objects and packets about the bot itself, two targets a fight, a list of 1, so that the target of a fight may be evicted at any point of it, key counter modulo 4 (no packet size is a multiple of 4, so a lost or doubled roll shows), stalls allowed |
| `session` | One writer at a time; no choice from an empty list; Logout before the end, nothing after it? | the connection may fail at every point; teleports of both lengths, item lists with and without items; list of 1 |
| `liveness` | Does an interrupt end all goroutines, is every teleport acknowledged, does a dead bot become passive and a converged one stop roaming, and do they stay so? | the key is left out (modulus 1); death, a target, teleports, landed attacks, a lost connection |
| `fleet` | Do the calls of the pipeline fit together; is every packet of the lobby decrypted once; does a bot leave the world only by Logout, every error return close its connections, and an interrupt end the process wherever the bots are; is what the servers see of a bot one visit in good order (`BotVisit`)? | two bots on a ramp, empty and other packets unasked while none is under way, greetings and CharSelected cut short, two keys (a missed roll shows), lost connections |
| `scenario` | Does scenario C keep the key whatever it skips; can anything but the login end the process, and with it the other bot's visit; does the wait for items end though the server falls silent or never stops talking? | two bots, so that the panic of one meets the other at every stage; empty, other and cut packets, unasked ones while none is under way; answers may be missing; deadlock is not checked: without an answer in the lobby the program waits forever |
| `layers` | The layers below the bots, one at a time: are packets delivered whole and at all; does a decoder or encoder leave its packet; does the server get what it wants at login; does a scenario fail or pass only for cause, and what does it leave behind, and does it ask for names the server can grant; are lines whole, and is each call one line? | see below the table |
| `scenario_ghost` | expected violation, see below | one bot, no faults |
| `keep_alive` | expected violation | two bots, empty packets |
| `teleport_overwritten` | expected violation | two places on each axis |
| `stale_confirmation` | expected violation | a fighter, two targets |
| `cast_unconfirmed` | expected violation | a mystic, casts of its own |

The bounds of `layers`, per layer. Wire: bytes of 2 bits, a key of two bytes of which
one is a counter that starts at its last value, so that it wraps at once; payloads
of none and of three bytes, one of which the encoder leaves as it was; three packets (one plain, two
encrypted), every cut. Cursor: packets of every length around each test and around
two entries of a list; accounts of 1, 16 and 40 bytes, and the longest that fits a packet and one more (32757, 32758). LoginCipher: greetings of one, two and three blocks over all contents of the
inner words; moduli of six bytes with every overlap of the real one; texts that fit, fill and
exceed their fields; requests of three lengths, two in a row in one buffer. Lobby: two
runs of either scenario on an account with a plain name, on one whose names
collide, and on one with a name too long with and without its digit; names of at most four symbols, coordinates of 5 bits, all troubles. Two
runs are enough for a second run to begin from anything the first may leave.
LineLog: three goroutines, four lines, a buffer smaller than a line.

All passing runs are exhaustive and, but for `scenario`, check for deadlock: the only
state in which the program stops is `Finished`, all goroutines returned or the
process ended. In `layers` it is `Over`: the bound is reached and nothing is
under way, or the decoder, the process or the connection has ended; a run in the lobby, for one, always
ends. Every property of a passing
run comes with a mutant of the code's model that breaks it (defined next to the
action, named in `PROJECT.json`).

**Fairness** (`Fairness` in `GameLoop`): a goroutine that can run is scheduled and
timers fire (weak fairness of the action loop, of main and of a handler under
way). Two choices need strong fairness. `sleepCtx` (1013) selects between a timer
and the cancelled context; Go picks at random among ready cases, so a nap that
is entered again and again cannot miss the cancellation forever. And the read
loop meets the end of its connection, because what the server sent before is
finite. The server is not assumed to send, to read again after it stalled, or
anything to fail or be interrupted; `liveness` is checked without stalls because
a blocked `Send` has no deadline (`packet.go:104`), and a server that never reads
does keep the process from ending.

In `Fleet`, weak fairness of each bot (its goroutine is scheduled, a login server
replies or the connection fails, the ramp's timer fires), of the read deadline (`Deadline` and
`ReadTimeout`: time passes, whatever is read meanwhile), of the delivery of what the game server has sent, and of the return of `run`. That the game server
answers is not assumed: `fleet` has no silence among its faults, because no read
of the lobby has a deadline and a silent server does hold the process; `scenario` has.

In `Layers`, weak fairness of `Receive` only: the reader reads on while bytes arrive.
A connection that breaks may leave packets undelivered; then the receiver has failed,
which `EverythingArrives` admits.

### Where the code differs from its comments

- **`HoldsPosition`** (comment 613-615: "once the convergence hook has teleported us
  into the PvP cluster, hold position and fight"). A walk that began before the
  teleport stores its destination over the position of the teleport when it is
  over (711-712) and validates it.
- **`WaitsForThisTarget`** (comment 767: "wait for THIS attack/cast to actually
  land"). The channel is drained before the wait, but the broadcast of the
  previous attack may arrive after that.
- **`OwnCastSignalled`** (comment 928-929). The signal looks for the bot's id in
  bytes 1..5 of both packets, the reuse parser in bytes 5..9 of `MagicSkillUse`
  (`protocol.go:858`). A cast that is recorded as the bot's own is not signalled;
  the fight goes on after its timeout.

- **`CleanLogout`** (`src/README.md:16`: "Handles interrupts safely, performing a clean
  logout for all connected bots to avoid ghost sessions"). A scenario takes no
  context and returns with the character in the world; `runBot` closes the
  connection without a Logout (`cmd/main.go:223-231`). The load path keeps the
  promise: `NoGhosts` in `fleet`.
- **`NoPanic`** (`scenario.go:305`: "empty keep-alive / framing packet"). The scenarios
  skip such a packet in the wait for CharSelected; the load path indexes its first
  byte there (509) and at three other reads (406, 416, 462), and a panic of one
  goroutine ends the process with every bot. The scenarios recover from what the game server
  sends; at the login server nothing recovers (see the greeting, below).

Also seen, without a run of their own:

- A stationary bot without targets roams (630), though the flag is documented as
  "Keep bots in place" (`src/README.md:63`).
- `slotName` "builds a unique, valid (<=16) character name" (`scenario.go:210`), but slot 0
  of account `bot_1` is `bot10`, the name of account `bot_10`; and an account whose
  sanitized name has 15 symbols and ends in the digit of a slot collides with itself
  after scenario A. `Blocked`, the exception of `NoFalseAlarm`, is exactly these cases.
- When the timer of slot 1 has run out, the character of slot 2 moves up and keeps
  its name, so that scenario B fails on this account from then on (`Closed` in `LobbyProofs`).
- `DecodeCharSelected` tests for 36 bytes and reads 40 (`protocol.go:555-571`), so that a
  packet cut in its last coordinate panics; `StaysInPacket` names this case.
- An account of more than 32757 bytes makes `Prepare` return nil for AuthLogin
  (`packet.go:92-95`), whose encoder then panics (393-395); the error that `Send` would
  report is never reached. `StaysInPacket` names this case too.
- A greeting of a single Blowfish block makes `decXorPass` wrap its position and panic
  (`server_crypt.go:113-117`); `GreetingRestored` names this case. It ends the whole process, in a
  scenario too: `ShortGreeting`, and the exception in `BotVisit`'s `Crash`.
- An account that is too long shows behind a password that is short
  (`protocol.go:162-163`); `CredentialsInPlace` names this case.
- `EncodeGSRequestMagicSkillUseTo` counts four bytes for a flag of which it sets one
  (`protocol.go:710-715`): three bytes of an earlier packet go out with it.
- Scenario B does not notice a wrong class in slots 0 and 2, a deletion that is ignored
  when slot 1 was pending before, nor the selection of another slot that has the class of slot 1
  (`Unnoticed` in `PassIsEarned`).

## Proofs

All theorems hold for every value of the constants that satisfies the assumptions
next to them (`RingAssumption`, `LoopAssumption`, `FleetAssumption`: a positive capacity and key
modulus, positive numbers of switches, and packets of the known formats;
`WireAssumption`, `CursorAssumption`, `LoginAssumption`, `LobbyAssumption`: widths, lengths and
places as the code has them, digits among the symbols of a name, a fallback name that is itself valid; and of the exclusive or that it commutes, associates and undoes itself).

- **`RingCorrect`**, **`RingEvictsOldest`** (`TargetRingProofs`). `RingInv` is
  inductive as it stands: the index is 0 until the list is full, which is what
  makes the first eviction hit the oldest entry. For the refinement, the list
  read from the index onwards (`ReadFrom`) is the window; replacing the entry at
  the index and advancing drops its head and appends (`ReadFromReplace`).
- **`TypeCorrect`**, **`SoleWriterHolds`**, **`NeverGarbledHolds`**
  (`GameLoopProofs`). The invariant is `LoopInv`. `TypeInv` adds to the types what
  locals hold where they are used: a message while the loop writes, targets to go
  while it fights, a fitting packet in a handler. `WriterInv` says why the cipher
  stays in step: once main has joined, the action loop is done, so that one
  writer at most is under way; its packet is still in the buffer when it encrypts
  and sends; the two keys differ only between encryption and delivery, by the
  packet in the buffer. No property of the numbers is used but that a key rolls
  to a key: the counter may wrap.
- **`SessionRefinement`**. With `SessionInv` (main moves only when interrupted, the
  connection is open until main hangs up, and the server has read a Logout exactly
  when main has sent it, if the connection lives) every step is a step of
  `BotSession` or a stutter (`Quiet`).
- **`OffenseOnSelected`**, **`SignalsAreOwn`**, **`ChoicesStay`** (`GameLoopProofs`), each
  by an invariant of its own on top of `LoopInv`. The second rests on `Truthful`.

- **`StageCorrect`**, **`ReadsInStepHolds`**, **`AllClosedHolds`**, **`NoGhostsHold`**
  (`FleetProofs`, under `FleetAssumption`, for any number of bots; the last for the load path only, where `Scenario`
  is `"none"`: there it is what `NoGhosts` is about). `StageInv` is inductive part by part. `ReadsInStep` says nothing of the packets
  behind the first, so it is strengthened to `Chain`: each key under way rolls into the
  next one, from the bot's key to the server's; a packet sent extends the chain,
  a packet read shortens it, and no other step touches it. `EndInv` adds that a bot
  has nothing open before its slot and after its end. `WorldInv` adds that a session in the world
  has a connection that works and a bot that stands at `RunGameLoop`; with
  `StageInv` that call is not refused and logs out.

- **`DeliversPacketsHolds`** (`WireProofs`). The tape is the written packets one after the
  other, each a size and a payload encrypted with the counter of its turn
  (`Written`), then at most a runt or a packet that a reset has cut (`Tape`). The
  receiver is at some distance into packet N + 1 with the counter of its turn, what it
  has collected is what is on the tape there, and while it decrypts, the bytes
  below `j` are plain and those from `j` on are as they came (`Receiver`). The two chains meet because
  each byte is mixed with the ciphertext before it, at both ends (`MixTwice`). No value of key or
  counter is used: `UpdateKey` may wrap.
- **`AcceptedIsWholeHolds`**, **`StaysInPacketHolds`** (`CursorProofs`). One invariant per
  shape of format (`WholeInv`, `TableInv`, `ItemInv`, `SelectedInv`, `SelectionInv`, ...). In the list of
  characters, a field that was not there leaves the cursor less than a field from the
  end, and the gap behind it carries the cursor past the end for good (`SelectionInv`).
  Of the encoders only AuthLogin has a text long enough to be refused by `Prepare`: its room either
  holds the text or is empty, and then the first write panics (`AuthInv`).
- **`GreetingRestoredHolds`**, **`ModulusRestoredHolds`**, **`CredentialsInPlaceHolds`**,
  **`RequestsWholeHolds`** (`LoginCipherProofs`). The pass backwards: the accumulator at
  word w is the server's sum there, which hides w and, less w, gives the sum before
  it (`SubtractBack`). The modulus: each step undoes one of the server's (`XorHighTwice`,
  ..., `SwapTwice`). The checksum: it is the exclusive or of the words so far, of which
  the history is the witness that `ZeroInAll` asks for.
- **`OnlySlot1LeftPendingHolds`**, **`FarOnlyByWrappingHolds`**, **`PassIsEarnedHolds`**,
  **`NoFalseAlarmHolds`** (`LobbyProofs`), on top of `Shape`: types, at most one request or reply under way
  (`Quiet`), never more than three characters, and each created behind the last (`Room`). `PassIsEarned`
  needs what scenario B has seen at each phase (`Watch`); `NoFalseAlarm` what an obedient
  server leaves on the account: slots with their own names and classes and nothing
  pending but slot 1 (`Ordinary`), or the account after a purge (`Closed`), and for each packet under way
  that the client expects it (`Clear`). That the names of two slots differ and a
  sanitized name is a sequence needs an induction over the length of the account's name,
  which is done by the least length at which it fails (`Least`, from the well-foundedness of `Nat`).

- **`LinesAreWholeHolds`**, **`ReturnedIsOutHolds`** (`LineLogProofs`). Taken over all that was
  written, whether it is out or not: a line that has begun is that of the goroutine that has the mutex
  and has more to write (`Begun`), and ends of lines are as many as calls that returned,
  or one more before the flush (`Counted`). What is out is a prefix of it (`PrefixEnds`).
- **`LogRefinement`** (`LineLogProofs`). The logger implements `AtomicLog`, whose state counts the lines of each
  goroutine that are out. `LastOut`: while no line is over, every end of a line is out, so that
  what a full buffer gives away is no line to anyone; when one is over, its end is the last part,
  the holder's, and the only one that is not out. So the flush prints one line, of the
  goroutine that flushes, and all other steps stutter.

- **`VisitsRefinement`** (`FleetProofs`). Every step of the fleet is a step of `BotVisit` or a
  stutter, on the load path and with a scenario. `VisitInv` says which server a bot that stands at
  a stage has a connection to and where its session can then be; it makes the
  guards of the abstract steps true: no dial while another connection is open, Knock only
  on a fresh connection, HangUp in the world only by a scenario. The panic is the abstract
  `Crash`, which with a scenario asks for a bot at the login server: a `Panic` in the lobby is
  recovered from, and at a `ShortGreeting` the connection to the login server is open (`LinesFit`).
- **`LoopContinuesVisit`** (`GameLoopProofs`). `Fleet` has the world as one stage; `GameLoop` opens it. The
  steps of its three goroutines are steps of the visit of this one bot, by way of
  `BotSession` (`SessionIsVisit`): what the stage stands for keeps the promise that the
  fleet makes. The two modules meet in `BotVisit`; there is no joint module.
- **`SettlesForGoodHolds`**, **`DeadStaysPassive`**, **`ConvergedStays`** (`GameLoopProofs`). Death and convergence
  are one-way (`GroundsStay`), and no step leads back from passive to acting or from standing to
  walking; the only choices are those of `CheckDead` and `PickAction`, which read the flags anew
  (`SettlesDecide`), and a write under way keeps its kind (`SettlesWrite`). The other two draw the temporal consequence: what
  `DeadBecomesPassive` and `HoldsOnceConverged` ask to hold for good from some time on need
  hold only once. That it holds once needs fairness, and stays with TLC.
- **`NeverAtItselfHolds`** (`GameLoopProofs`). The only test is in `addTarget`, in another goroutine
  and long before the attack. The list holds neither the bot nor no object (`LoopTargetsSound`); `AimInv` follows the id from
  there: neither the target of a fight, nor the object in the buffer, nor what the server has read is one.
- **`LoopTargetsSound`**, **`LoopEvictsOldest`** (`GameLoopProofs`). `TargetRingProofs` is instantiated in the running
  bot: every step of the loop is a step of `TargetRing` or leaves the list alone
  (`TargetsStep`), so that the theorems about the list alone hold in the middle of fights and teleports.
- **`NamesValidHolds`** (`LobbyProofs`). For an account name of any length, what `SanitizeName`
  leaves is a sequence of letters and digits, by the least length at which it would not be, and
  `SlotName` cuts it so that the digit fits (`NamesAreValid`).

Every invariant and every action property of the passing runs is proved. Only
model-checked: the six liveness properties of the bots and `EverythingArrives` (fairness is out
of the prover's reach), and the violations.

## Not modelled, and the plan

Still to do: the game loop after a CharSelected that could not be decoded (512), a bot with id 0.

Not modelled, and why: flags, prompts and credentials are read once, by one
goroutine, before anything else runs; the delays of the ramp (`cmd/main.go:180-191`) only order the
bots, and `Fleet` allows any order; Blowfish and the arithmetic of RSA are
libraries; the build files are configuration; wording, names of log lines and the
contents of chat are data that nothing depends on. `Logger.Write` and `Writer.Write` have no caller,
`Crypt.Decrypt` but for its test of the size is Blowfish, and the reallocation in
`Crypt.Encrypt` is never reached, because its callers pass a part of the Writer's buffer.
