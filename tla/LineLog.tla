------------------------------ MODULE LineLog ------------------------------
(***************************************************************************)
(* The one logger all bots share (internal/logger/logger.go): a call       *)
(* writes a line in parts into a buffered writer, under a mutex, and       *)
(* flushes.  A part goes to the output on its own when the buffer is full. *)
(* LogPacket, when it is switched on, does what Log does; Write has no     *)
(* caller.                                                                 *)
(***************************************************************************)
EXTENDS Naturals, Sequences, FiniteSets

CONSTANTS
  Loggers,      \* the goroutines that log
  LineLengths,  \* the parts of a line, the newline included
  BufferSize,   \* what the buffer holds
  MaxLines      \* bound: the number of lines

ASSUME LineLogAssumption ==
  /\ Loggers # {} /\ LineLengths \subseteq Nat \ {0}
  /\ BufferSize \in Nat \ {0} /\ MaxLines \in Nat

VARIABLES
  caller,   \* "out", "lock" or "write", of each goroutine
  rest,     \* the parts it has yet to write
  holder,   \* who has the mutex: a set of at most one
  outbuf,   \* the buffer of the writer
  stdout,
  calls,    \* history: the calls made
  returned, \* history: those that have returned
  dead      \* the process has panicked

lineVars == <<caller, rest, holder, outbuf, stdout, calls, returned, dead>>

LineInit ==
  /\ caller = [g \in Loggers |-> "out"] /\ rest = [g \in Loggers |-> 0]
  /\ holder = {}
  /\ outbuf = << >> /\ stdout = << >> /\ calls = 0 /\ returned = 0 /\ dead = FALSE

(* main and the bots share the logger from the start.                      *)
CallLog(g) ==
  /\ ~ dead /\ caller[g] = "out" /\ calls < MaxLines
  /\ \E n \in LineLengths : rest' = [rest EXCEPT ![g] = n]
  /\ caller' = [caller EXCEPT ![g] = "lock"] /\ calls' = calls + 1
  /\ UNCHANGED <<holder, outbuf, stdout, returned, dead>>

(* Mutant of LockLog: the mutex is not taken.                              *)
LockNothing(g) ==
  /\ ~ dead /\ caller[g] = "lock"
  /\ caller' = [caller EXCEPT ![g] = "write"]
  /\ UNCHANGED <<rest, holder, outbuf, stdout, calls, returned, dead>>

(* What follows uses the buffer, and writeHeader the scratch space.        *)
LockLog(g) ==
  /\ ~ dead /\ caller[g] = "lock" /\ holder = {}
  /\ holder' = {g}
  /\ caller' = [caller EXCEPT ![g] = "write"]
  /\ UNCHANGED <<rest, outbuf, stdout, calls, returned, dead>>

(* A part of a line: whose it is, and is it the newline?                   *)
WritePart(g) ==
  /\ ~ dead /\ caller[g] = "write" /\ rest[g] > 0
  /\ LET part == [of |-> g, end |-> rest[g] = 1] IN
       \/ Len(outbuf) < BufferSize /\ outbuf' = Append(outbuf, part) /\ UNCHANGED stdout
       \/ Len(outbuf) = BufferSize /\ outbuf' = <<part>> /\ stdout' = stdout \o outbuf
  /\ rest' = [rest EXCEPT ![g] = @ - 1]
  /\ UNCHANGED <<caller, holder, calls, returned, dead>>

(* Mutants of FlushLog: the line stays in the buffer, to go out with       *)
(* the next one, for the first or for the second time.                     *)
UnlockOnly(g) ==
  /\ ~ dead /\ caller[g] = "write" /\ rest[g] = 0
  /\ caller' = [caller EXCEPT ![g] = "out"]
  /\ holder' = {} /\ returned' = returned + 1
  /\ UNCHANGED <<rest, outbuf, stdout, calls, dead>>

FlushCopy(g) ==
  /\ ~ dead /\ caller[g] = "write" /\ rest[g] = 0
  /\ stdout' = stdout \o outbuf
  /\ caller' = [caller EXCEPT ![g] = "out"]
  /\ holder' = {} /\ returned' = returned + 1
  /\ UNCHANGED <<rest, outbuf, calls, dead>>

FlushLog(g) ==
  /\ ~ dead /\ caller[g] = "write" /\ rest[g] = 0
  /\ stdout' = stdout \o outbuf /\ outbuf' = << >>
  /\ caller' = [caller EXCEPT ![g] = "out"]
  /\ holder' = {} /\ returned' = returned + 1
  /\ UNCHANGED <<rest, calls, dead>>

(* A bot that panics takes the process with it, and what is buffered.      *)
Die ==
  /\ ~ dead /\ dead' = TRUE /\ outbuf' = << >>
  /\ UNCHANGED <<caller, rest, holder, stdout, calls, returned>>

LineNext ==
  \/ \E g \in Loggers : CallLog(g) \/ LockLog(g) \/ WritePart(g) \/ FlushLog(g)
  \/ Die

LineSpec == LineInit /\ [][LineNext]_lineVars

-----------------------------------------------------------------------------
(***************************************************************************)
(* Properties.                                                             *)
(***************************************************************************)
Ends == {k \in DOMAIN stdout : stdout[k].end}

(* Lines of different bots do not mix, although they share the buffer and  *)
(* a long line leaves it in pieces (logger.go:38-76).                      *)
LinesAreWhole ==
  \A k \in DOMAIN stdout \ Ends :
    k + 1 \in DOMAIN stdout => stdout[k + 1].of = stdout[k].of

(* When a call has returned its line is out (the Flush of every method):   *)
(* a panic elsewhere loses no line but the one that is being written.      *)
ReturnedIsOut == Cardinality(Ends) >= returned

(* Buffer, parts and mutex are invisible: a call that returns has put out  *)
(* its caller's line, once, and nothing else does (logger.go:38-76).       *)
EndsBy(g) == {k \in Ends : stdout[k].of = g}

AsOneLine == INSTANCE AtomicLog WITH
  asking  <- [g \in Loggers |-> caller[g] # "out"],
  printed <- [g \in Loggers |-> Cardinality(EndsBy(g))],
  down    <- dead

LogRefined == AsOneLine!Spec

=============================================================================
