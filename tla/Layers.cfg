SPECIFICATION Spec

CONSTANTS
  Radix = 4
  ByteXor <- LayersXor
  KeyLen = 2
  CounterAt = 1
  CounterLen = 1
  FixedKey <- LayersKey
  FirstCounter = 3
  Payloads <- LayersPayloads
  Values = {1, 2}
  MaxPackets = 3

  Lengths <- LayersLengths
  MaxEntries = 2
  MaxString = 1
  MaxSpec = 1
  AccountLengths = {1, 16, 40, 32757, 32758}
  NameLengths = {3, 16}
  PhraseLengths = {15, 40}

  WordMod = 4
  WordXor <- LayersXor
  Greetings <- LayersGreetings
  PassKeys = {0, 3}
  Octets = {0, 1}
  OctetXor <- LayersXor
  Half = 3
  Quad = 1
  MidLow = 1
  MidHigh = 2
  SwapAt = 4
  Moduli <- LayersModuli
  Accounts <- LayersAccounts
  Passwords <- LayersPasswords
  SessionId <- LayersSessionId
  AccountAt = 1
  PasswordAt = 3
  SessionAt = 6
  RSABlock = 10
  Requests <- LayersRequests
  MaxTotal = 32
  MaxRequests = 2

  Logins <- LayersLogins
  Alnum = {"b", "0", "1", "2"}
  NameMax = 4
  NameMin = 2
  Fallback <- LayersFallback
  Others <- LayersOthers
  StarterClasses = {0, 10}
  Scenarios = {"A", "B"}
  MaxRuns = 2
  Radius = 2
  HalfWord = 16
  Spawns <- LayersSpawns
  Trouble = {"lose", "noise", "cut", "purge", "astray"}

  Loggers = {"main", "bot1", "bot2"}
  LineLengths = {2, 3}
  BufferSize = 2
  MaxLines = 4

INVARIANTS
  AcceptedIsWhole
  StaysInPacket
  GreetingRestored
  ModulusRestored
  CredentialsInPlace
  RequestsWhole
  NamesValid
  NoFalseAlarm
  PassIsEarned
  OnlySlot1LeftPending
  FarOnlyByWrapping
  LinesAreWhole
  ReturnedIsOut

PROPERTIES
  DeliversPackets
  LogRefined
  EverythingArrives
