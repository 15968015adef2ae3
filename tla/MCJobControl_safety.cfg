CONSTANTS
  a = a
  cr = cr
  nl = nl
  eof = eof
  SIGINT = SIGINT
  SIGHUP = SIGHUP
  NoSignal = NoSignal
  Chars <- MCChars
  CR = cr
  NL = nl
  EOF = eof
  BufferSize = 2
  MaxTyped = 2
  signals <- MCSignals
  KeyboardSignals <- MCKeyboard
  DrainInterruptible = FALSE
  RestoreCanFail = FALSE
  MaxSignals = 2
  ShellRestoresJob = TRUE
SPECIFICATION JobSpec
INVARIANTS
  TypeOK
  NeverEchoed
  EchoRestored
  EchoOffWhileReading
  DispositionsRestored
  IgnoredNeverKills
PROPERTIES
  KeepsPromise
