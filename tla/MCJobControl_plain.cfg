CONSTANTS
  a = a
  cr = cr
  nl = nl
  eof = eof
  SIGINT = SIGINT
  SIGHUP = SIGHUP
  NoSignal = NoSignal
  Chars <- MCChars
  CR = cr
  NL = nl
  EOF = eof
  BufferSize = 2
  MaxTyped = 1
  signals <- MCSignals
  KeyboardSignals <- MCKeyboard
  DrainInterruptible = FALSE
  RestoreCanFail = FALSE
  MaxSignals = 1
  ShellRestoresJob = FALSE
SPECIFICATION JobSpec
INVARIANTS
  EchoOffWhileReading
