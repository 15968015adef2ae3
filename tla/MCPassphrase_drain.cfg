CONSTANTS
  a = a
  cr = cr
  nl = nl
  eof = eof
  SIGINT = SIGINT
  NoSignal = NoSignal
  Chars <- MCOneChar
  CR = cr
  NL = nl
  EOF = eof
  BufferSize = 2
  MaxTyped = 1
  signals <- MCOneSignal
  KeyboardSignals <- MCKeyboard
  DrainInterruptible = TRUE
  RestoreCanFail = FALSE
  MaxSignals = 1
SPECIFICATION Spec
INVARIANTS
  EchoRestoredOnSuccess
