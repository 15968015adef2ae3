CONSTANTS
  a = a
  cr = cr
  nl = nl
  eof = eof
  SIGINT = SIGINT
  NoSignal = NoSignal
  Chars <- MCOneChar
  CR = cr
  NL = nl
  EOF = eof
  BufferSize = 2
  MaxTyped = 4
  signals <- MCOneSignal
  KeyboardSignals <- MCKeyboard
  DrainInterruptible = TRUE
  RestoreCanFail = TRUE
  MaxSignals = 1
SPECIFICATION FairSpec
INVARIANTS
  InterruptIsNew
PROPERTIES
  KeepsPromise
  InterruptKept
  EntryEnds
  InterruptEnds
