CONSTANTS
  a = a
  b = b
  empty = empty
  wordlist_size = 2
  MnemonicLength = 3
  Files <- MCFiles
  Cuts <- MCCuts
SPECIFICATION Spec
INVARIANTS
  WholeFileAccepted
