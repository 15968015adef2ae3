CONSTANTS
  a = a
  umlaut = umlaut
  cr = cr
  CommandLines <- MCCommandLines
  Wordlists <- MCWordlists
  Rolls = 2
  DeckSize = 2
  Chars <- MCChars
  CR = cr
  AsciiChars <- MCAscii
  MaxLine = 1
SPECIFICATION Spec
INVARIANTS
  TypeOK
  PromptsSeen
  SeedChecked
PROPERTIES
  KeepsRunPromise
