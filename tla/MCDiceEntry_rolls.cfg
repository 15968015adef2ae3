CONSTANTS
  a = a
  c = c
  t = t
  one = one
  zero = zero
  bip39 = bip39
  dice = dice
  cards = cards
  only = only
  v1 = v1
  r1 = r1
  r2 = r2
  card_ranks <- MCRanks
  card_suits <- MCSuits
  cards_per_deck = 2
  Lowercase <- MCLowercase
  Space = {}
  One = one
  Zero = zero
  Ten = t
  mixed_dice_domain <- MCDice
  mixed_cards_domain <- MCCards
  cards_only_domain <- MCCardsOnly
  sha256_size = 2
  NotANumber = NotANumber
  Throws <- MCThrows
  Mistakes <- MCMistakes
  SystemRandoms <- MCRandoms
SPECIFICATION Spec
INVARIANTS
  TypeOK
  ReaderMeetsChecks
  ThrownRollsHashed
  EnoughRolls
