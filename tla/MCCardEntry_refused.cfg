CONSTANTS
  a = a
  t = t
  A = A
  T = T
  c = c
  d = d
  C = C
  DD = DD
  one = one
  zero = zero
  space = space
  x = x
  bip39 = bip39
  dice = dice
  cards = cards
  only = only
  v1 = v1
  r1 = r1
  card_ranks <- MCRanks
  card_suits <- MCSuits
  cards_per_deck = 4
  Lowercase <- MCLowercase
  Space <- MCSpace
  One = one
  Zero = zero
  Ten = t
  mixed_dice_domain <- MCDice
  mixed_cards_domain <- MCCards
  cards_only_domain <- MCCardsOnly
  sha256_size = 8
  SystemRandoms <- MCRandoms
  Texts <- FewTexts
SPECIFICATION Spec
INVARIANTS
  RefusedEntryFails
