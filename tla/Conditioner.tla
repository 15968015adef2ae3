----------------------------- MODULE Conditioner -----------------------------
(***************************************************************************)
(* src/entropy.cpp: the byte strings the physical entropy modes feed to    *)
(* SHA-256, the checks made before, and the tables of roll and deck counts.*)
(* A byte is a character of a card or of a domain string, or a number; a   *)
(* SHA-256 digest is represented by the string it is the digest of.        *)
(***************************************************************************)
EXTENDS Cards

CONSTANTS
  mixed_dice_domain,  \* "bip39-dice-v1"
  mixed_cards_domain, \* "bip39-cards-v1"
  cards_only_domain,  \* "bip39-cards-only-v1"
  sha256_size         \* bytes of system randomness, 32 in the code

\* Two domain strings differ at a place both have, and none begins with a digit
\* that is a roll.
ASSUME DomainAssumption ==
  LET domains == <<mixed_dice_domain, mixed_cards_domain, cards_only_domain>>
  IN  /\ sha256_size \in Nat
      /\ \A i \in 1..3 : /\ domains[i] \in Seq(Range(domains[i]))
                         /\ domains[i] # <<>>
                         /\ domains[i][1] \notin 49..54
      /\ \A i, j \in 1..3 :
           i # j => \E k \in DOMAIN domains[i] \cap DOMAIN domains[j] :
                      domains[i][k] # domains[j][k]

ByteCounts == {16, 20, 24, 28, 32}

mixed_dice_roll_count(byte_count) ==
  CASE byte_count = 16 -> 75
    [] byte_count = 20 -> 87
    [] byte_count = 24 -> 100
    [] byte_count = 28 -> 112
    [] byte_count = 32 -> 124

\* Mutant: the table as a formula that rounds down.
short_roll_count(byte_count) == (99 * byte_count) \div 32

dice_only_roll_count(byte_count) ==
  CASE byte_count = 16 -> 50
    [] byte_count = 20 -> 62
    [] byte_count = 24 -> 75
    [] byte_count = 28 -> 87
    [] byte_count = 32 -> 99

cards_only_deck_count(byte_count) == IF byte_count = 32 THEN 2 ELSE 1

uint16_be(value) == <<(value % 65536) \div 256, value % 256>>

-------------------------------------------------------------------------------
(* What each mode accepts, and the conditioner input it then hashes.       *)

AcceptsMixedDice(rolls, system_random, byte_count) ==
  /\ Len(rolls) = mixed_dice_roll_count(byte_count)
  /\ \A i \in DOMAIN rolls : rolls[i] <= 5
  /\ Len(system_random) = sha256_size

\* Mutant: the random bytes before the rolls.
SwappedDiceInput(rolls, system_random, byte_count) ==
  mixed_dice_domain \o uint16_be(8 * byte_count) \o uint16_be(Len(rolls))
    \o system_random \o rolls

MixedDiceInput(rolls, system_random, byte_count) ==
  mixed_dice_domain \o uint16_be(8 * byte_count) \o uint16_be(Len(rolls))
    \o rolls \o system_random

AcceptsDiceOnly(rolls, byte_count) ==
  /\ Len(rolls) = dice_only_roll_count(byte_count)
  /\ \A i \in DOMAIN rolls : rolls[i] \in 49..54  \* '1' to '6'

DiceOnlyInput(rolls) == rolls

AcceptsMixedCards(deck, system_random) ==
  /\ ValidDeck(deck)
  /\ Len(system_random) = sha256_size

MixedCardsInput(deck, system_random) ==
  mixed_cards_domain \o deck \o system_random

\* Mutant: the second shuffle may be the first again.
AnyShuffle(first_deck, second_deck) == ValidDeck(second_deck)

Reshuffled(first_deck, second_deck) ==
  ValidDeck(second_deck) /\ first_deck # second_deck

AcceptsCardsOnly(first_deck, second_deck, byte_count) ==
  /\ ValidDeck(first_deck)
  /\ IF cards_only_deck_count(byte_count) = 1
     THEN second_deck = <<>>
     ELSE Reshuffled(first_deck, second_deck)

\* Mutant: the domain of the mixed mode.
SharedDomainInput(first_deck, second_deck) ==
  mixed_cards_domain \o first_deck \o second_deck

CardsOnlyInput(first_deck, second_deck) ==
  cards_only_domain \o first_deck \o second_deck

\* truncate_digest(sha256(input), byte_count)
TruncatedDigest(input, byte_count) == [digest |-> input, size |-> byte_count]

===============================================================================
