------------------------------ MODULE CardEntry ------------------------------
(***************************************************************************)
(* The card modes of src/seeds.cpp: read_card_deck, which asks for a card  *)
(* again until the deck has all of them, generate_mixed_card_entropy and   *)
(* generate_cards_only_entropy around it, and the checks and hash of       *)
(* src/entropy.cpp that they end in.                                       *)
(*                                                                         *)
(* pc names the point the program has reached:                             *)
(*   reading    in read_card_deck, about to read the next line             *)
(*   random     about to call RAND_priv_bytes (mixed mode only)            *)
(*   mixing     in mix_card_entropy or cards_only_entropy                  *)
(*   returned   the entropy has been returned                              *)
(*   threw      an exception goes to main, which exits with status 1       *)
(***************************************************************************)
EXTENDS Conditioner

CONSTANTS
  Texts,        \* the lines users enter
  SystemRandoms \* the results of RAND_priv_bytes

ASSUME TextAssumption ==
  /\ Texts \subseteq Seq(Characters)
  /\ \A r \in SystemRandoms : r \in Seq(Range(r)) /\ Len(r) = sha256_size

VARIABLES
  use_cards_only, \* --cards-only rather than --cards
  byte_count,
  pc,
  shuffle_number,
  position,       \* of the card asked for, from 1
  deck,           \* the canonical text of the cards read
  seen,
  first_deck,     \* what read_card_deck(1) returned
  second_deck,    \* what read_card_deck(2) returned, or the empty text
  system_random,
  entropy,
  error,          \* which exception ended the entry
  repeated        \* history: has an entry been refused and asked for again?

modeVars == <<use_cards_only, byte_count>>
readVars == <<shuffle_number, position, deck, seen>>
deckVars == <<first_deck, second_deck>>
vars     == <<modeVars, readVars, deckVars, pc, system_random, entropy, error,
              repeated>>

Errors == {"InputEnded", "RandomFailed", "InvalidDeck", "SameShuffle",
           "DigestFailed"}

TypeOK ==
  /\ use_cards_only \in BOOLEAN
  /\ byte_count \in ByteCounts
  /\ pc \in {"reading", "random", "mixing", "returned", "threw"}
  /\ shuffle_number \in 1..2
  /\ position \in 1..cards_per_deck + 1
  /\ deck \in Seq(Characters)
  /\ seen \in SUBSET (Ranks \X Suits)
  /\ first_deck \in Seq(Characters) /\ second_deck \in Seq(Characters)
  /\ system_random \in SystemRandoms \cup {<<>>}
  /\ error \in Errors \cup {"none"}
  /\ repeated \in BOOLEAN

Init ==
  /\ use_cards_only \in BOOLEAN
  /\ byte_count \in ByteCounts
  /\ pc = "reading"
  /\ shuffle_number = 1
  /\ position = 1 /\ deck = <<>> /\ seen = {}
  /\ first_deck = <<>> /\ second_deck = <<>>
  /\ system_random = <<>> /\ entropy = <<>>
  /\ error = "none"
  /\ repeated = FALSE

deck_count == IF use_cards_only THEN cards_only_deck_count(byte_count) ELSE 1

Throw(e) ==
  /\ pc' = "threw"
  /\ error' = e

-------------------------------------------------------------------------------
(* read_card_deck.                                                         *)

Asking == pc = "reading" /\ position <= cards_per_deck

\* Mutant: duplicates are not refused.
AnyCard(card) == card # NoCard

NewCard(card) == card # NoCard /\ card \notin seen

AcceptCard(card) ==
  /\ Asking
  /\ NewCard(card)
  /\ seen' = seen \cup {card}
  /\ deck' = deck \o card
  /\ position' = position + 1
  /\ UNCHANGED <<modeVars, deckVars, shuffle_number, pc, system_random,
                 entropy, error, repeated>>

\* A text that is no card, or a card of this deck again: the same position is
\* asked for once more.
RefuseCard(card) ==
  /\ Asking
  /\ ~NewCard(card)
  /\ repeated' = TRUE
  /\ UNCHANGED <<modeVars, readVars, deckVars, pc, system_random, entropy,
                 error>>

ReadCard ==
  \E text \in Texts :
    LET card == normalize_card(text) IN AcceptCard(card) \/ RefuseCard(card)

InputEnds ==
  /\ Asking
  /\ Throw("InputEnded")
  /\ UNCHANGED <<modeVars, readVars, deckVars, system_random, entropy,
                 repeated>>

-------------------------------------------------------------------------------
(* The generators.                                                         *)

\* Mutant: the cards seen in the first shuffle are remembered in the second.
Remembered == seen

SeenBefore == {}

\* A complete deck is returned: a second shuffle is read from the start, or
\* the decks go on to be mixed.
DeckRead ==
  /\ pc = "reading" /\ position > cards_per_deck
  /\ IF shuffle_number = 1
     THEN first_deck' = deck /\ UNCHANGED second_deck
     ELSE second_deck' = deck /\ UNCHANGED first_deck
  /\ IF shuffle_number < deck_count
     THEN /\ shuffle_number' = 2
          /\ position' = 1
          /\ deck' = <<>>
          /\ seen' = SeenBefore
          /\ UNCHANGED pc
     ELSE /\ pc' = IF use_cards_only THEN "mixing" ELSE "random"
          /\ UNCHANGED readVars
  /\ UNCHANGED <<modeVars, system_random, entropy, error, repeated>>

GenerateSystemEntropy ==
  /\ pc = "random"
  /\ \E r \in SystemRandoms : system_random' = r
  /\ pc' = "mixing"
  /\ UNCHANGED <<modeVars, readVars, deckVars, entropy, error, repeated>>

RandomFails ==
  /\ pc = "random"
  /\ Throw("RandomFailed")
  /\ UNCHANGED <<modeVars, readVars, deckVars, system_random, entropy,
                 repeated>>

MixCards ==
  /\ pc = "mixing" /\ ~use_cards_only
  /\ \/ /\ AcceptsMixedCards(first_deck, system_random)
        /\ pc' = "returned"
        /\ LET input == MixedCardsInput(first_deck, system_random) IN
             entropy' = TruncatedDigest(input, byte_count)
        /\ UNCHANGED error
     \/ /\ ~AcceptsMixedCards(first_deck, system_random)
        /\ Throw("InvalidDeck")
        /\ UNCHANGED entropy
  /\ UNCHANGED <<modeVars, readVars, deckVars, system_random, repeated>>

CardsOnly ==
  /\ pc = "mixing" /\ use_cards_only
  /\ \/ /\ AcceptsCardsOnly(first_deck, second_deck, byte_count)
        /\ pc' = "returned"
        /\ entropy' = TruncatedDigest(CardsOnlyInput(first_deck, second_deck),
                                      byte_count)
        /\ UNCHANGED error
     \/ /\ ~AcceptsCardsOnly(first_deck, second_deck, byte_count)
        /\ Throw(IF ValidDeck(first_deck) /\ first_deck = second_deck
                 THEN "SameShuffle" ELSE "InvalidDeck")
        /\ UNCHANGED entropy
  /\ UNCHANGED <<modeVars, readVars, deckVars, system_random, repeated>>

\* sha256 throws, which both functions call once the decks are accepted.
DigestFails ==
  /\ pc = "mixing"
  /\ IF use_cards_only
     THEN AcceptsCardsOnly(first_deck, second_deck, byte_count)
     ELSE AcceptsMixedCards(first_deck, system_random)
  /\ Throw("DigestFailed")
  /\ UNCHANGED <<modeVars, readVars, deckVars, system_random, entropy,
                 repeated>>

Ended == pc \in {"returned", "threw"}

Terminated == Ended /\ UNCHANGED vars

Next ==
  \/ ReadCard \/ InputEnds \/ DeckRead
  \/ GenerateSystemEntropy \/ RandomFails
  \/ MixCards \/ CardsOnly \/ DigestFails
  \/ Terminated

Spec == Init /\ [][Next]_vars

\* The program goes on when it can, and the user in time enters a text for a
\* card the deck does not have yet, whatever else is entered before.
FreshCardEntered == \E text \in Texts : AcceptCard(normalize_card(text))

FairSpec ==
  /\ Spec
  /\ WF_vars(DeckRead \/ GenerateSystemEntropy \/ MixCards \/ CardsOnly)
  /\ WF_vars(FreshCardEntered)

-------------------------------------------------------------------------------
(* Properties.                                                             *)

\* The reader never hands over a deck the validator of entropy.cpp refuses:
\* whatever was mistyped, refused and typed again, all cards have been asked
\* for before, so only a repeated second shuffle can still be turned down.
ReaderMeetsValidator == error # "InvalidDeck"

\* In the first shuffle and in the second, for every position that is asked for
\* there is a card left that would be accepted, and for no more than these:
\* what is refused or belongs to another deck takes no card away.
CardsLeft ==
  Asking => Cardinality((Ranks \X Suits) \ seen) = cards_per_deck + 1 - position

\* The fields that are hashed have no separators; the domain strings and the
\* fixed sizes of decks and randomness keep them apart: no other decks, other
\* randomness or other mode gives the string that was hashed, not even with
\* random bytes that read like a deck.
Deals ==
  {[i \in 1..canonical_deck_size |-> cards[(i + 1) \div 2][2 - (i % 2)]] :
     cards \in Injection(1..cards_per_deck, Ranks \X Suits)}

HashDeterminesSource ==
  pc = "returned" =>
    \A d \in Deals :
      /\ \A r \in SystemRandoms : MixedCardsInput(d, r) = entropy.digest =>
           ~use_cards_only /\ d = first_deck /\ r = system_random
      /\ \A e \in Deals \cup {<<>>} : CardsOnlyInput(d, e) = entropy.digest =>
           use_cards_only /\ d = first_deck /\ e = second_deck

\* The doc's promise that a refused entry makes the program fail.
RefusedEntryFails == repeated => pc # "returned"

-------------------------------------------------------------------------------
(* Refinement: the texts become orderings of card numbers.                 *)

Order(d) == [k \in 1..Len(d) \div 2 |-> IndexOf(d, k)]

\* While the second shuffle is read the first is complete; afterwards the deck
\* read last is still the last of the orderings.
Orders ==
  IF shuffle_number = 1 THEN <<Order(deck)>>
  ELSE <<Order(first_deck), Order(deck)>>

Outcome ==
  CASE pc = "returned" -> "used"
    [] pc = "threw" -> "abandoned"
    [] OTHER -> "entering"

D == INSTANCE DeckPromise
       WITH DeckSize <- cards_per_deck,
            wanted   <- deck_count,
            orders   <- Orders,
            outcome  <- Outcome

\* Entering cards keeps the promise, for every way of writing a card, with
\* refused entries and in both modes.
KeepsDeckPromise == D!Promise

\* Every deck can be finished: refused entries never leave a position at which
\* no text is accepted.
EntryEnds == <>Ended

===============================================================================
