-------------------------------- MODULE Cards --------------------------------
(***************************************************************************)
(* The names of cards in src/entropy.cpp: how a typed text becomes a card, *)
(* which number a card has, and which texts are canonical decks.  A text   *)
(* is a sequence of characters; a card is its canonical two-character      *)
(* text, and a deck the texts of its cards one after the other.            *)
(***************************************************************************)
EXTENDS Integers, Sequences, FiniteSets, SequencesExt

CONSTANTS
  card_ranks,     \* the rank characters in order, "a23456789tjqk" in the code
  card_suits,     \* the suit characters in order, "cdhs" in the code
  cards_per_deck, \* 52 in the code
  Lowercase,      \* std::tolower, a function on the characters
  Space,          \* the characters std::isspace accepts
  One, Zero, Ten  \* the characters '1', '0' and 't'

Characters == DOMAIN Lowercase
Ranks      == Range(card_ranks)
Suits      == Range(card_suits)

ASSUME CardAssumption ==
  /\ card_ranks \in Seq(Characters) /\ card_suits \in Seq(Characters)
  /\ card_ranks # <<>> /\ card_suits # <<>>
  /\ \A i, j \in DOMAIN card_ranks : card_ranks[i] = card_ranks[j] => i = j
  /\ \A i, j \in DOMAIN card_suits : card_suits[i] = card_suits[j] => i = j
  /\ cards_per_deck = Len(card_ranks) * Len(card_suits)
  /\ \A c \in Characters : Lowercase[c] \in Characters
  /\ \A c \in Ranks \cup Suits : Lowercase[c] = c /\ c \notin Space
  /\ Ten \in Ranks

\* A deck is canonical_card_size = 2 characters for each card.
canonical_card_size == 2
canonical_deck_size == cards_per_deck * canonical_card_size

\* Not a card: normalize_card and card_index throw std::invalid_argument.
NoCard == <<>>

trim_ascii_space(text) ==
  LET kept == {i \in DOMAIN text : text[i] \notin Space}
  IN  IF kept = {} THEN <<>>
      ELSE SubSeq(text, CHOOSE i \in kept : \A j \in kept : i <= j,
                        CHOOSE i \in kept : \A j \in kept : i >= j)

\* The place of a character in a list that holds it, counted from zero.
find(list, c) == (CHOOSE i \in DOMAIN list : list[i] = c) - 1

IsCard(rank, suit) == rank \in Ranks /\ suit \in Suits

card_index(rank, suit) ==
  find(card_suits, suit) * Len(card_ranks) + find(card_ranks, rank)

\* Mutant: the seemingly useless call of card_index is dropped.
Unchecked(rank, suit) == <<rank, suit>>

\* The canonical card of rank and suit, if there is one.
Canonical(rank, suit) == IF IsCard(rank, suit) THEN <<rank, suit>> ELSE NoCard

normalize_card(text) ==
  LET card == trim_ascii_space(text)
  IN  CASE Len(card) = 2 ->
             Canonical(Lowercase[card[1]], Lowercase[card[2]])
        [] Len(card) = 3 /\ card[1] = One /\ card[2] = Zero ->
             Canonical(Ten, Lowercase[card[3]])
        [] OTHER -> NoCard

\* validate_canonical_deck returns (and does not throw) on these texts.
Card(deck, k) == <<deck[2 * k - 1], deck[2 * k]>>

IndexOf(deck, k) == card_index(deck[2 * k - 1], deck[2 * k])

ValidDeck(deck) ==
  /\ Len(deck) = canonical_deck_size
  /\ \A k \in 1..cards_per_deck : IsCard(deck[2 * k - 1], deck[2 * k])
  /\ \A j, k \in 1..cards_per_deck : IndexOf(deck, j) = IndexOf(deck, k) => j = k

===============================================================================
