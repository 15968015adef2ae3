---------------------------- MODULE CardEntryProofs ----------------------------
(***************************************************************************)
(* Proofs about CardEntry, for every deck, every way to write its cards    *)
(* and all random bytes.                                                   *)
(***************************************************************************)
EXTENDS CardEntry, ConditionerProofs, FiniteSetTheorems

Symbols == Ranks \cup Suits

-------------------------------------------------------------------------------
(* Cards and their numbers.                                                *)

\* A character of a list is found, at a place of the list.
LEMMA Found ==
  ASSUME NEW S, NEW list \in Seq(S), NEW c \in Range(list)
  PROVE  find(list, c) \in 0..Len(list) - 1 /\ list[find(list, c) + 1] = c
<1>1. DOMAIN list = 1..Len(list) /\ Len(list) \in Nat
  BY LenProperties
<1> DEFINE place == CHOOSE i \in DOMAIN list : list[i] = c
<1>2. \E i \in DOMAIN list : list[i] = c
  BY DEF Range
<1>3. place \in 1..Len(list) /\ list[place] = c
  BY <1>1, <1>2
<1>4. find(list, c) = place - 1
  BY DEF find
<1> HIDE DEF place
<1>5. place - 1 \in 0..Len(list) - 1 /\ (place - 1) + 1 = place
  BY <1>1, <1>3
<1>6. QED
  BY <1>3, <1>4, <1>5

\* Rows of n places: the number of a place tells its row and column.
LEMMA RowAndColumn ==
  ASSUME NEW n \in Nat, NEW i \in Nat, NEW k \in Nat,
         NEW j \in 0..n-1, NEW l \in 0..n-1, i * n + j = k * n + l
  PROVE  i = k /\ j = l
<1>1. ASSUME NEW a \in Nat, NEW b \in Nat, a < b
      PROVE  a * n + n <= b * n
  <2>1. b - a - 1 \in Nat /\ b = a + 1 + (b - a - 1)
    BY <1>1
  <2>2. (b - a - 1) * n \in Nat
    BY <2>1
  <2>3. b * n = a * n + n + (b - a - 1) * n
    BY <2>1
  <2>4. a * n \in Nat /\ b * n \in Nat
    OBVIOUS
  <2>5. QED
    BY <2>2, <2>3, <2>4
<1>2. i * n \in Nat /\ k * n \in Nat
  OBVIOUS
<1>3. ~ (i < k) /\ ~ (k < i)
  BY <1>1, <1>2
<1>4. QED
  BY <1>2, <1>3

\* The last row ends below m times n.
LEMMA LastPlace ==
  ASSUME NEW n \in Nat, NEW m \in Nat, NEW i \in 0..m-1, NEW j \in 0..n-1
  PROVE  i * n + j \in 0..n * m - 1
<1>1. m - 1 - i \in Nat /\ m = i + 1 + (m - 1 - i)
  OBVIOUS
<1>2. (m - 1 - i) * n \in Nat /\ i * n \in Nat /\ n * m \in Nat
  BY <1>1
<1>3. n * m = i * n + n + (m - 1 - i) * n
  BY <1>1
<1>4. QED
  BY <1>2, <1>3

\* What CardAssumption says of the two lists.
LEMMA Lists ==
  /\ card_ranks \in Seq(Characters) /\ Len(card_ranks) \in Nat \ {0}
  /\ card_suits \in Seq(Characters) /\ Len(card_suits) \in Nat \ {0}
  /\ cards_per_deck = Len(card_ranks) * Len(card_suits)
  /\ cards_per_deck \in Nat /\ Ten \in Ranks
  /\ Symbols \subseteq Characters
<1>1. /\ card_ranks \in Seq(Characters) /\ card_ranks # <<>>
      /\ card_suits \in Seq(Characters) /\ card_suits # <<>>
      /\ cards_per_deck = Len(card_ranks) * Len(card_suits) /\ Ten \in Ranks
  BY CardAssumption
<1>2. Len(card_ranks) \in Nat \ {0} /\ Len(card_suits) \in Nat \ {0}
  BY <1>1, EmptySeq
<1>3. cards_per_deck \in Nat
  BY <1>1, <1>2
<1>4. Symbols \subseteq Characters
  BY <1>1, RangeOfSeq DEF Symbols, Ranks, Suits
<1>5. QED
  BY <1>1, <1>2, <1>3, <1>4

\* A card has a number of the deck, and no two cards have the same one.
LEMMA CardNumbers ==
  ASSUME NEW rank \in Ranks, NEW suit \in Suits
  PROVE  /\ card_index(rank, suit) \in 0..cards_per_deck - 1
         /\ \A r \in Ranks, s \in Suits :
              card_index(r, s) = card_index(rank, suit) => r = rank /\ s = suit
<1> DEFINE n == Len(card_ranks)
           m == Len(card_suits)
<1>1. n \in Nat /\ m \in Nat /\ cards_per_deck = n * m
  BY Lists
<1>2. \A r \in Ranks : /\ find(card_ranks, r) \in 0..n-1
                       /\ card_ranks[find(card_ranks, r) + 1] = r
  BY Lists, Found DEF Ranks
<1>3. \A s \in Suits : /\ find(card_suits, s) \in 0..m-1
                       /\ card_suits[find(card_suits, s) + 1] = s
  BY Lists, Found DEF Suits
<1> HIDE DEF n, m
<1>4. card_index(rank, suit) \in 0..cards_per_deck - 1
  BY <1>1, <1>2, <1>3, LastPlace DEF card_index, n
<1>5. ASSUME NEW r \in Ranks, NEW s \in Suits,
             card_index(r, s) = card_index(rank, suit)
      PROVE  r = rank /\ s = suit
  <2> DEFINE i == find(card_suits, s)
             k == find(card_suits, suit)
             j == find(card_ranks, r)
             l == find(card_ranks, rank)
  <2>1. i \in Nat /\ k \in Nat /\ j \in 0..n-1 /\ l \in 0..n-1
    BY <1>1, <1>2, <1>3
  <2>2. i * n + j = k * n + l
    BY <1>5 DEF card_index, n
  <2> HIDE DEF i, j, k, l
  <2>3. i = k /\ j = l
    BY <1>1, <2>1, <2>2, RowAndColumn
  <2>4. QED
    BY <1>2, <1>3, <2>3 DEF i, j, k, l
<1>6. QED
  BY <1>4, <1>5

\* normalize_card returns a card of the deck or nothing.
LEMMA CardForm ==
  ASSUME NEW text
  PROVE  \/ normalize_card(text) = NoCard
         \/ \E rank \in Ranks, suit \in Suits : normalize_card(text) = <<rank, suit>>
BY DEF normalize_card, Canonical, IsCard

-------------------------------------------------------------------------------
(* The inductive invariant.                                                *)

\* The deck being read is made of different cards, all of them remembered.
DeckSoFar ==
  /\ position \in 1..cards_per_deck + 1
  /\ deck \in Seq(Symbols) /\ Len(deck) = 2 * (position - 1)
  /\ \A k \in 1..position - 1 :
       IsCard(deck[2 * k - 1], deck[2 * k]) /\ Card(deck, k) \in seen
  /\ \A j, k \in 1..position - 1 : Card(deck, j) = Card(deck, k) => j = k

\* A second shuffle is begun, and the decks are handed over, only when what was
\* read is complete.
DecksHanded ==
  /\ first_deck \in Seq(Symbols) /\ second_deck \in Seq(Symbols)
  /\ shuffle_number \in 1..deck_count
  /\ shuffle_number = 2 => ValidDeck(first_deck)
  /\ pc = "reading" => second_deck = <<>>
  /\ pc = "random" => ~use_cards_only
  /\ pc \in {"random", "mixing", "returned"} =>
       /\ position = cards_per_deck + 1 /\ shuffle_number = deck_count
       /\ IF deck_count = 1 THEN first_deck = deck /\ second_deck = <<>>
                            ELSE second_deck = deck
  /\ pc \in {"mixing", "returned"} /\ ~use_cards_only =>
       system_random \in SystemRandoms

\* What has been hashed is what was handed over.
Hashed ==
  pc = "returned" =>
    entropy = TruncatedDigest(IF use_cards_only
                              THEN CardsOnlyInput(first_deck, second_deck)
                              ELSE MixedCardsInput(first_deck, system_random),
                              byte_count)

CardInv ==
  /\ TypeOK
  /\ DeckSoFar
  /\ DecksHanded
  /\ Hashed
  /\ ReaderMeetsValidator

\* A mode reads one shuffle or two.
LEMMA DeckCount ==
  deck_count \in 1..2 /\ (deck_count = 2 <=> use_cards_only /\ byte_count = 32)
BY DEF deck_count, cards_only_deck_count

LEMMA InitCards == Init => CardInv
<1> SUFFICES ASSUME Init PROVE CardInv
  OBVIOUS
<1>1. cards_per_deck \in Nat /\ 1 \in 1..cards_per_deck + 1
  BY Lists
<1>2. <<>> \in Seq(Symbols) /\ <<>> \in Seq(Characters)
  BY EmptySeq
<1>3. TypeOK
  <2>1. position \in 1..cards_per_deck + 1 /\ shuffle_number \in 1..2
    BY <1>1 DEF Init
  <2>2. QED
    BY <1>2, <2>1 DEF Init, TypeOK
<1>4. DeckSoFar
  BY <1>1, <1>2 DEF Init, DeckSoFar
<1>5. DecksHanded
  BY <1>2, DeckCount DEF Init, DecksHanded
<1>6. QED
  BY <1>3, <1>4, <1>5 DEF Init, CardInv, Hashed, ReaderMeetsValidator

\* A complete deck is one that validate_canonical_deck accepts.
LEMMA CompleteDeck ==
  ASSUME DeckSoFar, position > cards_per_deck
  PROVE  position = cards_per_deck + 1 /\ ValidDeck(deck)
<1>1. cards_per_deck \in Nat
  BY Lists
<1>2. position = cards_per_deck + 1 /\ position - 1 = cards_per_deck
  BY <1>1 DEF DeckSoFar
<1>3. Len(deck) = canonical_deck_size
  BY <1>1, <1>2 DEF DeckSoFar, canonical_deck_size, canonical_card_size
<1>4. \A k \in 1..cards_per_deck : IsCard(deck[2 * k - 1], deck[2 * k])
  BY <1>2 DEF DeckSoFar
<1>5. ASSUME NEW j \in 1..cards_per_deck, NEW k \in 1..cards_per_deck,
             IndexOf(deck, j) = IndexOf(deck, k)
      PROVE  j = k
  <2>1. IsCard(deck[2 * j - 1], deck[2 * j]) /\ IsCard(deck[2 * k - 1], deck[2 * k])
    BY <1>4
  <2>2. deck[2 * j - 1] = deck[2 * k - 1] /\ deck[2 * j] = deck[2 * k]
    BY <1>5, <2>1, CardNumbers DEF IndexOf, IsCard
  <2>3. Card(deck, j) = Card(deck, k)
    BY <2>2 DEF Card
  <2>4. QED
    BY <1>2, <2>3 DEF DeckSoFar
<1>6. QED
  BY <1>2, <1>3, <1>4, <1>5 DEF ValidDeck

\* A card that was not seen makes the deck longer by itself.
LEMMA CardAdded ==
  ASSUME DeckSoFar, Asking,
         NEW rank \in Ranks, NEW suit \in Suits, AcceptCard(<<rank, suit>>)
  PROVE  /\ deck' \in Seq(Symbols) /\ Len(deck') = 2 * position
         /\ \A i \in 1..2 * (position - 1) : deck'[i] = deck[i]
         /\ deck'[2 * position - 1] = rank /\ deck'[2 * position] = suit
<1>1. <<rank, suit>> \in Seq(Symbols) /\ Len(<<rank, suit>>) = 2
  BY DEF Symbols
<1>2. deck \in Seq(Symbols) /\ Len(deck) = 2 * (position - 1) /\ position \in Nat
  BY Lists DEF DeckSoFar
<1>3. deck \o <<rank, suit>> \in Seq(Symbols \cup Symbols)
      /\ Joins(deck \o <<rank, suit>>, deck, <<rank, suit>>)
  BY <1>1, <1>2, Concatenation
<1>4. deck' = deck \o <<rank, suit>>
  BY DEF AcceptCard
<1>5. /\ deck'[Len(deck) + 1] = rank /\ deck'[Len(deck) + 2] = suit
      /\ Len(deck') = Len(deck) + 2
      /\ \A i \in 1..Len(deck) : deck'[i] = deck[i]
  BY <1>1, <1>3, <1>4 DEF Joins
<1>6. Len(deck) + 1 = 2 * position - 1 /\ Len(deck) + 2 = 2 * position
  BY <1>2
<1>7. deck' \in Seq(Symbols)
  BY <1>3, <1>4
<1>8. QED
  BY <1>2, <1>5, <1>6, <1>7

\* Accepting a card keeps the invariant.
LEMMA CardAccepted ==
  ASSUME CardInv, NEW rank \in Ranks, NEW suit \in Suits,
         AcceptCard(<<rank, suit>>)
  PROVE  CardInv'
<1> DEFINE card == <<rank, suit>>
<1>1. /\ DeckSoFar /\ Asking /\ card \notin seen /\ pc = "reading"
      /\ position \in Nat \ {0} /\ position <= cards_per_deck
      /\ cards_per_deck \in Nat
  BY Lists DEF CardInv, AcceptCard, Asking, NewCard, DeckSoFar
<1>2. /\ deck' \in Seq(Symbols) /\ Len(deck') = 2 * position
      /\ \A i \in 1..2 * (position - 1) : deck'[i] = deck[i]
      /\ deck'[2 * position - 1] = rank /\ deck'[2 * position] = suit
  BY <1>1, CardAdded
<1>3. position' = position + 1 /\ seen' = seen \cup {card}
  BY DEF AcceptCard
<1>4. \A k \in 1..position - 1 : 2 * k - 1 \in 1..2 * (position - 1)
                              /\ 2 * k \in 1..2 * (position - 1)
  BY <1>1
<1>5. \A k \in 1..position - 1 : /\ deck'[2 * k - 1] = deck[2 * k - 1]
                                 /\ deck'[2 * k] = deck[2 * k]
  BY <1>2, <1>4
<1>6. Card(deck', position) = card /\ IsCard(rank, suit)
  BY <1>2 DEF Card, IsCard
<1>7. \A k \in 1..position - 1 : Card(deck', k) = Card(deck, k)
  BY <1>5 DEF Card
<1>8. \A k \in 1..position : k = position \/ k \in 1..position - 1
  BY <1>1
<1>9. DeckSoFar'
  <2>1. position' \in 1..cards_per_deck + 1 /\ position' - 1 = position
    BY <1>1, <1>3
  <2>2. \A k \in 1..position : /\ IsCard(deck'[2 * k - 1], deck'[2 * k])
                               /\ Card(deck', k) \in seen'
    BY <1>1, <1>2, <1>3, <1>5, <1>6, <1>7, <1>8 DEF DeckSoFar
  <2>3. \A k \in 1..position - 1 : Card(deck', k) # card
    BY <1>1, <1>7 DEF DeckSoFar
  <2>4. \A j, k \in 1..position : Card(deck', j) = Card(deck', k) => j = k
    BY <1>1, <1>6, <1>7, <1>8, <2>3 DEF DeckSoFar
  <2>5. QED
    BY <1>2, <2>1, <2>2, <2>4 DEF DeckSoFar
<1>10. TypeOK'
  <2>1. deck' \in Seq(Characters)
    BY <1>2, Lists, SeqMonotonic
  <2>2. seen' \in SUBSET (Ranks \X Suits)
    BY <1>3 DEF CardInv, TypeOK
  <2>3. position' \in 1..cards_per_deck + 1
    BY <1>1, <1>3
  <2>4. QED
    BY <2>1, <2>2, <2>3 DEF CardInv, TypeOK, AcceptCard, modeVars, deckVars
<1>11. DecksHanded' /\ Hashed' /\ ReaderMeetsValidator'
  BY <1>1 DEF CardInv, DecksHanded, Hashed, ReaderMeetsValidator, AcceptCard,
              modeVars, deckVars, deck_count
<1>12. QED
  BY <1>9, <1>10, <1>11 DEF CardInv

\* Handing a complete deck over keeps the invariant.
LEMMA DeckHanded ==
  ASSUME CardInv, DeckRead
  PROVE  CardInv'
<1> USE DEF CardInv
<1>1. /\ cards_per_deck \in Nat /\ pc = "reading"
      /\ position = cards_per_deck + 1 /\ ValidDeck(deck)
  BY Lists, CompleteDeck DEF DeckRead
<1>2. /\ deck \in Seq(Symbols) /\ deck \in Seq(Characters)
      /\ <<>> \in Seq(Symbols) /\ <<>> \in Seq(Characters)
  BY EmptySeq, Lists, SeqMonotonic DEF DeckSoFar
<1>3. UNCHANGED <<modeVars, system_random, entropy, error, repeated>>
  BY DEF DeckRead
<1>4. deck_count' = deck_count
  BY <1>3 DEF modeVars, deck_count
<1>5. CASE shuffle_number < deck_count
  <2>1. shuffle_number = 1 /\ deck_count = 2
    BY <1>5, DeckCount DEF TypeOK
  <2>2. /\ first_deck' = deck /\ second_deck' = second_deck
        /\ shuffle_number' = 2 /\ position' = 1 /\ deck' = <<>> /\ seen' = {}
        /\ pc' = pc
    BY <1>5, <2>1 DEF DeckRead, SeenBefore
  <2>3. DeckSoFar'
    BY <1>1, <1>2, <2>2 DEF DeckSoFar
  <2>4. TypeOK'
    BY <1>1, <1>2, <1>3, <2>2 DEF TypeOK, modeVars
  <2>5. DecksHanded'
    BY <1>1, <1>2, <1>3, <1>4, <2>1, <2>2 DEF DecksHanded
  <2>6. QED
    BY <1>1, <1>3, <2>2, <2>3, <2>4, <2>5 DEF Hashed, ReaderMeetsValidator
<1>6. CASE ~ (shuffle_number < deck_count)
  <2>1. shuffle_number = deck_count /\ deck_count \in 1..2
    BY <1>6, DeckCount DEF DecksHanded
  <2>2. /\ pc' = IF use_cards_only THEN "mixing" ELSE "random"
        /\ UNCHANGED readVars
    BY <1>6 DEF DeckRead
  <2>3. IF shuffle_number = 1
        THEN first_deck' = deck /\ second_deck' = second_deck
        ELSE second_deck' = deck /\ first_deck' = first_deck
    BY DEF DeckRead
  <2>4. DeckSoFar'
    BY <2>2 DEF DeckSoFar, readVars
  <2>5. TypeOK'
    BY <1>2, <1>3, <2>2, <2>3 DEF TypeOK, modeVars, readVars
  <2>6. DecksHanded'
    BY <1>1, <1>2, <1>3, <1>4, <2>1, <2>2, <2>3
       DEF DecksHanded, modeVars, readVars
  <2>7. QED
    BY <1>3, <2>2, <2>4, <2>5, <2>6 DEF Hashed, ReaderMeetsValidator
<1>7. QED
  BY <1>5, <1>6

\* What is handed over are complete decks, one or two of them.
LEMMA HandedDecks ==
  ASSUME CardInv, pc \in {"random", "mixing", "returned"}
  PROVE  /\ position > cards_per_deck /\ ValidDeck(deck) /\ ValidDeck(first_deck)
         /\ IF deck_count = 1 THEN second_deck = <<>> ELSE ValidDeck(second_deck)
<1>1. position = cards_per_deck + 1 /\ cards_per_deck \in Nat
  BY Lists DEF CardInv, DecksHanded
<1>2. position > cards_per_deck
  BY <1>1
<1>3. ValidDeck(deck)
  BY <1>2, CompleteDeck DEF CardInv
<1>4. CASE deck_count = 1
  BY <1>2, <1>3, <1>4 DEF CardInv, DecksHanded
<1>5. CASE deck_count = 2
  BY <1>2, <1>3, <1>5 DEF CardInv, DecksHanded
<1>6. QED
  BY <1>4, <1>5, DeckCount

\* The validator accepts what was read; only --cards-only can still refuse it,
\* for the same shuffle twice.
LEMMA ValidatorAccepts ==
  ASSUME CardInv, pc = "mixing"
  PROVE  /\ ~use_cards_only => AcceptsMixedCards(first_deck, system_random)
         /\ use_cards_only =>
              \/ AcceptsCardsOnly(first_deck, second_deck, byte_count)
              \/ ValidDeck(first_deck) /\ first_deck = second_deck
<1>1. ValidDeck(first_deck)
      /\ IF deck_count = 1 THEN second_deck = <<>> ELSE ValidDeck(second_deck)
  BY HandedDecks
<1>2. ASSUME ~use_cards_only
      PROVE  AcceptsMixedCards(first_deck, system_random)
  BY <1>1, <1>2, TextAssumption DEF CardInv, DecksHanded, AcceptsMixedCards
<1>3. ASSUME use_cards_only
      PROVE  \/ AcceptsCardsOnly(first_deck, second_deck, byte_count)
             \/ first_deck = second_deck
  BY <1>1, <1>3 DEF deck_count, AcceptsCardsOnly, Reshuffled
<1>4. QED
  BY <1>1, <1>2, <1>3

\* Steps that leave the deck and what was handed over alone.
LEMMA DecksStay ==
  ASSUME CardInv, UNCHANGED <<modeVars, readVars, deckVars>>
  PROVE  DeckSoFar' /\ deck_count' = deck_count
BY DEF CardInv, DeckSoFar, modeVars, readVars, deckVars, deck_count

LEMMA Mixed ==
  ASSUME CardInv, MixCards
  PROVE  CardInv'
<1> USE DEF CardInv
<1>1. /\ pc = "mixing" /\ ~use_cards_only
      /\ AcceptsMixedCards(first_deck, system_random)
  BY ValidatorAccepts DEF MixCards
<1>2. /\ pc' = "returned" /\ error' = error
      /\ entropy' = TruncatedDigest(MixedCardsInput(first_deck, system_random),
                                    byte_count)
      /\ UNCHANGED <<modeVars, readVars, deckVars, system_random, repeated>>
  BY <1>1 DEF MixCards
<1>3. DeckSoFar' /\ deck_count' = deck_count
  BY <1>2, DecksStay
<1>4. TypeOK'
  BY <1>2 DEF TypeOK, modeVars, readVars, deckVars
<1>5. DecksHanded'
  BY <1>1, <1>2, <1>3 DEF DecksHanded, modeVars, readVars, deckVars
<1>6. Hashed' /\ ReaderMeetsValidator'
  BY <1>1, <1>2 DEF Hashed, ReaderMeetsValidator, modeVars, deckVars
<1>7. QED
  BY <1>3, <1>4, <1>5, <1>6

LEMMA CardsMixed ==
  ASSUME CardInv, CardsOnly
  PROVE  CardInv'
<1> USE DEF CardInv
<1>1. /\ pc = "mixing" /\ use_cards_only
      /\ \/ AcceptsCardsOnly(first_deck, second_deck, byte_count)
         \/ ValidDeck(first_deck) /\ first_deck = second_deck
  BY ValidatorAccepts DEF CardsOnly
<1>2. UNCHANGED <<modeVars, readVars, deckVars, system_random, repeated>>
  BY DEF CardsOnly
<1>3. DeckSoFar' /\ deck_count' = deck_count
  BY <1>2, DecksStay
<1>4. \/ /\ pc' = "returned" /\ error' = error
         /\ entropy' = TruncatedDigest(CardsOnlyInput(first_deck, second_deck),
                                       byte_count)
      \/ pc' = "threw" /\ error' = "SameShuffle"
  BY <1>1 DEF CardsOnly, Throw
<1>5. TypeOK'
  BY <1>2, <1>4 DEF TypeOK, Errors, modeVars, readVars, deckVars
<1>6. DecksHanded'
  BY <1>1, <1>2, <1>3, <1>4 DEF DecksHanded, modeVars, readVars, deckVars
<1>7. Hashed' /\ ReaderMeetsValidator'
  BY <1>1, <1>2, <1>4 DEF Hashed, ReaderMeetsValidator, modeVars, deckVars
<1>8. QED
  BY <1>3, <1>5, <1>6, <1>7

\* Every step keeps the invariant.
LEMMA StepCards ==
  ASSUME CardInv, [Next]_vars
  PROVE  CardInv'
<1>1. CASE ReadCard
  <2>1. PICK text \in Texts : \/ AcceptCard(normalize_card(text))
                              \/ RefuseCard(normalize_card(text))
    BY <1>1 DEF ReadCard
  <2>2. CASE AcceptCard(normalize_card(text))
    <3>1. normalize_card(text) # NoCard
      BY <2>2 DEF AcceptCard, NewCard
    <3>2. PICK rank \in Ranks, suit \in Suits :
            normalize_card(text) = <<rank, suit>>
      BY <3>1, CardForm
    <3>3. QED
      BY <2>2, <3>2, CardAccepted
  <2>3. CASE RefuseCard(normalize_card(text))
    <3>1. UNCHANGED <<modeVars, readVars, deckVars, pc, system_random, entropy,
                      error>> /\ repeated' = TRUE
      BY <2>3 DEF RefuseCard
    <3>2. DeckSoFar' /\ deck_count' = deck_count
      BY <3>1, DecksStay
    <3>3. QED
      BY <3>1, <3>2 DEF CardInv, TypeOK, DecksHanded, Hashed,
                        ReaderMeetsValidator, modeVars, readVars, deckVars
  <2>4. QED
    BY <2>1, <2>2, <2>3
<1>2. CASE InputEnds \/ RandomFails \/ DigestFails
  <2>1. /\ pc' = "threw"
        /\ error' \in {"InputEnded", "RandomFailed", "DigestFailed"}
        /\ UNCHANGED <<modeVars, readVars, deckVars, system_random, entropy,
                       repeated>>
    BY <1>2 DEF InputEnds, RandomFails, DigestFails, Throw
  <2>2. DeckSoFar' /\ deck_count' = deck_count
    BY <2>1, DecksStay
  <2>3. TypeOK'
    BY <2>1 DEF CardInv, TypeOK, Errors, modeVars, readVars, deckVars
  <2>4. DecksHanded' /\ Hashed' /\ ReaderMeetsValidator'
    BY <2>1, <2>2 DEF CardInv, DecksHanded, Hashed, ReaderMeetsValidator,
                      modeVars, readVars, deckVars
  <2>5. QED
    BY <2>2, <2>3, <2>4 DEF CardInv
<1>3. CASE DeckRead
  BY <1>3, DeckHanded
<1>4. CASE GenerateSystemEntropy
  <2>1. /\ pc = "random" /\ pc' = "mixing" /\ system_random' \in SystemRandoms
        /\ UNCHANGED <<modeVars, readVars, deckVars, entropy, error, repeated>>
    BY <1>4 DEF GenerateSystemEntropy
  <2>2. DeckSoFar' /\ deck_count' = deck_count
    BY <2>1, DecksStay
  <2>3. TypeOK'
    BY <2>1 DEF CardInv, TypeOK, modeVars, readVars, deckVars
  <2>4. DecksHanded' /\ Hashed' /\ ReaderMeetsValidator'
    BY <2>1, <2>2 DEF CardInv, DecksHanded, Hashed, ReaderMeetsValidator,
                      modeVars, readVars, deckVars
  <2>5. QED
    BY <2>2, <2>3, <2>4 DEF CardInv
<1>5. CASE MixCards
  BY <1>5, Mixed
<1>6. CASE CardsOnly
  BY <1>6, CardsMixed
<1>7. CASE UNCHANGED vars
  <2>1. DeckSoFar' /\ deck_count' = deck_count
    BY <1>7, DecksStay DEF vars
  <2>2. QED
    BY <1>7, <2>1 DEF CardInv, TypeOK, DecksHanded, Hashed, vars,
                      ReaderMeetsValidator, modeVars, readVars, deckVars
<1>8. QED
  BY <1>1, <1>2, <1>3, <1>4, <1>5, <1>6, <1>7 DEF Next, Terminated

LEMMA CardInvariant == Spec => []CardInv
<1>1. Init => CardInv
  BY InitCards
<1>2. CardInv /\ [Next]_vars => CardInv'
  BY StepCards
<1>3. QED
  BY <1>1, <1>2, PTL DEF Spec

\* Every variable of the card entry keeps its type; a deck never has more cards
\* than there are.
THEOREM CardsTypeCorrect == Spec => []TypeOK
BY CardInvariant, PTL DEF CardInv

\* read_card_deck never returns a deck that validate_canonical_deck refuses,
\* whatever was refused and typed again before.
THEOREM ValidatorNeverRefuses == Spec => []ReaderMeetsValidator
BY CardInvariant, PTL DEF CardInv

-------------------------------------------------------------------------------
(* The cards that are left.                                                *)

\* A list of different characters has as many characters as places.
LEMMA ListSize ==
  ASSUME NEW S, NEW list \in Seq(S),
         \A i, j \in DOMAIN list : list[i] = list[j] => i = j
  PROVE  /\ IsFiniteSet(Range(list))
         /\ Cardinality(Range(list)) = Len(list)
<1>1. DOMAIN list = 1..Len(list) /\ Len(list) \in Nat
  BY LenProperties
<1>2. list \in [1..Len(list) -> Range(list)]
  BY <1>1, LenProperties DEF Range
<1>3. \A c \in Range(list) : \E i \in 1..Len(list) : list[i] = c
  BY <1>1 DEF Range
<1>4. list \in Bijection(1..Len(list), Range(list))
  BY <1>1, <1>2, <1>3 DEF Bijection, Injection, Surjection, IsInjective
<1>5. ExistsBijection(1..Len(list), Range(list))
  BY <1>4 DEF ExistsBijection
<1>6. IsFiniteSet(1..Len(list)) /\ Cardinality(1..Len(list)) = Len(list)
  BY <1>1, FS_Interval
<1>7. QED
  BY <1>5, <1>6, FS_Bijection

\* There are as many cards as places in a deck.
LEMMA DeckSize ==
  /\ IsFiniteSet(Ranks \X Suits)
  /\ Cardinality(Ranks \X Suits) = cards_per_deck
<1>1. IsFiniteSet(Ranks) /\ Cardinality(Ranks) = Len(card_ranks)
  BY Lists, ListSize, CardAssumption DEF Ranks
<1>2. IsFiniteSet(Suits) /\ Cardinality(Suits) = Len(card_suits)
  BY Lists, ListSize, CardAssumption DEF Suits
<1>3. QED
  BY <1>1, <1>2, Lists, FS_Product

\* The cards seen are as many as the positions that are filled.
SeenCounted ==
  IsFiniteSet(seen) /\ Cardinality(seen) + 1 = position

LEMMA StepSeen ==
  ASSUME CardInv, SeenCounted, [Next]_vars
  PROVE  SeenCounted'
<1> USE DEF SeenCounted
<1>1. ASSUME NEW text \in Texts, AcceptCard(normalize_card(text))
      PROVE  SeenCounted'
  <2> DEFINE card == normalize_card(text)
  <2>1. card \notin seen /\ seen' = seen \cup {card} /\ position' = position + 1
    BY <1>1 DEF AcceptCard, NewCard
  <2> HIDE DEF card
  <2>2. IsFiniteSet(seen') /\ Cardinality(seen') = Cardinality(seen) + 1
    BY <2>1, FS_AddElement
  <2>3. QED
    BY <2>1, <2>2
<1>2. ASSUME NEW text \in Texts, RefuseCard(normalize_card(text))
      PROVE  SeenCounted'
  BY <1>2 DEF RefuseCard, readVars
<1>3. CASE ReadCard
  BY <1>1, <1>2, <1>3 DEF ReadCard
<1>4. CASE InputEnds
  BY <1>4 DEF InputEnds, readVars
<1>5. CASE DeckRead
  <2>1. CASE shuffle_number < deck_count
    <3>1. seen' = {} /\ position' = 1
      BY <1>5, <2>1 DEF DeckRead, SeenBefore
    <3>2. QED
      BY <3>1, FS_EmptySet
  <2>2. CASE ~ (shuffle_number < deck_count)
    BY <1>5, <2>2 DEF DeckRead, readVars
  <2>3. QED
    BY <2>1, <2>2
<1>6. CASE GenerateSystemEntropy
  BY <1>6 DEF GenerateSystemEntropy, readVars
<1>7. CASE RandomFails \/ DigestFails
  BY <1>7 DEF RandomFails, DigestFails, readVars
<1>8. CASE MixCards
  BY <1>8 DEF MixCards, readVars
<1>9. CASE CardsOnly
  BY <1>9 DEF CardsOnly, readVars
<1>10. CASE UNCHANGED vars
  BY <1>10 DEF vars, readVars
<1>11. QED
  BY <1>3, <1>4, <1>5, <1>6, <1>7, <1>8, <1>9, <1>10 DEF Next, Terminated

LEMMA SeenInvariant == Spec => []SeenCounted
<1>1. Init => SeenCounted
  BY FS_EmptySet DEF Init, SeenCounted
<1>2. CardInv /\ SeenCounted /\ [Next]_vars => SeenCounted'
  BY StepSeen
<1>3. QED
  BY <1>1, <1>2, CardInvariant, PTL DEF Spec

\* Whatever was refused, and in a second shuffle as in the first, exactly as
\* many cards are left as positions are still asked for.
THEOREM CardsRemain == Spec => []CardsLeft
<1>1. CardInv /\ SeenCounted => CardsLeft
  <2> SUFFICES ASSUME CardInv, SeenCounted
               PROVE  Cardinality((Ranks \X Suits) \ seen)
                        = cards_per_deck + 1 - position
    BY DEF CardsLeft
  <2>1. (Ranks \X Suits) \cap seen = seen
    BY DEF CardInv, TypeOK
  <2> DEFINE all == Ranks \X Suits
  <2>2. Cardinality(all \ seen) = cards_per_deck - Cardinality(seen)
    <3>1. /\ IsFiniteSet(all) /\ Cardinality(all) = cards_per_deck
          /\ all \cap seen = seen
      BY <2>1, DeckSize
    <3> HIDE DEF all
    <3>2. Cardinality(all \ seen) = Cardinality(all) - Cardinality(all \cap seen)
      BY <3>1, FS_Difference, Zenon
    <3>3. QED
      BY <3>1, <3>2, Zenon
  <2>3. Cardinality(seen) \in Nat /\ Cardinality(seen) + 1 = position
    BY FS_CardinalityType DEF SeenCounted
  <2>4. QED
    BY <2>2, <2>3, Lists
<1>2. QED
  BY <1>1, CardInvariant, SeenInvariant, PTL

\* A card written in its canonical form is read as this card.
LEMMA CanonicalRead ==
  ASSUME NEW rank \in Ranks, NEW suit \in Suits
  PROVE  normalize_card(<<rank, suit>>) = <<rank, suit>>
<1> DEFINE text == <<rank, suit>>
           kept == {i \in DOMAIN text : text[i] \notin Space}
           from == CHOOSE i \in kept : \A j \in kept : i <= j
           to   == CHOOSE i \in kept : \A j \in kept : i >= j
<1>1. /\ Lowercase[rank] = rank /\ rank \notin Space
      /\ Lowercase[suit] = suit /\ suit \notin Space
  BY CardAssumption
<1>2. kept = {1, 2}
  BY <1>1
<1>3. trim_ascii_space(text)
        = IF kept = {} THEN <<>> ELSE SubSeq(text, from, to)
  BY DEF trim_ascii_space
<1>4. text \in Seq({rank, suit}) /\ Len(text) = 2
      /\ text[1] = rank /\ text[2] = suit
  OBVIOUS
<1> HIDE DEF text, kept
<1>5. from = 1
  <2>1. 1 \in kept /\ \A j \in kept : 1 <= j
    BY <1>2
  <2>2. from \in kept /\ \A j \in kept : from <= j
    BY <2>1
  <2> HIDE DEF from
  <2>3. QED
    BY <1>2, <2>1, <2>2
<1>6. to = 2
  <2>1. 2 \in kept /\ \A j \in kept : 2 >= j
    BY <1>2
  <2>2. to \in kept /\ \A j \in kept : to >= j
    BY <2>1
  <2> HIDE DEF to
  <2>3. QED
    BY <1>2, <2>1, <2>2
<1> HIDE DEF from, to
<1>7. SubSeq(text, 1, 2) = text
  BY <1>4, SubSeqFull
<1>8. trim_ascii_space(text) = text
  <2>1. kept # {}
    BY <1>2
  <2>2. QED
    BY <1>3, <1>5, <1>6, <1>7, <2>1, Zenon
<1>9. normalize_card(text) = Canonical(rank, suit)
  BY <1>1, <1>4, <1>8 DEF normalize_card
<1>10. QED
  BY <1>9 DEF Canonical, IsCard, text

\* While a card is asked for there is a text that would be accepted, as long as
\* users can type the canonical form of every card: no line that was refused,
\* and no first shuffle, ever leaves a position that nothing can fill.  This is
\* what lets EntryEnds hold under the fairness of FairSpec.
THEOREM FreshCardExists ==
  ASSUME \A rank \in Ranks, suit \in Suits : <<rank, suit>> \in Texts
  PROVE  Spec => [](Asking => \E text \in Texts : NewCard(normalize_card(text)))
<1>1. CardInv /\ CardsLeft
        => (Asking => \E text \in Texts : NewCard(normalize_card(text)))
  <2> SUFFICES ASSUME CardInv, CardsLeft, Asking
               PROVE  \E text \in Texts : NewCard(normalize_card(text))
    OBVIOUS
  <2> DEFINE left == (Ranks \X Suits) \ seen
  <2>1. Cardinality(left) # 0
    <3>1. /\ Cardinality(left) = cards_per_deck + 1 - position
          /\ position <= cards_per_deck /\ position \in Nat
      BY Lists DEF CardsLeft, Asking, CardInv, TypeOK
    <3>2. QED
      BY <3>1, Lists
  <2>2. left # {}
    BY <2>1, FS_EmptySet
  <2>3. PICK rank \in Ranks, suit \in Suits : <<rank, suit>> \notin seen
    BY <2>2
  <2>4. normalize_card(<<rank, suit>>) = <<rank, suit>>
    BY CanonicalRead
  <2>5. NewCard(<<rank, suit>>)
    BY <2>3 DEF NewCard, NoCard
  <2>6. QED
    BY <2>4, <2>5
<1>2. QED
  BY <1>1, CardInvariant, CardsRemain, PTL

-------------------------------------------------------------------------------
(* What was hashed determines its source.                                  *)

\* A deal is as long as a deck.
LEMMA DealText ==
  ASSUME NEW d \in Deals
  PROVE  d \in Seq(Symbols) /\ Len(d) = canonical_deck_size
<1>1. PICK cards \in Injection(1..cards_per_deck, Ranks \X Suits) :
        d = [i \in 1..canonical_deck_size |-> cards[(i + 1) \div 2][2 - (i % 2)]]
  BY DEF Deals
<1>2. cards_per_deck \in Nat /\ canonical_deck_size = 2 * cards_per_deck
  BY Lists DEF canonical_deck_size, canonical_card_size
<1>3. cards \in [1..cards_per_deck -> Ranks \X Suits]
  BY <1>1 DEF Injection
<1>4. ASSUME NEW i \in 1..canonical_deck_size
      PROVE  cards[(i + 1) \div 2][2 - (i % 2)] \in Symbols
  <2>1. (i + 1) \div 2 \in 1..cards_per_deck
    BY <1>2
  <2>2. cards[(i + 1) \div 2] \in Ranks \X Suits
    BY <1>3, <2>1
  <2>3. 2 - (i % 2) = 1 \/ 2 - (i % 2) = 2
    OBVIOUS
  <2>4. \A pair \in Ranks \X Suits : pair[1] \in Symbols /\ pair[2] \in Symbols
    BY DEF Symbols
  <2>5. QED
    BY <2>2, <2>3, <2>4
<1>5. d \in [1..canonical_deck_size -> Symbols]
  BY <1>1, <1>4
<1>6. canonical_deck_size \in Nat
  BY <1>2
<1>7. d \in Seq(Symbols)
  BY <1>5, <1>6, SeqDef
<1>8. QED
  BY <1>5, <1>6, <1>7, LenProperties

\* Inputs of different modes differ.
LEMMA CardModesApart ==
  ASSUME NEW C, NEW d \in Seq(C), NEW f \in Seq(C), NEW e \in Seq(C),
         NEW X, NEW r \in Seq(X)
  PROVE  MixedCardsInput(d, r) # CardsOnlyInput(f, e)
<1>1. /\ Begins(MixedCardsInput(d, r), mixed_cards_domain)
      /\ Begins(CardsOnlyInput(f, e), cards_only_domain)
  BY CardsBegin
<1>2. Apart(mixed_cards_domain, cards_only_domain)
  BY DomainStrings
<1>3. QED
  BY <1>1, <1>2 DEF Begins, Apart

\* No other decks, other randomness or other mode gives the string hashed.
THEOREM SourceDetermined == Spec => []HashDeterminesSource
<1>1. CardInv => HashDeterminesSource
  <2> SUFFICES ASSUME CardInv, pc = "returned", NEW d \in Deals
               PROVE  /\ \A r \in SystemRandoms :
                           MixedCardsInput(d, r) = entropy.digest =>
                             ~use_cards_only /\ d = first_deck /\ r = system_random
                      /\ \A e \in Deals \cup {<<>>} :
                           CardsOnlyInput(d, e) = entropy.digest =>
                             use_cards_only /\ d = first_deck /\ e = second_deck
    BY DEF HashDeterminesSource
  <2>1. d \in Seq(Symbols) /\ Len(d) = canonical_deck_size
    BY DealText
  <2>2. /\ first_deck \in Seq(Symbols) /\ second_deck \in Seq(Symbols)
        /\ Len(first_deck) = canonical_deck_size
    BY HandedDecks DEF CardInv, DecksHanded, ValidDeck
  <2>3. entropy.digest = IF use_cards_only
                         THEN CardsOnlyInput(first_deck, second_deck)
                         ELSE MixedCardsInput(first_deck, system_random)
    BY DEF CardInv, Hashed, TruncatedDigest
  <2>4. \A e \in Deals \cup {<<>>} : e \in Seq(Symbols)
    BY DealText, EmptySeq
  <2>5. \A r \in SystemRandoms : r \in Seq(Range(r))
    BY TextAssumption
  <2>6. /\ mixed_cards_domain \in Seq(Range(mixed_cards_domain))
        /\ cards_only_domain \in Seq(Range(cards_only_domain))
    BY DomainStrings
  <2>7. ASSUME NEW r \in SystemRandoms, MixedCardsInput(d, r) = entropy.digest
        PROVE  ~use_cards_only /\ d = first_deck /\ r = system_random
    <3>1. ~use_cards_only
      BY <2>1, <2>2, <2>3, <2>5, <2>7, CardModesApart
    <3>2. system_random \in SystemRandoms
      BY <3>1 DEF CardInv, DecksHanded
    <3> DEFINE U == Range(r) \cup Range(system_random)
    <3>3. r \in Seq(U) /\ system_random \in Seq(U)
      BY <2>5, <3>2, SeqMonotonic
    <3> HIDE DEF U
    <3>4. mixed_cards_domain \o d \o r
            = mixed_cards_domain \o first_deck \o system_random
      BY <2>3, <2>7, <3>1 DEF MixedCardsInput
    <3>5. SameRest(mixed_cards_domain, d, r, first_deck, system_random)
      BY <2>1, <2>2, <2>6, <3>3, ThirdPart
    <3>6. QED
      BY <3>1, <3>4, <3>5 DEF SameRest
  <2>8. ASSUME NEW e \in Deals \cup {<<>>}, CardsOnlyInput(d, e) = entropy.digest
        PROVE  use_cards_only /\ d = first_deck /\ e = second_deck
    <3>1. use_cards_only
      <4>1. SUFFICES ASSUME ~use_cards_only PROVE FALSE
        OBVIOUS
      <4>2. system_random \in SystemRandoms
        BY <4>1 DEF CardInv, DecksHanded
      <4>3. CardsOnlyInput(d, e) = MixedCardsInput(first_deck, system_random)
        BY <2>3, <2>8, <4>1
      <4>4. QED
        BY <2>1, <2>2, <2>4, <2>5, <4>2, <4>3, CardModesApart
    <3>2. cards_only_domain \o d \o e
            = cards_only_domain \o first_deck \o second_deck
      BY <2>3, <2>8, <3>1 DEF CardsOnlyInput
    <3>3. SameRest(cards_only_domain, d, e, first_deck, second_deck)
      BY <2>1, <2>2, <2>4, <2>6, ThirdPart
    <3>4. QED
      BY <3>1, <3>2, <3>3 DEF SameRest
  <2>9. QED
    BY <2>7, <2>8
<1>2. QED
  BY <1>1, CardInvariant, PTL

-------------------------------------------------------------------------------
(* Entering cards implements DeckPromise.                                  *)

Numbers == 0..cards_per_deck - 1

\* The numbers of the cards of a text made of cards.
LEMMA OrderOf ==
  ASSUME NEW d, NEW n \in Nat, Len(d) = 2 * n,
         \A k \in 1..n : IsCard(d[2 * k - 1], d[2 * k])
  PROVE  /\ Order(d) \in Seq(Numbers) /\ Len(Order(d)) = n
         /\ \A k \in 1..n : Order(d)[k] = IndexOf(d, k)
<1>1. (2 * n) \div 2 = n
  OBVIOUS
<1>2. Order(d) = [k \in 1..n |-> IndexOf(d, k)]
  BY <1>1 DEF Order
<1>3. \A k \in 1..n : IndexOf(d, k) \in Numbers
  BY CardNumbers DEF IndexOf, IsCard, Numbers
<1>4. Order(d) \in [1..n -> Numbers]
  BY <1>2, <1>3
<1>5. Order(d) \in Seq(Numbers)
  BY <1>4, SeqDef
<1>6. Len(Order(d)) = n
  BY <1>4, <1>5, LenProperties
<1>7. QED
  BY <1>2, <1>5, <1>6

\* The empty text is the empty ordering.
LEMMA NoCardsYet == Order(<<>>) = <<>>
<1>1. Order(<<>>) \in Seq(Numbers) /\ Len(Order(<<>>)) = 0
  <2>1. Len(<<>>) = 2 * 0 /\ \A k \in 1..0 : IsCard(<<>>[2 * k - 1], <<>>[2 * k])
    OBVIOUS
  <2>2. QED
    BY <2>1, OrderOf
<1>2. QED
  BY <1>1, EmptySeq

\* The numbers of a valid deck.
LEMMA OrderOfDeck ==
  ASSUME NEW d, ValidDeck(d)
  PROVE  /\ Order(d) \in Seq(Numbers) /\ Len(Order(d)) = cards_per_deck
         /\ \A k \in 1..cards_per_deck : Order(d)[k] = IndexOf(d, k)
<1>1. cards_per_deck \in Nat /\ Len(d) = 2 * cards_per_deck
  BY Lists DEF ValidDeck, canonical_deck_size, canonical_card_size
<1>2. QED
  BY <1>1, OrderOf DEF ValidDeck

\* Different decks are different orderings.
LEMMA OrderDetermines ==
  ASSUME NEW d \in Seq(Symbols), NEW e \in Seq(Symbols),
         ValidDeck(d), ValidDeck(e), Order(d) = Order(e)
  PROVE  d = e
<1>1. cards_per_deck \in Nat /\ Len(d) = 2 * cards_per_deck
      /\ Len(e) = 2 * cards_per_deck
  BY Lists DEF ValidDeck, canonical_deck_size, canonical_card_size
<1>2. ASSUME NEW k \in 1..cards_per_deck
      PROVE  d[2 * k - 1] = e[2 * k - 1] /\ d[2 * k] = e[2 * k]
  <2>1. IndexOf(d, k) = IndexOf(e, k)
    BY OrderOfDeck
  <2>2. IsCard(d[2 * k - 1], d[2 * k]) /\ IsCard(e[2 * k - 1], e[2 * k])
    BY DEF ValidDeck
  <2>3. QED
    BY <2>1, <2>2, CardNumbers DEF IndexOf, IsCard
<1>3. ASSUME NEW i \in 1..Len(d)
      PROVE  d[i] = e[i]
  <2> DEFINE k == (i + 1) \div 2
  <2>1. k \in 1..cards_per_deck /\ (i = 2 * k - 1 \/ i = 2 * k)
    BY <1>1
  <2> HIDE DEF k
  <2>2. QED
    BY <1>2, <2>1
<1>4. QED
  BY <1>1, <1>3, SeqEqual

\* The ordering entered last is the one of the deck being read.
LEMMA CurrentOrder ==
  ASSUME shuffle_number \in 1..2
  PROVE  /\ Len(Orders) = shuffle_number /\ DOMAIN Orders = 1..shuffle_number
         /\ Orders[Len(Orders)] = Order(deck)
         /\ \A x : [Orders EXCEPT ![Len(Orders)] = x]
                     = IF shuffle_number = 1 THEN <<x>>
                       ELSE <<Order(first_deck), x>>
<1>1. CASE shuffle_number = 1
  BY <1>1 DEF Orders
<1>2. CASE shuffle_number = 2
  BY <1>2 DEF Orders
<1>3. QED
  BY <1>1, <1>2

\* The card accepted is drawn.
LEMMA AcceptDraws ==
  ASSUME CardInv, NEW rank \in Ranks, NEW suit \in Suits,
         AcceptCard(<<rank, suit>>)
  PROVE  D!Draw
<1> DEFINE card == card_index(rank, suit)
           n    == position - 1
<1>1. /\ DeckSoFar /\ Asking /\ <<rank, suit>> \notin seen /\ pc = "reading"
      /\ n \in Nat /\ position = n + 1
      /\ shuffle_number \in 1..2
  BY Lists DEF CardInv, AcceptCard, Asking, NewCard, DeckSoFar, TypeOK
<1>2. /\ deck' \in Seq(Symbols) /\ Len(deck') = 2 * (n + 1)
      /\ \A i \in 1..2 * n : deck'[i] = deck[i]
      /\ deck'[2 * (n + 1) - 1] = rank /\ deck'[2 * (n + 1)] = suit
  BY <1>1, CardAdded
<1>3. /\ Len(deck) = 2 * n
      /\ \A k \in 1..n : /\ IsCard(deck[2 * k - 1], deck[2 * k])
                         /\ Card(deck, k) \in seen
  BY <1>1 DEF DeckSoFar
<1>4. UNCHANGED <<modeVars, deckVars, shuffle_number, pc>>
  BY DEF AcceptCard
<1> HIDE DEF n
<1>5. /\ Order(deck) \in Seq(Numbers) /\ Len(Order(deck)) = n
      /\ \A k \in 1..n : Order(deck)[k] = IndexOf(deck, k)
  BY <1>1, <1>3, OrderOf
<1>6. \A k \in 1..n : /\ deck'[2 * k - 1] = deck[2 * k - 1]
                      /\ deck'[2 * k] = deck[2 * k]
  <2>1. \A k \in 1..n : 2 * k - 1 \in 1..2 * n /\ 2 * k \in 1..2 * n
    BY <1>1
  <2>2. QED
    BY <1>2, <2>1
<1>7. \A k \in 1..n + 1 : k = n + 1 \/ k \in 1..n
  BY <1>1
<1>8. \A k \in 1..n + 1 : IsCard(deck'[2 * k - 1], deck'[2 * k])
  BY <1>2, <1>3, <1>6, <1>7 DEF IsCard
<1>9. /\ Order(deck') \in Seq(Numbers) /\ Len(Order(deck')) = n + 1
      /\ \A k \in 1..n + 1 : Order(deck')[k] = IndexOf(deck', k)
  <2> DEFINE m == n + 1
             d == deck'
  <2>1. /\ m \in Nat /\ Len(d) = 2 * m
        /\ \A k \in 1..m : IsCard(d[2 * k - 1], d[2 * k])
    BY <1>1, <1>2, <1>8
  <2> HIDE DEF m, d
  <2>2. /\ Order(d) \in Seq(Numbers) /\ Len(Order(d)) = m
        /\ \A k \in 1..m : Order(d)[k] = IndexOf(d, k)
    BY <2>1, OrderOf
  <2>3. QED
    BY <2>2 DEF m, d
<1>10. card \in Numbers
  BY CardNumbers DEF Numbers
<1>11. \A k \in 1..n : Order(deck)[k] # card
  <2> SUFFICES ASSUME NEW k \in 1..n, IndexOf(deck, k) = card
               PROVE  FALSE
    BY <1>5
  <2>1. deck[2 * k - 1] = rank /\ deck[2 * k] = suit
    BY <1>3, CardNumbers DEF IndexOf, IsCard
  <2>2. QED
    BY <1>1, <1>3, <2>1 DEF Card
<1>12. \A k \in 1..n : IndexOf(deck', k) = IndexOf(deck, k)
  BY <1>6 DEF IndexOf
<1>13. IndexOf(deck', n + 1) = card
  BY <1>2 DEF IndexOf
<1> HIDE DEF card
<1>14. Order(deck') = Append(Order(deck), card)
  <2>1. /\ Append(Order(deck), card) \in Seq(Numbers)
        /\ Len(Append(Order(deck), card)) = n + 1
        /\ \A k \in 1..n : Append(Order(deck), card)[k] = Order(deck)[k]
        /\ Append(Order(deck), card)[n + 1] = card
    BY <1>5, <1>10, AppendProperties
  <2>2. \A k \in 1..n + 1 : Append(Order(deck), card)[k] = Order(deck')[k]
    BY <1>5, <1>7, <1>9, <1>12, <1>13, <2>1
  <2>3. QED
    BY <1>9, <2>1, <2>2, SeqEqual
<1>15. DOMAIN Order(deck) = 1..n
  BY <1>5, LenProperties
<1>16. Orders' = [Orders EXCEPT ![Len(Orders)] = Append(Order(deck), card)]
  BY <1>1, <1>4, <1>14, CurrentOrder DEF Orders, deckVars
<1>17. deck_count' = deck_count /\ Outcome = "entering" /\ Outcome' = Outcome
  BY <1>1, <1>4 DEF modeVars, deck_count, Outcome
<1>18. QED
  BY <1>1, <1>10, <1>11, <1>15, <1>16, <1>17, CurrentOrder
     DEF D!Draw, D!current, Numbers

\* Steps that only change what the orderings leave out.
LEMMA OrdersStay ==
  ASSUME UNCHANGED <<modeVars, readVars, deckVars>>
  PROVE  Orders' = Orders /\ deck_count' = deck_count
BY DEF Orders, deck_count, modeVars, readVars, deckVars

\* A complete deck is the last ordering, and it is full.
LEMMA FullOrdering ==
  ASSUME CardInv, position > cards_per_deck
  PROVE  Len(D!current) = cards_per_deck
BY CompleteDeck, OrderOfDeck, CurrentOrder
   DEF CardInv, TypeOK, D!current

\* The second shuffle is begun, or only the generators learn of the deck.
LEMMA DeckReadBegins ==
  ASSUME CardInv, DeckRead
  PROVE  D!ShuffleAgain \/ UNCHANGED D!dvars
<1>1. /\ pc = "reading" /\ position > cards_per_deck
      /\ deck_count' = deck_count /\ shuffle_number \in 1..2
  BY DEF DeckRead, CardInv, TypeOK, modeVars, deck_count
<1>2. Len(D!current) = cards_per_deck
  BY <1>1, FullOrdering
<1>3. CASE shuffle_number < deck_count
  <2>1. shuffle_number = 1 /\ Len(Orders) = 1 /\ Orders = <<Order(deck)>>
    BY <1>1, <1>3, DeckCount DEF Orders
  <2>2. /\ first_deck' = deck /\ shuffle_number' = 2 /\ deck' = <<>>
        /\ pc' = pc
    BY <1>3, <2>1 DEF DeckRead
  <2>3. Orders' = <<Order(deck), <<>>>>
    BY <2>2, NoCardsYet DEF Orders
  <2>4. Orders' = Append(Orders, <<>>)
    BY <2>1, <2>3
  <2>5. Outcome = "entering" /\ Outcome' = Outcome
    BY <1>1, <2>2 DEF Outcome
  <2>6. D!ShuffleAgain
    BY <1>1, <1>2, <1>3, <2>1, <2>4, <2>5 DEF D!ShuffleAgain
  <2>7. QED
    BY <2>6
<1>4. CASE ~ (shuffle_number < deck_count)
  <2>1. UNCHANGED readVars /\ pc' \in {"mixing", "random"}
    BY <1>4 DEF DeckRead
  <2>2. shuffle_number = 2 => first_deck' = first_deck
    BY DEF DeckRead
  <2>3. Orders' = Orders
    BY <1>1, <2>1, <2>2 DEF Orders, readVars
  <2>4. Outcome' = Outcome
    BY <1>1, <2>1 DEF Outcome
  <2>5. QED
    BY <1>1, <2>3, <2>4 DEF D!dvars
<1>5. QED
  BY <1>3, <1>4

\* What is hashed are all the orderings asked for, and they are different.
LEMMA HashingUses ==
  ASSUME CardInv, MixCards \/ CardsOnly
  PROVE  D!Use \/ D!GiveUp
<1>1. /\ pc = "mixing" /\ pc' \in {"returned", "threw"}
      /\ UNCHANGED <<modeVars, readVars, deckVars>>
  BY DEF MixCards, CardsOnly, Throw
<1>2. Orders' = Orders /\ deck_count' = deck_count
  BY <1>1, OrdersStay
<1>3. Outcome = "entering"
  BY <1>1 DEF Outcome
<1>4. CASE pc' = "threw"
  <2>1. Outcome' = "abandoned"
    BY <1>4 DEF Outcome
  <2>2. QED
    BY <1>2, <1>3, <2>1 DEF D!GiveUp
<1>5. CASE pc' = "returned"
  <2>1. Outcome' = "used"
    BY <1>5 DEF Outcome
  <2>2. position > cards_per_deck /\ shuffle_number = deck_count
        /\ shuffle_number \in 1..2
    BY <1>1, HandedDecks DEF CardInv, DecksHanded, TypeOK
  <2>3. /\ Len(D!current) = cards_per_deck /\ Len(Orders) = deck_count
        /\ DOMAIN Orders = 1..deck_count
    BY <2>2, FullOrdering, CurrentOrder
  <2>4. \A i, j \in DOMAIN Orders : Orders[i] = Orders[j] => i = j
    <3>1. CASE deck_count = 1
      BY <2>3, <3>1
    <3>2. CASE deck_count = 2
      <4>1. use_cards_only /\ byte_count = 32
        BY <3>2, DeckCount
      <4>2. /\ ValidDeck(first_deck) /\ ValidDeck(second_deck)
            /\ second_deck = deck
        BY <1>1, <3>2, HandedDecks DEF CardInv, DecksHanded
      <4>3. first_deck # second_deck
        BY <1>1, <1>5, <3>2, <4>1
           DEF MixCards, CardsOnly, AcceptsCardsOnly, Reshuffled, Throw,
               cards_only_deck_count
      <4>4. Order(first_deck) # Order(deck)
        BY <4>2, <4>3, OrderDetermines DEF CardInv, DecksHanded
      <4>5. Orders = <<Order(first_deck), Order(deck)>>
        BY <2>2, <3>2 DEF Orders
      <4>6. QED
        BY <2>3, <3>2, <4>4, <4>5
    <3>3. QED
      BY <3>1, <3>2, DeckCount
  <2>5. QED
    BY <1>2, <1>3, <2>1, <2>3, <2>4 DEF D!Use
<1>6. QED
  BY <1>1, <1>4, <1>5

\* Entry begins with no card, for one shuffle or two.
LEMMA DeckInit ==
  Init => D!DeckInit
<1> SUFFICES ASSUME Init PROVE D!DeckInit
  OBVIOUS
<1>1. shuffle_number = 1 /\ deck = <<>> /\ pc = "reading"
  BY DEF Init
<1>2. Orders = <<<<>>>> /\ Outcome = "entering"
  BY <1>1, NoCardsYet DEF Orders, Outcome
<1>3. QED
  BY <1>2, DeckCount DEF D!DeckInit

\* Every step is one of the promise or changes nothing of it.
LEMMA DeckStep ==
  ASSUME CardInv, [Next]_vars
  PROVE  [D!DeckNext]_D!dvars
<1> SUFFICES D!DeckNext \/ UNCHANGED D!dvars
  OBVIOUS
<1>1. CASE ReadCard
  <2>1. PICK text \in Texts : \/ AcceptCard(normalize_card(text))
                              \/ RefuseCard(normalize_card(text))
    BY <1>1 DEF ReadCard
  <2>2. CASE AcceptCard(normalize_card(text))
    <3>1. PICK rank \in Ranks, suit \in Suits :
            normalize_card(text) = <<rank, suit>>
      BY <2>2, CardForm DEF AcceptCard, NewCard
    <3>2. QED
      BY <2>2, <3>1, AcceptDraws DEF D!DeckNext
  <2>3. CASE RefuseCard(normalize_card(text))
    BY <2>3, OrdersStay DEF RefuseCard, D!dvars, Outcome
  <2>4. QED
    BY <2>1, <2>2, <2>3
<1>2. CASE InputEnds
  BY <1>2, OrdersStay
     DEF InputEnds, Asking, Throw, Outcome, D!GiveUp, D!DeckNext
<1>3. CASE DeckRead
  BY <1>3, DeckReadBegins DEF D!DeckNext
<1>4. CASE GenerateSystemEntropy
  <2>1. pc = "random" /\ pc' = "mixing"
        /\ UNCHANGED <<modeVars, readVars, deckVars>>
    BY <1>4 DEF GenerateSystemEntropy
  <2>2. QED
    BY <2>1, OrdersStay DEF D!dvars, Outcome
<1>5. CASE RandomFails \/ DigestFails
  BY <1>5, OrdersStay DEF RandomFails, DigestFails, Throw, Outcome, D!GiveUp,
                          D!DeckNext
<1>6. CASE MixCards \/ CardsOnly
  BY <1>6, HashingUses DEF D!DeckNext
<1>7. CASE UNCHANGED vars
  BY <1>7, OrdersStay DEF vars, D!dvars, Outcome
<1>8. QED
  BY <1>1, <1>2, <1>3, <1>4, <1>5, <1>6, <1>7 DEF Next, Terminated

\* Entering cards implements DeckPromise: whatever is entered, mistyped and
\* entered again, the orderings grow by one new card at a time, only full ones
\* are hashed, and two hashed ones are never the same.
THEOREM EntryKeepsPromise == Spec => KeepsDeckPromise
<1>1. Spec => []CardInv
  BY CardInvariant
<1>2. CardInv /\ [Next]_vars => [D!DeckNext]_D!dvars
  BY DeckStep
<1>3. QED
  BY <1>1, <1>2, DeckInit, PTL DEF Spec, KeepsDeckPromise, D!Promise

===============================================================================
