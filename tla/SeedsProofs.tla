------------------------------ MODULE SeedsProofs ------------------------------
(***************************************************************************)
(* Proofs about Seeds, for every command line, wordlist, number of rolls,  *)
(* deck size and length of passphrase.                                     *)
(***************************************************************************)
EXTENDS Seeds, FiniteSetTheorems, SequenceTheorems, TLAPS

Numbers    == 0..DeckSize - 1
Sections == {"help", "entropy", "words", "tiny", "seed"}
Typed    == Seq(Chars \cup {CR})

-------------------------------------------------------------------------------
(* Lemmas about decks, sections and passphrases.                           *)

\* A sequence without repetition is no longer than the deck it is drawn from.
LEMMA NoLongerThanDeck ==
  ASSUME NEW n \in Nat, NEW f \in [1..n -> Numbers],
         \A i, j \in 1..n : f[i] = f[j] => i = j
  PROVE  n <= DeckSize
<1>1. DeckSize \in Nat
  BY SeedsAssumption
<1>2. IsFiniteSet(1..n) /\ Cardinality(1..n) = n
  BY FS_Interval
<1>3. IsFiniteSet(Numbers) /\ Cardinality(Numbers) = DeckSize
  <2>1. Numbers = 0..DeckSize - 1 /\ 0 \in Int /\ DeckSize - 1 \in Int
    BY <1>1 DEF Numbers
  <2>2. QED
    BY <1>1, <2>1, FS_Interval
<1>4. ~ (Cardinality(Numbers) < Cardinality(1..n))
  BY <1>2, <1>3, FS_PigeonHole
<1>5. QED
  BY <1>1, <1>2, <1>3, <1>4

\* The beginning of a sequence.
LEMMA Beginning ==
  ASSUME NEW S, NEW s \in Seq(S), NEW n \in 0..Len(s)
  PROVE  /\ SubSeq(s, 1, n) \in Seq(S) /\ Len(SubSeq(s, 1, n)) = n
         /\ \A i \in 1..n : SubSeq(s, 1, n)[i] = s[i]
<1>1. Len(s) \in Nat /\ \A i \in 1..n : s[i] \in S
  BY LenProperties, ElementOfSeq
<1>2. QED
  BY <1>1, SubSeqProperties

\* The beginnings of a typed line are typed lines.
LEMMA TypedPrefix ==
  ASSUME NEW s \in Typed, NEW t \in Entry!Prefixes(s)
  PROVE  t \in Typed
<1>1. PICK n \in 0..Len(s) : t = SubSeq(s, 1, n)
  BY DEF Entry!Prefixes
<1>2. QED
  BY <1>1, Beginning DEF Typed

\* So is the line without its carriage return.
LEMMA TypedWithoutCR ==
  ASSUME NEW s \in Typed
  PROVE  Entry!WithoutCR(s) \in Typed
<1>1. CASE s # <<>>
  <2>1. Len(s) - 1 \in 0..Len(s)
    BY <1>1, EmptySeq, LenProperties DEF Typed
  <2>2. Entry!Front(s) \in Typed
    BY <2>1, Beginning DEF Typed, Entry!Front
  <2>3. QED
    BY <2>2 DEF Entry!WithoutCR
<1>2. QED
  BY <1>1 DEF Entry!WithoutCR

\* What the steps of read_passphrase do to the typed lines.
LEMMA TypedStays ==
  ASSUME line \in Typed, first \in Typed, complete \in BOOLEAN,
         Entry!PromiseNext
  PROVE  line' \in Typed /\ first' \in Typed /\ complete' \in BOOLEAN
<1>1. <<>> \in Typed
  BY EmptySeq DEF Typed
<1>2. CASE Entry!TypeChar
  BY <1>2, AppendProperties DEF Entry!TypeChar, Typed
<1>3. CASE Entry!Discard
  BY <1>3, TypedPrefix DEF Entry!Discard
<1>4. CASE Entry!Complete
  BY <1>4, TypedWithoutCR DEF Entry!Complete
<1>5. CASE Entry!AskAgain
  BY <1>1, <1>5 DEF Entry!AskAgain
<1>6. CASE Entry!Accept
  BY <1>6 DEF Entry!Accept
<1>7. CASE Entry!Abandon
  BY <1>1, <1>7 DEF Entry!Abandon
<1>8. QED
  BY <1>2, <1>3, <1>4, <1>5, <1>6, <1>7 DEF Entry!PromiseNext

-------------------------------------------------------------------------------
(* The decks.                                                              *)

\* An ordering is a sequence of different cards of the deck.
IsOrdering(o) ==
  /\ o \in Seq(Numbers)
  /\ \A i, j \in 1..Len(o) : o[i] = o[j] => i = j

\* One or two orderings are being entered.
DecksInv ==
  /\ orders \in Seq(Seq(Numbers)) /\ Len(orders) \in 1..2
  /\ \A k \in 1..Len(orders) : IsOrdering(orders[k])

\* So an ordering has at most the cards of the deck, as often as cards are
\* drawn: this is what makes the count in TypeOK inductive.
LEMMA OrderingBounded ==
  ASSUME NEW o, IsOrdering(o)
  PROVE  Len(o) <= DeckSize
<1>1. Len(o) \in Nat /\ o \in [1..Len(o) -> Numbers]
  BY LenProperties DEF IsOrdering
<1>2. QED
  BY <1>1, NoLongerThanDeck DEF IsOrdering

\* A card that is not in an ordering can be added to it.
LEMMA DrawnOrdering ==
  ASSUME NEW o, IsOrdering(o), NEW card \in Numbers,
         \A k \in DOMAIN o : o[k] # card
  PROVE  IsOrdering(Append(o, card))
<1> DEFINE n == Len(o)
<1>1. n \in Nat /\ DOMAIN o = 1..n
  BY LenProperties DEF IsOrdering
<1>2. /\ Append(o, card) \in Seq(Numbers) /\ Len(Append(o, card)) = n + 1
      /\ \A i \in 1..n : Append(o, card)[i] = o[i]
      /\ Append(o, card)[n + 1] = card
  BY AppendProperties DEF IsOrdering
<1> HIDE DEF n
<1>3. \A i \in 1..n + 1 : i = n + 1 \/ i \in 1..n
  BY <1>1
<1>4. \A i, j \in 1..n : o[i] = o[j] => i = j
  BY DEF IsOrdering, n
<1>5. \A i, j \in 1..n + 1 :
        Append(o, card)[i] = Append(o, card)[j] => i = j
  BY <1>1, <1>2, <1>3, <1>4
<1>6. QED
  BY <1>2, <1>5 DEF IsOrdering

\* The steps of read_card_deck and of the card generators keep orderings.
LEMMA DecksStep ==
  ASSUME DecksInv, Decks!DeckNext
  PROVE  DecksInv'
<1>1. CASE Decks!Draw
  <2> DEFINE last == Len(orders)
  <2>1. PICK card \in Numbers :
          /\ \A k \in DOMAIN orders[last] : orders[last][k] # card
          /\ orders' = [orders EXCEPT ![last] = Append(orders[last], card)]
    BY <1>1 DEF Decks!Draw, Decks!current, Numbers
  <2>2. last \in 1..Len(orders) /\ DOMAIN orders = 1..Len(orders)
    <3>1. orders \in Seq(Seq(Numbers)) /\ Len(orders) \in 1..2
      BY DEF DecksInv
    <3>2. DOMAIN orders = 1..Len(orders)
      BY <3>1, LenProperties
    <3>3. QED
      BY <3>1, <3>2
  <2>3. IsOrdering(Append(orders[last], card))
    BY <2>1, <2>2, DrawnOrdering DEF DecksInv
  <2>4. orders' \in Seq(Seq(Numbers)) /\ Len(orders') = Len(orders)
    BY <2>1, <2>2, <2>3, ExceptSeq DEF DecksInv, IsOrdering
  <2>5. \A k \in 1..Len(orders) :
          orders'[k] = IF k = last THEN Append(orders[last], card)
                                   ELSE orders[k]
    BY <2>1, <2>2
  <2>6. QED
    BY <2>3, <2>4, <2>5 DEF DecksInv
<1>2. CASE Decks!ShuffleAgain
  <2>1. Len(orders) = 1 /\ orders' = Append(orders, <<>>)
    BY <1>2 DEF Decks!ShuffleAgain, cards_only_deck_count, DecksInv
  <2>2. <<>> \in Seq(Numbers) /\ Len(<<>>) = 0
    BY EmptySeq
  <2>3. IsOrdering(<<>>)
    BY <2>2 DEF IsOrdering
  <2>4. /\ orders' \in Seq(Seq(Numbers)) /\ Len(orders') = 2
        /\ orders'[1] = orders[1] /\ orders'[2] = <<>>
    <3>1. orders \in Seq(Seq(Numbers)) /\ <<>> \in Seq(Numbers)
      BY <2>2 DEF DecksInv
    <3>2. /\ Append(orders, <<>>) \in Seq(Seq(Numbers))
          /\ Len(Append(orders, <<>>)) = Len(orders) + 1
          /\ \A i \in 1..Len(orders) : Append(orders, <<>>)[i] = orders[i]
          /\ Append(orders, <<>>)[Len(orders) + 1] = <<>>
      BY <3>1, AppendProperties
    <3>3. QED
      BY <2>1, <3>2
  <2>5. \A k \in 1..2 : k = 1 \/ k = 2
    OBVIOUS
  <2>6. QED
    BY <2>1, <2>3, <2>4, <2>5 DEF DecksInv
<1>3. CASE Decks!Use \/ Decks!GiveUp
  BY <1>3 DEF Decks!Use, Decks!GiveUp, DecksInv
<1>4. QED
  BY <1>1, <1>2, <1>3 DEF Decks!DeckNext

-------------------------------------------------------------------------------
(* Type correctness, and what is seen when the user is asked.              *)

\* TypeOK, a group of variables at a time.
PlaceOK == pc \in Locations /\ options \in CommandLines
           /\ status \in {"running", "success", "failure", "signal"}

SourceOK == rolls \in 0..Rolls /\ DecksInv /\ mnemonic_is_ascii \in BOOLEAN

LinesOK == line \in Typed /\ first \in Typed /\ complete \in BOOLEAN

OutputOK ==
  /\ written \in Seq(Sections) /\ flushed \in 0..Len(written)
  /\ unseen \in BOOLEAN /\ bad \in BOOLEAN /\ asked \in BOOLEAN

\* While dice rolls are read there is one more to read.
RollsLeft ==
  /\ pc \in {"parsing", "loading", "entering"}
  /\ source \in {"dice", "dice_only"}
  => rolls < Rolls

SeedsInv ==
  PlaceOK /\ SourceOK /\ LinesOK /\ OutputOK /\ RollsLeft /\ PromptsSeen

LEMMA TypesTogether ==
  ASSUME SeedsInv
  PROVE  TypeOK
<1>1. \A k \in DOMAIN orders : Len(orders[k]) <= DeckSize
  <2>1. DOMAIN orders = 1..Len(orders)
    <3>1. orders \in Seq(Seq(Numbers))
      BY DEF SeedsInv, SourceOK, DecksInv
    <3>2. QED
      BY <3>1, LenProperties
  <2>2. QED
    BY <2>1, OrderingBounded DEF SeedsInv, SourceOK, DecksInv
<1>2. QED
  BY <1>1 DEF SeedsInv, PlaceOK, SourceOK, DecksInv, LinesOK, OutputOK, Typed,
              Sections, TypeOK

\* A write adds to what is in the buffer and flushes nothing.
LEMMA WriteKeeps ==
  ASSUME OutputOK, NEW sections \in Seq(Sections), Write(sections)
  PROVE  OutputOK'
<1>1. written \o sections \in Seq(Sections)
      /\ Len(written \o sections) = Len(written) + Len(sections)
  BY ConcatProperties DEF OutputOK
<1>2. Len(written) \in Nat /\ Len(sections) \in Nat
  BY LenProperties DEF OutputOK
<1>3. written' \in Seq(Sections) /\ Len(written) <= Len(written')
  BY <1>1, <1>2 DEF Write, OutputOK
<1>4. Len(written') \in Nat
  BY <1>3, LenProperties
<1>5. QED
  BY <1>2, <1>3, <1>4 DEF Write, OutputOK

\* A prompt shows everything that was written and itself, unless the output has
\* failed.
LEMMA PromptShows ==
  ASSUME OutputOK, Prompt
  PROVE  /\ OutputOK'
         /\ ~bad' => ~unseen' /\ flushed' = Len(written')
<1>1. Len(written) \in Nat
  BY LenProperties DEF OutputOK
<1>2. QED
  BY <1>1 DEF Prompt, OutputOK

\* The sections printed.
LEMMA SectionsOK ==
  /\ <<"help">> \in Seq(Sections) /\ <<"seed">> \in Seq(Sections)
  /\ EntropySection \o MnemonicSections \in Seq(Sections)
<1>1. EntropySection \in Seq(Sections)
  <2>1. <<"entropy">> \in Seq(Sections)
    BY DEF Sections
  <2>2. <<>> \in Seq(Sections)
    BY EmptySeq
  <2>3. QED
    BY <2>1, <2>2 DEF EntropySection
<1>2. MnemonicSections \in Seq(Sections)
  BY DEF MnemonicSections, Sections
<1>3. <<"help">> \in Seq(Sections) /\ <<"seed">> \in Seq(Sections)
  BY DEF Sections
<1>4. QED
  BY <1>1, <1>2, <1>3, ConcatProperties

LEMMA InitSeeds == Init => SeedsInv
<1> SUFFICES ASSUME Init PROVE SeedsInv
  OBVIOUS
<1>1. PlaceOK
  BY DEF Init, PlaceOK, Locations
<1>2. SourceOK /\ RollsLeft
  <2>1. rolls = 0 /\ Rolls \in Nat \ {0} /\ mnemonic_is_ascii = TRUE
    BY SeedsAssumption DEF Init
  <2>2. orders = << <<>> >> /\ <<>> \in Seq(Numbers) /\ Len(<<>>) = 0
    BY EmptySeq DEF Init
  <2>3. /\ orders \in Seq(Seq(Numbers)) /\ Len(orders) = 1
        /\ orders[1] = <<>> /\ \A k \in 1..1 : k = 1
    BY <2>2
  <2>4. IsOrdering(<<>>)
    BY <2>2 DEF IsOrdering
  <2>5. QED
    BY <2>1, <2>3, <2>4 DEF SourceOK, DecksInv, RollsLeft
<1>3. LinesOK
  BY EmptySeq DEF Init, LinesOK, Typed
<1>4. OutputOK
  <2>1. written = <<>> /\ <<>> \in Seq(Sections) /\ Len(<<>>) = 0
    BY EmptySeq DEF Init
  <2>2. flushed = 0 /\ 0 \in 0..0 /\ unseen = FALSE /\ bad = FALSE
        /\ asked = FALSE
    BY DEF Init
  <2>3. written \in Seq(Sections) /\ flushed \in 0..Len(written)
    BY <2>1, <2>2
  <2>4. QED
    BY <2>2, <2>3 DEF OutputOK
<1>5. PromptsSeen
  BY DEF Init, PromptsSeen
<1>6. QED
  BY <1>1, <1>2, <1>3, <1>4, <1>5 DEF SeedsInv

LEMMA SeedsStep ==
  ASSUME SeedsInv, [Next]_vars
  PROVE  SeedsInv'
<1>0. PlaceOK /\ SourceOK /\ LinesOK /\ OutputOK /\ RollsLeft /\ PromptsSeen
  BY DEF SeedsInv
<1>a. UNCHANGED sourceVars => SourceOK'
  BY <1>0 DEF sourceVars, SourceOK, DecksInv
<1>b. UNCHANGED passphraseVars => LinesOK'
  BY <1>0 DEF passphraseVars, LinesOK
<1>c. UNCHANGED outputVars => OutputOK'
  BY <1>0 DEF outputVars, OutputOK
<1>d. UNCHANGED outputVars /\ pc' = pc => PromptsSeen'
  BY <1>0 DEF outputVars, PromptsSeen
<1>e. OutputOK /\ Prompt => PromptsSeen'
  BY PromptShows DEF PromptsSeen
<1>f. UNCHANGED options /\ UNCHANGED rolls
        /\ (pc' \in {"parsing", "loading", "entering"} => pc \in {"parsing", "loading", "entering"})
        => RollsLeft'
  BY <1>0 DEF RollsLeft, source
<1>g. pc' \notin {"entering", "passphrase"} => PromptsSeen'
  BY DEF PromptsSeen
<1> USE <1>0, <1>a, <1>b, <1>c, <1>d, <1>e, <1>f, <1>g
<1>1. CASE ParseCommandLine
  <2>1. UNCHANGED <<options, sourceVars, passphraseVars, status>>
        /\ pc' \in {"throwing", "ending", "loading"}
        /\ (Write(<<"help">>) \/ UNCHANGED outputVars) /\ pc = "parsing"
    BY <1>1 DEF ParseCommandLine
  <2>2. OutputOK'
    BY <2>1, SectionsOK, WriteKeeps
  <2>3. RollsLeft' /\ PlaceOK'
    BY <2>1 DEF sourceVars, PlaceOK, Locations
  <2>4. QED
    BY <2>1, <2>2, <2>3 DEF SeedsInv
<1>2. CASE LoadWordlist
  <2>1. UNCHANGED <<options, sourceVars, passphraseVars, status>>
        /\ \/ pc' \in {"throwing", "random"} /\ UNCHANGED outputVars
           \/ pc' = "entering" /\ Prompt
        /\ pc = "loading"
    BY <1>2 DEF LoadWordlist
  <2>2. OutputOK' /\ PromptsSeen'
    BY <2>1, PromptShows
  <2>3. RollsLeft' /\ PlaceOK'
    BY <2>1 DEF sourceVars, PlaceOK, Locations
  <2>4. QED
    BY <2>1, <2>2, <2>3 DEF SeedsInv
<1>3. CASE EnterRoll
  <2>1. /\ UNCHANGED <<options, orders, mnemonic_is_ascii, passphraseVars,
                       status>>
        /\ pc = "entering" /\ source \in {"dice", "dice_only"}
        /\ rolls' = rolls + 1
    BY <1>3 DEF EnterRoll
  <2>2. \/ pc' = AfterEntry /\ UNCHANGED outputVars
        \/ pc' = pc /\ Prompt /\ ~LastRoll
    BY <1>3 DEF EnterRoll
  <2>3. Rolls \in Nat /\ rolls \in 0..Rolls /\ rolls < Rolls
    BY <2>1, SeedsAssumption DEF SourceOK, RollsLeft
  <2>4. SourceOK'
    BY <2>1, <2>3 DEF SourceOK, DecksInv
  <2>5. OutputOK' /\ PromptsSeen' /\ PlaceOK'
    BY <2>1, <2>2, PromptShows DEF AfterEntry, PlaceOK, Locations
  <2>6. RollsLeft'
    BY <2>1, <2>2, <2>3 DEF RollsLeft, LastRoll, AfterEntry
  <2>7. QED
    BY <2>1, <2>4, <2>5, <2>6 DEF SeedsInv
<1>4. CASE EnterCard
  <2>1. /\ UNCHANGED <<options, rolls, mnemonic_is_ascii, passphraseVars,
                       status>>
        /\ pc = "entering" /\ source \in {"cards", "cards_only"}
        /\ Decks!DeckNext
    BY <1>4 DEF EnterCard
  <2>2. \/ pc' = pc /\ Prompt
        \/ pc' \in {"random", "hashing", "throwing"} /\ UNCHANGED outputVars
    <3>1. deck_state' \in {"entering", "used", "abandoned"}
      BY <2>1 DEF Decks!DeckNext, Decks!Draw, Decks!ShuffleAgain, Decks!Use,
                  Decks!GiveUp
    <3>2. QED
      BY <1>4, <3>1 DEF EnterCard, AfterEntry
  <2>3. SourceOK'
    BY <2>1, DecksStep DEF SourceOK
  <2>4. OutputOK' /\ PromptsSeen' /\ PlaceOK'
    BY <2>1, <2>2, PromptShows DEF PlaceOK, Locations
  <2>5. RollsLeft'
    BY <2>1, <2>2
  <2>6. QED
    BY <2>1, <2>3, <2>4, <2>5 DEF SeedsInv
<1>5. CASE GenerateSystemEntropy \/ SourceFails \/ DigestFails
             \/ DerivationFails
  BY <1>5 DEF GenerateSystemEntropy, SourceFails, DigestFails,
              DerivationFails, SeedsInv, PlaceOK, Locations, sourceVars
<1>6. CASE MakeMnemonic
  <2>1. mnemonic_is_ascii' \in BOOLEAN
    <3>1. options.wordlist \in DOMAIN Wordlists
      BY SeedsAssumption DEF PlaceOK
    <3>2. Wordlists[options.wordlist].ascii \subseteq BOOLEAN
      BY <3>1, SeedsAssumption
    <3>3. QED
      BY <1>6, <3>2 DEF MakeMnemonic
  <2>2. SourceOK'
    BY <1>6, <2>1 DEF MakeMnemonic, SourceOK, DecksInv
  <2>3. QED
    BY <1>6, <2>2 DEF MakeMnemonic, SeedsInv, PlaceOK, Locations
<1>7. CASE PrintMnemonic
  <2>1. Write(EntropySection \o MnemonicSections)
        /\ pc' \in {"prompting", "ending"}
        /\ UNCHANGED <<options, sourceVars, passphraseVars, status>>
    BY <1>7 DEF PrintMnemonic
  <2>2. OutputOK'
    BY <2>1, SectionsOK, WriteKeeps
  <2>3. QED
    BY <2>1, <2>2 DEF SeedsInv, PlaceOK, Locations, sourceVars
<1>8. CASE AskPassphrase
  <2>1. Prompt /\ pc' = "passphrase"
        /\ UNCHANGED <<options, sourceVars, passphraseVars, status>>
    BY <1>8 DEF AskPassphrase
  <2>2. QED
    BY <2>1, PromptShows DEF SeedsInv, PlaceOK, Locations, sourceVars
<1>9. CASE EnterPassphrase \/ PassphraseEnds
  <2>1. Entry!PromiseNext /\ UNCHANGED <<options, sourceVars>>
    BY <1>9 DEF EnterPassphrase, PassphraseEnds
  <2>2. \/ pc' = pc /\ status' = status /\ (Prompt \/ UNCHANGED outputVars)
        \/ pc' \in {"deriving", "throwing", "exited"}
           /\ status' \in {status, "signal"} /\ UNCHANGED outputVars
    BY <1>9 DEF EnterPassphrase, PassphraseEnds
  <2>3. LinesOK'
    BY <2>1, TypedStays DEF LinesOK
  <2>4. OutputOK' /\ PromptsSeen'
    BY <2>2, PromptShows
  <2>5. PlaceOK' /\ RollsLeft'
    BY <2>1, <2>2 DEF PlaceOK, Locations, sourceVars
  <2>6. QED
    BY <2>1, <2>3, <2>4, <2>5 DEF SeedsInv
<1>10. CASE DeriveSeed
  <2>1. Write(<<"seed">>) /\ pc' = "ending"
        /\ UNCHANGED <<options, sourceVars, passphraseVars, status>>
    BY <1>10 DEF DeriveSeed
  <2>2. OutputOK'
    BY <2>1, SectionsOK, WriteKeeps
  <2>3. QED
    BY <2>1, <2>2 DEF SeedsInv, PlaceOK, Locations, sourceVars
<1>11. CASE \/ Exit("ending", "success") \/ Exit("throwing", "failure")
            \/ Spill \/ StdoutFails \/ Killed
  <2>1. UNCHANGED <<options, sourceVars, passphraseVars, written, asked>>
    BY <1>11 DEF Exit, Spill, StdoutFails, Killed, outputVars
  <2>2. Len(written) \in Nat /\ flushed \in 0..Len(written)
    BY LenProperties DEF OutputOK
  <2>3. flushed' \in flushed..Len(written) /\ unseen' \in BOOLEAN
        /\ bad' \in BOOLEAN
    <3>1. CASE Exit("ending", "success") \/ Exit("throwing", "failure")
      BY <2>2, <3>1 DEF Exit, OutputOK
    <3>2. CASE Spill
      BY <3>2 DEF Spill, OutputOK
    <3>3. CASE StdoutFails
      BY <2>2, <3>3 DEF StdoutFails, OutputOK
    <3>4. CASE Killed
      BY <2>2, <3>4 DEF Killed, outputVars, OutputOK
    <3>5. QED
      BY <1>11, <3>1, <3>2, <3>3, <3>4
  <2>4. OutputOK'
    <3>1. flushed' \in 0..Len(written')
      BY <2>1, <2>2, <2>3
    <3>2. QED
      BY <2>1, <2>3, <3>1 DEF OutputOK
  <2>5. PlaceOK' /\ RollsLeft'
    BY <1>11, <2>1 DEF Exit, Spill, StdoutFails, Killed, PlaceOK, Locations,
                       sourceVars
  <2>6. \/ pc' = "exited"
        \/ bad'
        \/ pc' = pc /\ bad' = bad /\ unseen' = unseen
    BY <1>11 DEF Exit, Spill, StdoutFails, Killed
  <2>7. PromptsSeen'
    BY <2>1, <2>2, <2>3, <2>6 DEF PromptsSeen
  <2>8. QED
    BY <2>1, <2>4, <2>5, <2>7 DEF SeedsInv
<1>12. CASE UNCHANGED vars
  BY <1>12 DEF vars, SeedsInv, PlaceOK, sourceVars
<1>13. QED
  BY <1>1, <1>2, <1>3, <1>4, <1>5, <1>6, <1>7, <1>8, <1>9, <1>10, <1>11,
     <1>12 DEF Next, Terminated

LEMMA SeedsInvariant == Spec => []SeedsInv
BY InitSeeds, SeedsStep, PTL DEF Spec

\* Every variable keeps its type; in particular no deck ever grows beyond its
\* cards, however often cards are drawn, because no card is drawn twice.
THEOREM SeedsTypeCorrect == Spec => []TypeOK
<1>1. SeedsInv => TypeOK
  BY TypesTogether
<1>2. QED
  BY <1>1, SeedsInvariant, PTL

\* Whenever the program waits for dice, cards or the passphrase, everything it
\* has written and the prompt are on the screen.
THEOREM PromptsAreSeen == Spec => []PromptsSeen
<1>1. SeedsInv => PromptsSeen
  BY DEF SeedsInv
<1>2. QED
  BY <1>1, SeedsInvariant, PTL

-------------------------------------------------------------------------------
(* What a seed is derived from.                                            *)

\* A write leaves nothing in the buffer but what was there and what it adds.
LEMMA WriteAdds ==
  ASSUME NEW s \in Seq(Sections), OutputOK, Write(s),
         "seed" \in Range(written')
  PROVE  "seed" \in Range(written) \/ "seed" \in Range(s)
<1>1. CASE written' = written
  BY <1>1
<1>2. CASE written' = written \o s
  <2>1. /\ written \in Seq(Sections)
        /\ DOMAIN written = 1..Len(written) /\ Len(written) \in Nat
        /\ DOMAIN s = 1..Len(s) /\ Len(s) \in Nat
    BY LenProperties DEF OutputOK
  <2>2. /\ written' \in Seq(Sections) /\ Len(written') = Len(written) + Len(s)
        /\ \A i \in 1..Len(written) + Len(s) :
             written'[i] = IF i <= Len(written) THEN written[i]
                           ELSE s[i - Len(written)]
    BY <1>2, <2>1, ConcatProperties
  <2>3. DOMAIN written' = 1..Len(written) + Len(s)
    BY <2>2, LenProperties
  <2>4. PICK i \in 1..Len(written) + Len(s) : written'[i] = "seed"
    BY <2>3 DEF Range
  <2>5. CASE i <= Len(written)
    BY <2>1, <2>2, <2>4, <2>5 DEF Range
  <2>6. CASE ~ (i <= Len(written))
    <3>1. i - Len(written) \in DOMAIN s /\ s[i - Len(written)] = "seed"
      BY <2>1, <2>2, <2>4, <2>6
    <3>2. QED
      BY <3>1 DEF Range
  <2>7. QED
    BY <2>5, <2>6
<1>3. QED
  BY <1>1, <1>2 DEF Write

\* Neither the help nor what is printed of the mnemonic is the seed.
LEMMA SeedOnlyLast ==
  /\ "seed" \notin Range(<<"help">>)
  /\ "seed" \notin Range(EntropySection \o MnemonicSections)
<1>1. "seed" \notin Range(<<"help">>)
  BY DEF Range
<1> DEFINE Others == {"entropy", "words", "tiny"}
<1>2. EntropySection \in Seq(Others)
  <2>1. <<"entropy">> \in Seq(Others) /\ <<>> \in Seq(Others)
    BY EmptySeq
  <2>2. QED
    BY <2>1 DEF EntropySection
<1>3. MnemonicSections \in Seq(Others)
  BY DEF MnemonicSections
<1>4. EntropySection \o MnemonicSections \in Seq(Others)
  BY <1>2, <1>3, ConcatProperties
<1>5. Range(EntropySection \o MnemonicSections) \subseteq Others
  BY <1>4, LenProperties, ElementOfSeq DEF Range
<1>6. QED
  BY <1>1, <1>5

SeedWritten == "seed" \in Range(written)

Checked ==
  mnemonic_is_ascii /\ line = first /\ Range(line) \subseteq AsciiChars

\* The seed is written by the last step before the end, so that what was checked
\* for it cannot change any more.
CheckedInv ==
  /\ pc = "deriving" => line = first
  /\ SeedWritten => pc \in {"ending", "exited"} /\ Checked
  /\ pc = "ending" /\ options.show_seed /\ ~options.help => Checked
  /\ status = "success" =>
       pc = "exited" /\ (options.show_seed /\ ~options.help => Checked)

LEMMA CheckedStep ==
  ASSUME SeedsInv, CheckedInv, [Next]_vars
  PROVE  CheckedInv'
<1> USE DEF CheckedInv, SeedWritten, Checked
<1>0. OutputOK
  BY DEF SeedsInv
<1>1. CASE ParseCommandLine
  <2>1. /\ pc = "parsing" /\ options' = options /\ status' = status
        /\ \/ pc' \in {"throwing", "loading"} /\ UNCHANGED outputVars
           \/ pc' = "ending" /\ options.help /\ Write(<<"help">>)
    BY <1>1 DEF ParseCommandLine
  <2>2. ~SeedWritten'
    BY <1>0, <2>1, WriteAdds, SectionsOK, SeedOnlyLast DEF outputVars
  <2>3. QED
    BY <2>1, <2>2
<1>2. CASE LoadWordlist \/ EnterRoll \/ EnterCard \/ AskPassphrase
           \/ EnterPassphrase
  <2>1. /\ pc \notin {"ending", "exited"} /\ status' = status
        /\ pc' \notin {"deriving", "ending", "exited"}
        /\ Prompt \/ UNCHANGED outputVars
    <3>1. CASE LoadWordlist
      BY <3>1 DEF LoadWordlist
    <3>2. CASE EnterRoll
      BY <3>2 DEF EnterRoll, AfterEntry
    <3>3. CASE EnterCard
      <4>1. deck_state' \in {"entering", "used", "abandoned"}
        BY <3>3 DEF EnterCard, Decks!DeckNext, Decks!Draw,
                    Decks!ShuffleAgain, Decks!Use, Decks!GiveUp
      <4>2. QED
        BY <3>3, <4>1 DEF EnterCard, AfterEntry
    <3>4. CASE AskPassphrase \/ EnterPassphrase
      BY <3>4 DEF AskPassphrase, EnterPassphrase
    <3>5. QED
      BY <1>2, <3>1, <3>2, <3>3, <3>4
  <2>2. written' = written
    BY <2>1 DEF Prompt, outputVars
  <2>3. QED
    BY <2>1, <2>2
<1>3. CASE \/ GenerateSystemEntropy \/ SourceFails \/ MakeMnemonic
           \/ DigestFails \/ DerivationFails
  <2>1. /\ pc \notin {"ending", "exited"} /\ status' = status
        /\ pc' \notin {"deriving", "ending", "exited"}
        /\ written' = written
    BY <1>3 DEF GenerateSystemEntropy, SourceFails, MakeMnemonic, DigestFails,
                DerivationFails, outputVars
  <2>2. QED
    BY <2>1
<1>4. CASE PrintMnemonic
  <2>1. /\ pc = "printing" /\ options' = options /\ status' = status
        /\ pc' = IF options.show_seed THEN "prompting" ELSE "ending"
        /\ Write(EntropySection \o MnemonicSections)
    BY <1>4 DEF PrintMnemonic
  <2>2. ~SeedWritten'
    BY <1>0, <2>1, WriteAdds, SectionsOK, SeedOnlyLast
  <2>3. QED
    BY <2>1, <2>2
<1>5. CASE PassphraseEnds
  <2>1. /\ pc = "passphrase" /\ written' = written
        /\ status' = status \/ status' = "signal"
        /\ pc' \in {"deriving", "throwing", "exited"}
        /\ pc' = "deriving" => answer' = "accepted"
        /\ Entry!PromiseNext
    BY <1>5 DEF PassphraseEnds, outputVars
  <2>2. answer' = "accepted" => line' = first'
    <3>1. CASE Entry!Accept
      BY <3>1 DEF Entry!Accept
    <3>2. CASE ~Entry!Accept
      BY <2>1, <3>2 DEF Entry!PromiseNext, Entry!TypeChar, Entry!Discard,
           Entry!Complete, Entry!AskAgain, Entry!Abandon
    <3>3. QED
      BY <3>1, <3>2
  <2>3. QED
    BY <2>1, <2>2
<1>6. CASE DeriveSeed
  BY <1>6 DEF DeriveSeed, IsAscii, sourceVars, passphraseVars
<1>7. CASE \/ Exit("ending", "success") \/ Exit("throwing", "failure")
           \/ Killed \/ Spill \/ StdoutFails \/ UNCHANGED vars
  <2>1. /\ UNCHANGED <<options, written, mnemonic_is_ascii, line, first>>
        /\ \/ pc' = pc /\ status' = status
           \/ pc' = "exited" /\ status' # "success"
           \/ pc = "ending" /\ pc' = "exited"
    BY <1>7 DEF Exit, Killed, Spill, StdoutFails, vars, sourceVars,
                passphraseVars, outputVars
  <2>2. QED
    BY <2>1
<1>8. QED
  BY <1>1, <1>2, <1>3, <1>4, <1>5, <1>6, <1>7 DEF Next, Terminated

\* Whatever the wordlist and whatever is entered, a seed is derived only from an
\* ASCII mnemonic and an ASCII passphrase that was confirmed.
THEOREM SeedsAreChecked == Spec => []SeedChecked
<1>1. Init => CheckedInv
  BY DEF Init, CheckedInv, SeedWritten, Range
<1>2. SeedsInv /\ CheckedInv /\ [Next]_vars => CheckedInv'
  BY CheckedStep
<1>3. CheckedInv => SeedChecked
  BY DEF CheckedInv, SeedWritten, Checked, SeedChecked
<1>4. QED
  BY <1>1, <1>2, <1>3, SeedsInvariant, PTL DEF Spec

-------------------------------------------------------------------------------
(* A run implements SeedsPromise.                                          *)

\* What is printed before the seed.
Before == EntropySection \o MnemonicSections

\* A request for a seed that can be carried out.
SeedRequest == Valid /\ ~options.help /\ options.show_seed

\* Everything before the seed, or everything, has been written, unless some
\* of it was dropped.
Wrote(sections) == written = sections \/ bad

\* What has been written and asked at each point of main.
Story ==
  /\ status = "running" <=> pc # "exited"
  /\ written \in {<<>>, Before, Wanted}
  /\ written = <<>> \/ (Valid /\ written \in Prefixes(Wanted))
  /\ pc \in {"parsing", "loading", "entering", "random", "hashing", "printing"}
       => written = <<>>
  /\ pc = "loading" => AcceptsOptions(options) /\ ~options.help
  /\ pc \in {"entering", "random", "hashing", "printing"} =>
       Valid /\ ~options.help
  /\ pc \in {"prompting", "passphrase", "deriving"} =>
       SeedRequest /\ Wrote(Before)
  /\ pc \in {"passphrase", "deriving"} => asked
  /\ pc = "ending" => Valid /\ Wrote(Wanted)
  /\ pc = "throwing" =>
       written = <<>> \/ (SeedRequest /\ asked /\ Wrote(Before))

StoryInv == SeedsInv /\ Story

\* Parts of a sequence from its start: what has been flushed of what was
\* written.
LEMMA Parts ==
  ASSUME NEW S, NEW s \in Seq(S)
  PROVE  /\ SubSeq(s, 1, 0) = <<>> /\ SubSeq(s, 1, Len(s)) = s
         /\ \A n \in 0..Len(s) : \A m \in 0..n :
              /\ SubSeq(SubSeq(s, 1, n), 1, m) = SubSeq(s, 1, m)
              /\ Run!IsPrefix(SubSeq(s, 1, m), SubSeq(s, 1, n))
<1>0. Len(s) \in Nat
  BY LenProperties
<1>1. SubSeq(s, 1, 0) = <<>>
  <2>1. SubSeq(s, 1, 0) \in Seq(S) /\ Len(SubSeq(s, 1, 0)) = 0
    BY <1>0, Beginning
  <2>2. QED
    BY <2>1, EmptySeq
<1>2. \A n \in 0..Len(s) :
        /\ SubSeq(s, 1, n) \in Seq(S) /\ Len(SubSeq(s, 1, n)) = n
        /\ \A i \in 1..n : SubSeq(s, 1, n)[i] = s[i]
  BY Beginning
<1>3. SubSeq(s, 1, Len(s)) = s
  BY <1>0, <1>2, SeqEqual
<1>4. ASSUME NEW n \in 0..Len(s), NEW m \in 0..n
      PROVE  SubSeq(SubSeq(s, 1, n), 1, m) = SubSeq(s, 1, m)
  <2> DEFINE t == SubSeq(s, 1, n)
  <2>1. t \in Seq(S) /\ Len(t) = n /\ \A i \in 1..n : t[i] = s[i]
    BY <1>2
  <2> HIDE DEF t
  <2>2. /\ SubSeq(t, 1, m) \in Seq(S) /\ Len(SubSeq(t, 1, m)) = m
        /\ \A i \in 1..m : SubSeq(t, 1, m)[i] = t[i]
    BY <2>1, Beginning
  <2>3. m \in 0..Len(s) /\ \A i \in 1..m : i \in 1..n
    BY <1>0
  <2>4. \A i \in 1..m : SubSeq(t, 1, m)[i] = SubSeq(s, 1, m)[i]
    BY <1>2, <2>1, <2>2, <2>3
  <2>5. SubSeq(t, 1, m) = SubSeq(s, 1, m)
    BY <1>2, <2>2, <2>3, <2>4, SeqEqual
  <2>6. QED
    BY <2>5 DEF t
<1>5. ASSUME NEW n \in 0..Len(s), NEW m \in 0..n
      PROVE  Run!IsPrefix(SubSeq(s, 1, m), SubSeq(s, 1, n))
  <2>1. m \in 0..Len(s) /\ m <= n /\ m \in 0..m
    BY <1>0
  <2>2. /\ Len(SubSeq(s, 1, m)) = m /\ Len(SubSeq(s, 1, n)) = n
    BY <1>2, <2>1
  <2>3. /\ SubSeq(SubSeq(s, 1, m), 1, m) = SubSeq(s, 1, m)
        /\ SubSeq(SubSeq(s, 1, n), 1, m) = SubSeq(s, 1, m)
    BY <1>4, <2>1
  <2>4. QED
    BY <2>1, <2>2, <2>3 DEF Run!IsPrefix
<1>6. QED
  BY <1>1, <1>3, <1>4, <1>5

\* What is added at the end changes no beginning.
LEMMA AddedBehind ==
  ASSUME NEW S, NEW s \in Seq(S), NEW t \in Seq(S), NEW n \in 0..Len(s)
  PROVE  SubSeq(s \o t, 1, n) = SubSeq(s, 1, n)
<1> DEFINE u == s \o t
<1>1. /\ u \in Seq(S) /\ Len(u) = Len(s) + Len(t)
      /\ \A i \in 1..Len(s) + Len(t) :
           u[i] = IF i <= Len(s) THEN s[i] ELSE t[i - Len(s)]
  BY ConcatProperties
<1>2. Len(s) \in Nat /\ Len(t) \in Nat
  BY LenProperties
<1> HIDE DEF u
<1>3. n \in 0..Len(u) /\ \A i \in 1..n : u[i] = s[i]
  BY <1>1, <1>2
<1>4. /\ SubSeq(u, 1, n) \in Seq(S) /\ Len(SubSeq(u, 1, n)) = n
      /\ \A i \in 1..n : SubSeq(u, 1, n)[i] = u[i]
  BY <1>1, <1>3, Beginning
<1>5. /\ SubSeq(s, 1, n) \in Seq(S) /\ Len(SubSeq(s, 1, n)) = n
      /\ \A i \in 1..n : SubSeq(s, 1, n)[i] = s[i]
  BY Beginning
<1>6. SubSeq(u, 1, n) = SubSeq(s, 1, n)
  BY <1>3, <1>4, <1>5, SeqEqual
<1>7. QED
  BY <1>6 DEF u

\* The sections wanted: help, or what comes before the seed and the seed.
LEMMA WantedForms ==
  /\ Before \in Seq(Sections) /\ Before \in Run!Mnemonics
  /\ options.help => Wanted = <<"help">>
  /\ ~options.help =>
       Wanted = IF options.show_seed THEN Before \o <<"seed">> ELSE Before
<1>1. MnemonicSections \in Seq(Sections) /\ Before \in Seq(Sections)
  BY SectionsOK DEF MnemonicSections, Before, Sections
<1>2. Before \in Run!Mnemonics
  <2>1. CASE options.show_entropy
    <3>1. Before = <<"entropy">> \o <<"words", "tiny">>
      BY <2>1 DEF Before, EntropySection, MnemonicSections
    <3>2. <<"entropy">> \o <<"words", "tiny">> = <<"entropy", "words", "tiny">>
      <4> DEFINE e == <<"entropy">>
                 m == <<"words", "tiny">>
                 a == <<"entropy", "words", "tiny">>
      <4>1. /\ e \in Seq(Sections) /\ Len(e) = 1 /\ e[1] = "entropy"
        BY DEF Sections
      <4>2. /\ m \in Seq(Sections) /\ Len(m) = 2
            /\ m[1] = "words" /\ m[2] = "tiny"
        BY DEF Sections
      <4>3. /\ a \in Seq(Sections) /\ Len(a) = 3
            /\ a[1] = "entropy" /\ a[2] = "words" /\ a[3] = "tiny"
        BY DEF Sections
      <4> HIDE DEF e, m, a
      <4>4. /\ e \o m \in Seq(Sections) /\ Len(e \o m) = 3
            /\ \A i \in 1..3 :
                 (e \o m)[i] = IF i <= 1 THEN e[i] ELSE m[i - 1]
        <5>1. /\ e \o m \in Seq(Sections)
              /\ Len(e \o m) = Len(e) + Len(m)
              /\ \A i \in 1..Len(e) + Len(m) :
                   (e \o m)[i] = IF i <= Len(e) THEN e[i] ELSE m[i - Len(e)]
          BY <4>1, <4>2, ConcatProperties
        <5>2. Len(e) = 1 /\ Len(m) = 2 /\ 1 + 2 = 3
          BY <4>1, <4>2
        <5>3. QED
          BY <5>1, <5>2
      <4>5. \A i \in 1..3 : (e \o m)[i] = a[i]
        <5>1. \A i \in 1..3 : i = 1 \/ i = 2 \/ i = 3
          OBVIOUS
        <5>2. (e \o m)[1] = e[1] /\ (e \o m)[2] = m[1] /\ (e \o m)[3] = m[2]
          BY <4>4
        <5>3. (e \o m)[1] = a[1] /\ (e \o m)[2] = a[2] /\ (e \o m)[3] = a[3]
          BY <4>1, <4>2, <4>3, <5>2
        <5>4. QED
          BY <5>1, <5>3, Zenon
      <4>6. e \o m = a
        BY <4>3, <4>4, <4>5, SeqEqual
      <4>7. QED
        BY <4>6 DEF e, m, a
    <3>3. QED
      BY <3>1, <3>2 DEF Run!Mnemonics
  <2>2. CASE ~options.show_entropy
    <3>1. Before = <<>> \o MnemonicSections
      BY <2>2 DEF Before, EntropySection
    <3>2. Before = MnemonicSections
      BY <1>1, <3>1, ConcatEmptySeq
    <3>3. QED
      BY <3>2 DEF MnemonicSections, Run!Mnemonics
  <2>3. QED
    BY <2>1, <2>2
<1>3. options.help => Wanted = <<"help">>
  BY DEF Wanted
<1>4. ASSUME ~options.help
      PROVE  Wanted = IF options.show_seed THEN Before \o <<"seed">> ELSE Before
  <2>1. Wanted = Before \o (IF options.show_seed THEN <<"seed">> ELSE <<>>)
    BY <1>4 DEF Wanted, Before
  <2>2. Before \o <<>> = Before
    BY <1>1, ConcatEmptySeq
  <2>3. QED
    BY <2>1, <2>2
<1>5. QED
  BY <1>1, <1>2, <1>3, <1>4

LEMMA WantedSections ==
  /\ Wanted \in Seq(Sections)
  /\ Wanted \in Prefixes(Wanted)
  /\ ~options.help => Before \in Prefixes(Wanted)
  /\ SeedRequest => Wanted # Before /\ Run!Front(Wanted) = Before
                    /\ Run!SeedWanted
<1>1. <<"help">> \in Seq(Sections) /\ <<"seed">> \in Seq(Sections)
      /\ Before \in Seq(Sections)
  BY SectionsOK, WantedForms
<1>2. Before \o <<"seed">> \in Seq(Sections)
      /\ Len(Before \o <<"seed">>) = Len(Before) + 1
      /\ (Before \o <<"seed">>)[Len(Before) + 1] = "seed"
  <2>1. Len(<<"seed">>) = 1 /\ <<"seed">>[1] = "seed" /\ Len(Before) \in Nat
    BY <1>1, LenProperties
  <2>2. QED
    BY <1>1, <2>1, ConcatProperties
<1>3. Wanted \in Seq(Sections)
  BY <1>1, <1>2, WantedForms
<1>4. \A s \in Seq(Sections) : s \in Prefixes(s)
  <2> SUFFICES ASSUME NEW s \in Seq(Sections) PROVE s \in Prefixes(s)
    OBVIOUS
  <2>1. SubSeq(s, 1, Len(s)) = s /\ Len(s) \in 0..Len(s)
    BY Parts, LenProperties
  <2>2. QED
    BY <2>1 DEF Prefixes
<1>5. SubSeq(Before \o <<"seed">>, 1, Len(Before)) = Before
      /\ Len(Before) \in 0..Len(Before) + 1
  <2>1. Len(Before) \in Nat
    BY <1>1, LenProperties
  <2>2. QED
    BY <1>1, <2>1, AddedBehind, Parts
<1>6. ASSUME ~options.help
      PROVE  Before \in Prefixes(Wanted)
  <2>1. CASE options.show_seed
    BY <1>2, <1>5, <1>6, <2>1, WantedForms DEF Prefixes
  <2>2. CASE ~options.show_seed
    BY <1>1, <1>4, <1>6, <2>2, WantedForms
  <2>3. QED
    BY <2>1, <2>2
<1>7. ASSUME SeedRequest
      PROVE  Wanted # Before /\ Run!Front(Wanted) = Before /\ Run!SeedWanted
  <2>1. Wanted = Before \o <<"seed">>
    BY <1>7, WantedForms DEF SeedRequest
  <2>2. Len(Before) \in Nat /\ (Len(Before) + 1) - 1 = Len(Before)
        /\ Len(Before) + 1 # Len(Before)
    BY <1>1, LenProperties
  <2>3. QED
    BY <1>2, <1>5, <2>1, <2>2 DEF Run!Front, Run!SeedWanted, Run!Last
<1>8. QED
  BY <1>3, <1>4, <1>6, <1>7

\* A request that parse_command_line accepts and whose wordlist is accepted can
\* be carried out.
LEMMA AcceptedIsValid ==
  ASSUME options \in CommandLines, AcceptsOptions(options),
         options.help \/ Wordlists[options.wordlist].accepted
  PROVE  Valid
<1>1. CASE options.help
  BY <1>1 DEF AcceptsOptions, Valid
<1>2. CASE ~options.help
  <2> DEFINE S == options.sources
  <2>1. IsFiniteSet(S)
    <3>1. IsFiniteSet(EntropySources)
      <4>1. IsFiniteSet({"dice"})
        BY FS_Singleton
      <4>2. IsFiniteSet({"dice"} \cup {"dice_only"})
        BY <4>1, FS_AddElement
      <4>3. IsFiniteSet({"dice"} \cup {"dice_only"} \cup {"cards"})
        BY <4>2, FS_AddElement
      <4>4. IsFiniteSet({"dice"} \cup {"dice_only"} \cup {"cards"}
                          \cup {"cards_only"})
        BY <4>3, FS_AddElement
      <4>5. EntropySources = {"dice"} \cup {"dice_only"} \cup {"cards"}
                               \cup {"cards_only"}
        BY DEF EntropySources
      <4>6. QED
        BY <4>4, <4>5
    <3>2. S \subseteq EntropySources
      BY SeedsAssumption
    <3>3. QED
      BY <3>1, <3>2, FS_Subset
  <2>2. Cardinality(S) <= 1 /\ Cardinality(S) \in Nat
    BY <1>2, <2>1, FS_CardinalityType DEF AcceptsOptions
  <2>3. ASSUME NEW s \in S, NEW t \in S, s # t
        PROVE  FALSE
    <3>1. IsFiniteSet({s}) /\ Cardinality({s}) = 1
      BY FS_Singleton
    <3>2. Cardinality({s} \cup {t}) = 2
      <4>1. t \notin {s}
        BY <2>3
      <4>2. Cardinality({s} \cup {t}) = Cardinality({s}) + 1
        BY <3>1, <4>1, FS_AddElement
      <4>3. QED
        BY <3>1, <4>2
    <3>3. {s} \cup {t} \in SUBSET S
      OBVIOUS
    <3>4. Cardinality({s} \cup {t}) <= Cardinality(S)
      BY <2>1, <3>3, FS_Subset
    <3>5. QED
      BY <2>2, <3>2, <3>4
  <2>4. QED
    BY <1>2, <2>3 DEF AcceptsOptions, Valid
<1>3. QED
  BY <1>1, <1>2

\* The request does not change.
LEMMA RequestStays ==
  ASSUME options' = options
  PROVE  /\ Valid' = Valid /\ SeedRequest' = SeedRequest
         /\ Before' = Before /\ Wanted' = Wanted
         /\ AcceptsOptions(options)' = AcceptsOptions(options)
BY DEF Valid, SeedRequest, Before, Wanted, EntropySection, MnemonicSections

\* The points of main that only lead on or write nothing.
LEMMA StoryBegins ==
  ASSUME StoryInv,
         \/ ParseCommandLine \/ LoadWordlist \/ EnterRoll \/ EnterCard
         \/ GenerateSystemEntropy \/ SourceFails \/ MakeMnemonic \/ DigestFails
  PROVE  Story'
<1>1. options' = options /\ status' = status
  BY DEF ParseCommandLine, LoadWordlist, EnterRoll, EnterCard,
         GenerateSystemEntropy, SourceFails, MakeMnemonic, DigestFails
<1>2. Valid' = Valid /\ SeedRequest' = SeedRequest /\ Before' = Before
      /\ Wanted' = Wanted
      /\ AcceptsOptions(options)' = AcceptsOptions(options)
  BY <1>1, RequestStays
<1>3. Story /\ options \in CommandLines
  BY DEF StoryInv, SeedsInv, PlaceOK
<1>4. CASE ParseCommandLine
  <2>1. pc = "parsing" /\ written = <<>> /\ status = "running"
    BY <1>3, <1>4 DEF ParseCommandLine, Story
  <2>2. CASE pc' \in {"throwing", "loading"} /\ UNCHANGED outputVars
             /\ (pc' = "loading" => AcceptsOptions(options) /\ ~options.help)
    BY <1>1, <1>2, <2>1, <2>2 DEF Story, outputVars
  <2>3. CASE /\ AcceptsOptions(options) /\ options.help
             /\ Write(<<"help">>) /\ pc' = "ending"
    <3>1. Valid /\ Wanted = <<"help">> /\ Wanted \in Prefixes(Wanted)
      BY <1>3, <2>3, AcceptedIsValid, WantedForms, WantedSections
    <3>2. <<>> \o <<"help">> = <<"help">>
      BY SectionsOK, ConcatEmptySeq
    <3>3. /\ written' = <<>> \/ written' = Wanted
          /\ Wrote(Wanted)'
      BY <1>2, <2>1, <2>3, <3>1, <3>2 DEF Write, Wrote
    <3>4. QED
      BY <1>1, <1>2, <2>1, <2>3, <3>1, <3>3 DEF Story
  <2>4. QED
    BY <1>4, <2>2, <2>3 DEF ParseCommandLine
<1>5. CASE LoadWordlist
  <2>1. /\ pc = "loading" /\ written = <<>> /\ status = "running"
        /\ AcceptsOptions(options) /\ ~options.help
    BY <1>3, <1>5 DEF LoadWordlist, Story
  <2>2. written' = <<>> /\ pc' \in {"throwing", "random", "entering"}
    BY <1>5, <2>1 DEF LoadWordlist, outputVars, Prompt
  <2>3. pc' \in {"random", "entering"} => Valid
    BY <1>3, <1>5, <2>1, AcceptedIsValid DEF LoadWordlist
  <2>4. QED
    BY <1>1, <1>2, <2>1, <2>2, <2>3 DEF Story
<1>6. CASE \/ EnterRoll \/ EnterCard \/ GenerateSystemEntropy
           \/ SourceFails \/ MakeMnemonic \/ DigestFails
  <2>1. /\ pc \in {"entering", "random", "hashing"}
        /\ written = <<>> /\ status = "running" /\ Valid /\ ~options.help
    BY <1>3, <1>6 DEF EnterRoll, EnterCard, GenerateSystemEntropy,
                      SourceFails, MakeMnemonic, DigestFails, Story
  <2>2. /\ written' = written
        /\ pc' \in {"entering", "random", "hashing", "printing", "throwing"}
    <3>1. CASE EnterRoll
      BY <3>1 DEF EnterRoll, AfterEntry, outputVars, Prompt
    <3>2. CASE EnterCard
      <4>1. deck_state' \in {"entering", "used", "abandoned"}
        BY <3>2 DEF EnterCard, Decks!DeckNext, Decks!Draw,
                    Decks!ShuffleAgain, Decks!Use, Decks!GiveUp
      <4>2. QED
        BY <3>2, <4>1 DEF EnterCard, AfterEntry, outputVars, Prompt
    <3>3. CASE \/ GenerateSystemEntropy \/ SourceFails
               \/ MakeMnemonic \/ DigestFails
      BY <3>3 DEF GenerateSystemEntropy, SourceFails, MakeMnemonic,
                  DigestFails, outputVars
    <3>4. QED
      BY <1>6, <3>1, <3>2, <3>3
  <2>3. QED
    BY <1>1, <1>2, <2>1, <2>2 DEF Story
<1>7. QED
  BY <1>4, <1>5, <1>6

\* The points of main that print, ask for the passphrase and derive the seed.
LEMMA StoryEnds ==
  ASSUME StoryInv,
         \/ PrintMnemonic \/ AskPassphrase \/ EnterPassphrase
         \/ PassphraseEnds \/ DeriveSeed \/ DerivationFails
  PROVE  Story'
<1>1. options' = options
  BY DEF PrintMnemonic, AskPassphrase, EnterPassphrase, PassphraseEnds,
         DeriveSeed, DerivationFails
<1>2. Valid' = Valid /\ SeedRequest' = SeedRequest /\ Before' = Before
      /\ Wanted' = Wanted
  BY <1>1, RequestStays
<1>3. Story
  BY DEF StoryInv
<1>4. CASE PrintMnemonic
  <2>1. /\ pc = "printing" /\ written = <<>> /\ status = "running"
        /\ Valid /\ ~options.help
    BY <1>3, <1>4 DEF PrintMnemonic, Story
  <2>2. <<>> \o Before = Before /\ Before \in Prefixes(Wanted)
    BY <2>1, WantedForms, WantedSections, ConcatEmptySeq
  <2>3. Write(Before) /\ status' = status
        /\ pc' = IF options.show_seed THEN "prompting" ELSE "ending"
    BY <1>4 DEF PrintMnemonic, Before
  <2>4. written' \in {<<>>, Before} /\ Wrote(Before)'
    BY <1>2, <2>1, <2>2, <2>3 DEF Write, Wrote
  <2>5. options.show_seed => SeedRequest
    BY <2>1 DEF SeedRequest
  <2>6. ~options.show_seed => Wanted = Before
    BY <2>1, WantedForms
  <2>7. QED
    BY <1>2, <2>1, <2>2, <2>3, <2>4, <2>5, <2>6 DEF Story, Wrote
<1>5. CASE AskPassphrase \/ EnterPassphrase
  <2>1. /\ pc \in {"prompting", "passphrase"} /\ pc' = "passphrase"
        /\ status' = status
        /\ Prompt \/ (pc = "passphrase" /\ UNCHANGED outputVars)
    <3>1. CASE AskPassphrase
      BY <3>1 DEF AskPassphrase
    <3>2. CASE EnterPassphrase
      BY <3>2 DEF EnterPassphrase
    <3>3. QED
      BY <1>5, <3>1, <3>2
  <2>2. written' = written /\ bad' = bad /\ asked'
    BY <1>3, <2>1 DEF Prompt, outputVars, Story
  <2>3. QED
    BY <1>2, <1>3, <2>1, <2>2 DEF Story, Wrote
<1>6. CASE PassphraseEnds \/ DerivationFails
  <2>1. /\ pc \in {"passphrase", "deriving"} /\ UNCHANGED outputVars
        /\ \/ pc' \in {"deriving", "throwing"} /\ status' = status
           \/ pc' = "exited" /\ status' = "signal"
    BY <1>6 DEF PassphraseEnds, DerivationFails
  <2>2. written' = written /\ bad' = bad /\ asked' = asked
    BY <2>1 DEF outputVars
  <2>3. QED
    BY <1>2, <1>3, <2>1, <2>2 DEF Story, Wrote
<1>7. CASE DeriveSeed
  <2>1. /\ SeedRequest /\ Wrote(Before) /\ status = "running" /\ Valid
        /\ pc' = "ending" /\ status' = status /\ Write(<<"seed">>)
    BY <1>3, <1>7 DEF DeriveSeed, Story, SeedRequest
  <2>2. Wanted = Before \o <<"seed">> /\ Wanted \in Prefixes(Wanted)
    BY <2>1, WantedForms, WantedSections DEF SeedRequest
  <2>3. /\ written' = written \/ written' = Wanted
        /\ Wrote(Wanted)'
    BY <1>2, <2>1, <2>2 DEF Write, Wrote
  <2>4. QED
    BY <1>2, <1>3, <2>1, <2>2, <2>3 DEF Story
<1>8. QED
  BY <1>4, <1>5, <1>6, <1>7

\* What has been written and asked follows the requests at every step.
LEMMA StoryStep ==
  ASSUME StoryInv, [Next]_vars
  PROVE  Story'
<1>1. CASE \/ Exit("ending", "success") \/ Exit("throwing", "failure")
           \/ Killed \/ Spill \/ StdoutFails
  <2>1. /\ options' = options /\ written' = written /\ asked' = asked
        /\ bad' = bad \/ bad'
        /\ \/ pc' = "exited" /\ status' \in {"success", "failure", "signal"}
           \/ pc' = pc /\ status' = status
    BY <1>1 DEF Exit, Killed, Spill, StdoutFails, outputVars
  <2>2. Valid' = Valid /\ SeedRequest' = SeedRequest /\ Before' = Before
        /\ Wanted' = Wanted
        /\ AcceptsOptions(options)' = AcceptsOptions(options)
    BY <2>1, RequestStays
  <2>3. Story
    BY DEF StoryInv
  <2>4. \A s : (written = s \/ bad) => (written' = s \/ bad')
    BY <2>1
  <2>5. QED
    BY <2>1, <2>2, <2>3, <2>4 DEF Story, Wrote
<1>2. CASE UNCHANGED vars
  <2>1. /\ options' = options /\ written' = written /\ asked' = asked
        /\ bad' = bad /\ pc' = pc /\ status' = status
    BY <1>2 DEF vars, outputVars
  <2>2. Valid' = Valid /\ SeedRequest' = SeedRequest /\ Before' = Before
        /\ Wanted' = Wanted
        /\ AcceptsOptions(options)' = AcceptsOptions(options)
    BY <2>1, RequestStays
  <2>3. QED
    BY <2>1, <2>2 DEF StoryInv, Story, Wrote
<1>3. QED
  BY <1>1, <1>2, StoryBegins, StoryEnds DEF Next, Terminated

LEMMA InitStory == Init => Story
<1> SUFFICES ASSUME Init PROVE Story
  OBVIOUS
<1>1. written = <<>> /\ pc = "parsing" /\ status = "running"
  BY DEF Init
<1>2. QED
  BY <1>1 DEF Story

LEMMA StoryInvariant == Spec => []StoryInv
<1>1. Init => StoryInv
  BY InitSeeds, InitStory DEF StoryInv
<1>2. StoryInv /\ [Next]_vars => StoryInv'
  BY SeedsStep, StoryStep DEF StoryInv
<1>3. QED
  BY <1>1, <1>2, PTL DEF Spec

\* What has reached the reader.
Shown == SubSeq(written, 1, flushed)

\* How the steps that touch standard output change what is shown.
LEMMA ShownSteps ==
  ASSUME OutputOK
  PROVE  /\ written = <<>> => Shown = <<>>
         /\ flushed = Len(written) => Shown = written
         /\ written' = written /\ flushed' = flushed => Shown' = Shown
         /\ \A s \in Seq(Sections) : Write(s) => Shown' = Shown
         /\ written' = written
              /\ flushed' = (IF bad THEN flushed ELSE Len(written))
              => Shown' = IF bad THEN Shown ELSE written
<1>1. /\ written \in Seq(Sections) /\ flushed \in 0..Len(written)
      /\ Len(written) \in Nat
  BY LenProperties DEF OutputOK
<1>2. SubSeq(written, 1, 0) = <<>> /\ SubSeq(written, 1, Len(written)) = written
  BY <1>1, Parts
<1>3. written = <<>> => Shown = <<>>
  <2>1. Len(<<>>) = 0
    BY EmptySeq
  <2>2. written = <<>> => flushed = 0
    BY <1>1, <2>1
  <2>3. QED
    BY <1>2, <2>2 DEF Shown
<1>4. ASSUME NEW s \in Seq(Sections), Write(s)
      PROVE  Shown' = Shown
  <2>1. SubSeq(written \o s, 1, flushed) = SubSeq(written, 1, flushed)
    BY <1>1, AddedBehind
  <2>2. flushed' = flushed /\ (written' = written \/ written' = written \o s)
    BY <1>4 DEF Write
  <2>3. QED
    BY <2>1, <2>2 DEF Shown
<1>5. QED
  BY <1>2, <1>3, <1>4 DEF Shown

\* What the promise is about, apart from the request.
LEMMA SameRequest ==
  ASSUME options' = options
  PROVE  Valid' = Valid /\ Wanted' = Wanted
BY RequestStays

\* The request is one of those the promise knows.
LEMMA RequestForms ==
  ASSUME options \in CommandLines
  PROVE  Valid \in BOOLEAN /\ Wanted \in Run!Wants
<1>1. Valid \in BOOLEAN
  BY DEF Valid
<1>2. /\ <<"help">> \in Run!Wants
      /\ \A m \in Run!Mnemonics : m \in Run!Wants
                                 /\ m \o <<"seed">> \in Run!Wants
  BY Zenon DEF Run!Wants
<1>3. CASE options.help
  BY <1>1, <1>2, <1>3, WantedForms
<1>4. CASE ~options.help
  <2>1. Wanted = Before \o <<"seed">> \/ Wanted = Before
    BY <1>4, WantedForms
  <2>2. QED
    BY <1>1, <1>2, <2>1, WantedForms
<1>5. QED
  BY <1>3, <1>4

LEMMA RunInitial == Init => Run!RunInit
<1> SUFFICES ASSUME Init PROVE Run!RunInit
  OBVIOUS
<1>1. Shown = <<>>
  BY InitSeeds, ShownSteps DEF Init, SeedsInv
<1>2. options \in CommandLines /\ asked = FALSE /\ bad = FALSE
      /\ status = "running"
  BY DEF Init
<1>3. QED
  BY <1>1, <1>2, RequestForms DEF Run!RunInit, Shown

\* Before anything has been written a prompt only asks.
LEMMA AskStep ==
  ASSUME StoryInv, Prompt, options' = options, status' = status,
         pc = "entering" \/ (pc' = "entering" /\ Story'),
         written = <<>>, status = "running"
  PROVE  Run!Ask
<1>1. Valid
  BY SameRequest DEF StoryInv, Story
<1>2. Shown = <<>> /\ (Shown' = IF bad THEN Shown ELSE written)
  BY ShownSteps DEF StoryInv, SeedsInv, Prompt
<1>3. asked' = TRUE /\ bad' = bad
  BY DEF Prompt
<1>4. QED
  BY <1>1, <1>2, <1>3, SameRequest DEF Run!Ask, Shown

\* The prompts for the passphrase come when all before the seed is shown.
LEMMA ShowAndAskStep ==
  ASSUME StoryInv, Prompt, options' = options, status' = status,
         pc \in {"prompting", "passphrase"}
  PROVE  Run!ShowAndAsk
<1>1. SeedRequest /\ Wrote(Before) /\ status = "running" /\ Valid
  BY DEF StoryInv, Story, SeedRequest
<1>2. Shown' = IF bad THEN Shown ELSE written
  BY ShownSteps DEF StoryInv, SeedsInv, Prompt
<1>3. Shown' = IF bad THEN Shown ELSE Run!Front(Wanted)
  BY <1>1, <1>2, WantedSections DEF Wrote
<1>4. asked' = TRUE /\ bad' = bad /\ Run!SeedWanted
  BY <1>1, WantedSections DEF Prompt
<1>5. QED
  BY <1>1, <1>3, <1>4, SameRequest DEF Run!ShowAndAsk, Shown

\* A full buffer shows more of what is wanted.
LEMMA SpillStep ==
  ASSUME StoryInv, Spill
  PROVE  Run!Show \/ UNCHANGED Run!rvars
<1>1. /\ status = "running" /\ ~bad
      /\ flushed' \in flushed..Len(written)
      /\ UNCHANGED <<options, written, asked, bad, status>>
  BY DEF Spill
<1>2. OutputOK /\ OutputOK' /\ Story
  BY <1>1, SeedsStep DEF StoryInv, SeedsInv, Next
<1>3. CASE written = <<>>
  <2>1. Shown = <<>> /\ Shown' = <<>>
    <3>1. (written = <<>> => Shown = <<>>)'
      BY <1>2, ShownSteps, PTL
    <3>2. QED
      BY <1>1, <1>2, <1>3, <3>1, ShownSteps
  <2>2. QED
    BY <1>1, <2>1, SameRequest DEF Run!rvars, Shown
<1>4. CASE written # <<>>
  <2>1. Valid /\ written \in Prefixes(Wanted) /\ Wanted \in Seq(Sections)
    BY <1>2, <1>4, WantedSections DEF Story
  <2>2. PICK n \in 0..Len(Wanted) : written = SubSeq(Wanted, 1, n)
    BY <2>1 DEF Prefixes
  <2>3. /\ written \in Seq(Sections) /\ Len(written) = n
    BY <2>1, <2>2, Beginning
  <2>4. n \in Nat /\ flushed \in 0..n /\ flushed' \in flushed..n
        /\ Len(Wanted) \in Nat
    BY <1>1, <1>2, <2>1, <2>3, LenProperties DEF OutputOK
  <2>5. flushed' \in 0..n /\ flushed' \in 0..Len(Wanted)
        /\ flushed \in 0..flushed'
    BY <2>2, <2>4
  <2>6. Shown' = SubSeq(Wanted, 1, flushed')
    BY <1>1, <2>1, <2>2, <2>5, Parts DEF Shown
  <2>7. Shown' \in Run!Prefixes(Wanted)
    BY <2>5, <2>6 DEF Run!Prefixes
  <2>8. Run!IsPrefix(Shown, Shown')
    BY <1>1, <2>3, <2>5, Parts DEF Shown
  <2>9. QED
    BY <1>1, <2>1, <2>7, <2>8, SameRequest DEF Run!Show, Shown
<1>5. QED
  BY <1>3, <1>4

\* The exit of a run.
LEMMA ExitStep ==
  ASSUME StoryInv, Exit("ending", "success") \/ Exit("throwing", "failure")
  PROVE  Run!Succeed \/ Run!Fail
<1>1. /\ UNCHANGED <<options, written, bad, asked>>
      /\ flushed' = IF bad THEN flushed ELSE Len(written)
      /\ pc \in {"ending", "throwing"}
  BY DEF Exit, sourceVars, passphraseVars
<1>2. Shown' = IF bad THEN Shown ELSE written
  BY <1>1, ShownSteps DEF StoryInv, SeedsInv
<1>3. status = "running" /\ Story
  BY <1>1 DEF StoryInv, Story
<1>4. CASE pc = "ending"
  <2>1. status' = "success" /\ Valid /\ Wrote(Wanted)
    BY <1>3, <1>4 DEF Exit, Story
  <2>2. Shown' = IF bad THEN Shown ELSE Wanted
    BY <1>2, <2>1 DEF Wrote
  <2>3. QED
    BY <1>1, <1>3, <2>1, <2>2, SameRequest DEF Run!Succeed, Shown
<1>5. CASE pc = "throwing"
  <2>1. status' = "failure"
    BY <1>5 DEF Exit
  <2>2. CASE written = <<>>
    <3>1. Shown = <<>> /\ Shown' = Shown
      BY <1>2, <2>2, ShownSteps DEF StoryInv, SeedsInv
    <3>2. QED
      BY <1>1, <1>3, <2>1, <3>1, SameRequest DEF Run!Fail, Shown
  <2>3. CASE SeedRequest /\ asked /\ Wrote(Before)
    <3>1. Valid /\ Run!SeedWanted /\ Run!Front(Wanted) = Before
      BY <2>3, WantedSections DEF SeedRequest
    <3>2. IF bad THEN Shown' = Shown ELSE Shown' = Run!Front(Wanted)
      BY <1>2, <2>3, <3>1 DEF Wrote
    <3>3. QED
      BY <1>1, <1>3, <2>1, <2>3, <3>1, <3>2, SameRequest DEF Run!Fail, Shown
  <2>4. QED
    BY <1>3, <1>5, <2>2, <2>3 DEF Story
<1>6. QED
  BY <1>1, <1>4, <1>5

\* Every step of a run is one of the promise or changes nothing of it.
LEMMA RunStep ==
  ASSUME StoryInv, [Next]_vars
  PROVE  [Run!RunNext]_Run!rvars
<1> SUFFICES Run!RunNext \/ UNCHANGED Run!rvars
  OBVIOUS
<1>0. Story /\ OutputOK /\ Story'
  BY StoryStep DEF StoryInv, SeedsInv
<1>a. options' = options /\ status' = status /\ UNCHANGED outputVars
        => UNCHANGED Run!rvars
  BY SameRequest DEF outputVars, Run!rvars
<1>b. ASSUME NEW s \in Seq(Sections), Write(s), options' = options,
             status' = status
      PROVE  UNCHANGED Run!rvars
  <2>1. Shown' = Shown /\ asked' = asked /\ bad' = bad
    BY <1>0, <1>b, ShownSteps DEF Write
  <2>2. QED
    BY <1>b, <2>1, SameRequest DEF Run!rvars, Shown
<1>1. CASE ParseCommandLine
  <2>1. options' = options /\ status' = status
        /\ (Write(<<"help">>) \/ UNCHANGED outputVars)
    BY <1>1 DEF ParseCommandLine
  <2>2. QED
    BY <1>a, <1>b, <2>1, SectionsOK
<1>2. CASE LoadWordlist
  <2>1. options' = options /\ status' = status
        /\ ((pc' = "entering" /\ Prompt) \/ UNCHANGED outputVars)
        /\ pc = "loading"
    BY <1>2 DEF LoadWordlist
  <2>2. written = <<>> /\ status = "running"
    BY <1>0, <2>1 DEF Story
  <2>3. QED
    BY <1>0, <1>a, <2>1, <2>2, AskStep DEF Run!RunNext
<1>3. CASE EnterRoll \/ EnterCard
  <2>1. options' = options /\ status' = status
        /\ (Prompt \/ UNCHANGED outputVars)
        /\ pc = "entering"
    <3>1. CASE EnterRoll
      BY <3>1 DEF EnterRoll
    <3>2. CASE EnterCard
      <4>1. deck_state' \in {"entering", "used", "abandoned"}
        BY <3>2 DEF EnterCard, Decks!DeckNext, Decks!Draw,
                    Decks!ShuffleAgain, Decks!Use, Decks!GiveUp
      <4>2. QED
        BY <3>2, <4>1 DEF EnterCard
    <3>3. QED
      BY <1>3, <3>1, <3>2
  <2>2. written = <<>> /\ status = "running"
    BY <1>0, <2>1 DEF Story
  <2>3. QED
    BY <1>a, <2>1, <2>2, AskStep DEF Run!RunNext
<1>4. CASE \/ GenerateSystemEntropy \/ SourceFails \/ MakeMnemonic
           \/ DigestFails \/ DerivationFails
  BY <1>4, <1>a DEF GenerateSystemEntropy, SourceFails, MakeMnemonic,
                    DigestFails, DerivationFails
<1>5. CASE PrintMnemonic
  BY <1>5, <1>b, SectionsOK DEF PrintMnemonic
<1>6. CASE AskPassphrase
  BY <1>6, ShowAndAskStep DEF AskPassphrase, Run!RunNext
<1>7. CASE EnterPassphrase
  <2>1. options' = options /\ status' = status /\ pc = "passphrase"
        /\ (Prompt \/ UNCHANGED outputVars)
    BY <1>7 DEF EnterPassphrase
  <2>2. QED
    BY <1>a, <2>1, ShowAndAskStep DEF Run!RunNext
<1>8. CASE PassphraseEnds
  <2>1. /\ options' = options /\ UNCHANGED outputVars /\ pc = "passphrase"
        /\ status' = status \/ status' = "signal"
    BY <1>8 DEF PassphraseEnds
  <2>2. CASE status' = status
    BY <1>a, <2>1, <2>2
  <2>3. CASE status' = "signal"
    <3>1. status = "running" /\ Shown' = Shown
      BY <1>0, <2>1, ShownSteps DEF Story, outputVars
    <3>2. Run!Killed
      BY <2>1, <2>3, <3>1, SameRequest DEF Run!Killed, Shown, outputVars
    <3>3. QED
      BY <3>2 DEF Run!RunNext
  <2>4. QED
    BY <2>1, <2>2, <2>3
<1>9. CASE DeriveSeed
  BY <1>9, <1>b, SectionsOK DEF DeriveSeed
<1>10. CASE Exit("ending", "success") \/ Exit("throwing", "failure")
  BY <1>10, ExitStep DEF Run!RunNext
<1>11. CASE Spill
  BY <1>11, SpillStep DEF Run!RunNext
<1>12. CASE StdoutFails
  <2>1. status = "running" /\ bad' = TRUE
        /\ UNCHANGED <<options, written, flushed, asked, status>>
    BY <1>12 DEF StdoutFails
  <2>2. Shown' = Shown
    BY <2>1 DEF Shown
  <2>3. Run!Lose
    BY <2>1, <2>2, SameRequest DEF Run!Lose, Shown
  <2>4. QED
    BY <2>3 DEF Run!RunNext
<1>13. CASE Killed
  <2>1. status = "running" /\ status' = "signal"
        /\ UNCHANGED <<options, written, flushed, bad, asked>>
    BY <1>13 DEF Killed, outputVars
  <2>2. Run!Killed
    BY <2>1, SameRequest DEF Run!Killed
  <2>3. QED
    BY <2>2 DEF Run!RunNext
<1>14. CASE UNCHANGED vars
  BY <1>14, <1>a DEF vars
<1>15. QED
  BY <1>1, <1>2, <1>3, <1>4, <1>5, <1>6, <1>7, <1>8, <1>9, <1>10, <1>11,
     <1>12, <1>13, <1>14 DEF Next, Terminated

\* A run implements SeedsPromise: a bad request is refused before anything is
\* asked or shown, sections come in order and once, a run that fails has shown
\* nothing or all but the seed, and success means that all was shown unless
\* the output failed.
THEOREM RunKeepsPromise == Spec => KeepsRunPromise
<1>1. Spec => []StoryInv
  BY StoryInvariant
<1>2. StoryInv /\ [Next]_vars => [Run!RunNext]_Run!rvars
  BY RunStep
<1>3. QED
  BY <1>1, <1>2, RunInitial, PTL DEF Spec, KeepsRunPromise, Run!Promise

===============================================================================
