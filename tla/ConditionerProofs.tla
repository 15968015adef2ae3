--------------------------- MODULE ConditionerProofs ---------------------------
(***************************************************************************)
(* Proofs about Conditioner: the byte strings that are hashed tell the     *)
(* modes and everything that went into them apart, for all domain strings, *)
(* decks, rolls and random bytes.                                          *)
(***************************************************************************)
EXTENDS Conditioner, SequenceTheorems, TLAPS

-------------------------------------------------------------------------------
(* Concatenations.                                                         *)

\* The sequence st has the parts s and t.
Joins(st, s, t) ==
  /\ Len(s) \in Nat /\ Len(t) \in Nat
  /\ Len(st) = Len(s) + Len(t)
  /\ \A i \in 1..Len(s) : st[i] = s[i]
  /\ \A i \in 1..Len(t) : st[Len(s) + i] = t[i]

\* Both parts of a concatenation, whatever sets their elements are from.
LEMMA Concatenation ==
  ASSUME NEW S, NEW T, NEW s \in Seq(S), NEW t \in Seq(T)
  PROVE  s \o t \in Seq(S \cup T) /\ Joins(s \o t, s, t)
<1>1. s \in Seq(S \cup T) /\ t \in Seq(S \cup T)
  BY SeqMonotonic
<1>2. Len(s) \in Nat /\ Len(t) \in Nat
  BY LenProperties
<1>3. /\ s \o t \in Seq(S \cup T)
      /\ Len(s \o t) = Len(s) + Len(t)
      /\ \A i \in 1..Len(s) + Len(t) :
           (s \o t)[i] = IF i <= Len(s) THEN s[i] ELSE t[i - Len(s)]
  BY <1>1, ConcatProperties
<1>4. \A i \in 1..Len(s) : (s \o t)[i] = s[i]
  BY <1>2, <1>3
<1>5. ASSUME NEW i \in 1..Len(t)
      PROVE  (s \o t)[Len(s) + i] = t[i]
  <2>1. /\ Len(s) + i \in 1..Len(s) + Len(t)
        /\ ~ (Len(s) + i <= Len(s))
        /\ Len(s) + i - Len(s) = i
    BY <1>2
  <2>2. QED
    BY <1>3, <2>1
<1>6. QED
  BY <1>2, <1>3, <1>4, <1>5 DEF Joins

\* If s \o t and u \o v are the same string, their parts are the same.
SameParts(s, t, u, v) == s \o t = u \o v => s = u /\ t = v

\* Where the first parts are equally long, equal concatenations have equal
\* parts: this is why fields of fixed sizes need no separators.
LEMMA EqualParts ==
  ASSUME NEW S, NEW T, NEW s \in Seq(S), NEW u \in Seq(S),
         NEW t \in Seq(T), NEW v \in Seq(T), Len(s) = Len(u)
  PROVE  SameParts(s, t, u, v)
<1>1. Joins(s \o t, s, t)
  BY Concatenation
<1>2. Joins(u \o v, u, v)
  BY Concatenation
<1>3. SUFFICES ASSUME s \o t = u \o v PROVE s = u /\ t = v
  BY DEF SameParts
<1>4. (\A i \in 1..Len(s) : s[i] = u[i]) /\ Len(t) = Len(v)
  BY <1>1, <1>2, <1>3 DEF Joins
<1>5. \A i \in 1..Len(t) : t[i] = v[i]
  BY <1>1, <1>2, <1>3, <1>4 DEF Joins
<1>6. QED
  BY <1>4, <1>5, SeqEqual

\* A string of three parts begins with the first.
LEMMA FirstOfThree ==
  ASSUME NEW S, NEW T, NEW U,
         NEW s \in Seq(S), NEW t \in Seq(T), NEW u \in Seq(U)
  PROVE  /\ s \o t \in Seq(S \cup T)
         /\ \A k \in DOMAIN s : (s \o t \o u)[k] = s[k]
<1>1. s \o t \in Seq(S \cup T) /\ Joins(s \o t, s, t)
  BY Concatenation
<1>2. Joins(s \o t \o u, s \o t, u)
  BY <1>1, Concatenation
<1>3. DOMAIN s = 1..Len(s)
  BY LenProperties
<1>4. QED
  BY <1>1, <1>2, <1>3 DEF Joins

-------------------------------------------------------------------------------
(* The conditioner inputs.                                                 *)

\* Two strings differ at a place that both have.
Apart(s, t) == \E k \in DOMAIN s \cap DOMAIN t : s[k] # t[k]

\* What DomainAssumption says of each domain string.
LEMMA DomainStrings ==
  /\ sha256_size \in Nat
  /\ mixed_dice_domain \in Seq(Range(mixed_dice_domain))
  /\ mixed_cards_domain \in Seq(Range(mixed_cards_domain))
  /\ cards_only_domain \in Seq(Range(cards_only_domain))
  /\ mixed_dice_domain # <<>> /\ mixed_dice_domain[1] \notin 49..54
  /\ mixed_cards_domain # <<>> /\ mixed_cards_domain[1] \notin 49..54
  /\ cards_only_domain # <<>> /\ cards_only_domain[1] \notin 49..54
  /\ Apart(mixed_dice_domain, mixed_cards_domain)
  /\ Apart(mixed_dice_domain, cards_only_domain)
  /\ Apart(mixed_cards_domain, cards_only_domain)
<1> DEFINE domains == <<mixed_dice_domain, mixed_cards_domain, cards_only_domain>>
<1>1. /\ sha256_size \in Nat
      /\ \A i \in 1..3 : /\ domains[i] \in Seq(Range(domains[i]))
                         /\ domains[i] # <<>>
                         /\ domains[i][1] \notin 49..54
      /\ \A i, j \in 1..3 : i # j => Apart(domains[i], domains[j])
  BY DomainAssumption DEF Apart
<1>2. /\ domains[1] = mixed_dice_domain
      /\ domains[2] = mixed_cards_domain
      /\ domains[3] = cards_only_domain
  OBVIOUS
<1> HIDE DEF domains
<1>3. QED
  BY <1>1, <1>2

\* A number of two bytes.
LEMMA TwoBytes ==
  ASSUME NEW value \in Nat
  PROVE  /\ uint16_be(value) \in Seq(Int) /\ Len(uint16_be(value)) = 2
         /\ uint16_be(value)[2] = value % 256
<1> DEFINE high == (value % 65536) \div 256
           low  == value % 256
<1>1. high \in Int /\ low \in Int
  OBVIOUS
<1>2. uint16_be(value) = <<high, low>>
  BY DEF uint16_be
<1> HIDE DEF high, low
<1>3. <<high, low>> \in Seq(Int) /\ Len(<<high, low>>) = 2 /\ <<high, low>>[2] = low
  BY <1>1
<1>4. QED
  BY <1>2, <1>3 DEF low

MixedDiceFields(input, rolls, random, byte_count) ==
  LET header == Len(mixed_dice_domain) + 4 IN
  /\ Len(input) = header + Len(rolls) + Len(random)
  /\ \A k \in DOMAIN mixed_dice_domain : input[k] = mixed_dice_domain[k]
  /\ input[Len(mixed_dice_domain) + 2] = (8 * byte_count) % 256
  /\ \A i \in 1..Len(rolls) : input[header + i] = rolls[i]

\* Where the fields of the mixed dice input are: the domain, two numbers of two
\* bytes, the rolls and the random bytes.
LEMMA MixedDiceLayout ==
  ASSUME NEW R, NEW rolls \in Seq(R), NEW X, NEW random \in Seq(X),
         NEW byte_count \in ByteCounts
  PROVE  MixedDiceFields(MixedDiceInput(rolls, random, byte_count),
                         rolls, random, byte_count)
<1> DEFINE domain == mixed_dice_domain
           bits   == uint16_be(8 * byte_count)
           count  == uint16_be(Len(rolls))
           A      == Range(domain)
<1>1. domain \in Seq(A)
  BY DomainStrings
<1>2. bits \in Seq(Int) /\ Len(bits) = 2 /\ bits[2] = (8 * byte_count) % 256
  <2>1. 8 * byte_count \in Nat
    BY DEF ByteCounts
  <2>2. QED
    BY <2>1, TwoBytes
<1>3. count \in Seq(Int) /\ Len(count) = 2
  BY TwoBytes, LenProperties
<1>4. MixedDiceInput(rolls, random, byte_count)
        = domain \o bits \o count \o rolls \o random
  BY DEF MixedDiceInput
<1>5. DOMAIN domain = 1..Len(domain)
  BY <1>1, LenProperties
<1> HIDE DEF domain, bits, count, A
<1>6. domain \o bits \in Seq(A \cup Int) /\ Joins(domain \o bits, domain, bits)
  BY <1>1, <1>2, Concatenation
<1> DEFINE s2 == domain \o bits
<1>7. /\ s2 \o count \in Seq((A \cup Int) \cup Int)
      /\ Joins(s2 \o count, s2, count)
  BY <1>6, <1>3, Concatenation
<1> DEFINE s3 == s2 \o count
           B  == (A \cup Int) \cup Int
<1>8. s3 \o rolls \in Seq(B \cup R) /\ Joins(s3 \o rolls, s3, rolls)
  <2> HIDE DEF s2
  <2>1. s3 \in Seq(B)
    BY <1>7
  <2> HIDE DEF s3, B
  <2>2. QED
    BY <2>1, Concatenation
<1> DEFINE s4 == s3 \o rolls
<1>9. Joins(s4 \o random, s4, random)
  <2>1. s4 \in Seq(B \cup R)
    BY <1>8
  <2> HIDE DEF s4, B
  <2>2. QED
    BY <2>1, Concatenation
<1>10. MixedDiceInput(rolls, random, byte_count) = s4 \o random
  BY <1>4
<1>11. Joins(s2, domain, bits) /\ Joins(s3, s2, count) /\ Joins(s4, s3, rolls)
  BY <1>6, <1>7, <1>8
<1> HIDE DEF s2, s3, s4, B
<1> DEFINE input == s4 \o random
<1>12. Len(input) = Len(domain) + 4 + Len(rolls) + Len(random)
  BY <1>2, <1>3, <1>9, <1>11 DEF Joins
<1>13. \A k \in 1..Len(domain) : input[k] = domain[k]
  BY <1>2, <1>3, <1>9, <1>11 DEF Joins
<1>14. Len(s3) = Len(domain) + 4
  BY <1>2, <1>3, <1>11 DEF Joins
<1>15. \A i \in 1..Len(rolls) : input[Len(s3) + i] = s4[Len(s3) + i]
  BY <1>9, <1>11 DEF Joins
<1>16. \A i \in 1..Len(rolls) : input[Len(domain) + 4 + i] = rolls[i]
  BY <1>11, <1>14, <1>15 DEF Joins
<1> HIDE DEF input
<1>17. input[Len(domain) + 2] = (8 * byte_count) % 256
  <2> DEFINE place == Len(domain) + 2
  <2>1. place \in 1..Len(s2) /\ s2[place] = bits[2]
    <3>1. 2 \in 1..Len(bits)
      BY <1>2
    <3>2. QED
      BY <1>2, <1>11, <3>1 DEF Joins
  <2> HIDE DEF place
  <2>2. s3[place] = bits[2] /\ place \in 1..Len(s3)
    BY <1>3, <1>11, <2>1 DEF Joins
  <2>3. s4[place] = bits[2] /\ place \in 1..Len(s4)
    BY <1>11, <2>2 DEF Joins
  <2>4. input[place] = bits[2]
    BY <1>9, <2>3 DEF Joins, input
  <2>5. QED
    BY <1>2, <2>4 DEF place
<1>18. QED
  BY <1>5, <1>10, <1>12, <1>13, <1>16, <1>17
     DEF domain, input, MixedDiceFields

\* The low byte of the number of bits tells the byte counts apart.
LEMMA LowByte ==
  ASSUME NEW m \in ByteCounts, NEW n \in ByteCounts,
         (8 * m) % 256 = (8 * n) % 256
  PROVE  m = n
<1> DEFINE low(k) == (8 * k) % 256
<1>1. low(16) = 128 /\ low(20) = 160 /\ low(24) = 192 /\ low(28) = 224 /\ low(32) = 0
  OBVIOUS
<1>2. low(m) = low(n)
  OBVIOUS
<1> HIDE DEF low
<1>3. QED
  BY <1>1, <1>2 DEF ByteCounts

\* Equal inputs of the mixed dice mode come from the same length, the same
\* rolls and the same random bytes.
THEOREM MixedDiceDetermines ==
  ASSUME NEW R, NEW rolls \in Seq(R), NEW others \in Seq(R),
         NEW X, NEW random \in Seq(X), NEW noise \in Seq(X),
         NEW byte_count \in ByteCounts, NEW size \in ByteCounts,
         Len(rolls) = mixed_dice_roll_count(byte_count),
         Len(others) = mixed_dice_roll_count(size)
  PROVE  MixedDiceInput(rolls, random, byte_count)
           = MixedDiceInput(others, noise, size)
         => byte_count = size /\ rolls = others /\ random = noise
<1> DEFINE input == MixedDiceInput(rolls, random, byte_count)
           same  == MixedDiceInput(others, noise, size)
<1>1. SUFFICES ASSUME input = same
               PROVE  byte_count = size /\ rolls = others /\ random = noise
  OBVIOUS
<1>2. byte_count = size
  <2>1. /\ MixedDiceFields(input, rolls, random, byte_count)
        /\ MixedDiceFields(same, others, noise, size)
    BY MixedDiceLayout
  <2> HIDE DEF input, same
  <2>2. (8 * byte_count) % 256 = (8 * size) % 256
    BY <1>1, <2>1, Zenon DEF MixedDiceFields
  <2>3. QED
    BY <2>2, LowByte
<1>3. Len(rolls) = Len(others) /\ Len(rolls) \in Nat
  BY <1>2, LenProperties
<1> DEFINE domain == mixed_dice_domain
           bits   == uint16_be(8 * byte_count)
           count  == uint16_be(Len(rolls))
           header == domain \o bits \o count
           B      == (Range(domain) \cup Int) \cup Int
<1>4. header \in Seq(B)
  <2>1. domain \in Seq(Range(domain))
    BY DomainStrings
  <2>2. bits \in Seq(Int) /\ count \in Seq(Int)
    <3>1. 8 * byte_count \in Nat
      BY DEF ByteCounts
    <3>2. QED
      BY <1>3, <3>1, TwoBytes
  <2> HIDE DEF domain, bits, count
  <2>3. domain \o bits \in Seq(Range(domain) \cup Int)
    BY <2>1, <2>2, Concatenation
  <2>4. QED
    BY <2>2, <2>3, Concatenation
<1>5. header \o rolls \o random = header \o others \o noise
  BY <1>1, <1>2, <1>3 DEF MixedDiceInput
<1> HIDE DEF header, B
<1>6. /\ header \o rolls \in Seq(B \cup R) /\ header \o others \in Seq(B \cup R)
      /\ Len(header \o rolls) = Len(header \o others)
  <2>1. header \o rolls \in Seq(B \cup R) /\ Joins(header \o rolls, header, rolls)
    BY <1>4, Concatenation
  <2>2. /\ header \o others \in Seq(B \cup R)
        /\ Joins(header \o others, header, others)
    BY <1>4, Concatenation
  <2>3. QED
    BY <1>3, <2>1, <2>2 DEF Joins
<1>7. header \o rolls = header \o others /\ random = noise
  <2> DEFINE s == header \o rolls
             u == header \o others
  <2>1. s \in Seq(B \cup R) /\ u \in Seq(B \cup R) /\ Len(s) = Len(u)
    BY <1>6
  <2>2. s \o random = u \o noise
    BY <1>5
  <2> HIDE DEF s, u
  <2>3. SameParts(s, random, u, noise)
    BY <2>1, EqualParts
  <2>4. QED
    BY <2>2, <2>3 DEF s, u, SameParts
<1>8. rolls = others
  <2>1. SameParts(header, rolls, header, others)
    BY <1>4, EqualParts
  <2>2. QED
    BY <1>7, <2>1 DEF SameParts
<1>9. QED
  BY <1>2, <1>7, <1>8

\* If two strings of three parts begin with the same domain and are equal, so
\* are their other parts.
SameRest(domain, s, t, u, v) ==
  domain \o s \o t = domain \o u \o v => s = u /\ t = v

\* Equal inputs of a card mode, whatever its domain, come from the same first
\* deck and the same second part: a deck has a fixed length.
LEMMA ThirdPart ==
  ASSUME NEW S, NEW T, NEW U, NEW domain \in Seq(S),
         NEW deck \in Seq(T), NEW other \in Seq(T), Len(deck) = Len(other),
         NEW t \in Seq(U), NEW u \in Seq(U)
  PROVE  SameRest(domain, deck, t, other, u)
<1>1. domain \o deck \in Seq(S \cup T) /\ Joins(domain \o deck, domain, deck)
  BY Concatenation
<1>2. domain \o other \in Seq(S \cup T) /\ Joins(domain \o other, domain, other)
  BY Concatenation
<1>3. Len(domain \o deck) = Len(domain \o other)
  BY <1>1, <1>2 DEF Joins
<1>4. SameParts(domain \o deck, t, domain \o other, u)
  BY <1>1, <1>2, <1>3, EqualParts
<1>5. SameParts(domain, deck, domain, other)
  BY EqualParts
<1>6. QED
  BY <1>4, <1>5 DEF SameParts, SameRest

Begins(input, domain) == \A k \in DOMAIN domain : input[k] = domain[k]

\* A card mode's input begins with its domain.
LEMMA CardsBegin ==
  ASSUME NEW C, NEW deck \in Seq(C), NEW U, NEW t \in Seq(U)
  PROVE  /\ Begins(MixedCardsInput(deck, t), mixed_cards_domain)
         /\ Begins(CardsOnlyInput(deck, t), cards_only_domain)
<1>1. /\ mixed_cards_domain \in Seq(Range(mixed_cards_domain))
      /\ cards_only_domain \in Seq(Range(cards_only_domain))
  BY DomainStrings
<1>2. Begins(mixed_cards_domain \o deck \o t, mixed_cards_domain)
  BY <1>1, FirstOfThree DEF Begins
<1>3. Begins(cards_only_domain \o deck \o t, cards_only_domain)
  BY <1>1, FirstOfThree DEF Begins
<1>4. QED
  BY <1>2, <1>3 DEF MixedCardsInput, CardsOnlyInput

\* Whatever dice, cards and random bytes go in, no two of the four physical
\* modes of entropy.cpp hash the same string: the domains keep three of them
\* apart, and the bare digits of --dice-only begin like none of them.
THEOREM ModesApart ==
  ASSUME NEW R, NEW rolls \in Seq(R), NEW byte_count \in ByteCounts,
         NEW X, NEW random \in Seq(X), NEW noise \in Seq(X),
         NEW C, NEW deck \in Seq(C), NEW first_deck \in Seq(C),
         NEW second_deck \in Seq(C),
         NEW faces \in Seq(49..54), faces # <<>>
  PROVE  LET dice  == MixedDiceInput(rolls, random, byte_count)
             cards == MixedCardsInput(deck, noise)
             only  == CardsOnlyInput(first_deck, second_deck)
             ascii == DiceOnlyInput(faces)
         IN  /\ dice # cards /\ dice # only /\ cards # only
             /\ ascii \notin {dice, cards, only}
<1> DEFINE dice  == MixedDiceInput(rolls, random, byte_count)
           cards == MixedCardsInput(deck, noise)
           only  == CardsOnlyInput(first_deck, second_deck)
<1>1. Begins(dice, mixed_dice_domain)
  BY MixedDiceLayout DEF MixedDiceFields, Begins
<1>2. Begins(cards, mixed_cards_domain) /\ Begins(only, cards_only_domain)
  BY CardsBegin
<1> HIDE DEF dice, cards, only
<1>3. dice # cards /\ dice # only /\ cards # only
  BY <1>1, <1>2, DomainStrings DEF Begins, Apart
<1>4. faces[1] \in 49..54
  BY EmptySeq, ElementOfSeq
<1>5. ASSUME NEW S, NEW domain \in Seq(S), domain # <<>>,
             domain[1] \notin 49..54, NEW input, Begins(input, domain)
      PROVE  input # faces
  <2>1. 1 \in DOMAIN domain
    BY <1>5, EmptySeq, LenProperties
  <2>2. QED
    BY <1>4, <1>5, <2>1 DEF Begins
<1>6. dice # faces /\ cards # faces /\ only # faces
  BY <1>1, <1>2, <1>5, DomainStrings
<1>7. QED
  BY <1>3, <1>6 DEF dice, cards, only, DiceOnlyInput

===============================================================================
