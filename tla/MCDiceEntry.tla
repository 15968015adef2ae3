------------------------------ MODULE MCDiceEntry -----------------------------
(* The dice modes with the roll counts of the code, for TLC: every mode and *)
(* entropy length, three sequences of faces, a mistake of every kind.       *)
EXTENDS DiceEntry

CONSTANTS a, c, t, one, zero, bip39, dice, cards, only, v1, r1, r2

MCRanks == <<a, t>>
MCSuits == <<c>>
MCLowercase == [ch \in {a, t, c, one, zero} |-> ch]

MCDice      == <<bip39, dice, v1>>
MCCards     == <<bip39, cards, v1>>
MCCardsOnly == <<bip39, cards, only, v1>>

MCRandoms == {<<r1, r1>>, <<r2, r1>>}

MCThrows ==
  {[i \in 1..124 |-> 1 + (i % 6)], [i \in 1..124 |-> 1 + ((i \div 6) % 6)],
   [i \in 1..124 |-> 6 - ((i * i) % 6)]}

MCMistakes ==
  {[roll |-> n, extra |-> FALSE] : n \in {-1, 0, 7, NotANumber}}
    \cup {[roll |-> n, extra |-> TRUE] : n \in {1, 6, 12}}

===============================================================================
