------------------------------ MODULE MCCardEntry -----------------------------
(* A deck of two ranks and two suits for TLC.                              *)
EXTENDS CardEntry

CONSTANTS a, t, A, T, c, d, C, DD, one, zero, space, x,
          bip39, dice, cards, only, v1, r1

MCRanks == <<a, t>>
MCSuits == <<c, d>>
MCLowercase ==
  [ch \in {a, t, A, T, c, d, C, DD, one, zero, space, x} |->
     CASE ch = A -> a [] ch = T -> t [] ch = C -> c [] ch = DD -> d
       [] OTHER -> ch]
MCSpace == {space}

MCDice      == <<bip39, dice, v1>>
MCCards     == <<bip39, cards, v1>>
MCCardsOnly == <<bip39, cards, only, v1>>

\* As long as a deck: the text of one, and bytes that are no cards.
MCRandoms == {<<t, d, a, d, t, c, a, c>>, <<v1, r1, r1, r1, r1, r1, r1, r1>>}

\* Every way to write a card, with space around it, and texts that are none:
\* a one for the ten, a rank for the suit, nothing, a card and more.
Written ==
  {<<r, s>> : r \in {a, A, t, T}, s \in {c, C, d, DD}}
    \cup {<<one, zero, s>> : s \in {c, C, d, DD}}
Malformed ==
  {<<>>, <<space>>, <<one, c>>, <<c, a>>, <<one, one, c>>, <<a, x>>, <<a, c, d>>,
   <<a, space, c>>}
MCTexts ==
  Written \cup {<<space>> \o w : w \in Written}
          \cup {w \o <<space, space>> : w \in Written} \cup Malformed
FewTexts == {<<A, c>>, <<a, d>>, <<one, zero, C>>, <<T, d>>, <<t, c>>, <<one, c>>}

===============================================================================
