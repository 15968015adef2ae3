------------------------------- MODULE MCIndices ------------------------------
(* Word counts and entropies that fit, are one byte off or are unsupported, *)
(* with bytes that make every bit position matter.                          *)
EXTENDS Indices

MCWordCounts == {0, 11, 12, 15, 18, 21, 24}

Patterned(n, p) == [i \in 1..n |-> (p + 37 * i * i) % 256]

MCEntropies ==
  {Patterned(n, p) : n \in {15, 16, 20, 24, 28, 32, 33}, p \in {0, 101}}
    \cup {[i \in 1..n |-> b] : n \in {16, 32}, b \in {0, 127, 255}}

MCDigests == {[i \in 1..32 |-> (b + 91 * i) % 256] : b \in {0, 255}}

===============================================================================
