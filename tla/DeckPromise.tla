----------------------------- MODULE DeckPromise -----------------------------
(***************************************************************************)
(* What entering shuffled decks promises, with no texts, names or prompts: *)
(* each ordering grows by one card at a time and never holds a card twice, *)
(* only complete orderings are used, and a second one only if it is not    *)
(* the first again.  Entering may be given up at any time.                 *)
(***************************************************************************)
EXTENDS Naturals, Sequences

CONSTANT
  DeckSize \* cards in a deck, numbered from 0

VARIABLES
  wanted, \* the number of orderings asked for
  orders, \* the orderings entered so far
  outcome \* "entering", "used" or "abandoned"

dvars == <<wanted, orders, outcome>>

DeckInit ==
  /\ wanted \in 1..2
  /\ orders = <<<<>>>>
  /\ outcome = "entering"

current == orders[Len(orders)]

Draw ==
  /\ outcome = "entering"
  /\ \E card \in 0..DeckSize-1 :
       /\ \A k \in DOMAIN current : current[k] # card
       /\ orders' = [orders EXCEPT ![Len(orders)] = Append(current, card)]
  /\ UNCHANGED <<wanted, outcome>>

ShuffleAgain ==
  /\ outcome = "entering"
  /\ Len(current) = DeckSize
  /\ Len(orders) < wanted
  /\ orders' = Append(orders, <<>>)
  /\ UNCHANGED <<wanted, outcome>>

Use ==
  /\ outcome = "entering"
  /\ Len(current) = DeckSize
  /\ Len(orders) = wanted
  /\ \A i, j \in DOMAIN orders : orders[i] = orders[j] => i = j
  /\ outcome' = "used"
  /\ UNCHANGED <<wanted, orders>>

GiveUp ==
  /\ outcome = "entering"
  /\ outcome' = "abandoned"
  /\ UNCHANGED <<wanted, orders>>

DeckNext == Draw \/ ShuffleAgain \/ Use \/ GiveUp

Promise == DeckInit /\ [][DeckNext]_dvars

===============================================================================
