-------------------------------- MODULE MCSeeds --------------------------------
(* Every combination of the options that matters, two dice rolls, decks of   *)
(* two cards and passphrases of one character.                               *)
EXTENDS Seeds

CONSTANTS a, umlaut, cr

MCChars == {a, umlaut}
MCAscii == {a, cr}

MCWordlists ==
  [english   |-> [accepted |-> TRUE,  ascii |-> {TRUE}],
   latin     |-> [accepted |-> TRUE,  ascii |-> {TRUE, FALSE}],
   malformed |-> [accepted |-> FALSE, ascii |-> {}]]

Plain == [parses |-> TRUE, help |-> FALSE, sources |-> {}, word_count |-> 12,
          wordlist |-> "english", show_entropy |-> FALSE, show_seed |-> FALSE]

Shows == [show_entropy : BOOLEAN, show_seed : BOOLEAN]

\* Every source with 12 and 24 words and every list, two sources, a word count
\* that is not supported, help with a bad request, and a line Boost rejects.
MCCommandLines ==
  {[Plain EXCEPT !.sources = s, !.word_count = n, !.wordlist = w,
                 !.show_entropy = o.show_entropy, !.show_seed = o.show_seed] :
     s \in {{}, {"dice", "cards"}} \cup {{k} : k \in EntropySources},
     n \in {12, 24}, w \in DOMAIN MCWordlists, o \in Shows}
  \cup {[Plain EXCEPT !.word_count = n, !.sources = s, !.help = h] :
          n \in {0, 13}, s \in {{}, {"dice", "dice_only"}}, h \in BOOLEAN}
  \cup {[Plain EXCEPT !.parses = FALSE, !.help = h] : h \in BOOLEAN}

===============================================================================
