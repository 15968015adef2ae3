------------------------------ MODULE MCWordlist ------------------------------
(* Wordlists of two words: all files of up to three lines over two tokens.  *)
EXTENDS Wordlist

CONSTANTS a, b, empty

MCTexts == {<<>>, <<a>>, <<b>>, <<a, b>>, <<a, a>>}
MCLines == [text : MCTexts, cr : BOOLEAN]
MCFiles == UNION {[1..n -> MCLines] : n \in 0..3}

\* The token b begins with a, which is one character; a cut behind a space
\* leaves an empty token.
MCCuts ==
  [text \in MCTexts |->
     CASE text = <<b>>    -> {<<a>>}
       [] text = <<a, b>> -> {<<a>>, <<a, empty>>, <<a, a>>}
       [] text = <<a, a>> -> {<<a>>, <<a, empty>>}
       [] OTHER           -> {}]

===============================================================================
