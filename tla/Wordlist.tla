------------------------------- MODULE Wordlist ------------------------------
(***************************************************************************)
(* load_wordlist and make_mnemonic of src/seeds.cpp.  A file is its lines  *)
(* in order; the text of a line is a sequence of tokens with one space     *)
(* between neighbours (a token is anything without a space, also nothing), *)
(* and cr says whether a carriage return follows the text.                 *)
(***************************************************************************)
EXTENDS Naturals, Sequences, FiniteSets, SequencesExt

CONSTANTS
  wordlist_size, \* 2048 in the code
  Files,         \* the files users name
  Cuts,          \* text of a line -> what a read that fails in the middle of
                 \* it may leave of it, neither nothing nor all
  MnemonicLength \* words in a mnemonic

ASSUME WordlistAssumption ==
  /\ wordlist_size \in Nat \ {0}
  /\ MnemonicLength \in Nat
  /\ \A f \in Files :
       /\ f \in Seq(Range(f))
       /\ \A i \in DOMAIN f :
            /\ f[i].cr \in BOOLEAN
            /\ f[i].text \in Seq(Range(f[i].text))
            /\ \A t \in Cuts[f[i].text] : t # <<>> /\ t \in Seq(Range(t))

VARIABLES
  pc,       \* "opening", "reading", "accepted" or "threw"
  file,     \* the lines of the file
  next,     \* the line std::getline reads next
  words,
  damaged   \* history: has a read of the file failed?

vars == <<pc, file, next, words, damaged>>

TypeOK ==
  /\ pc \in {"opening", "reading", "accepted", "threw"}
  /\ file \in Files
  /\ next \in 1..Len(file) + 1
  /\ Len(words) <= Len(file)
  /\ damaged \in BOOLEAN

Init ==
  /\ pc = "opening"
  /\ file \in Files
  /\ next = 1
  /\ words = <<>>
  /\ damaged = FALSE

Open ==
  /\ pc = "opening"
  /\ pc' \in {"reading", "threw"}
  /\ UNCHANGED <<file, next, words, damaged>>

\* Mutant: the carriage return stays part of the word.
UnstrippedWord(line) == IF line.cr THEN Append(line.text, "CR") ELSE line.text

\* The line without a carriage return at its end.
Word(line) == line.text

\* Mutant: every other line is skipped.
LineAfterNext == next + 2

NextLine == next + 1

\* What std::getline returned is a word unless it is empty.
Keep(text) ==
  /\ next' = NextLine
  /\ IF text = <<>>
     THEN pc' = "threw" /\ UNCHANGED words
     ELSE words' = Append(words, text) /\ UNCHANGED pc

ReadLine ==
  /\ pc = "reading" /\ ~damaged
  /\ next <= Len(file)
  /\ Keep(Word(file[next]))
  /\ UNCHANGED <<file, damaged>>

\* The read fails and std::getline returns nothing: the loop ends, as it does
\* at the end of the file.
ReadFails ==
  /\ pc = "reading" /\ ~damaged
  /\ next <= Len(file)
  /\ damaged' = TRUE
  /\ UNCHANGED <<pc, file, next, words>>

\* A line of which the newline was not read; it is empty only if just a carriage
\* return was read.
CutLine(line) ==
  Cuts[line.text] \cup ({line.text} \ (IF line.cr THEN {} ELSE {<<>>}))

\* The read fails in the middle of a line.  A library that reports it to
\* std::getline as the end of the file (libc++) has it return what there is of
\* the line; one that sets badbit (libstdc++) takes ReadFails.
ReadCutShort ==
  /\ pc = "reading" /\ ~damaged
  /\ next <= Len(file)
  /\ damaged' = TRUE
  /\ \E text \in CutLine(file[next]) : Keep(text)
  /\ UNCHANGED file

\* Mutant: duplicates are not looked for.
AcceptedUnchecked == Len(words) = wordlist_size

\* The loop has ended: the size and the set of words are checked.
Accepted ==
  /\ Len(words) = wordlist_size
  /\ Cardinality(Range(words)) = Len(words)

CheckWords ==
  /\ pc = "reading"
  /\ damaged \/ next > Len(file)
  /\ pc' = IF Accepted THEN "accepted" ELSE "threw"
  /\ UNCHANGED <<file, next, words, damaged>>

Terminated == pc \in {"accepted", "threw"} /\ UNCHANGED vars

Next ==
  \/ Open \/ ReadLine \/ ReadFails \/ ReadCutShort \/ CheckWords
  \/ Terminated

Spec == Init /\ [][Next]_vars

-------------------------------------------------------------------------------

\* make_mnemonic: the tokens of the mnemonic, one space between neighbours.
make_mnemonic(indices) ==
  FlattenSeq([p \in DOMAIN indices |-> words[indices[p] + 1]])

IndexLists == [1..MnemonicLength -> 0..wordlist_size - 1]

-------------------------------------------------------------------------------
(* Properties.                                                             *)

\* From a list that is accepted every mnemonic can be turned back into the
\* indices it was made from, provided each of its lines is one word: no two
\* lines differ only in their carriage return, and none is missing.
MnemonicRecoverable ==
  pc = "accepted" /\ (\A i \in DOMAIN words : Len(words[i]) = 1) =>
    \A m, n \in IndexLists : make_mnemonic(m) = make_mnemonic(n) => m = n

\* "one word per line": an accepted list has only such lines.
OneWordPerLine ==
  pc = "accepted" => \A i \in DOMAIN words : Len(words[i]) = 1

\* "exactly 2,048 lines": the accepted list is the whole file.
WholeFileAccepted == pc = "accepted" => Len(file) = wordlist_size

\* An accepted list is the file's first lines in their order, whatever their
\* line ends: a word keeps its index.  Even after a read that failed no word is
\* missing or moved; only the last may be the beginning of its line.
KeepsOrder ==
  pc = "accepted" =>
    \A i \in 1..wordlist_size :
      /\ i \in DOMAIN file
      /\ \/ words[i] = file[i].text
         \/ damaged /\ i = wordlist_size /\ words[i] \in Cuts[file[i].text]

===============================================================================
