--------------------------------- MODULE Seeds ---------------------------------
(***************************************************************************)
(* One run of the program: main of src/seeds.cpp, from the command line to *)
(* the exit status.  Entering cards and the passphrase are the components  *)
(* specified in CardEntry and Passphrase; here they take the steps of      *)
(* their promises, DeckPromise and PassphrasePromise.  Standard output is  *)
(* buffered: a section that was written is seen once it has been flushed,  *)
(* by the library when it likes, before a prompt, and at the exit.         *)
(*                                                                         *)
(* pc names the point main has reached:                                    *)
(*   parsing, loading, entering, random, hashing, printing                 *)
(*              up to the mnemonic, `entering' waiting for dice or cards   *)
(*   prompting, passphrase, deriving                                       *)
(*              the seed, `passphrase' waiting in read_passphrase          *)
(*   ending     about to return 0                                          *)
(*   throwing   an exception on its way to the handler of main             *)
(*   exited     the process is gone                                        *)
(***************************************************************************)
EXTENDS Naturals, Sequences, FiniteSets, SequencesExt

CONSTANTS
  CommandLines, \* the command lines users give, as records of options
  Wordlists,    \* file name -> [accepted : BOOLEAN, ascii : SUBSET BOOLEAN]:
                \* does load_wordlist return it, and are mnemonics of it ASCII?
  Rolls,        \* dice rolls asked for, 50 to 124 in the code
  DeckSize,     \* cards in a deck, 52 in the code
  Chars, CR,    \* the characters of a passphrase, the carriage return
  AsciiChars,
  MaxLine       \* bound: characters in a line of the passphrase entry

SupportedWordCounts == {12, 15, 18, 21, 24}
EntropySources      == {"dice", "dice_only", "cards", "cards_only"}

ASSUME SeedsAssumption ==
  /\ \A o \in CommandLines :
       /\ {o.parses, o.help, o.show_entropy, o.show_seed} \subseteq BOOLEAN
       /\ o.sources \subseteq EntropySources
       /\ o.word_count \in Nat
       /\ o.wordlist \in DOMAIN Wordlists
  /\ \A w \in DOMAIN Wordlists :
       {Wordlists[w].accepted} \cup Wordlists[w].ascii \subseteq BOOLEAN
  /\ Rolls \in Nat \ {0} /\ DeckSize \in Nat \ {0} /\ MaxLine \in Nat
  /\ AsciiChars \subseteq Chars \cup {CR}

VARIABLES
  pc,
  options,
  rolls,                         \* dice rolls read
  orders, deck_state,            \* DeckPromise
  mnemonic_is_ascii,
  line, complete, first, answer, \* PassphrasePromise
  written,                       \* the sections written to standard output
  flushed,                       \* how many of them have left the buffer
  unseen,                        \* is a prompt still in the buffer?
  bad,                           \* has a write of the buffer failed?
  asked,                         \* history: has anything been asked for?
  status

sourceVars     == <<rolls, orders, deck_state, mnemonic_is_ascii>>
passphraseVars == <<line, complete, first, answer>>
outputVars     == <<written, flushed, unseen, bad, asked>>
vars == <<pc, options, sourceVars, passphraseVars, outputVars, status>>

Locations == {"parsing", "loading", "entering", "random", "hashing", "printing",
              "prompting", "passphrase", "deriving", "ending", "throwing",
              "exited"}

TypeOK ==
  /\ pc \in Locations
  /\ options \in CommandLines
  /\ rolls \in 0..Rolls
  /\ Len(orders) \in 1..2
  /\ \A k \in DOMAIN orders : Len(orders[k]) <= DeckSize
  /\ {mnemonic_is_ascii, complete, unseen, bad, asked} \subseteq BOOLEAN
  /\ line \in Seq(Chars \cup {CR}) /\ first \in Seq(Chars \cup {CR})
  /\ written \in Seq({"help", "entropy", "words", "tiny", "seed"})
  /\ flushed \in 0..Len(written)
  /\ status \in {"running", "success", "failure", "signal"}

Init ==
  /\ pc = "parsing"
  /\ options \in CommandLines
  /\ rolls = 0
  /\ orders = << <<>> >> /\ deck_state = "entering"
  /\ mnemonic_is_ascii = TRUE
  /\ line = <<>> /\ complete = FALSE /\ first = <<>> /\ answer = "asking"
  /\ written = <<>> /\ flushed = 0 /\ unseen = FALSE /\ bad = FALSE
  /\ asked = FALSE
  /\ status = "running"

-------------------------------------------------------------------------------
(* Standard output.                                                        *)

\* What is written to a stream that has failed is dropped.
Write(sections) ==
  /\ written' = IF bad THEN written ELSE written \o sections
  /\ UNCHANGED <<flushed, unseen, bad, asked>>

\* Mutant: the prompt of read_hidden_line without std::flush.
PromptUnflushed ==
  /\ unseen' = TRUE
  /\ asked' = TRUE
  /\ UNCHANGED <<written, flushed, bad>>

\* A prompt flushes everything before it.
Prompt ==
  /\ flushed' = IF bad THEN flushed ELSE Len(written)
  /\ unseen' = bad
  /\ asked' = TRUE
  /\ UNCHANGED <<written, bad>>

\* The library flushes when its buffer is full.
Spill ==
  /\ status = "running" /\ ~bad
  /\ flushed' \in flushed..Len(written)
  /\ UNCHANGED <<pc, options, sourceVars, passphraseVars, written, unseen, bad,
                 asked, status>>

\* Standard output cannot be written any more; nobody looks at the stream.
StdoutFails ==
  /\ status = "running" /\ ~bad
  /\ bad' = TRUE
  /\ UNCHANGED <<pc, options, sourceVars, passphraseVars, written, flushed,
                 unseen, asked, status>>

-------------------------------------------------------------------------------
(* The command line and the wordlist.                                      *)

\* Mutant: the sources are not counted.
AcceptsAnySources(o) ==
  o.parses /\ (o.help \/ o.word_count \in SupportedWordCounts)

\* parse_command_line returns: Boost accepts the options and, unless help is
\* wanted, at most one source and a supported word count are given.
AcceptsOptions(o) ==
  /\ o.parses
  /\ \/ o.help
     \/ Cardinality(o.sources) <= 1 /\ o.word_count \in SupportedWordCounts

ParseCommandLine ==
  /\ pc = "parsing"
  /\ \/ /\ ~AcceptsOptions(options)
        /\ pc' = "throwing"
        /\ UNCHANGED outputVars
     \/ /\ AcceptsOptions(options) /\ options.help
        /\ Write(<<"help">>)
        /\ pc' = "ending"
     \/ /\ AcceptsOptions(options) /\ ~options.help
        /\ pc' = "loading"
        /\ UNCHANGED outputVars
  /\ UNCHANGED <<options, sourceVars, passphraseVars, status>>

\* The wordlist comes first; then the chosen source asks for its first entry.
LoadWordlist ==
  /\ pc = "loading"
  /\ \/ /\ ~Wordlists[options.wordlist].accepted
        /\ pc' = "throwing"
        /\ UNCHANGED outputVars
     \/ /\ Wordlists[options.wordlist].accepted
        /\ options.sources = {}
        /\ pc' = "random"
        /\ UNCHANGED outputVars
     \/ /\ Wordlists[options.wordlist].accepted
        /\ options.sources # {}
        /\ pc' = "entering"
        /\ Prompt
  /\ UNCHANGED <<options, sourceVars, passphraseVars, status>>

-------------------------------------------------------------------------------
(* The entropy sources.                                                    *)

source == CHOOSE s \in EntropySources : s \in options.sources

\* The modes that mix go on to RAND_priv_bytes, the others hash at once.
AfterEntry == IF source \in {"dice", "cards"} THEN "random" ELSE "hashing"

cards_only_deck_count ==
  IF source = "cards_only" /\ options.word_count = 24 THEN 2 ELSE 1

Decks == INSTANCE DeckPromise
           WITH wanted <- cards_only_deck_count, outcome <- deck_state

\* Mutant: one roll too many.
OneRollMore == rolls = Rolls

LastRoll == rolls + 1 = Rolls

EnterRoll ==
  /\ pc = "entering" /\ source \in {"dice", "dice_only"}
  /\ rolls' = rolls + 1
  /\ IF LastRoll THEN pc' = AfterEntry /\ UNCHANGED outputVars
                 ELSE UNCHANGED pc /\ Prompt
  /\ UNCHANGED <<options, orders, deck_state, mnemonic_is_ascii, passphraseVars,
                 status>>

\* A card, a second shuffle, the end of the decks, or an exception.
EnterCard ==
  /\ pc = "entering" /\ source \in {"cards", "cards_only"}
  /\ UNCHANGED options
  /\ Decks!DeckNext
  /\ CASE deck_state' = "entering"  -> UNCHANGED pc /\ Prompt
       [] deck_state' = "used"      -> pc' = AfterEntry /\ UNCHANGED outputVars
       [] deck_state' = "abandoned" -> pc' = "throwing" /\ UNCHANGED outputVars
  /\ UNCHANGED <<rolls, mnemonic_is_ascii, passphraseVars, status>>

\* Standard input ends at a roll, or RAND_priv_bytes fails.
SourceFails ==
  /\ \/ pc = "entering" /\ source \in {"dice", "dice_only"}
     \/ pc = "random"
  /\ pc' = "throwing"
  /\ UNCHANGED <<options, sourceVars, passphraseVars, outputVars, status>>

GenerateSystemEntropy ==
  /\ pc = "random"
  /\ pc' = "hashing"
  /\ UNCHANGED <<options, sourceVars, passphraseVars, outputVars, status>>

-------------------------------------------------------------------------------
(* The mnemonic.                                                           *)

\* The digests are computed; whether the mnemonic is ASCII may depend on which
\* words of the list the entropy selects.
MakeMnemonic ==
  /\ pc = "hashing"
  /\ mnemonic_is_ascii' \in Wordlists[options.wordlist].ascii
  /\ pc' = "printing"
  /\ UNCHANGED <<options, rolls, orders, deck_state, passphraseVars, outputVars,
                 status>>

\* sha256, of the physical entropy or of the entropy itself.
DigestFails ==
  /\ pc = "hashing"
  /\ pc' = "throwing"
  /\ UNCHANGED <<options, sourceVars, passphraseVars, outputVars, status>>

\* print_entropy_and_checksum; print_mnemonic and print_tiny_seed.
EntropySection   == IF options.show_entropy THEN <<"entropy">> ELSE <<>>
MnemonicSections == <<"words", "tiny">>

PrintMnemonic ==
  /\ pc = "printing"
  /\ Write(EntropySection \o MnemonicSections)
  /\ pc' = IF options.show_seed THEN "prompting" ELSE "ending"
  /\ UNCHANGED <<options, sourceVars, passphraseVars, status>>

-------------------------------------------------------------------------------
(* The passphrase and the seed.                                            *)

Entry == INSTANCE PassphrasePromise WITH outcome <- answer

AskPassphrase ==
  /\ pc = "prompting"
  /\ Prompt
  /\ pc' = "passphrase"
  /\ UNCHANGED <<options, sourceVars, passphraseVars, status>>

\* A step of read_passphrase that goes on with it; the second line has a prompt
\* of its own.
EnterPassphrase ==
  /\ pc = "passphrase"
  /\ Entry!PromiseNext
  /\ answer' = "asking" /\ Len(line') <= MaxLine
  /\ IF first' # first THEN Prompt ELSE UNCHANGED outputVars
  /\ UNCHANGED <<pc, options, sourceVars, status>>

\* read_passphrase returns, throws, or raises the signal that interrupted it.
PassphraseEnds ==
  /\ pc = "passphrase"
  /\ Entry!PromiseNext
  /\ \/ answer' = "accepted"  /\ pc' = "deriving" /\ UNCHANGED status
     \/ answer' = "abandoned" /\ pc' = "throwing" /\ UNCHANGED status
     \/ answer' = "abandoned" /\ pc' = "exited"   /\ status' = "signal"
  /\ UNCHANGED <<options, sourceVars, outputVars>>

\* Mutant: the passphrase is not checked.
OnlyMnemonicAscii == mnemonic_is_ascii

\* require_ascii holds of the mnemonic and of the passphrase.
IsAscii == mnemonic_is_ascii /\ Range(line) \subseteq AsciiChars

DeriveSeed ==
  /\ pc = "deriving"
  /\ IsAscii
  /\ Write(<<"seed">>)
  /\ pc' = "ending"
  /\ UNCHANGED <<options, sourceVars, passphraseVars, status>>

\* An argument is not ASCII, or PKCS5_PBKDF2_HMAC fails.
DerivationFails ==
  /\ pc = "deriving"
  /\ pc' = "throwing"
  /\ UNCHANGED <<options, sourceVars, passphraseVars, outputVars, status>>

-------------------------------------------------------------------------------
(* The end.                                                                *)

\* The exit status is decided before the exit flushes standard output.
Exit(from, result) ==
  /\ pc = from
  /\ pc' = "exited"
  /\ status' = result
  /\ flushed' = IF bad THEN flushed ELSE Len(written)
  /\ unseen' = (unseen /\ bad)
  /\ UNCHANGED <<options, sourceVars, passphraseVars, written, bad, asked>>

\* A signal with its default action; what is in the buffer is lost.
Killed ==
  /\ status = "running"
  /\ pc' = "exited"
  /\ status' = "signal"
  /\ UNCHANGED <<options, sourceVars, passphraseVars, outputVars>>

Terminated == pc = "exited" /\ UNCHANGED vars

Next ==
  \/ ParseCommandLine \/ LoadWordlist
  \/ EnterRoll \/ EnterCard \/ GenerateSystemEntropy \/ SourceFails
  \/ MakeMnemonic \/ DigestFails \/ PrintMnemonic
  \/ AskPassphrase \/ EnterPassphrase \/ PassphraseEnds
  \/ DeriveSeed \/ DerivationFails
  \/ Exit("ending", "success") \/ Exit("throwing", "failure")
  \/ Spill \/ StdoutFails \/ Killed
  \/ Terminated

Spec == Init /\ [][Next]_vars

-------------------------------------------------------------------------------
(* Properties.                                                             *)

\* Whenever the program waits for the user, everything it has written and the
\* prompt are on the screen: the mnemonic is never held back while the
\* passphrase is asked for, and no one is left before an empty screen.  ::read,
\* unlike std::cin, flushes nothing by itself.
PromptsSeen ==
  pc \in {"entering", "passphrase"} /\ ~bad =>
    ~unseen /\ flushed = Len(written)

\* The seed is printed, or success reported to who asked for it, only if the
\* mnemonic is ASCII, which with some wordlists depends on the entropy, and so
\* is the passphrase, which was entered twice alike.
SeedChecked ==
  \/ "seed" \in Range(written)
  \/ status = "success" /\ options.show_seed /\ ~options.help
  => mnemonic_is_ascii /\ line = first /\ Range(line) \subseteq AsciiChars

-------------------------------------------------------------------------------
(* Refinement.                                                             *)

\* The sections the options ask for.
Wanted ==
  IF options.help THEN <<"help">>
  ELSE EntropySection \o MnemonicSections
         \o (IF options.show_seed THEN <<"seed">> ELSE <<>>)

\* The requests the README says can be carried out.
Valid ==
  /\ options.parses
  /\ \/ options.help
     \/ /\ \A s, t \in options.sources : s = t
        /\ options.word_count \in SupportedWordCounts
        /\ Wordlists[options.wordlist].accepted

Run == INSTANCE SeedsPromise
         WITH valid <- Valid, wanted <- Wanted, lost <- bad,
              shown <- SubSeq(written, 1, flushed)

\* A run keeps the promise: bad requests are refused before anything is asked,
\* sections come in order and once, a failure reveals nothing or all but the
\* seed, and success means that all was shown unless the output failed.
KeepsRunPromise == Run!Promise

===============================================================================
