# A verification of `seeds`, the BIP-39 generator

`seeds` turns entropy (from OpenSSL, dice or shuffled cards) into a BIP-39
mnemonic, prints it, and on request asks for a passphrase on the terminal and
prints the derived seed. This directory holds TLA+ modules that model its
logic, the TLC configurations that check them, and theorems about them with
proofs for TLAPS.

```
tlc -workers 2 -config MCPassphrase_promise.cfg MCPassphrase    # one run
tlapm PassphraseProofs.tla                                       # one module's proofs
```

## 1. The system

One process, one thread, six source files under `src/src`. What makes it more
than a pipeline is that it talks to a person and to a terminal: signals and
keystrokes arrive between any two of its steps, entries are refused and asked
for again, any system call may fail, and whatever happens the terminal has to
be left as it was found.

| Component | State it keeps | Operations | What makes it correct |
|---|---|---|---|
| Hidden passphrase entry: `read_passphrase`, `read_hidden_line`, `SignalGuard`, `TerminalEchoGuard` (`seeds.cpp` 78–163, 505–578) | dispositions of SIGINT, SIGTERM, SIGHUP, SIGQUIT and their saved originals, `caught_signal`, terminal settings and their saved original, the bytes read | construct and destroy the guards, the read loop, raising the remembered signal, comparing the two lines | nothing typed is ever shown; echo and dispositions come back on every path, through signals and failing calls; ignored signals stay ignored; only a repeated passphrase is accepted, exactly as typed; the entry ends |
| Card entropy: `read_card_deck`, the two card generators, `normalize_card`, `validate_canonical_deck`, the card functions of `entropy.cpp` | the deck so far, the cards seen, position, shuffle number | read, accept or refuse a card; second shuffle; mix or hash | only complete orderings of distinct cards are hashed, two different ones for 256 bits; the reader never collects what the validator rejects; a deck can always be finished |
| Dice entropy: `read_die_face`, the two dice generators, `mix_dice_entropy`, `dice_only_entropy` | rolls so far | read, accept or refuse a roll; mix or hash | the faces thrown are hashed, in order and in the representation of the mode; enough of them for the entropy asked for |
| Entropy to indices: `make_indices` (`bip39.cpp` 62–164), the Tiny Seed and checksum displays | the bit being packed, the 16-bit index, the indices | check sizes, pack a bit, push an index | no internal error can occur; only checksum bits of the digest are read; the printed Tiny Seed is the entropy and its checksum |
| External wordlist: `load_wordlist`, `make_mnemonic` | the words read | open, read a line, check | an accepted list keeps the file's order; mnemonics made from it can be read back |
| Command line and `main` (`seeds.cpp` 38–59, 598–742) | the options, the buffer of `std::cout` | parse, load the words, run a source, print, ask, derive, exit | bad requests are refused before the user is asked for anything; sections appear in order and once; a failure shows nothing or all but the seed; success means all was shown; nobody waits before an unflushed prompt |
| System entropy: `generate_system_entropy` | – | RAND_priv_bytes | a failure stops the program |
| Seed derivation: `derive_seed`, `require_ascii`, `checked_int` | – | check the arguments, PBKDF2 | ASCII only; a failure comes after the mnemonic and before any of the seed |
| English wordlist, output, help, build, tests | – | – | – |
| OpenSSL, the terminal driver | external | | |

**How they interact.** `main` parses the options, loads the words, runs one of
five entropy sources to its end, hashes the entropy, calls `make_indices`,
prints, and only then calls `read_passphrase` and `derive_seed`. All calls are
synchronous; failures are exceptions that `main` turns into exit status 1. The
interleaving comes from outside: the signal handler shares `caught_signal`
with the thread, the user shares the terminal's queue and settings with it,
and the two guards nest (`SignalGuard` is constructed first and destroyed
last).

**What is hard to test here** is listed with its lines under `hazards` in
`PROJECT.json`: signals and keys between the steps of the guards, half-finished
constructors, stale `caught_signal`, the ignored result of the restoring
`tcsetattr`, lines that arrive in several reads, long sequences of refused
entries, bits that straddle bytes and the entropy/checksum boundary, read
errors that look like an end of file, stops and continues in the middle of the
hidden entry, and output that is still in a buffer when the user is asked or
the exit status is decided.

## 2. The modules

| Module | Models | Role |
|---|---|---|
| `Terminal` | the terminal in canonical mode (external), as the program's calls use it | passive device: echo bits, queue of keystrokes |
| `HiddenLine` | one call of `read_hidden_line` with both guards | extends `Terminal` |
| `Passphrase` | `read_passphrase`, calls of `HiddenLine` one after the other | extends `HiddenLine`; properties |
| `PassphrasePromise` | what `read_passphrase` promises, without guards or reads | abstract specification |
| `JobControl` | `Passphrase` in a shell that stops and continues it | extends `Passphrase` |
| `Cards` | `card_index`, `normalize_card`, `validate_canonical_deck` | operators |
| `Conditioner` | tables, checks and hash inputs of `entropy.cpp` | operators, extends `Cards` |
| `CardEntry` | both card modes | extends `Conditioner`; properties |
| `DeckPromise` | what entering decks promises | abstract specification |
| `DiceEntry` | both dice modes | extends `Conditioner`; properties |
| `Indices` | `make_indices` and the two displays of its bits | state machine and properties |
| `Wordlist` | `load_wordlist`, `make_mnemonic` | state machine and properties |
| `Seeds` | one run of the program: `parse_command_line`, `main`, `derive_seed`'s checks, buffered output | composes `DeckPromise` and `PassphrasePromise` by INSTANCE |
| `SeedsPromise` | what one run promises whoever started it | abstract specification of `Seeds` |
| `MC*` | small instances for TLC | |
| `PassphraseProofs`, `JobControlProofs` | the hidden entry, alone and under a shell | theorems and proofs |
| `ConditionerProofs`, `CardEntryProofs`, `DiceEntryProofs` | hashed strings, cards, dice | theorems and proofs |
| `IndicesProofs`, `WordlistProofs`, `SeedsProofs` | packing and its display, the wordlist, a whole run | theorems and proofs |

Definitions keep the source's names where they can. `pc` names the point a
function has reached; the head of each module says which. Definitions marked
`Mutant` in a module are plausible bugs, not used by any specification: each
property is checked to fail when its mutant takes the place of the definition
behind it (`mutants` in `PROJECT.json`). A few definitions are histories that
only properties read: `tty0`, `handler0` (what the shell left), `sent0` (the
signals sent before the current call), `repeated`, `thrown`, `damaged`, and the
`visible` field of a keystroke, which records whether ECHO was set as it was
typed.

### State and actions against the code

*Passphrase.* `InstallHandler` is one round of the loop at `seeds.cpp:92`;
`InstallFails` its error path, which unwinds the same `restore` loop
(`RestoreHandler`) that the destructor runs. `ReadSettings` and `HideEcho` are
the two calls of `TerminalEchoGuard`'s constructor, `EchoGuardFails` the three
exceptions in it. `EnterRead` separates the decision to read from the blocked
`::read`: a signal in between is remembered and interrupts nothing.
`ReadReturns` is the whole body for `byte_count >= 0`, stripping included;
`ReadFails`, `ReadRestarted` and a delivered signal are its ways to return -1;
`CheckSignal` is the branch on EINTR. `RestoreEcho`, `RestoreHandler` and
`LeaveCall` are the two destructors and what follows the block; `RestoreFails`
is a restoring `tcsetattr` that fails for any reason but a signal (if
`RestoreCanFail`), which the destructor does not notice. `NothingCaught` is
what `SignalGuard`'s constructor makes of the `caught_signal` of an earlier call.
`tcsetattr(TCSAFLUSH)` is `SetAttr`: it changes the settings and empties the
queue. A read returns a line at most, up to a newline or an end-of-file mark
and never more than the buffer; a line that does not fit comes in several
reads. A keyboard signal may flush the queue.
A signal interrupts a read that has no line, may interrupt one that has, and,
if `DrainInterruptible`, may make the restoring `tcsetattr` fail with EINTR,
whose result the code ignores.

*Job control.* `Stop` and `Continue` may come at every point of the entry, as
the program neither guards SIGTSTP nor acts on SIGCONT. The shell is external:
on a stop it may put its own settings back or keep those it finds, and whether
it gives a continued job its settings back is the constant `ShellRestoresJob`.

*Cards and dice.* A text is a sequence of characters and goes through the
modelled `normalize_card` (trimming, lower case, "10"). `DigestFails` is
`sha256` throwing once the inputs have passed every check. A die entry is the
`int` a line starts with and whether more than space follows, which is all the
stream extraction at `seeds.cpp:267` looks at. SHA-256 is symbolic: a digest
stands for the string that was hashed, so a property of what is hashed is a
property of the digest.

*Indices.* One step per bit. The index is a `std::uint16_t`, so the shift is
taken modulo 2^16.

*Wordlist.* A file is a sequence of lines, a line a sequence of tokens with
single spaces in between and perhaps a carriage return. What a failing read does
to `std::getline` depends on the library: in `ReadFails` nothing of the line is
returned (libstdc++ sets badbit), in `ReadCutShort` the beginning of the line is
(libc++ takes the failure for the end of the file) and becomes a word. `Cuts`
gives the beginnings of a text.

*A whole run.* `Seeds` has one action for each stage of `main`. `options` is
one record per command line; `AcceptsOptions` is everything
`parse_command_line` demands of it, `wordlist` names a list that `load_wordlist`
accepts or not. While cards or the passphrase are entered, `Seeds` takes the
steps of `DeckPromise` and `PassphrasePromise`, which `CardEntry` and
`Passphrase` are shown to refine, so that every way these components can end
meets every stage of `main`. A section of output (`"entropy"`, `"words"`,
`"tiny"`, `"seed"`, `"help"`) is written to a buffer and is seen once flushed:
by `Prompt` (the `std::flush` behind each prompt), by `Exit`, or by `Spill` when
the buffer is full. `StdoutFails` sets the state of the stream that nobody looks
at, and `Killed` loses what is buffered. The exception handler of `main` is
`Exit("throwing", "failure")`.

## 3. The runs

| Run | Properties | Shows |
|---|---|---|
| `passphrase_safety` | `TypeOK`, `NeverEchoed`, `EchoRestored`, `EchoOffWhileReading`, `DispositionsRestored`, `IgnoredNeverKills`, `KeepsPromise` | `JobControl`, for every interleaving of two signals, two keystrokes, stops, continues and any failing call: no character of an answer was shown, echo is off in the read loop and back however the process leaves, unless the restoring `tcsetattr` fails, dispositions are inherited again, ignored signals do not kill, and stops never alter an answer |
| `passphrase_promise` | `InterruptIsNew`, `KeepsPromise`, `InterruptKept`, `EntryEnds`, `InterruptEnds` | also when the restoring call fails: `Passphrase` refines `PassphrasePromise`, its retry loops end, a signal that interrupted a read is not lost on the way out, and one of the first call never interrupts the second |
| `passphrase_drain` | `EchoRestoredOnSuccess` *violated* | finding 1 |
| `passphrase_stopped` | `EchoOffWhileReading` *violated* | finding 5 |
| `cards_entry` | `TypeOK`, `ReaderMeetsValidator`, `CardsLeft`, `HashDeterminesSource`, `KeepsDeckPromise`, `EntryEnds` | reader and validator agree; the hashed string belongs to one source; the entry refines `DeckPromise`; there is an unseen card for every place left; a deck, and a second one, can always be finished |
| `cards_refused` | `RefusedEntryFails` *violated* | finding 2 |
| `dice_rolls` | `TypeOK`, `ReaderMeetsChecks`, `ThrownRollsHashed`, `EnoughRolls` | what is thrown is what is hashed; the roll tables are the least sufficient ones, except the documented 99 |
| `indices_packing` | `TypeOK`, `NoInternalError`, `ReadsOnlyChecksum`, `TinySeedIsEntropy` | packing is right for all word counts, also rejected inputs |
| `wordlist_accepted` | `TypeOK`, `MnemonicRecoverable`, `KeepsOrder` | accepted lists are usable; words keep their lines' numbers, and only the last can be cut short by a read error |
| `seeds_run` | `TypeOK`, `PromptsSeen`, `SeedChecked`, `KeepsRunPromise` | whole runs refine `SeedsPromise`; whoever is asked for something sees everything printed before; a seed is shown only for a mnemonic and a repeated passphrase that are ASCII |
| `wordlist_oneword`, `wordlist_wholefile` | `OneWordPerLine`, `WholeFileAccepted` *violated* | findings 3 and 4 |

### Bounds, and why they are enough

* `BufferSize` 2 instead of 256: a line of two characters and a newline
  already needs two reads, and the carriage return and the newline can fall
  into different reads. What matters is whether a line fits.
* `Chars` one character besides the carriage return, which is a second character
  of the line wherever it is not last.
* `MaxTyped` 1 to 4 keystrokes besides the final newline of each line: enough
  for a line in parts, a character typed before the prompt, an end-of-file key
  in the middle, two lines that differ, and a line in two reads that is
  repeated (4). `PressEnter` is not counted, so
  that the bound never stops an entry from ending.
* `signals` one or two of the four, `MaxSignals` 1 or 2: the guard's loops have
  a first and a last signal and a half-installed state; a second signal
  arrives after the first was remembered. The theorems hold for any list.
* `DrainInterruptible` is FALSE in `passphrase_safety`, where `EchoRestored`
  states what the code achieves when the restoring call is not interrupted,
  and TRUE in `passphrase_promise` and `passphrase_drain`. `RestoreCanFail` is
  TRUE in `passphrase_promise` only, so that the violations of
  `passphrase_drain` and `passphrase_stopped` are due to a signal and a stop.
* `ShellRestoresJob` is TRUE in `passphrase_safety`, FALSE in
  `passphrase_stopped`; the number of stops is not bounded.
* Cards: two ranks and two suits, every spelling of each of the four cards with
  space around it, and eight malformed texts. All orders of entry, all second
  shuffles and all refusals occur. The domain strings are of the same shape as
  the code's (a common beginning, then a difference). The randomness is as long
  as a deck and may be the text of one, which is the worst case for
  `HashDeterminesSource`.
* Dice: the roll counts are the code's own (up to 124), with three sequences of
  faces and a mistake of each kind before every roll; the rest of the state is
  a counter.
* Indices: word counts and entropies both fitting and not, all-zero, all-one
  and patterned bytes.
* A whole run: two rolls, decks of two cards and passphrases of one character,
  ASCII or not; each step's number of repetitions is left to the components'
  own runs. Every source with 12 and 24 words, three wordlists (all ASCII, partly
  ASCII, malformed), both sections, two sources at once, unsupported word counts,
  help together with a bad request, and a line Boost rejects.
* Wordlist: lists of two words, all files of up to three lines over five texts,
  a read failure before any line or in the middle of one. That a longer text has
  more beginnings than the ones given changes nothing the properties see.

`CHECK_DEADLOCK` is left on: each specification has an explicit `Terminated`
step for the ends the program really has.

### Fairness

* `Passphrase!FairSpec`: weak fairness of the program's own steps, the thread
  being scheduled whenever it can run, and of the user's newline. Failures,
  restarts (`ReadRestarted`), other keys and signals have none. The newline is
  the one obligation of the environment: the program blocks for ever if nobody
  ends the line. `PressEnter` is enabled whenever no newline is queued,
  and what is typed may still be flushed; signals and keys are finite by their
  bounds, restarts are not.
* `CardEntry!FairSpec`: weak fairness of the program's steps, and of entering a
  text the reader accepts. That this is enabled at every position is what the
  property shows (with the cards seen in the first shuffle kept it is not).
  Refusals may come any number of times.
* The dice, index and wordlist modules and `Seeds` have no liveness property.

## 4. What is proved

`PassphraseProofs` (any set of characters, any list of distinct guarded
signals, any buffer size and any bound on keystrokes and signals):

* `TypeCorrect`: `Spec => []TypeOK`. The work is in the read: a chunk and what
  it leaves are subsequences of the queue (`ReadParts`, which needs a least
  delimiter to exist, `MinExists`), and stripping keeps sequences of
  keystrokes.
* `NeverShown`: `Spec => []NeverEchoed`. Not inductive alone: a later read
  could bring in shown keystrokes. `Hidden` adds that while the loop runs echo
  is off and everything queued is invisible, which the flush of `HideEcho`
  establishes.
* `HandlersRestored`, `IgnoredSurvives`: `Spec => []DispositionsRestored`,
  `Spec => []IgnoredNeverKills`. `GuardInv` describes the guard half-way
  through its loops: the first `installed` signals are handled and their
  saved originals are the inherited dispositions, the others are untouched;
  in the echo guard's life all are handled, and outside the block none.
* `InterruptNeverLost`: `Spec => InterruptKept`, the safety part of
  `InterruptEnds`. It is inductive as it stands; the work is in the signals that
  arrive while the first is being dealt with.
* `InterruptsAreNew`: `Spec => []InterruptIsNew`, from `NewInv`: whatever
  `caught_signal` holds while a call runs was sent after that call's guard reset it,
  and `sent0` remembers where the call began.
* `EchoAlwaysRestored`:
  `~DrainInterruptible /\ ~RestoreCanFail => (Spec => []EchoRestored)`.
  `EchoInv` ties the saved settings to the shell's and says that echo is
  changed only between `HideEcho` and `RestoreEcho`; with `GuardInv` no
  signal can end the process there. The hypothesis is necessary: the code does
  not look at the result of the restoring call (run `passphrase_drain`).
* `PassphraseKeepsPromise`: `Spec => KeepsPromise`, the refinement of
  `PassphrasePromise`. The abstract line is what is in the buffer followed by
  what is still queued before the first newline, without end-of-file marks
  (`Pending`, from the recursive functions `Kept` and `LineEnd`). The lemmas
  `KeptSteps` to `TypedSplit` say what these functions give for a queue that is
  extended or cut; `ReadTakes` is the heart: what a read takes from the queue
  is what it adds to the line, and an end-of-file mark. `LineInv` adds that a
  new line starts empty and that nothing is thrown or caught before `show`.
  Then there is one lemma for each kind of step: a key maps to `TypeChar` or a
  stutter (`PressPromised`), a read to a stutter, `Complete` or `Discard`
  (`ReadPromised`), a flush or a failure to `Discard` or `Abandon`.

`JobControlProofs` (the same, for any number of stops):

* `EchoStaysOff` and `JobNeverShown`, under `ShellRestoresJob`:
  `JobSpec => []EchoOffWhileReading` and `JobSpec => []NeverEchoed`. The
  invariants speak of the settings the job has or will find again (`JobLflag`):
  in the read loop these hide the passphrase, also while it is stopped there.
  The hypothesis is necessary: run `passphrase_stopped`.
* `JobEchoRestored`, under `~DrainInterruptible /\ ~RestoreCanFail` and for any
  shell: outside the read loop and the restoring call the settings are the shell's, those of a
  stopped job included (`JobEchoInv`).
* `JobHandlersRestored`, `JobIgnoredSurvives`, `JobInterruptNeverLost`,
  `JobInterruptsAreNew`, `JobTypeCorrect`, `JobKeepsPromise`: a stop or a continue
  leaves all that these depend on alone, but for a flush of the queue, which is
  a `Discard` of the promise or nothing.

`ConditionerProofs` (any domain strings that differ somewhere and do not begin
with a roll's digit, any decks, rolls and random bytes): `ModesApart`, no two of
the four physical modes hash the same string. The layouts of the strings are
lemmas that the entry modules cite. `MixedDiceDetermines`: the string of mixed
dice determines the entropy's length, the rolls and the random bytes. The
header gives the length, also modulo 256, and the length the number of rolls,
so that the parts are cut at known places.

`CardEntryProofs` (any ranks, suits, texts and random bytes):

* `CardsTypeCorrect`, `ValidatorNeverRefuses`: `CardInv` says that the deck is
  made of as many different cards as the position tells, all of them in `seen`
  (`DeckSoFar`), and that only complete decks are handed over (`DecksHanded`).
  That `card_index` numbers the cards one to one is a lemma about the places of
  ranks and suits in their lists.
* `CardsRemain`: `Spec => []CardsLeft`. `SeenCounted` says that while a card is
  asked for `seen` has `position - 1` elements and only pairs of ranks and
  suits; with the size of the deck (`DeckSize`, cardinalities of products and
  images) the unseen pairs are as many as the places left. A `seen` kept from the
  first shuffle would break it.
* `FreshCardExists`: if every canonical card can be written, then whenever a
  card is asked for some text is accepted. `CardsRemain` gives the unseen pair and
  `CanonicalRead` that its text is read as that card. Fairness to a user who
  tries long enough then gives `EntryEnds`, which TLC checks.
* `SourceDetermined`: with the lengths of decks and random bytes fixed, equal
  strings have equal parts; with the domains apart the mode is known too.
* `EntryKeepsPromise`: `Spec => KeepsDeckPromise`. A card accepted is a draw of
  a card not drawn before, a deck read begins the next, and the comparison of
  two shuffles is that of their orderings, because valid decks with the same
  ordering are the same text (`OrderDetermines`).

`DiceEntryProofs` (any throws, mistakes and random bytes):

* `DiceTypeCorrect`, `ChecksNeverRefuse` and `ThrowsHashed` from `Copied`, by
  which the rolls kept are the first faces thrown in the form of the mode.
* `RollsEnough`: `Spec => []EnoughRolls`. The property compares powers of six
  with powers of two by 21 limbs of 16 bits, which TLC can compute. The proof
  shows that the limbs are digits of the number they stand for and that
  `TimesSix` multiplies it by six without losing a carry (`NumberTimesSix`), so
  that `PowerOfSix[n]` is 6^n in base 2^16 up to n = 124 (`PowersOfSix`). A number
  has a limb above the first k exactly if it is at least 2^16k (`CoversWhen`).
  `TablesCover` is then one comparison of numerals for each entry of the tables.

`IndicesProofs` (any word counts, entropies and digests of callers):

* `InternalErrorsUnreachable`, `ChecksumOnly`, `IndicesTypeCorrect`:
  `PackingInv` bounds the index by 2^bit, so that the 16-bit shift never wraps;
  `Sizes` shows for each word count that the bits divide into groups of eleven.
* `TinySeedHoldsEntropy`: `Spec => []TinySeedIsEntropy`. `PackedInv` says that
  the binary digits of each finished index, and of the one being packed, are
  the bits read so far (`BitAt`); a bit shifted in moves the other digits up
  (`ShiftIn`). `FlattenRows` says where the elements of rows of 8 or 11 are in
  the flattened sequence and `BitsAreRead` that `read_bit` finds the binary
  digits of bytes, so that both sides have the same bit at every place.

* `EntropyRecoverable`: the words lose nothing. In a state that returns indices
  the entropy is the one byte string, of the size their number stands for, of
  which the bits are the first of theirs (`Recoverable`). `PackedRecoverable` goes
  from the prefix to `read_bit` at each place, and a byte is the weighted sum of
  its bits (`ByteFromBits`). With `MnemonicsRecoverable`, different entropies of
  one size never give the same mnemonic.

`WordlistProofs` (any files, any size of the list): `WordlistTypeCorrect`,
`OrderKept` and `MnemonicsRecoverable` from `InOrder`, by which the words are the
texts of the first lines, the last perhaps cut short. With one token in each word a mnemonic has one token
for each index (`FlattenTokens`), and the accepted words are distinct
(`WordsDistinct`), so that the tokens give the indices back.

`SeedsProofs` (any command lines, wordlists, characters and sizes):
`SeedsTypeCorrect` and `PromptsAreSeen` from `SeedsInv`, in which the decks are
orderings without repetition, so that there are no more cards than in a deck;
`RunKeepsPromise` (`Spec => KeepsRunPromise`) from `StoryInv`, which says at each
stage of `main` what has been written and whether the user has been asked.
`SeedsAreChecked`: `Spec => []SeedChecked`, from `CheckedInv`: the checks of
`derive_seed` lie between the passphrase and every write of the seed.

The proofs rest on the named assumptions of the modules (`TerminalAssumption`,
`SignalAssumption`, `JobAssumption`, `CardAssumption`, `DomainAssumption`,
`TextAssumption`, `DiceAssumption`, `IndicesAssumption`, `WordlistAssumption`,
`SeedsAssumption`), which TLC evaluates in the runs. Recursive functions are
reasoned about by the least argument for which a claim fails, which needs only
that `<` is well-founded on the naturals.

**Only model-checked:**

* The liveness properties `EntryEnds` (of both entries) and `InterruptEnds`: the
  proof system does not reason about fairness. Their safety parts are
  `FreshCardExists` and `InterruptNeverLost`.
* The properties of the runs that expect a violation.

Every other property of every run is a theorem.

## 5. Findings

1. `~TerminalEchoGuard` ignores `tcsetattr`'s result (`seeds.cpp:156`).
   TCSAFLUSH waits for output to drain, handlers are installed without
   SA_RESTART, so a guarded signal in that wait leaves echo off behind an
   entry that succeeds.
2. `README.md` 448–451 lists invalid dice or card entries and duplicate cards
   among the errors that cause a nonzero exit status; the code asks again.
3. `load_wordlist` accepts lines with spaces, against "one word per line".
4. `load_wordlist` takes a read error for the end of the file, against
   "exactly 2,048 lines": with an error in or after the 2,048th line a longer file
   is accepted, and with libc++ the last word may be cut short.
5. Echo is cleared once, before the read loop, and SIGTSTP and SIGCONT are not
   handled (`seeds.cpp:120`): after a stop and a continue in a shell that does
   not give the job its settings back, the passphrase is read with echo on,
   against "Terminal echo is disabled while the passphrase is read"
   (`README.md:375`).

## 6. Not modelled

* The loss of output behind status 0 (`seeds.cpp:738` returns without looking
  at `std::cout`) is in the model, as `StdoutFails`, and `SeedsPromise` excepts
  it: no document says what the exit status means for output.
* Boost's grammar of options: it accepts a line or rejects it.
* `checked_int`'s limit of 2 GiB, which no line of a terminal reaches.
* What a shell without job control does, background reads (SIGTTIN), and keys
  typed while the process is stopped, which go to the shell.
* Card modes do not hash the length of the entropy, so that the same single deck
  in `--cards-only` mode gives a short mnemonic whose entropy is the beginning
  of a longer one's; `HashDeterminesSource` says nothing of it.
* Cleansing of memory, layout, hexadecimal, wording, the text of help.
* The English wordlist (generated data) and the arithmetic of SHA-256 and
  PBKDF2 (OpenSSL).

## 7. What could follow

1. What `--cards-only` hashes does not depend on the length of the mnemonic
   (section 6); were a document to promise otherwise, a property could say so.
2. `checked_int` and lines beyond 2 GiB, for a caller other than a terminal.
3. A model of the shell's side of job control with background reads (SIGTTIN).
