------------------------------ MODULE Passphrase ------------------------------
(***************************************************************************)
(* read_passphrase of src/seeds.cpp: one hidden line, and a second one to  *)
(* confirm a first that is not empty.  The calls of read_hidden_line are   *)
(* those of module HiddenLine, run one after the other; pc = "accepted" is *)
(* the return of read_passphrase, pc = "threw" an exception that leaves it *)
(* for main, which exits with status 1.                                    *)
(***************************************************************************)
EXTENDS HiddenLine

VARIABLES
  confirming, \* has the first line been read?
  passphrase, \* the first line, once it has been read
  tty0,       \* history: the echo bits the shell left
  handler0,   \* history: the dispositions the process inherited
  sent0       \* history: the signals sent before the current call

vars == <<hvars, confirming, passphrase, tty0, handler0, sent0>>

TypeOK ==
  /\ LineTypeOK
  /\ confirming \in BOOLEAN
  /\ passphrase \in Seq(Keystroke)
  /\ tty0 \in SUBSET EchoFlags
  /\ handler0 \in [Signals -> Dispositions]
  /\ sent0 \in 0..MaxSignals

Init ==
  /\ LineInit
  /\ confirming = FALSE
  /\ passphrase = <<>>
  /\ tty0 = lflag
  /\ handler0 = handler
  /\ sent0 = sent

Text(s) == [i \in DOMAIN s |-> s[i].key]

\* The first line is in: nothing more to ask if it is empty.
StoreFirst ==
  /\ pc = "returned" /\ ~confirming
  /\ passphrase' = input
  /\ \/ /\ input = <<>>
        /\ pc' = "accepted"
        /\ UNCHANGED <<ttyVars, guardVars, caught_signal, saved, input,
                       signal_number, thrown, killer, sent, confirming, sent0>>
     \/ /\ input # <<>>
        /\ confirming' = TRUE
        /\ sent0' = sent
        /\ EnterCall
  /\ UNCHANGED <<tty0, handler0>>

\* The confirmation is in: a mismatch throws.
Compare ==
  /\ pc = "returned" /\ confirming
  /\ pc' = IF Text(passphrase) = Text(input) THEN "accepted" ELSE "threw"
  /\ UNCHANGED <<ttyVars, guardVars, caught_signal, saved, input,
                 signal_number, thrown, killer, sent, confirming, passphrase,
                 tty0, handler0, sent0>>

InCall ==
  LineNext /\ UNCHANGED <<confirming, passphrase, tty0, handler0, sent0>>

Terminated == ~Running /\ UNCHANGED vars

Next == InCall \/ StoreFirst \/ Compare \/ Terminated

Spec == Init /\ [][Next]_vars

-------------------------------------------------------------------------------
(* Fairness: the program's own steps happen, and the user ends a line.     *)

ProgramStep ==
  \/ LineStep /\ UNCHANGED <<confirming, passphrase, tty0, handler0, sent0>>
  \/ StoreFirst
  \/ Compare

EnterPressed ==
  Running /\ PressEnter /\ UNCHANGED <<lineVars, confirming, passphrase, tty0,
                                       handler0, sent0>>

FairSpec == Spec /\ WF_vars(ProgramStep) /\ WF_vars(EnterPressed)

-------------------------------------------------------------------------------
(* Safety.                                                                 *)

\* No character that becomes part of the passphrase or of its confirmation was
\* shown on the screen: echo is off, and what was typed before is flushed,
\* before the first ::read.
NeverEchoed ==
  \A s \in {input, passphrase} : \A i \in DOMAIN s : ~s[i].visible

\* However the entry ends - a line, an exception, a raised signal or a signal
\* that kills at once - the terminal has the echo settings the shell left,
\* unless the restoring tcsetattr fails: echo is off only while every guarded
\* signal is caught.
EchoRestored == ~Running => lflag = tty0

\* When read_passphrase succeeds the terminal echoes as it did before.
EchoRestoredOnSuccess == pc = "accepted" => lflag = tty0

\* Outside the guarded block every signal has the disposition the process
\* inherited, also after a constructor that failed half-way.
DispositionsRestored ==
  pc \in {"returned", "threw", "accepted"} => handler = handler0

\* A signal the process was started to ignore never kills it, although the
\* guard replaces SIG_IGN and raises what it caught.
IgnoredNeverKills ==
  killer # NoSignal => handler0[killer] = "SIG_DFL"

\* Each call of read_hidden_line is interrupted by its own signals only. One
\* that the first call remembered without being interrupted does not turn a
\* stop and a continue during the confirmation into an interrupt, and is not
\* raised a second time.
InterruptIsNew == signal_number # NoSignal => sent > sent0

\* The entry has learned of a guarded signal, or is over.
InterruptSeen ==
  \/ pc = "eintr" /\ caught_signal # NoSignal
  \/ pc \in {"show", "unwind"} /\ signal_number # NoSignal
  \/ pc \in {"killed", "threw"}

\* An interrupt is never lost: from the read it has interrupted, through the
\* destructors that more signals may interrupt in turn, to the end of the entry
\* by a signal or an exception. What was typed is not taken for an answer, and
\* nothing is asked again.
InterruptKept == [][InterruptSeen => InterruptSeen']_vars

-------------------------------------------------------------------------------
(* Refinement.                                                             *)

\* The first n keystrokes of q without the end-of-file marks, which only push a
\* partial line out.
Kept(q) ==
  LET kept[n \in 0..Len(q)] ==
        IF n = 0 THEN <<>>
        ELSE IF q[n].key = EOF THEN kept[n - 1] ELSE Append(kept[n - 1], q[n])
  IN  kept

\* The number of keystrokes of q before its first newline.
LineEnd(q) ==
  LET NewLines == {i \in DOMAIN q : q[i].key = NL}
  IN  IF NewLines = {} THEN Len(q)
      ELSE (CHOOSE i \in NewLines : \A j \in NewLines : i <= j) - 1

\* What is typed of the current line and still queued.
Pending == Kept(queue)[LineEnd(queue)]

\* The line of the promise: collected while reading, held until it is stored.
PromisedLine ==
  CASE pc \in {"install", "settings", "hide", "threw", "killed"} -> <<>>
    [] pc \in {"read", "blocked", "eintr"} -> Text(input \o Pending)
    [] OTHER -> Text(input)

Answered ==
  /\ pc \in {"show", "unwind", "returned", "accepted"}
  /\ ~thrown
  /\ signal_number = NoSignal

PromisedFirst ==
  IF confirming /\ pc \notin {"threw", "killed"} THEN Text(passphrase) ELSE <<>>

PromisedOutcome ==
  CASE pc = "accepted" -> "accepted"
    [] pc \in {"threw", "killed"} -> "abandoned"
    [] OTHER -> "asking"

\* read_passphrase keeps the promise: partial reads, end-of-file marks,
\* flushes and interrupted reads never reorder, repeat or invent a character of
\* an answer and lose none but the last ones typed, which a flush discards; and
\* only a repeated answer is accepted.
P == INSTANCE PassphrasePromise
       WITH line     <- PromisedLine,
            complete <- Answered,
            first    <- PromisedFirst,
            outcome  <- PromisedOutcome

KeepsPromise == P!Promise

-------------------------------------------------------------------------------
(* Liveness.                                                               *)

\* A user who ends the lines asked for always gets an end of the entry: no
\* signal, restart or partial read keeps the program asking for ever.
EntryEnds == <>~Running

\* Once a guarded signal has interrupted the read, the process does end, by
\* that signal or with the exception.
InterruptEnds == (pc = "eintr" /\ caught_signal # NoSignal)
                   ~> (pc \in {"killed", "threw"})

===============================================================================
