------------------------------- MODULE Terminal -------------------------------
(***************************************************************************)
(* The controlling terminal as src/seeds.cpp uses it: the two echo bits of *)
(* its settings, which TerminalEchoGuard saves, clears and puts back, and  *)
(* the line discipline's input queue, which tcsetattr(TCSAFLUSH) discards  *)
(* and ::read takes lines from.  The driver itself is the operating        *)
(* system's; it is modelled as POSIX describes it in canonical mode, from  *)
(* the calls the program makes.                                            *)
(***************************************************************************)
EXTENDS Naturals, Sequences, SequencesExt

CONSTANTS
  Chars,      \* the ordinary characters a user may type
  CR,         \* a carriage return that reaches the program
  NL,         \* the newline that ends a line
  EOF,        \* the end-of-file key (VEOF), a delimiter that is never read
  BufferSize, \* capacity of the buffer passed to ::read, 256 in the code
  MaxTyped    \* bound: keystrokes other than a final newline

ASSUME TerminalAssumption ==
  /\ BufferSize \in Nat \ {0}
  /\ MaxTyped \in Nat
  /\ {CR, NL, EOF} \cap Chars = {}
  /\ CR # NL /\ CR # EOF /\ NL # EOF

VARIABLES
  lflag,  \* the echo bits set in the terminal's c_lflag
  queue,  \* keystrokes typed and not yet read, oldest first
  typed   \* keystrokes counted against MaxTyped

ttyVars == <<lflag, queue, typed>>

EchoFlags == {"ECHO", "ECHONL"}
Keys      == Chars \cup {CR, NL, EOF}
Keystroke == [key : Keys, visible : BOOLEAN]

TerminalTypeOK ==
  /\ lflag \in SUBSET EchoFlags
  /\ queue \in Seq(Keystroke)
  /\ typed \in 0..MaxTyped

TerminalInit ==
  /\ lflag \in SUBSET EchoFlags
  /\ queue = <<>>
  /\ typed = 0

-------------------------------------------------------------------------------
(* What the user does.                                                     *)

\* A keystroke appears on the screen exactly when ECHO is set as it is typed.
Press(k) ==
  /\ queue' = Append(queue, [key |-> k, visible |-> "ECHO" \in lflag])
  /\ UNCHANGED lflag

Type ==
  /\ typed < MaxTyped
  /\ typed' = typed + 1
  /\ \E k \in Keys : Press(k)

\* Beyond the bound the user can still finish a line that is not finished.
PressEnter ==
  /\ \A i \in DOMAIN queue : queue[i].key # NL
  /\ Press(NL)
  /\ UNCHANGED typed

-------------------------------------------------------------------------------
(* What a read of the terminal returns.                                    *)

Delimiters == {i \in DOMAIN queue : queue[i].key \in {NL, EOF}}

\* A read completes only when a whole line, or an end of file, is queued.
LineReady == Delimiters # {}

\* The number of keystrokes read: up to and including a newline, or up to an
\* end-of-file mark, and never more than the buffer holds.
ReadLength ==
  LET first == CHOOSE i \in Delimiters : \A j \in Delimiters : i <= j
      line  == IF queue[first].key = NL THEN first ELSE first - 1
  IN  IF line < BufferSize THEN line ELSE BufferSize

ReadChunk == SubSeq(queue, 1, ReadLength)

\* The end-of-file mark that ends a chunk is consumed with it.
AfterRead ==
  LET next    == ReadLength + 1
      endsEOF == /\ next \in DOMAIN queue
                 /\ queue[next].key = EOF
                 /\ \A i \in 1..ReadLength : queue[i].key # NL
  IN  SubSeq(queue, IF endsEOF THEN next + 1 ELSE next, Len(queue))

-------------------------------------------------------------------------------
(* What the program does: the settings are changed with TCSAFLUSH, which   *)
(* also discards the input that has not been read.                         *)

SetAttr(flags) ==
  /\ lflag' = flags
  /\ queue' = <<>>
  /\ UNCHANGED typed

===============================================================================
