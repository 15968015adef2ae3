--------------------------- MODULE PassphrasePromise ---------------------------
(***************************************************************************)
(* What read_passphrase promises its caller and the user, with no guards,  *)
(* system calls or buffers: a line is the characters typed since it was    *)
(* asked for, an empty first line means no passphrase, and any other is    *)
(* accepted only when a second line repeats it.  Asking may be abandoned   *)
(* at any time; typed text may be discarded but never altered.             *)
(***************************************************************************)
EXTENDS Naturals, Sequences, SequencesExt

CONSTANTS
  Chars, \* the characters a line is made of
  CR     \* the carriage return dropped from the end of a line

VARIABLES
  line,     \* the characters of the line being asked for
  complete, \* has its newline been read?
  first,    \* the first answer, once there is one to confirm
  outcome   \* "asking", "accepted" or "abandoned"

pvars == <<line, complete, first, outcome>>

PromiseInit ==
  /\ line = <<>>
  /\ complete = FALSE
  /\ first = <<>>
  /\ outcome = "asking"

TypeChar ==
  /\ outcome = "asking" /\ ~complete
  /\ \E c \in Chars \cup {CR} : line' = Append(line, c)
  /\ UNCHANGED <<complete, first, outcome>>

Discard ==
  /\ outcome = "asking" /\ ~complete
  /\ line' \in Prefixes(line)
  /\ UNCHANGED <<complete, first, outcome>>

WithoutCR(s) == IF s # <<>> /\ Last(s) = CR THEN Front(s) ELSE s

Complete ==
  /\ outcome = "asking" /\ ~complete
  /\ complete' = TRUE
  /\ line' = WithoutCR(line)
  /\ UNCHANGED <<first, outcome>>

AskAgain ==
  /\ outcome = "asking" /\ complete
  /\ first = <<>> /\ line # <<>>
  /\ first' = line
  /\ line' = <<>>
  /\ complete' = FALSE
  /\ UNCHANGED outcome

Accept ==
  /\ outcome = "asking" /\ complete
  /\ line = first
  /\ outcome' = "accepted"
  /\ UNCHANGED <<line, complete, first>>

\* An abandoned entry leaves nothing behind.
Abandon ==
  /\ outcome = "asking"
  /\ outcome' = "abandoned"
  /\ line' = <<>>
  /\ complete' = FALSE
  /\ first' = <<>>

PromiseNext == TypeChar \/ Discard \/ Complete \/ AskAgain \/ Accept \/ Abandon

Promise == PromiseInit /\ [][PromiseNext]_pvars

===============================================================================
