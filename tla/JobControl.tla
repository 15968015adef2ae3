------------------------------ MODULE JobControl ------------------------------
(***************************************************************************)
(* The hidden entry of module Passphrase in a shell with job control.      *)
(* SIGTSTP is not among the signals_ of SignalGuard and nothing is done    *)
(* about SIGCONT (src/seeds.cpp 120): a stop freezes the entry wherever it *)
(* is, guards and all, and a continue resumes it there with the terminal   *)
(* settings the shell has left.  The shell is external.                    *)
(***************************************************************************)
EXTENDS Passphrase

CONSTANT ShellRestoresJob \* does the shell give a job its settings back?

ASSUME JobAssumption == ShellRestoresJob \in BOOLEAN

VARIABLES
  stopped,
  jobModes \* the echo bits the shell found when the job stopped

jobVars == <<stopped, jobModes>>

JobInit ==
  /\ Init
  /\ stopped = FALSE
  /\ jobModes = lflag

\* The stop character may flush the queue; the shell may put its own settings
\* back, or keep those it finds.
Stop ==
  /\ Running /\ ~stopped
  /\ stopped' = TRUE
  /\ jobModes' = lflag
  /\ lflag' \in {lflag, tty0}
  /\ queue' \in {queue, <<>>}
  /\ UNCHANGED <<typed, lineVars, confirming, passphrase, tty0, handler0,
                 sent0>>

Continue ==
  /\ stopped
  /\ stopped' = FALSE
  /\ lflag' = IF ShellRestoresJob THEN jobModes ELSE lflag
  /\ UNCHANGED <<jobModes, queue, typed, lineVars, confirming, passphrase, tty0,
                 handler0, sent0>>

JobNext ==
  \/ ~stopped /\ Next /\ UNCHANGED jobVars
  \/ Stop
  \/ Continue

JobSpec == JobInit /\ [][JobNext]_<<vars, jobVars>>

-------------------------------------------------------------------------------
(* Properties.                                                             *)

\* "Terminal echo is disabled while the passphrase is read": at every point of
\* the read loop neither keys nor newlines are shown, whatever happened since
\* the settings were changed.
EchoOffWhileReading ==
  ~stopped /\ pc \in {"read", "blocked", "eintr"} => lflag \cap EchoFlags = {}

===============================================================================
