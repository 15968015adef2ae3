--------------------------- MODULE JobControlProofs ---------------------------
(***************************************************************************)
(* Proofs about JobControl, for every terminal, set of guarded signals and *)
(* number of stops.                                                        *)
(***************************************************************************)
EXTENDS JobControl, PassphraseProofs

Reading == pc \in {"read", "blocked", "eintr"}

\* The settings the job runs with, or will run with when it is continued.
JobLflag == IF stopped THEN jobModes ELSE lflag

\* They hide the passphrase wherever in the read loop the job was stopped.
JobHidden == Reading => JobLflag \cap EchoFlags = {}

JobInv == JobHidden /\ stopped \in BOOLEAN

\* The steps of the entry enter the read loop only through HideEcho, and in the
\* loop nothing but a signal handler or the user runs beside it.
LEMMA EntryStays ==
  ASSUME Next, Reading'
  PROVE  \/ HideEcho
         \/ Reading /\ lflag' = lflag
<1>1. CASE StoreFirst \/ Compare
  BY <1>1 DEF StoreFirst, EnterCall, Compare, Reading
<1>2. CASE Terminated
  BY <1>2 DEF Terminated, Running, Reading, vars, hvars, lineVars
<1>3. CASE LineStep
  <2>1. CASE InstallHandler \/ ReadSettings
    BY <2>1 DEF InstallHandler, LastSignal, ReadSettings, Reading
  <2>2. CASE HideEcho
    BY <2>2
  <2>3. CASE EnterRead
    BY <2>3 DEF EnterRead, ttyVars, Reading
  <2>4. CASE ReadReturns
    BY <2>4 DEF ReadReturns, Throw, Reading
  <2>5. CASE CheckSignal
    BY <2>5 DEF CheckSignal, SignalCaught, ttyVars, Reading
  <2>6. CASE RestoreEcho \/ RestoreHandler \/ LeaveCall
    BY <2>6 DEF RestoreEcho, RestoreHandler, LeaveCall, Throw, Reading
  <2>7. QED
    BY <1>3, <2>1, <2>2, <2>3, <2>4, <2>5, <2>6 DEF LineStep
<1>4. CASE LineFailure
  BY <1>4 DEF LineFailure, InstallFails, EchoGuardFails, ReadFails,
              ReadRestarted, RestoreFails, Restoring, Throw, ttyVars, Reading
<1>5. CASE User
  BY <1>5 DEF User, Type, PressEnter, Press, lineVars, Reading
<1>6. CASE \E s \in Signals : Deliver(s)
  <2>1. PICK s \in Signals : Deliver(s)
    BY <1>6
  <2>2. lflag' = lflag /\ (pc' = pc \/ pc' = "killed" \/ pc' \in Interrupted)
    BY <2>1 DEF Deliver
  <2>3. pc' \in Interrupted => Reading \/ pc' = pc \/ pc' \in {"show", "unwind"}
    BY DEF Interrupted, Reading
  <2>4. QED
    BY <2>2, <2>3 DEF Reading
<1>7. QED
  BY <1>1, <1>2, <1>3, <1>4, <1>5, <1>6 DEF Next, InCall, LineNext

\* A shell that gives a job its settings back keeps the passphrase hidden.
LEMMA JobHiddenStep ==
  ASSUME ShellRestoresJob, JobInv, [JobNext]_<<vars, jobVars>>
  PROVE  JobInv'
<1>1. CASE ~stopped /\ Next /\ UNCHANGED jobVars
  <2>1. stopped' = stopped /\ ~stopped
    BY <1>1 DEF jobVars
  <2>2. CASE HideEcho
    <3>1. lflag' = saved \ EchoFlags
      BY <2>2 DEF HideEcho, Hide, SetAttr
    <3>2. QED
      BY <2>1, <3>1 DEF JobInv, JobHidden, JobLflag
  <2>3. CASE Reading /\ lflag' = lflag
    BY <2>1, <2>3 DEF JobInv, JobHidden, JobLflag
  <2>4. CASE ~Reading'
    BY <2>1, <2>4 DEF JobInv, JobHidden
  <2>5. QED
    BY <1>1, <2>2, <2>3, <2>4, EntryStays
<1>2. CASE Stop
  BY <1>2 DEF Stop, lineVars, JobInv, JobHidden, JobLflag, Reading
<1>3. CASE Continue
  BY <1>3 DEF Continue, lineVars, JobInv, JobHidden, JobLflag, Reading
<1>4. CASE UNCHANGED <<vars, jobVars>>
  BY <1>4 DEF vars, hvars, ttyVars, lineVars, jobVars, JobInv, JobHidden,
              JobLflag, Reading
<1>5. QED
  BY <1>1, <1>2, <1>3, <1>4 DEF JobNext

\* Under such a shell echo is off whenever the program is in its read loop,
\* whatever is stopped, continued, typed and signalled before: SignalGuard may
\* leave SIGTSTP alone.
THEOREM EchoStaysOff ==
  ASSUME ShellRestoresJob
  PROVE  JobSpec => []EchoOffWhileReading
<1>1. JobInit => JobInv
  BY DEF JobInit, Init, LineInit, JobInv, JobHidden, Reading
<1>2. JobInv /\ [JobNext]_<<vars, jobVars>> => JobInv'
  BY JobHiddenStep
<1>3. JobInv => EchoOffWhileReading
  BY DEF JobInv, JobHidden, JobLflag, Reading, EchoOffWhileReading
<1>4. QED
  BY <1>1, <1>2, <1>3, PTL DEF JobSpec

-------------------------------------------------------------------------------
(* What is proved of the entry in PassphraseProofs holds with stops as well. *)

\* A stop or a continue touches the settings and the queue at most.
LEMMA ShellStep ==
  ASSUME TypeOK, Stop \/ Continue
  PROVE  /\ UNCHANGED <<lineVars, confirming, passphrase, typed, tty0,
                         handler0, sent0>>
         /\ queue' = queue \/ queue' = <<>>
  BY DEF Stop, Continue

\* The types, with the settings that a stopped job had.
JobTypeInv == TypeOK /\ jobModes \subseteq EchoFlags /\ stopped \in BOOLEAN

\* A shell that stops and continues the program keeps the types.
LEMMA JobTypeStep ==
  ASSUME JobTypeInv, [JobNext]_<<vars, jobVars>>
  PROVE  JobTypeInv'
<1>0. TypeOK /\ jobModes \subseteq EchoFlags /\ stopped \in BOOLEAN
  BY DEF JobTypeInv
<1>1. CASE Next /\ UNCHANGED jobVars
  <2>1. TypeOK'
    BY <1>0, <1>1, TypeStep
  <2>2. QED
    BY <1>0, <1>1, <2>1 DEF JobTypeInv, jobVars
<1>2. CASE UNCHANGED <<vars, jobVars>>
  <2>1. TypeOK'
    BY <1>0, <1>2, TypeStep
  <2>2. QED
    BY <1>0, <1>2, <2>1 DEF JobTypeInv, jobVars
<1>3. CASE Stop \/ Continue
  <2>1. lflag \subseteq EchoFlags /\ tty0 \subseteq EchoFlags
    BY <1>0 DEF TypeOK, LineTypeOK, TerminalTypeOK
  <2>2. /\ lflag' \subseteq EchoFlags
        /\ jobModes' \subseteq EchoFlags /\ stopped' \in BOOLEAN
    BY <1>0, <1>3, <2>1 DEF Stop, Continue
  <2>3. queue' \in Seq(Keystroke)
    BY <1>0, <1>3, ShellStep, EmptySeq DEF TypeOK, LineTypeOK, TerminalTypeOK
  <2>4. UNCHANGED <<lineVars, confirming, passphrase, typed, tty0, handler0,
                    sent0>>
    BY <1>0, <1>3, ShellStep
  <2>5. TypeOK'
    BY <1>0, <2>2, <2>3, <2>4
       DEF TypeOK, LineTypeOK, TerminalTypeOK, lineVars
  <2>6. QED
    BY <2>2, <2>5 DEF JobTypeInv
<1>4. QED
  BY <1>1, <1>2, <1>3 DEF JobNext

\* Every variable keeps its type while the job is stopped and continued.
LEMMA JobTypeInvariant == JobSpec => []JobTypeInv
<1>1. JobInit => JobTypeInv
  <2> SUFFICES ASSUME JobInit PROVE JobTypeInv
    OBVIOUS
  <2>1. TypeOK
    BY InitType DEF JobInit
  <2>2. QED
    BY <2>1 DEF JobInit, JobTypeInv, TypeOK, LineTypeOK, TerminalTypeOK
<1>2. JobTypeInv /\ [JobNext]_<<vars, jobVars>> => JobTypeInv'
  BY JobTypeStep
<1>3. QED
  BY <1>1, <1>2, PTL DEF JobSpec

\* A stop and a continue wherever they come leave every variable of the entry
\* in its type.
THEOREM JobTypeCorrect == JobSpec => []TypeOK
<1>1. JobTypeInv => TypeOK
  BY DEF JobTypeInv
<1>2. QED
  BY <1>1, JobTypeInvariant, PTL

\* The guard's half-installed states survive a stop: it touches no disposition.
LEMMA JobGuardInvariant == JobSpec => [](TypeOK /\ GuardInv)
<1>1. JobInit => GuardInv
  BY SignalPlaces DEF JobInit, Init, LineInit, GuardInv, IgnoredNeverKills
<1>2. ASSUME TypeOK, GuardInv, [JobNext]_<<vars, jobVars>>
      PROVE  GuardInv'
  <2>1. CASE [Next]_vars
    BY <1>2, <2>1, GuardStep
  <2>2. CASE Stop \/ Continue
    <3>1. UNCHANGED <<lineVars, handler0>>
      BY <1>2, <2>2, ShellStep
    <3>2. QED
      BY <1>2, <3>1 DEF GuardInv, IgnoredNeverKills, lineVars
  <2>3. QED
    BY <1>2, <2>1, <2>2 DEF JobNext
<1>3. QED
  BY <1>1, <1>2, JobTypeCorrect, PTL DEF JobSpec

\* Outside the guarded block the dispositions are the inherited ones, however
\* often the job was stopped inside it.
THEOREM JobHandlersRestored == JobSpec => []DispositionsRestored
<1>1. TypeOK /\ GuardInv => DispositionsRestored
  BY GuardRestores
<1>2. QED
  BY <1>1, JobGuardInvariant, PTL

\* A signal the process was started to ignore does not kill a job that is
\* stopped and continued either.
THEOREM JobIgnoredSurvives == JobSpec => []IgnoredNeverKills
<1>1. GuardInv => IgnoredNeverKills
  BY DEF GuardInv
<1>2. QED
  BY <1>1, JobGuardInvariant, PTL

\* An interrupt is not lost either when the entry is stopped and continued on
\* its way out: stops and continues leave the remembered signal alone.
THEOREM JobInterruptNeverLost == JobSpec => InterruptKept
<1>1. [JobNext]_<<vars, jobVars>> => [InterruptSeen => InterruptSeen']_vars
  <2> SUFFICES ASSUME [JobNext]_<<vars, jobVars>>, InterruptSeen
               PROVE  InterruptSeen'
    OBVIOUS
  <2>1. CASE UNCHANGED <<vars, jobVars>>
    BY <2>1, InterruptStep
  <2>2. CASE Next
    BY <2>2, InterruptStep
  <2>3. CASE Stop \/ Continue
    <3>1. UNCHANGED <<pc, caught_signal, signal_number>>
      BY <2>3 DEF Stop, Continue, lineVars
    <3>2. QED
      BY <3>1 DEF InterruptSeen
  <2>4. QED
    BY <2>1, <2>2, <2>3 DEF JobNext
<1>2. QED
  BY <1>1, PTL DEF JobSpec, InterruptKept

\* Nor is an interrupt taken from an earlier call: the EINTR of a stop and a
\* continue finds no signal but one that came during this call.
THEOREM JobInterruptsAreNew == JobSpec => []InterruptIsNew
<1>1. JobInit => NewInv
  BY SignalAssumption DEF JobInit, Init, LineInit, NewInv
<1>2. TypeOK /\ NewInv /\ [JobNext]_<<vars, jobVars>> => NewInv'
  <2> SUFFICES ASSUME TypeOK, NewInv, [JobNext]_<<vars, jobVars>>
               PROVE  NewInv'
    OBVIOUS
  <2>1. CASE [Next]_vars
    BY <2>1, NewStep
  <2>2. CASE Stop \/ Continue
    BY <2>2, ShellStep DEF NewInv, lineVars
  <2>3. QED
    BY <2>1, <2>2 DEF JobNext
<1>3. NewInv => InterruptIsNew
  BY DEF NewInv, InterruptIsNew
<1>4. QED
  BY <1>1, <1>2, <1>3, JobTypeCorrect, PTL DEF JobSpec

\* In the read loop the job's own settings hide what is typed, and what is
\* queued was typed hidden; nothing is typed into a stopped job.
JobHiddenInv ==
  /\ NeverEchoed
  /\ Reading => /\ "ECHO" \notin JobLflag
                /\ \A i \in DOMAIN queue : ~queue[i].visible

\* A shell that gives the job its settings back shows no keystroke.
LEMMA JobHiddenInvStep ==
  ASSUME ShellRestoresJob, JobTypeInv, JobHiddenInv,
         [JobNext]_<<vars, jobVars>>
  PROVE  JobHiddenInv'
<1>0. TypeOK /\ stopped \in BOOLEAN
  BY DEF JobTypeInv
<1>1. CASE ~stopped /\ Next /\ UNCHANGED jobVars
  <2>1. ~stopped /\ ~stopped'
    BY <1>1 DEF jobVars
  <2>2. HiddenInv
    BY <2>1 DEF JobHiddenInv, HiddenInv, Hidden, JobLflag, Reading
  <2>3. HiddenInv'
    BY <1>0, <1>1, <2>2, HiddenStep
  <2>4. QED
    BY <2>1, <2>3 DEF JobHiddenInv, HiddenInv, Hidden, JobLflag, Reading
<1>2. CASE UNCHANGED <<vars, jobVars>>
  BY <1>2 DEF vars, hvars, ttyVars, lineVars, jobVars, JobHiddenInv,
              NeverEchoed, JobLflag, Reading
<1>3. CASE Stop \/ Continue
  <2>1. /\ UNCHANGED <<lineVars, passphrase>>
        /\ queue' = queue \/ queue' = <<>>
    BY <1>0, <1>3, ShellStep
  <2>2. JobLflag' = JobLflag
    BY <1>0, <1>3 DEF Stop, Continue, JobLflag
  <2>3. QED
    BY <2>1, <2>2 DEF JobHiddenInv, NeverEchoed, Reading, lineVars
<1>4. QED
  BY <1>1, <1>2, <1>3 DEF JobNext

\* Under a shell that gives the job its settings back no character of an answer
\* was ever shown, although the shell's own settings echo while it is stopped.
THEOREM JobNeverShown ==
  ASSUME ShellRestoresJob
  PROVE  JobSpec => []NeverEchoed
<1>1. JobInit => JobHiddenInv
  BY DEF JobInit, Init, LineInit, JobHiddenInv, NeverEchoed, Reading
<1>2. JobTypeInv /\ JobHiddenInv /\ [JobNext]_<<vars, jobVars>>
        => JobHiddenInv'
  BY JobHiddenInvStep
<1>3. JobHiddenInv => NeverEchoed
  BY DEF JobHiddenInv
<1>4. QED
  BY <1>1, <1>2, <1>3, JobTypeInvariant, PTL DEF JobSpec

\* Outside the read loop and the restoring call the settings are the shell's,
\* also those a stopped job will find again.
JobEchoInv ==
  /\ EchoInv
  /\ stopped /\ ~Reading /\ pc # "show" => jobModes = tty0

\* Whatever the shell does with the settings keeps them the shell's there.
LEMMA JobEchoStep ==
  ASSUME ~DrainInterruptible, ~RestoreCanFail, TypeOK, GuardInv, JobEchoInv,
         [JobNext]_<<vars, jobVars>>
  PROVE  JobEchoInv'
<1>0. EchoInv
  BY DEF JobEchoInv
<1>1. CASE ~stopped /\ Next /\ UNCHANGED jobVars
  BY <1>0, <1>1, EchoStep DEF JobEchoInv, jobVars
<1>2. CASE UNCHANGED <<vars, jobVars>>
  <2>1. EchoInv'
    BY <1>0, <1>2, EchoStep
  <2>2. QED
    BY <1>2, <2>1 DEF JobEchoInv, vars, hvars, lineVars, jobVars, Reading
<1>3. CASE Stop
  BY <1>0, <1>3 DEF Stop, lineVars, JobEchoInv, EchoInv, Reading
<1>4. CASE Continue
  BY <1>0, <1>4 DEF Continue, lineVars, JobEchoInv, EchoInv, Reading
<1>5. QED
  BY <1>1, <1>2, <1>3, <1>4 DEF JobNext

\* Unless the restoring tcsetattr can fail, by a caught signal or otherwise,
\* the process leaves the terminal with the settings it started with, whatever
\* the shell does with them at stops and continues.
THEOREM JobEchoRestored ==
  ASSUME ~DrainInterruptible, ~RestoreCanFail
  PROVE  JobSpec => []EchoRestored
<1>1. JobInit => JobEchoInv
  BY DEF JobInit, Init, LineInit, JobEchoInv, EchoInv
<1>2. TypeOK /\ GuardInv /\ JobEchoInv /\ [JobNext]_<<vars, jobVars>>
        => JobEchoInv'
  BY JobEchoStep
<1>3. JobEchoInv => EchoRestored
  BY DEF JobEchoInv, EchoInv, EchoRestored, Running
<1>4. QED
  BY <1>1, <1>2, <1>3, JobGuardInvariant, PTL DEF JobSpec

\* A stop discards at most the end of what was typed, and only while reading.
LEMMA ShellPromised ==
  ASSUME TypeOK, TypeOK', Stop \/ Continue
  PROVE  P!PromiseNext \/ UNCHANGED P!pvars
<1>1. /\ UNCHANGED <<confirming, passphrase, input, pc, thrown, signal_number>>
      /\ queue' = queue \/ queue' = <<>>
  BY ShellStep DEF lineVars
<1>2. CASE queue' = queue
  BY <1>1, <1>2, SameStory
<1>3. CASE queue' = <<>> /\ pc \in {"read", "blocked", "eintr"}
  BY <1>1, <1>3, Discarded DEF P!PromiseNext
<1>4. CASE queue' # queue /\ pc \notin {"read", "blocked", "eintr"}
  <2>1. pc \in {"install", "settings", "hide", "show", "unwind", "returned"}
    <3>1. Running
      BY <1>4 DEF Stop, Continue
    <3>2. QED
      BY <1>4, <3>1 DEF Running, TypeOK, LineTypeOK, Locations
  <2>2. QED
    BY <1>1, <2>1, SameStory
<1>5. QED
  BY <1>1, <1>2, <1>3, <1>4

\* The entry keeps its promise to the caller when it is stopped and continued,
\* by any shell: settings that echo show an answer but never alter it.
THEOREM JobKeepsPromise == JobSpec => KeepsPromise
<1>1. JobInit => P!PromiseInit
  BY DEF JobInit, Init, LineInit, P!PromiseInit, PromisedLine, Answered,
         PromisedFirst, PromisedOutcome
<1>2. JobInit => LineInv
  BY DEF JobInit, Init, LineInit, LineInv
<1>3. LineInv /\ [JobNext]_<<vars, jobVars>> => LineInv'
  <2> SUFFICES ASSUME LineInv, [JobNext]_<<vars, jobVars>>
               PROVE  LineInv'
    OBVIOUS
  <2>1. CASE [Next]_vars
    BY <2>1, LineInvStep
  <2>2. CASE Stop \/ Continue
    BY <2>2 DEF Stop, Continue, lineVars, LineInv
  <2>3. QED
    BY <2>1, <2>2 DEF JobNext
<1>4. TypeOK /\ TypeOK' /\ LineInv /\ LineInv' /\ [JobNext]_<<vars, jobVars>>
        => [P!PromiseNext]_P!pvars
  <2> SUFFICES ASSUME TypeOK, TypeOK', LineInv, LineInv',
                      [JobNext]_<<vars, jobVars>>
               PROVE  [P!PromiseNext]_P!pvars
    OBVIOUS
  <2>1. CASE [Next]_vars
    BY <2>1, PromiseStep
  <2>2. CASE Stop \/ Continue
    BY <2>2, ShellPromised
  <2>3. QED
    BY <2>1, <2>2 DEF JobNext
<1>5. QED
  BY <1>1, <1>2, <1>3, <1>4, JobTypeCorrect, PTL
     DEF JobSpec, KeepsPromise, P!Promise

===============================================================================
