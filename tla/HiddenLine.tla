------------------------------ MODULE HiddenLine ------------------------------
(***************************************************************************)
(* read_hidden_line of src/seeds.cpp: one line read from the terminal with *)
(* echo disabled, under SignalGuard (four handlers that only remember the  *)
(* signal) and TerminalEchoGuard.  Signals and keystrokes interleave with  *)
(* every step of the call, its constructors and destructors included.      *)
(*                                                                         *)
(* pc names the point the thread has reached:                              *)
(*   install   in SignalGuard's constructor, `installed' handlers set      *)
(*   settings  in TerminalEchoGuard's constructor, before tcgetattr        *)
(*   hide      in tcsetattr(hidden)                                        *)
(*   read      in the loop, about to call ::read                           *)
(*   blocked   inside ::read                                               *)
(*   eintr     ::read has returned -1 with errno = EINTR                   *)
(*   show      in ~TerminalEchoGuard, inside tcsetattr(original)           *)
(*   unwind    in SignalGuard::restore, `installed' handlers left          *)
(*   returned  the call has returned a line                                *)
(*   threw     an exception has left the call                              *)
(*   killed    a signal with its default action has ended the process      *)
(***************************************************************************)
EXTENDS Terminal

CONSTANTS
  signals,            \* the guarded signals in the order of signals_
  KeyboardSignals,    \* those a key can send; the key flushes the queue
  NoSignal,           \* caught_signal = 0
  DrainInterruptible, \* can a handled signal fail the restoring tcsetattr?
  RestoreCanFail,     \* can it fail otherwise (EIO, say)?
  MaxSignals          \* bound: signals delivered

Signals == Range(signals)

ASSUME SignalAssumption ==
  /\ signals \in Seq(Signals)
  /\ signals # <<>>
  /\ \A i, j \in DOMAIN signals : signals[i] = signals[j] => i = j
  /\ KeyboardSignals \subseteq Signals
  /\ NoSignal \notin Signals
  /\ DrainInterruptible \in BOOLEAN
  /\ RestoreCanFail \in BOOLEAN
  /\ MaxSignals \in Nat

VARIABLES
  pc,
  handler,       \* the process's disposition of each signal
  original,      \* SignalGuard::original_
  installed,     \* SignalGuard::installed_
  caught_signal,
  saved,         \* TerminalEchoGuard::original_, its echo bits
  input,         \* the bytes read so far in this call
  signal_number,
  thrown,        \* an exception is propagating out of the guarded block
  killer,        \* the signal that ended the process
  sent           \* signals counted against MaxSignals

guardVars == <<handler, original, installed>>
restVars  == <<caught_signal, saved, killer, sent>>
lineVars  == <<pc, handler, original, installed, caught_signal, saved, input,
               signal_number, thrown, killer, sent>>
hvars     == <<ttyVars, lineVars>>

Dispositions  == {"SIG_DFL", "SIG_IGN"}
Locations     == {"install", "settings", "hide", "read", "blocked", "eintr",
                  "show", "unwind", "returned", "threw", "killed", "accepted"}
MaybeSignal   == Signals \cup {NoSignal}

LineTypeOK ==
  /\ TerminalTypeOK
  /\ pc \in Locations
  /\ handler \in [Signals -> Dispositions \cup {"remember_signal"}]
  /\ original \in [Signals -> Dispositions \cup {"remember_signal"}]
  /\ installed \in 0..Len(signals)
  /\ caught_signal \in MaybeSignal
  /\ saved \in SUBSET EchoFlags
  /\ input \in Seq(Keystroke)
  /\ signal_number \in MaybeSignal
  /\ thrown \in BOOLEAN
  /\ killer \in MaybeSignal
  /\ sent \in 0..MaxSignals

LineInit ==
  /\ TerminalInit
  /\ pc = "install"
  /\ handler \in [Signals -> Dispositions]
  /\ original = handler
  /\ installed = 0
  /\ caught_signal = NoSignal
  /\ saved = lflag
  /\ input = <<>>
  /\ signal_number = NoSignal
  /\ thrown = FALSE
  /\ killer = NoSignal
  /\ sent = 0

\* Mutant: the constructor leaves what an earlier call has caught.
StillCaught == caught_signal

NothingCaught == NoSignal

\* A new call: a fresh local `input' and a SignalGuard whose constructor first
\* clears caught_signal.
EnterCall ==
  /\ pc' = "install"
  /\ installed' = 0
  /\ caught_signal' = NothingCaught
  /\ input' = <<>>
  /\ signal_number' = NoSignal
  /\ thrown' = FALSE
  /\ UNCHANGED <<ttyVars, handler, original, saved, killer, sent>>

\* An exception leaves the call at a point where the guards held so far unwind
\* to `where'.
Throw(where) ==
  /\ thrown' = TRUE
  /\ pc' = where

-------------------------------------------------------------------------------
(* SignalGuard and TerminalEchoGuard are constructed.                      *)

\* Mutant: the loop over signals_ ends one signal early.
LastSignalEarly == installed + 1 >= Len(signals) - 1

LastSignal == installed + 1 = Len(signals)

InstallHandler ==
  /\ pc = "install"
  /\ installed < Len(signals)
  /\ LET s == signals[installed + 1] IN
       /\ original' = [original EXCEPT ![s] = handler[s]]
       /\ handler' = [handler EXCEPT ![s] = "remember_signal"]
  /\ installed' = installed + 1
  /\ pc' = IF LastSignal THEN "settings" ELSE "install"
  /\ UNCHANGED <<ttyVars, restVars, input, signal_number, thrown>>

\* Mutant: the failing constructor throws without restoring.
Unrestored == "threw"

\* A constructor that fails restores the handlers it has installed.
Restoring == "unwind"

\* sigaction fails.
InstallFails ==
  /\ pc = "install"
  /\ installed < Len(signals)
  /\ Throw(Restoring)
  /\ UNCHANGED <<ttyVars, guardVars, restVars, input, signal_number>>

ReadSettings ==
  /\ pc = "settings"
  /\ saved' = lflag
  /\ pc' = "hide"
  /\ UNCHANGED <<ttyVars, guardVars, caught_signal, input, signal_number,
                 thrown, killer, sent>>

\* Mutants: TCSANOW instead of TCSAFLUSH, which keeps earlier input; ECHONL is
\* left set.
HideNow   == lflag' = saved \ EchoFlags /\ UNCHANGED <<queue, typed>>
HideECHO  == SetAttr(saved \ {"ECHO"})

Hide == SetAttr(saved \ EchoFlags)

HideEcho ==
  /\ pc = "hide"
  /\ Hide
  /\ pc' = "read"
  /\ UNCHANGED <<guardVars, restVars, input, signal_number, thrown>>

\* Standard input is no terminal, or tcgetattr or tcsetattr fails: the echo
\* guard is not constructed, so only SignalGuard is destroyed.
EchoGuardFails ==
  /\ pc \in {"settings", "hide"}
  /\ Throw("unwind")
  /\ UNCHANGED <<ttyVars, guardVars, restVars, input, signal_number>>

-------------------------------------------------------------------------------
(* The read loop.                                                          *)

EnterRead ==
  /\ pc = "read"
  /\ pc' = "blocked"
  /\ UNCHANGED <<ttyVars, guardVars, restVars, input, signal_number, thrown>>

\* Mutant: a carriage return before the newline stays.
StripNewline(s) == Front(s)

\* The line without its newline and without a carriage return before it.
StripLineEnd(s) ==
  LET t == Front(s) IN IF t # <<>> /\ Last(t).key = CR THEN Front(t) ELSE t

ReadReturns ==
  /\ pc = "blocked"
  /\ LineReady
  /\ queue' = AfterRead
  /\ LET chunk == ReadChunk
         text  == input \o chunk
     IN  \/ /\ chunk = <<>>
            /\ Throw("show")
            /\ UNCHANGED input
         \/ /\ chunk # <<>>
            /\ Last(text).key = NL
            /\ input' = StripLineEnd(text)
            /\ pc' = "show"
            /\ UNCHANGED thrown
         \/ /\ chunk # <<>>
            /\ Last(text).key # NL
            /\ input' = text
            /\ pc' = "read"
            /\ UNCHANGED thrown
  /\ UNCHANGED <<lflag, typed, guardVars, restVars, signal_number>>

\* ::read fails with an errno other than EINTR.
ReadFails ==
  /\ pc = "blocked"
  /\ Throw("show")
  /\ UNCHANGED <<ttyVars, guardVars, restVars, input, signal_number>>

\* EINTR with no guarded signal behind it (a stop and a continue).
ReadRestarted ==
  /\ pc = "blocked"
  /\ ~LineReady
  /\ pc' = "eintr"
  /\ UNCHANGED <<ttyVars, guardVars, restVars, input, signal_number, thrown>>

\* Mutant: the usual retry on EINTR, which does not look at the signal.
NoSignalCaught == NoSignal

SignalCaught == caught_signal

CheckSignal ==
  /\ pc = "eintr"
  /\ signal_number' = SignalCaught
  /\ pc' = IF SignalCaught = NoSignal THEN "read" ELSE "show"
  /\ UNCHANGED <<ttyVars, guardVars, restVars, input, thrown>>

-------------------------------------------------------------------------------
(* The guards are destroyed, TerminalEchoGuard first.                      *)

RestoreEcho ==
  /\ pc = "show"
  /\ SetAttr(saved)
  /\ pc' = "unwind"
  /\ UNCHANGED <<guardVars, restVars, input, signal_number, thrown>>

\* tcsetattr fails, and nobody looks.
RestoreFails ==
  /\ pc = "show"
  /\ RestoreCanFail
  /\ pc' = "unwind"
  /\ UNCHANGED <<ttyVars, guardVars, restVars, input, signal_number, thrown>>

\* Mutants: installed_ is decremented twice, or never; the default is set.
DecrementTwice == installed - 2
NoDecrement    == installed
Default(s)     == "SIG_DFL"

Decrement   == installed - 1
Original(s) == original[s]

RestoreHandler ==
  /\ pc = "unwind"
  /\ installed # 0
  /\ LET s == signals[installed] IN
       handler' = [handler EXCEPT ![s] = Original(s)]
  /\ installed' = Decrement
  /\ UNCHANGED <<ttyVars, pc, original, restVars, input, signal_number,
                 thrown>>

\* Behind the block an exception propagates, an interrupt is raised again with
\* the restored disposition (an ignored one falls through to the throw), and
\* otherwise the line is returned.
LeaveCall ==
  /\ pc = "unwind"
  /\ installed = 0
  /\ \/ /\ thrown
        /\ pc' = "threw"
        /\ UNCHANGED <<thrown, killer>>
     \/ /\ ~thrown /\ signal_number # NoSignal
        /\ handler[signal_number] = "SIG_DFL"
        /\ pc' = "killed"
        /\ killer' = signal_number
        /\ UNCHANGED thrown
     \/ /\ ~thrown /\ signal_number # NoSignal
        /\ handler[signal_number] # "SIG_DFL"
        /\ Throw("threw")
        /\ UNCHANGED killer
     \/ /\ ~thrown /\ signal_number = NoSignal
        /\ pc' = "returned"
        /\ UNCHANGED <<thrown, killer>>
  /\ UNCHANGED <<ttyVars, guardVars, caught_signal, saved, input,
                 signal_number, sent>>

-------------------------------------------------------------------------------
(* Signals.                                                                *)

Running == pc \notin {"threw", "killed", "accepted"}

\* Where a handled signal leaves the thread: it interrupts a read that has no
\* line to return, and may interrupt one that has, or a tcsetattr that is
\* draining output (SA_RESTART is not set).
Interrupted ==
  IF pc = "blocked" THEN {"eintr"} \cup {l \in {"blocked"} : LineReady'}
  ELSE IF pc = "show" /\ DrainInterruptible THEN {"show", "unwind"}
  ELSE {pc}

Deliver(s) ==
  /\ Running
  /\ sent < MaxSignals
  /\ sent' = sent + 1
  /\ queue' \in {queue} \cup (IF s \in KeyboardSignals THEN {<<>>} ELSE {})
  /\ \/ /\ handler[s] = "SIG_DFL"
        /\ pc' = "killed"
        /\ killer' = s
        /\ UNCHANGED caught_signal
     \/ /\ handler[s] = "SIG_IGN"
        /\ UNCHANGED <<pc, killer, caught_signal>>
     \/ /\ handler[s] = "remember_signal"
        /\ caught_signal' = s
        /\ pc' \in Interrupted
        /\ UNCHANGED killer
  /\ UNCHANGED <<lflag, typed, guardVars, saved, input, signal_number, thrown>>

-------------------------------------------------------------------------------

\* The steps the program is bound to take when it can.
LineStep ==
  \/ InstallHandler \/ ReadSettings \/ HideEcho
  \/ EnterRead \/ ReadReturns \/ CheckSignal
  \/ RestoreEcho \/ RestoreHandler \/ LeaveCall

\* System calls that fail, or return early.
LineFailure ==
  \/ InstallFails \/ EchoGuardFails \/ ReadFails \/ ReadRestarted
  \/ RestoreFails

\* A user types whenever the program runs, asked or not.
User == Running /\ (Type \/ PressEnter) /\ UNCHANGED lineVars

LineNext ==
  \/ LineStep
  \/ LineFailure
  \/ User
  \/ \E s \in Signals : Deliver(s)

===============================================================================
