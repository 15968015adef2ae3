--------------------------- MODULE PassphraseProofs ---------------------------
(***************************************************************************)
(* Proofs about Passphrase, for every set of characters and signals, every *)
(* buffer size and every number of keystrokes and signals.                 *)
(***************************************************************************)
EXTENDS Passphrase, WellFoundedInduction, SequenceTheorems, TLAPS

-------------------------------------------------------------------------------
(* Lemmas about the terminal's queue and the line read from it.            *)

\* Every non-empty set of natural numbers has a least element.
LEMMA MinExists ==
  ASSUME NEW D \in SUBSET Nat, D # {}
  PROVE  \E i \in D : \A j \in D : i <= j
<1>1. IsWellFoundedOn(OpToRel(<, Nat), Nat)
  BY NatLessThanWellFounded
<1>2. PICK x \in D : \A y \in D : ~ (<<y, x>> \in OpToRel(<, Nat))
  BY <1>1, WFMin
<1>3. \A y \in D : ~ (y < x)
  BY <1>2 DEF OpToRel
<1>4. x \in Nat /\ \A y \in D : y \in Nat
  OBVIOUS
<1> HIDE <1>2
<1>5. QED
  BY <1>3, <1>4

\* What a read returns and what it leaves are parts of the queue.
LEMMA ReadParts ==
  ASSUME queue \in Seq(Keystroke), LineReady
  PROVE  /\ ReadLength \in 0..Len(queue)
         /\ ReadChunk \in Seq(Keystroke)
         /\ AfterRead \in Seq(Keystroke)
         /\ \A i \in DOMAIN ReadChunk : \E j \in DOMAIN queue :
              ReadChunk[i] = queue[j]
         /\ \A i \in DOMAIN AfterRead : \E j \in DOMAIN queue :
              AfterRead[i] = queue[j]
<1> DEFINE first == CHOOSE i \in Delimiters : \A j \in Delimiters : i <= j
<1>1. Delimiters \in SUBSET (1..Len(queue))
  BY LenProperties DEF Delimiters
<1>2. Delimiters # {}
  BY DEF LineReady
<1>3. \E i \in Delimiters : \A j \in Delimiters : i <= j
  BY <1>1, <1>2, MinExists
<1>4. first \in 1..Len(queue)
  BY <1>1, <1>3
<1>5. ReadLength \in 0..Len(queue)
  BY <1>4, TerminalAssumption DEF ReadLength
<1>6. \A i \in 1..Len(queue) : queue[i] \in Keystroke
  BY ElementOfSeq
<1>7. ASSUME NEW m \in 1..Len(queue)+2, NEW n \in 0..Len(queue)
      PROVE  /\ SubSeq(queue, m, n) \in Seq(Keystroke)
             /\ \A i \in DOMAIN SubSeq(queue, m, n) : \E j \in DOMAIN queue :
                  SubSeq(queue, m, n)[i] = queue[j]
  <2> DEFINE t == SubSeq(queue, m, n)
  <2>1. /\ t \in Seq(Keystroke)
        /\ Len(t) = IF m <= n THEN n - m + 1 ELSE 0
        /\ \A i \in 1 .. n-m+1 : t[i] = queue[m+i-1]
    <3>1. \A i \in m..n : queue[i] \in Keystroke
      BY <1>6
    <3>2. Len(queue) \in Nat /\ m \in Int /\ n \in Int
      BY LenProperties
    <3>3. QED
      BY <3>1, <3>2, SubSeqProperties
  <2>2. DOMAIN t = 1..Len(t) /\ DOMAIN queue = 1..Len(queue)
    BY <2>1, LenProperties
  <2>3. ASSUME NEW i \in DOMAIN t
        PROVE  \E j \in DOMAIN queue : t[i] = queue[j]
    <3> HIDE DEF t
    <3>1. Len(queue) \in Nat
      BY LenProperties
    <3>2. m <= n /\ i \in 1..(n-m+1)
      BY <2>1, <2>2, <3>1
    <3>3. m+i-1 \in DOMAIN queue
      BY <2>2, <3>1, <3>2
    <3>4. QED
      BY <2>1, <3>2, <3>3
  <2>4. QED
    BY <2>1, <2>3
<1>8. Len(queue) \in Nat
  BY LenProperties
<1>9. /\ ReadChunk \in Seq(Keystroke)
      /\ \A i \in DOMAIN ReadChunk : \E j \in DOMAIN queue :
           ReadChunk[i] = queue[j]
  BY <1>5, <1>7, <1>8 DEF ReadChunk
<1>10. \E m \in 1..Len(queue)+2 : AfterRead = SubSeq(queue, m, Len(queue))
  <2> DEFINE next    == ReadLength + 1
             endsEOF == /\ next \in DOMAIN queue
                        /\ queue[next].key = EOF
                        /\ \A i \in 1..ReadLength : queue[i].key # NL
  <2>1. next \in 1..Len(queue)+2 /\ next + 1 \in 1..Len(queue)+2
    BY <1>5, <1>8
  <2>2. AfterRead = SubSeq(queue, IF endsEOF THEN next + 1 ELSE next, Len(queue))
    BY DEF AfterRead
  <2> HIDE DEF next, endsEOF
  <2>3. QED
    BY <2>1, <2>2
<1>11. QED
  BY <1>5, <1>7, <1>8, <1>9, <1>10

\* Stripping the line end of a non-empty line keeps a part of it.
LEMMA StripPart ==
  ASSUME NEW s \in Seq(Keystroke), s # <<>>
  PROVE  /\ StripLineEnd(s) \in Seq(Keystroke)
         /\ \A i \in DOMAIN StripLineEnd(s) :
              i \in DOMAIN s /\ StripLineEnd(s)[i] = s[i]
<1>1. ASSUME NEW t \in Seq(Keystroke), t # <<>>
      PROVE  /\ Front(t) \in Seq(Keystroke)
             /\ \A i \in DOMAIN Front(t) : i \in DOMAIN t /\ Front(t)[i] = t[i]
  <2>1. Len(t) \in Nat /\ DOMAIN t = 1..Len(t)
    BY LenProperties
  <2>2. \A i \in 1..Len(t)-1 : t[i] \in Keystroke
    BY <2>1, ElementOfSeq
  <2>3. /\ Front(t) \in Seq(Keystroke)
        /\ Len(Front(t)) = IF 1 <= Len(t)-1 THEN Len(t)-1 ELSE 0
        /\ \A i \in 1..Len(t)-1 : Front(t)[i] = t[i]
    BY <2>1, <2>2, SubSeqProperties DEF Front
  <2>4. DOMAIN Front(t) = 1..Len(Front(t))
    BY <2>3, LenProperties
  <2>5. ASSUME NEW i \in DOMAIN Front(t)
        PROVE  i \in 1..Len(t)-1 /\ i \in DOMAIN t
    <3>1. i \in 1..(IF 1 <= Len(t)-1 THEN Len(t)-1 ELSE 0)
      BY <2>3, <2>4, Zenon
    <3>2. QED
      BY <2>1, <3>1
  <2>6. QED
    BY <2>3, <2>5
<1>2. CASE Front(s) # <<>> /\ Last(Front(s)).key = CR
  <2>1. StripLineEnd(s) = Front(Front(s))
    BY <1>2 DEF StripLineEnd
  <2>2. QED
    BY <1>1, <1>2, <2>1
<1>3. CASE ~ (Front(s) # <<>> /\ Last(Front(s)).key = CR)
  <2>1. StripLineEnd(s) = Front(s)
    BY <1>3 DEF StripLineEnd
  <2>2. QED
    BY <1>1, <2>1
<1>4. QED
  BY <1>2, <1>3

-------------------------------------------------------------------------------
(* Type correctness.                                                       *)

\* The guarded signals, by their place in signals_.
LEMMA SignalPlaces ==
  /\ Len(signals) \in Nat \ {0}
  /\ DOMAIN signals = 1..Len(signals)
  /\ \A i \in 1..Len(signals) : signals[i] \in Signals
  /\ \A s \in Signals : \E i \in 1..Len(signals) : s = signals[i]
<1>1. Len(signals) \in Nat /\ DOMAIN signals = 1..Len(signals)
  BY SignalAssumption, LenProperties
<1>2. Len(signals) # 0
  BY SignalAssumption, EmptySeq
<1>3. QED
  BY <1>1, <1>2 DEF Signals, Range

\* What a key press does to the queue.
LEMMA PressType ==
  ASSUME TypeOK, NEW k \in Keys, Press(k)
  PROVE  queue' \in Seq(Keystroke) /\ lflag' = lflag
  BY AppendProperties DEF Press, TypeOK, LineTypeOK, TerminalTypeOK, Keystroke

\* What a completed read does to the queue and to the line.
LEMMA ReadReturnsType ==
  ASSUME TypeOK, ReadReturns
  PROVE  /\ queue' \in Seq(Keystroke)
         /\ input' \in Seq(Keystroke)
         /\ \A i \in DOMAIN input' :
              \/ \E j \in DOMAIN input : input'[i] = input[j]
              \/ \E j \in DOMAIN queue : input'[i] = queue[j]
         /\ \A i \in DOMAIN queue' : \E j \in DOMAIN queue :
              queue'[i] = queue[j]
<1> DEFINE text == input \o ReadChunk
<1>1. queue \in Seq(Keystroke) /\ input \in Seq(Keystroke)
  BY DEF TypeOK, LineTypeOK, TerminalTypeOK
<1>2. /\ ReadChunk \in Seq(Keystroke)
      /\ AfterRead \in Seq(Keystroke)
      /\ \A i \in DOMAIN ReadChunk : \E j \in DOMAIN queue :
           ReadChunk[i] = queue[j]
      /\ \A i \in DOMAIN AfterRead : \E j \in DOMAIN queue :
           AfterRead[i] = queue[j]
  BY <1>1, ReadParts DEF ReadReturns
<1>3. queue' = AfterRead
  BY DEF ReadReturns
<1>4. /\ text \in Seq(Keystroke)
      /\ DOMAIN text = 1..Len(input) + Len(ReadChunk)
      /\ \A i \in 1..Len(input) + Len(ReadChunk) :
           text[i] = IF i <= Len(input) THEN input[i]
                     ELSE ReadChunk[i - Len(input)]
  BY <1>1, <1>2, ConcatProperties, LenProperties
<1>5. ASSUME NEW i \in DOMAIN text
      PROVE  \/ \E j \in DOMAIN input : text[i] = input[j]
             \/ \E j \in DOMAIN queue : text[i] = queue[j]
  <2>1. /\ Len(input) \in Nat /\ DOMAIN input = 1..Len(input)
        /\ Len(ReadChunk) \in Nat /\ DOMAIN ReadChunk = 1..Len(ReadChunk)
    BY <1>1, <1>2, LenProperties
  <2>2. i \in 1..Len(input) + Len(ReadChunk)
    BY <1>4
  <2> HIDE DEF text
  <2>3. CASE i <= Len(input)
    BY <1>4, <2>1, <2>2, <2>3
  <2>4. CASE ~ (i <= Len(input))
    <3>1. i - Len(input) \in DOMAIN ReadChunk
      BY <2>1, <2>2, <2>4
    <3>2. text[i] = ReadChunk[i - Len(input)]
      BY <1>4, <2>2, <2>4
    <3>3. QED
      BY <1>2, <3>1, <3>2
  <2>5. QED
    BY <2>3, <2>4
<1>6. ReadChunk # <<>> => text # <<>>
  BY <1>1, <1>2, ConcatEmptySeq
<1>7. \/ input' = input
      \/ input' = text
      \/ ReadChunk # <<>> /\ input' = StripLineEnd(text)
  BY DEF ReadReturns
<1>8. CASE input' = input
  BY <1>1, <1>2, <1>3, <1>8
<1>9. CASE input' = text
  BY <1>2, <1>3, <1>4, <1>5, <1>9
<1>10. CASE ReadChunk # <<>> /\ input' = StripLineEnd(text)
  <2>1. /\ input' \in Seq(Keystroke)
        /\ \A i \in DOMAIN input' : i \in DOMAIN text /\ input'[i] = text[i]
    BY <1>4, <1>6, <1>10, StripPart
  <2> HIDE DEF text
  <2>2. QED
    BY <1>2, <1>3, <1>5, <2>1
<1>11. QED
  BY <1>7, <1>8, <1>9, <1>10

\* Every step keeps every variable in its type.
LEMMA TypeStep ==
  ASSUME TypeOK, [Next]_vars
  PROVE  TypeOK'
<1> USE DEF Locations, MaybeSignal, Dispositions
<1>0. CASE UNCHANGED vars
  BY <1>0 DEF vars, hvars, lineVars, ttyVars, TypeOK, LineTypeOK,
              TerminalTypeOK
<1>1. CASE StoreFirst
  <2>1. /\ passphrase' \in Seq(Keystroke)
        /\ UNCHANGED <<ttyVars, handler, original, saved, killer, sent, tty0,
                       handler0>>
    BY <1>1 DEF StoreFirst, EnterCall, guardVars, TypeOK, LineTypeOK
  <2>2. /\ pc' \in Locations
        /\ installed' \in 0..Len(signals)
        /\ caught_signal' \in MaybeSignal
        /\ signal_number' \in MaybeSignal
        /\ thrown' \in BOOLEAN
        /\ confirming' \in BOOLEAN
        /\ sent0' \in 0..MaxSignals
    <3>1. CASE input = <<>>
      BY <1>1, <3>1 DEF StoreFirst, guardVars, TypeOK, LineTypeOK
    <3>2. CASE input # <<>>
      <4>1. EnterCall /\ confirming' = TRUE /\ sent0' = sent
        BY <1>1, <3>2 DEF StoreFirst
      <4>2. 0 \in 0..Len(signals)
        BY SignalPlaces
      <4>3. QED
        BY <4>1, <4>2 DEF EnterCall, NothingCaught, TypeOK, LineTypeOK
    <3>3. QED
      BY <3>1, <3>2
  <2>3. input' \in Seq(Keystroke)
    BY <1>1, EmptySeq DEF StoreFirst, EnterCall, TypeOK, LineTypeOK
  <2>4. QED
    BY <2>1, <2>2, <2>3 DEF ttyVars, TypeOK, LineTypeOK, TerminalTypeOK
<1>2. CASE Compare
  BY <1>2 DEF Compare, ttyVars, guardVars, TypeOK, LineTypeOK, TerminalTypeOK
<1>3. CASE Terminated
  BY <1>0, <1>3 DEF Terminated
<1>4. CASE InCall
  <2>0. UNCHANGED <<confirming, passphrase, tty0, handler0, sent0>>
    BY <1>4 DEF InCall
  <2>1. CASE InstallHandler
    <3>1. /\ installed + 1 \in 1..Len(signals)
          /\ signals[installed + 1] \in Signals
          /\ installed' = installed + 1
      <4>1. /\ installed < Len(signals)
            /\ installed' = installed + 1
        BY <2>1 DEF InstallHandler, LastSignal, restVars
      <4>2. installed \in 0..Len(signals)
        BY DEF TypeOK, LineTypeOK
      <4>3. QED
        BY <4>1, <4>2, SignalPlaces
    <3>2. /\ handler' \in [Signals -> Dispositions \cup {"remember_signal"}]
          /\ original' \in [Signals -> Dispositions \cup {"remember_signal"}]
      <4> DEFINE s == signals[installed + 1]
                 D == Dispositions \cup {"remember_signal"}
      <4>1. /\ handler' = [handler EXCEPT ![s] = "remember_signal"]
            /\ original' = [original EXCEPT ![s] = handler[s]]
        BY <2>1 DEF InstallHandler, LastSignal, restVars
      <4>2. /\ handler \in [Signals -> D]
            /\ original \in [Signals -> D]
            /\ "remember_signal" \in D
        BY DEF TypeOK, LineTypeOK
      <4>3. s \in Signals
        BY <3>1
      <4> HIDE DEF s, D
      <4>4. handler' \in [Signals -> D] /\ original' \in [Signals -> D]
        BY <4>1, <4>2, <4>3
      <4>5. QED
        BY <4>4 DEF D
    <3>3. /\ pc' \in Locations
          /\ installed' \in 0..Len(signals)
      BY <2>1, <3>1, SignalPlaces DEF InstallHandler, LastSignal, restVars
    <3>4. UNCHANGED <<ttyVars, caught_signal, saved, input, signal_number,
                      thrown, killer, sent>>
      BY <2>1 DEF InstallHandler, LastSignal, restVars
    <3>5. QED
      BY <2>0, <3>2, <3>3, <3>4
         DEF ttyVars, TypeOK, LineTypeOK, TerminalTypeOK
  <2>2. CASE InstallFails
    BY <2>0, <2>2 DEF InstallFails, Throw, ttyVars, guardVars, TypeOK,
                      LineTypeOK, TerminalTypeOK, Restoring, restVars
  <2>3. CASE ReadSettings
    BY <2>0, <2>3 DEF ReadSettings, ttyVars, guardVars, TypeOK, LineTypeOK,
                      TerminalTypeOK, restVars
  <2>4. CASE HideEcho
    BY <2>0, <2>4, EmptySeq DEF HideEcho, SetAttr, ttyVars, guardVars, TypeOK,
                      LineTypeOK, TerminalTypeOK, Hide, restVars
  <2>5. CASE EchoGuardFails
    BY <2>0, <2>5 DEF EchoGuardFails, Throw, ttyVars, guardVars, TypeOK,
                      LineTypeOK, TerminalTypeOK, restVars
  <2>6. CASE EnterRead
    BY <2>0, <2>6 DEF EnterRead, ttyVars, guardVars, TypeOK, LineTypeOK,
                      TerminalTypeOK, restVars
  <2>7. CASE ReadReturns
    <3>1. queue' \in Seq(Keystroke) /\ input' \in Seq(Keystroke)
      BY <2>7, ReadReturnsType
    <3>2. pc' \in Locations /\ thrown' \in BOOLEAN
      BY <2>7 DEF ReadReturns, Throw, TypeOK, LineTypeOK, restVars
    <3>3. UNCHANGED <<lflag, typed, handler, original, installed,
                      caught_signal, saved, signal_number, killer, sent>>
      BY <2>7 DEF ReadReturns, guardVars, restVars
    <3>4. QED
      BY <2>0, <3>1, <3>2, <3>3 DEF TypeOK, LineTypeOK, TerminalTypeOK
  <2>8. CASE ReadFails
    BY <2>0, <2>8 DEF ReadFails, Throw, ttyVars, guardVars, TypeOK, LineTypeOK,
                      TerminalTypeOK, restVars
  <2>9. CASE ReadRestarted
    BY <2>0, <2>9 DEF ReadRestarted, ttyVars, guardVars, TypeOK, LineTypeOK,
                      TerminalTypeOK, restVars
  <2>10. CASE CheckSignal
    BY <2>0, <2>10 DEF CheckSignal, ttyVars, guardVars, TypeOK, LineTypeOK,
                       TerminalTypeOK, SignalCaught, restVars
  <2>11. CASE RestoreEcho \/ RestoreFails
    BY <2>0, <2>11, EmptySeq DEF RestoreEcho, RestoreFails, SetAttr, ttyVars,
                       guardVars, TypeOK, LineTypeOK, TerminalTypeOK, restVars
  <2>12. CASE RestoreHandler
    <3>1. installed - 1 \in 0..Len(signals) /\ signals[installed] \in Signals
      BY <2>12, SignalPlaces DEF RestoreHandler, TypeOK, LineTypeOK,
                        Decrement, Original, restVars
    <3>2. QED
      BY <2>0, <2>12, <3>1 DEF RestoreHandler, ttyVars, TypeOK, LineTypeOK,
                               TerminalTypeOK, Decrement, Original, restVars
  <2>13. CASE LeaveCall
    BY <2>0, <2>13 DEF LeaveCall, Throw, ttyVars, guardVars, TypeOK,
                       LineTypeOK, TerminalTypeOK, restVars
  <2>14. CASE User
    <3>1. queue' \in Seq(Keystroke) /\ lflag' = lflag
      BY <2>14, PressType DEF User, Type, PressEnter, Keys
    <3>2. typed' \in 0..MaxTyped
      BY <2>14, TerminalAssumption
         DEF User, Type, PressEnter, TypeOK, LineTypeOK, TerminalTypeOK
    <3>3. UNCHANGED lineVars
      BY <2>14 DEF User
    <3>4. QED
      BY <2>0, <3>1, <3>2, <3>3 DEF lineVars, TypeOK, LineTypeOK,
                                    TerminalTypeOK
  <2>15. CASE \E s \in Signals : Deliver(s)
    <3>1. PICK s \in Signals : Deliver(s)
      BY <2>15
    <3>2. pc' \in Locations /\ killer' \in MaybeSignal
          /\ caught_signal' \in MaybeSignal
      BY <3>1 DEF Deliver, Interrupted, TypeOK, LineTypeOK
    <3>3. queue' \in Seq(Keystroke)
      BY <3>1, EmptySeq DEF Deliver, TypeOK, LineTypeOK, TerminalTypeOK
    <3>4. sent' \in 0..MaxSignals
      BY <3>1, SignalAssumption DEF Deliver, TypeOK, LineTypeOK
    <3>5. UNCHANGED <<lflag, typed, handler, original, installed, saved,
                      input, signal_number, thrown>>
      BY <3>1 DEF Deliver, guardVars
    <3>6. QED
      BY <2>0, <3>2, <3>3, <3>4, <3>5 DEF TypeOK, LineTypeOK, TerminalTypeOK
  <2>16. QED
    BY <1>4, <2>1, <2>2, <2>3, <2>4, <2>5, <2>6, <2>7, <2>8, <2>9, <2>10,
       <2>11, <2>12, <2>13, <2>14, <2>15
       DEF InCall, LineNext, LineStep, LineFailure
<1>5. QED
  BY <1>0, <1>1, <1>2, <1>3, <1>4 DEF Next

\* The program starts with every variable in its type.
LEMMA InitType ==
  ASSUME Init
  PROVE  TypeOK
<1>1. TerminalTypeOK
  BY TerminalAssumption, EmptySeq
     DEF Init, LineInit, TerminalInit, TerminalTypeOK
<1>2. handler \in [Signals -> Dispositions \cup {"remember_signal"}]
  BY DEF Init, LineInit
<1>3. input \in Seq(Keystroke) /\ passphrase \in Seq(Keystroke)
  BY EmptySeq DEF Init, LineInit
<1>4. 0 \in 0..Len(signals) /\ 0 \in 0..MaxSignals
  BY SignalPlaces, SignalAssumption
<1>5. QED
  BY <1>1, <1>2, <1>3, <1>4
     DEF Init, LineInit, TypeOK, LineTypeOK, TerminalTypeOK, Locations,
         MaybeSignal

\* The variables always have their types, for any characters, signals, buffer
\* size and number of keystrokes.
THEOREM TypeCorrect == Spec => []TypeOK
<1>1. Init => TypeOK
  BY InitType
<1>2. TypeOK /\ [Next]_vars => TypeOK'
  BY TypeStep
<1>3. QED
  BY <1>1, <1>2, PTL DEF Spec

-------------------------------------------------------------------------------
(* No character of an answer was shown.                                    *)

\* NeverEchoed alone is not inductive: what ::read returns was typed earlier.
\* While the call may read, echo is off and all that is queued was typed with
\* echo off.
Hidden ==
  pc \in {"read", "blocked", "eintr"} =>
    /\ "ECHO" \notin lflag
    /\ \A i \in DOMAIN queue : ~queue[i].visible

HiddenInv == NeverEchoed /\ Hidden

\* A key pressed with echo off adds an invisible keystroke.
LEMMA PressHidden ==
  ASSUME TypeOK, NEW k \in Keys, Press(k), "ECHO" \notin lflag,
         \A i \in DOMAIN queue : ~queue[i].visible
  PROVE  \A i \in DOMAIN queue' : ~queue'[i].visible
<1> DEFINE e == [key |-> k, visible |-> "ECHO" \in lflag]
<1>1. queue \in Seq(Keystroke) /\ e \in Keystroke /\ queue' = Append(queue, e)
  BY DEF TypeOK, LineTypeOK, TerminalTypeOK, Press, Keystroke
<1>2. ~e.visible
  OBVIOUS
<1> HIDE DEF e
<1>3. /\ DOMAIN queue = 1..Len(queue) /\ Len(queue) \in Nat
      /\ DOMAIN queue' = 1..Len(queue) + 1
      /\ \A i \in 1..Len(queue) : queue'[i] = queue[i]
      /\ queue'[Len(queue) + 1] = e
  BY <1>1, AppendProperties, LenProperties
<1>4. QED
  BY <1>2, <1>3

\* While the read loop runs echo is off and the queue holds only keystrokes that
\* were not shown; no step of the entry changes that.
LEMMA HiddenStep ==
  ASSUME TypeOK, HiddenInv, [Next]_vars
  PROVE  HiddenInv'
<1> USE DEF HiddenInv
<1>0. CASE UNCHANGED vars
  BY <1>0 DEF vars, hvars, lineVars, ttyVars, NeverEchoed, Hidden
<1>1. CASE StoreFirst
  <2>1. pc' \in {"install", "accepted"}
    BY <1>1 DEF StoreFirst, EnterCall
  <2>2. passphrase' = input /\ (input' = input \/ input' = <<>>)
    BY <1>1 DEF StoreFirst, EnterCall
  <2>3. QED
    BY <2>1, <2>2 DEF NeverEchoed, Hidden
<1>2. CASE Compare
  <2>1. pc' \in {"accepted", "threw"} /\ UNCHANGED <<input, passphrase>>
    BY <1>2 DEF Compare
  <2>2. QED
    BY <2>1 DEF NeverEchoed, Hidden
<1>3. CASE Terminated
  BY <1>0, <1>3 DEF Terminated
<1>4. CASE InCall
  <2>0. passphrase' = passphrase
    BY <1>4 DEF InCall
  <2>1. CASE pc' \notin {"read", "blocked", "eintr"} /\ input' = input
    BY <2>0, <2>1 DEF NeverEchoed, Hidden
  <2>2. CASE HideEcho
    <3>1. lflag' = {} /\ queue' = <<>> /\ input' = input
      BY <2>2 DEF HideEcho, SetAttr, TypeOK, LineTypeOK, Hide, restVars
    <3>2. QED
      BY <2>0, <3>1 DEF NeverEchoed, Hidden
  <2>3. CASE EnterRead \/ ReadRestarted \/ CheckSignal
    BY <2>0, <2>3 DEF EnterRead, ReadRestarted, CheckSignal, ttyVars,
                      NeverEchoed, Hidden, SignalCaught, restVars
  <2>4. CASE ReadReturns
    <3>1. pc = "blocked" /\ lflag' = lflag
      BY <2>4 DEF ReadReturns
    <3>2. \A k \in DOMAIN input' : ~input'[k].visible
      BY <2>4, <3>1, ReadReturnsType DEF NeverEchoed, Hidden
    <3>3. \A k \in DOMAIN queue' : ~queue'[k].visible
      BY <2>4, <3>1, ReadReturnsType DEF Hidden
    <3>4. QED
      BY <2>0, <3>1, <3>2, <3>3 DEF NeverEchoed, Hidden
  <2>5. CASE User
    <3>1. PICK k \in Keys : Press(k)
      BY <2>5 DEF User, Type, PressEnter, Keys
    <3>2. UNCHANGED <<pc, input, lflag>>
      BY <2>5, <3>1 DEF User, lineVars, Press
    <3>3. QED
      BY <2>0, <3>1, <3>2, PressHidden DEF NeverEchoed, Hidden
  <2>6. CASE \E s \in Signals : Deliver(s)
    <3>1. PICK s \in Signals : Deliver(s)
      BY <2>6
    <3>2. UNCHANGED <<input, lflag>> /\ (queue' = queue \/ queue' = <<>>)
      BY <3>1 DEF Deliver
    <3>3. pc' \in {"read", "blocked", "eintr"}
            => pc \in {"read", "blocked", "eintr"}
      BY <3>1 DEF Deliver, Interrupted
    <3>4. QED
      BY <2>0, <3>2, <3>3 DEF NeverEchoed, Hidden
  <2>7. CASE \/ InstallHandler \/ InstallFails \/ ReadSettings
             \/ EchoGuardFails \/ ReadFails \/ RestoreEcho
             \/ RestoreFails \/ RestoreHandler \/ LeaveCall
    <3>1. pc' \notin {"read", "blocked", "eintr"} /\ input' = input
      BY <2>7 DEF InstallHandler, InstallFails, ReadSettings, EchoGuardFails,
                  ReadFails, RestoreEcho, RestoreFails, RestoreHandler,
                  LeaveCall, Throw, LastSignal, Restoring, Decrement,
                  Original, restVars
    <3>2. QED
      BY <2>1, <3>1
  <2>8. QED
    BY <1>4, <2>2, <2>3, <2>4, <2>5, <2>6, <2>7
       DEF InCall, LineNext, LineStep, LineFailure
<1>5. QED
  BY <1>0, <1>1, <1>2, <1>3, <1>4 DEF Next

\* No character of the passphrase or its confirmation was ever shown on the
\* screen, whenever it was typed and whatever signals arrive.
THEOREM NeverShown == Spec => []NeverEchoed
<1>1. Init => HiddenInv
  BY DEF Init, LineInit, HiddenInv, NeverEchoed, Hidden
<1>2. TypeOK /\ HiddenInv /\ [Next]_vars => HiddenInv'
  BY HiddenStep
<1>3. HiddenInv => NeverEchoed
  BY DEF HiddenInv
<1>4. QED
  BY <1>1, <1>2, <1>3, TypeCorrect, PTL DEF Spec

-------------------------------------------------------------------------------
(* The dispositions of the signals.                                        *)

\* The first `installed' signals are caught and their inherited dispositions
\* kept; the others have the disposition the process inherited.
GuardInv ==
  /\ \A i \in 1..Len(signals) :
       IF i <= installed
       THEN /\ handler[signals[i]] = "remember_signal"
            /\ original[signals[i]] = handler0[signals[i]]
       ELSE handler[signals[i]] = handler0[signals[i]]
  /\ pc \in {"settings", "hide", "read", "blocked", "eintr", "show"}
       => installed = Len(signals)
  /\ pc \in {"returned", "threw", "accepted"} => installed = 0
  /\ IgnoredNeverKills

\* The steps that leave the guard and the inherited dispositions alone.
LEMMA GuardKept ==
  ASSUME [Next]_vars, ~InstallHandler, ~RestoreHandler, ~StoreFirst
  PROVE  UNCHANGED <<handler, original, installed, handler0>>
<1>1. CASE UNCHANGED vars
  BY <1>1 DEF vars, hvars, lineVars
<1>2. CASE Compare
  BY <1>2 DEF Compare, guardVars
<1>3. CASE InCall
  <2>1. UNCHANGED handler0
    BY <1>3 DEF InCall
  <2>2. CASE User
    BY <2>1, <2>2 DEF User, lineVars
  <2>3. CASE \E s \in Signals : Deliver(s)
    BY <2>1, <2>3 DEF Deliver, guardVars
  <2>4. CASE \/ InstallFails \/ ReadSettings \/ HideEcho \/ EchoGuardFails
             \/ EnterRead \/ ReadReturns \/ ReadFails \/ ReadRestarted
             \/ CheckSignal \/ RestoreEcho \/ RestoreFails \/ LeaveCall
    BY <2>1, <2>4
       DEF InstallFails, ReadSettings, HideEcho, EchoGuardFails, EnterRead,
           ReadReturns, ReadFails, ReadRestarted, CheckSignal, RestoreEcho,
           RestoreFails, LeaveCall, guardVars, Restoring, Hide,
           SignalCaught, restVars
  <2>5. QED
    BY <1>3, <2>2, <2>3, <2>4 DEF InCall, LineNext, LineStep, LineFailure
<1>4. QED
  BY <1>1, <1>2, <1>3 DEF Next, Terminated

\* Each guarded signal is either still inherited or handled with its inherited
\* disposition saved; no step of the guards or of a signal breaks that.
LEMMA GuardStep ==
  ASSUME TypeOK, GuardInv, [Next]_vars
  PROVE  GuardInv'
<1> USE DEF GuardInv
<1>1. /\ handler \in [Signals -> Dispositions \cup {"remember_signal"}]
      /\ original \in [Signals -> Dispositions \cup {"remember_signal"}]
      /\ installed \in 0..Len(signals)
      /\ Len(signals) \in Nat
      /\ handler0 \in [Signals -> Dispositions]
  BY SignalPlaces DEF TypeOK, LineTypeOK
<1>2. \A i, j \in 1..Len(signals) : signals[i] = signals[j] => i = j
  BY SignalAssumption, SignalPlaces
<1>3. CASE InstallHandler /\ InCall
  <2> DEFINE n == installed + 1
             s == signals[n]
  <2>1. /\ handler' = [handler EXCEPT ![s] = "remember_signal"]
        /\ original' = [original EXCEPT ![s] = handler[s]]
        /\ UNCHANGED <<handler0, killer>>
        /\ installed' = n
        /\ installed < Len(signals)
    BY <1>3 DEF InstallHandler, InCall, LastSignal, restVars
  <2>2. n \in 1..Len(signals) /\ s \in Signals
    <3>1. n \in 1..Len(signals)
      BY <1>1, <2>1
    <3>2. QED
      BY <3>1, SignalPlaces
  <2>3. /\ handler'[s] = "remember_signal"
        /\ original'[s] = handler0[s]
    BY <1>1, <2>1, <2>2
  <2>4. ASSUME NEW i \in 1..Len(signals), i # n
        PROVE  /\ handler'[signals[i]] = handler[signals[i]]
               /\ original'[signals[i]] = original[signals[i]]
    <3>1. signals[i] # s /\ signals[i] \in Signals
      BY <1>2, <2>2, <2>4, SignalPlaces
    <3> HIDE DEF s
    <3>2. QED
      BY <1>1, <2>1, <3>1
  <2>5. \A i \in 1..Len(signals) : i <= n <=> (i <= installed \/ i = n)
    BY <1>1
  <2>6. pc' \in {"install", "settings"}
        /\ (pc' = "settings" => n = Len(signals))
    BY <1>3 DEF InstallHandler, LastSignal, restVars
  <2> HIDE DEF n
  <2>7. QED
    BY <2>1, <2>3, <2>4, <2>5, <2>6 DEF IgnoredNeverKills
<1>4. CASE RestoreHandler /\ InCall
  <2> DEFINE s == signals[installed]
  <2>1. /\ handler' = [handler EXCEPT ![s] = original[s]]
        /\ UNCHANGED <<original, handler0, killer, pc>>
        /\ installed' = installed - 1
        /\ installed # 0
        /\ pc = "unwind"
    BY <1>4 DEF RestoreHandler, InCall, Decrement, Original, restVars
  <2>2. installed \in 1..Len(signals) /\ s \in Signals
    BY <1>1, <2>1, SignalPlaces
  <2>3. handler'[s] = handler0[s]
    BY <1>1, <2>1, <2>2
  <2>4. ASSUME NEW i \in 1..Len(signals), i # installed
        PROVE  handler'[signals[i]] = handler[signals[i]]
    <3>1. signals[i] # s /\ signals[i] \in Signals
      BY <1>2, <2>2, <2>4, SignalPlaces
    <3> HIDE DEF s
    <3>2. QED
      BY <1>1, <2>1, <3>1
  <2>5. \A i \in 1..Len(signals) :
          i <= installed' <=> (i <= installed /\ i # installed)
    BY <1>1, <2>1
  <2>6. QED
    BY <2>1, <2>3, <2>4, <2>5 DEF IgnoredNeverKills
<1>5. CASE StoreFirst
  <2>1. /\ installed = 0
        /\ installed' = 0
        /\ pc' \in {"install", "accepted"}
        /\ UNCHANGED <<handler, original, handler0, killer>>
    BY <1>5 DEF StoreFirst, EnterCall, guardVars
  <2>2. QED
    BY <2>1 DEF IgnoredNeverKills
<1>6. CASE ~InstallHandler /\ ~RestoreHandler /\ ~StoreFirst
  <2>1. UNCHANGED <<handler, original, installed, handler0>>
    BY <1>6, GuardKept
  <2>2. \/ pc' = pc
        \/ pc' \in {"install", "unwind", "killed"}
        \/ installed = Len(signals)
             /\ pc' \in {"settings", "hide", "read", "blocked", "eintr",
                         "show"}
        \/ installed = 0 /\ pc' \in {"returned", "threw", "accepted"}
    <3>1. CASE UNCHANGED vars
      BY <3>1 DEF vars, hvars, lineVars
    <3>2. CASE Compare
      BY <3>2 DEF Compare
    <3>3. CASE User
      BY <3>3 DEF User, lineVars
    <3>4. CASE \E s \in Signals : Deliver(s)
      BY <3>4 DEF Deliver, Interrupted
    <3>5. CASE InstallFails \/ ReadSettings \/ HideEcho \/ EchoGuardFails
      BY <3>5 DEF InstallFails, ReadSettings, HideEcho, EchoGuardFails, Throw,
                  Restoring, Hide, restVars
    <3>6. CASE EnterRead \/ ReadReturns \/ ReadFails \/ ReadRestarted
      BY <3>6 DEF EnterRead, ReadReturns, ReadFails, ReadRestarted, Throw,
                  restVars
    <3>7. CASE CheckSignal \/ RestoreEcho \/ RestoreFails \/ LeaveCall
      BY <3>7 DEF CheckSignal, RestoreEcho, RestoreFails, LeaveCall, Throw,
                  SignalCaught, restVars
    <3>8. QED
      BY <1>6, <3>1, <3>2, <3>3, <3>4, <3>5, <3>6, <3>7
         DEF Next, Terminated, InCall, LineNext, LineStep, LineFailure
  <2>3. ASSUME killer' # NoSignal
        PROVE  handler0[killer'] = "SIG_DFL"
    <3>1. CASE killer' = killer
      BY <2>3, <3>1 DEF IgnoredNeverKills
    <3>2. CASE killer' # killer
      <4>1. killer' \in Signals /\ handler[killer'] = "SIG_DFL"
        <5>1. CASE LeaveCall
          <6>1. /\ signal_number # NoSignal
                /\ killer' = signal_number
                /\ handler[signal_number] = "SIG_DFL"
            BY <3>2, <5>1 DEF LeaveCall, restVars
          <6>2. QED
            BY <6>1 DEF TypeOK, LineTypeOK, MaybeSignal
        <5>2. CASE \E s \in Signals : Deliver(s)
          BY <3>2, <5>2 DEF Deliver
        <5>3. CASE UNCHANGED vars \/ Compare \/ User
          BY <3>2, <5>3 DEF vars, hvars, lineVars, Compare, User
        <5>4. CASE \/ InstallFails \/ ReadSettings \/ HideEcho
                   \/ EchoGuardFails \/ EnterRead \/ ReadReturns
                   \/ ReadFails \/ ReadRestarted \/ CheckSignal
                   \/ RestoreEcho \/ RestoreFails
          BY <3>2, <5>4
             DEF InstallFails, ReadSettings, HideEcho, EchoGuardFails,
                 EnterRead, ReadReturns, ReadFails, ReadRestarted,
                 CheckSignal, RestoreEcho, RestoreFails, Restoring, Hide,
                 SignalCaught, restVars
        <5>5. QED
          BY <1>6, <5>1, <5>2, <5>3, <5>4
             DEF Next, Terminated, InCall, LineNext, LineStep, LineFailure
      <4>2. PICK i \in 1..Len(signals) : killer' = signals[i]
        BY <4>1, SignalPlaces
      <4>3. ~ (i <= installed)
        BY <4>1, <4>2
      <4>4. QED
        BY <4>1, <4>2, <4>3
    <3>3. QED
      BY <3>1, <3>2
  <2>4. QED
    BY <2>1, <2>2, <2>3 DEF IgnoredNeverKills
<1>7. CASE UNCHANGED vars
  BY <1>7 DEF vars, hvars, lineVars, IgnoredNeverKills
<1>8. CASE Compare
  <2>1. ~InstallHandler /\ ~RestoreHandler /\ ~StoreFirst
    BY <1>8 DEF Compare, InstallHandler, RestoreHandler, StoreFirst,
                LastSignal, Decrement, Original, restVars
  <2>2. QED
    BY <1>6, <2>1
<1>9. QED
  BY <1>3, <1>4, <1>5, <1>6, <1>7, <1>8 DEF Next, Terminated

\* Hence the guard's bookkeeping is always right.
LEMMA GuardInvariant == Spec => [](TypeOK /\ GuardInv)
<1>1. Init => GuardInv
  BY SignalPlaces DEF Init, LineInit, GuardInv, IgnoredNeverKills
<1>2. TypeOK /\ GuardInv /\ [Next]_vars => GuardInv'
  BY GuardStep
<1>3. QED
  BY <1>1, <1>2, TypeCorrect, PTL DEF Spec

\* With nothing installed every disposition is the inherited one.
LEMMA GuardRestores ==
  ASSUME TypeOK, GuardInv
  PROVE  DispositionsRestored
<1> SUFFICES ASSUME pc \in {"returned", "threw", "accepted"}
             PROVE  handler = handler0
  BY DEF DispositionsRestored
<1>1. installed = 0
  BY DEF GuardInv
<1>2. \A i \in 1..Len(signals) : handler[signals[i]] = handler0[signals[i]]
  BY <1>1 DEF GuardInv
<1>3. \A s \in Signals : handler[s] = handler0[s]
  BY <1>2, SignalPlaces
<1>4. QED
  BY <1>3 DEF TypeOK, LineTypeOK

\* Outside the guarded block every signal has its inherited disposition again,
\* for any list of guarded signals and also after a failed constructor.
THEOREM HandlersRestored == Spec => []DispositionsRestored
<1>1. TypeOK /\ GuardInv => DispositionsRestored
  BY GuardRestores
<1>2. QED
  BY <1>1, GuardInvariant, PTL

\* A signal the process was started to ignore never kills it.
THEOREM IgnoredSurvives == Spec => []IgnoredNeverKills
<1>1. GuardInv => IgnoredNeverKills
  BY DEF GuardInv
<1>2. QED
  BY <1>1, GuardInvariant, PTL

\* A remembered signal ends the entry: no step of the program, of the user or
\* of another signal goes back to asking or on to an answer.
LEMMA InterruptStep ==
  ASSUME InterruptSeen, [Next]_vars
  PROVE  InterruptSeen'
<1> USE DEF InterruptSeen
<1>0. CASE UNCHANGED vars
  BY <1>0 DEF vars, hvars, lineVars
<1>1. CASE StoreFirst \/ Compare
  BY <1>1 DEF StoreFirst, Compare
<1>2. CASE InCall
  <2>1. CASE InstallHandler \/ ReadSettings \/ HideEcho \/ EnterRead
    BY <2>1 DEF InstallHandler, ReadSettings, HideEcho, EnterRead
  <2>2. CASE ReadReturns \/ ReadFails \/ ReadRestarted
    BY <2>2 DEF ReadReturns, ReadFails, ReadRestarted
  <2>3. CASE InstallFails \/ EchoGuardFails
    BY <2>3 DEF InstallFails, EchoGuardFails
  <2>4. CASE CheckSignal
    BY <2>4 DEF CheckSignal, SignalCaught
  <2>5. CASE RestoreEcho \/ RestoreFails \/ RestoreHandler
    BY <2>5 DEF RestoreEcho, RestoreFails, RestoreHandler
  <2>6. CASE LeaveCall
    BY <2>6 DEF LeaveCall, Throw
  <2>7. CASE User
    BY <2>7 DEF User, lineVars
  <2>8. ASSUME NEW s \in Signals, Deliver(s)
        PROVE  InterruptSeen'
    <3>1. s # NoSignal
      BY SignalAssumption
    <3>2. /\ pc \notin {"killed", "threw"}
          /\ signal_number' = signal_number
      BY <2>8 DEF Deliver, Running
    <3>3. CASE pc = "eintr" /\ caught_signal # NoSignal
      <4>1. Interrupted = {"eintr"}
        BY <3>3 DEF Interrupted
      <4>2. \/ pc' = "killed"
            \/ pc' = "eintr" /\ caught_signal' \in {caught_signal, s}
        BY <2>8, <3>3, <4>1 DEF Deliver
      <4>3. QED
        BY <3>1, <3>3, <4>2
    <3>4. CASE pc \in {"show", "unwind"} /\ signal_number # NoSignal
      <4>1. Interrupted \subseteq {"show", "unwind"}
        BY <3>4 DEF Interrupted
      <4>2. pc' \in {"killed", "show", "unwind"}
        BY <2>8, <3>4, <4>1 DEF Deliver
      <4>3. QED
        BY <3>2, <3>4, <4>2
    <3>5. QED
      BY <3>2, <3>3, <3>4
  <2>9. QED
    BY <1>2, <2>1, <2>2, <2>3, <2>4, <2>5, <2>6, <2>7, <2>8
       DEF InCall, LineNext, LineStep, LineFailure
<1>3. CASE Terminated
  BY <1>3 DEF Terminated, vars, hvars, lineVars
<1>4. QED
  BY <1>0, <1>1, <1>2, <1>3 DEF Next

\* An interrupt is never lost, for any guarded signals and any number of them:
\* the safety part of InterruptEnds.
THEOREM InterruptNeverLost == Spec => InterruptKept
<1>1. [Next]_vars => [InterruptSeen => InterruptSeen']_vars
  BY InterruptStep
<1>2. QED
  BY <1>1, PTL DEF Spec, InterruptKept

\* What the guard has caught, and what the entry has learned of it, came during
\* the current call.
NewInv ==
  /\ sent0 <= sent
  /\ (caught_signal # NoSignal \/ signal_number # NoSignal) => sent > sent0

\* A new call starts with nothing caught, so no step carries a signal over.
LEMMA NewStep ==
  ASSUME TypeOK, NewInv, [Next]_vars
  PROVE  NewInv'
<1> USE DEF NewInv
<1>0. sent \in Nat /\ sent0 \in Nat
  BY SignalAssumption DEF TypeOK, LineTypeOK
<1>1. CASE UNCHANGED vars
  BY <1>1 DEF vars, hvars, lineVars
<1>2. CASE StoreFirst
  <2>1. CASE input = <<>>
    BY <1>2, <2>1 DEF StoreFirst
  <2>2. CASE input # <<>>
    BY <1>0, <1>2, <2>2 DEF StoreFirst, EnterCall, NothingCaught
  <2>3. QED
    BY <2>1, <2>2
<1>3. CASE Compare
  BY <1>3 DEF Compare
<1>4. CASE InCall
  <2>0. sent0' = sent0
    BY <1>4 DEF InCall
  <2>1. CASE \E s \in Signals : Deliver(s)
    <3>1. sent' = sent + 1
      BY <2>1 DEF Deliver
    <3>2. QED
      BY <1>0, <2>0, <3>1
  <2>2. CASE CheckSignal
    BY <2>0, <2>2 DEF CheckSignal, SignalCaught, restVars
  <2>3. CASE User
    BY <2>0, <2>3 DEF User, lineVars
  <2>4. CASE \/ InstallHandler \/ InstallFails \/ ReadSettings \/ HideEcho
             \/ EchoGuardFails \/ EnterRead \/ ReadReturns \/ ReadFails
             \/ ReadRestarted \/ RestoreEcho \/ RestoreFails
             \/ RestoreHandler \/ LeaveCall
    <3>1. UNCHANGED <<caught_signal, signal_number, sent>>
      BY <2>4 DEF InstallHandler, InstallFails, ReadSettings, HideEcho,
                  EchoGuardFails, EnterRead, ReadReturns, ReadFails,
                  ReadRestarted, RestoreEcho, RestoreFails, RestoreHandler,
                  LeaveCall, restVars
    <3>2. QED
      BY <2>0, <3>1
  <2>5. QED
    BY <1>4, <2>1, <2>2, <2>3, <2>4
       DEF InCall, LineNext, LineStep, LineFailure
<1>5. QED
  BY <1>1, <1>2, <1>3, <1>4 DEF Next, Terminated

\* No call of read_hidden_line is ended by a signal of an earlier one, for any
\* guarded signals and any number of them.
THEOREM InterruptsAreNew == Spec => []InterruptIsNew
<1>1. Init => NewInv
  BY SignalAssumption DEF Init, LineInit, NewInv
<1>2. TypeOK /\ NewInv /\ [Next]_vars => NewInv'
  BY NewStep
<1>3. NewInv => InterruptIsNew
  BY DEF NewInv, InterruptIsNew
<1>4. QED
  BY <1>1, <1>2, <1>3, TypeCorrect, PTL DEF Spec

-------------------------------------------------------------------------------
(* The terminal's echo.                                                    *)

\* Echo is changed only where every signal is caught and the settings to put
\* back are the shell's.
EchoInv ==
  /\ pc \in {"hide", "read", "blocked", "eintr", "show"} => saved = tty0
  /\ pc \notin {"read", "blocked", "eintr", "show"} => lflag = tty0

\* The saved settings are the shell's, and echo is off only between hiding and
\* restoring it, when every guarded signal is handled.
LEMMA EchoStep ==
  ASSUME ~DrainInterruptible, ~RestoreCanFail, TypeOK, GuardInv, EchoInv,
         [Next]_vars
  PROVE  EchoInv'
<1> USE DEF EchoInv
<1>0. CASE UNCHANGED vars
  BY <1>0 DEF vars, hvars, lineVars, ttyVars
<1>1. CASE StoreFirst
  BY <1>1 DEF StoreFirst, EnterCall, ttyVars
<1>2. CASE Compare
  BY <1>2 DEF Compare, ttyVars
<1>3. CASE InCall
  <2>0. UNCHANGED tty0
    BY <1>3 DEF InCall
  <2>1. CASE InstallHandler \/ InstallFails \/ RestoreHandler \/ LeaveCall
    BY <2>0, <2>1 DEF InstallHandler, InstallFails, RestoreHandler, LeaveCall,
                      Throw, ttyVars, LastSignal, Restoring, Decrement,
                      Original, restVars
  <2>2. CASE ReadSettings \/ EchoGuardFails
    BY <2>0, <2>2 DEF ReadSettings, EchoGuardFails, Throw, ttyVars, restVars
  <2>3. CASE HideEcho
    BY <2>0, <2>3 DEF HideEcho, Hide, restVars
  <2>4. CASE EnterRead \/ ReadFails \/ ReadRestarted \/ CheckSignal
    BY <2>0, <2>4 DEF EnterRead, ReadFails, ReadRestarted, CheckSignal, Throw,
                      ttyVars, SignalCaught, restVars
  <2>5. CASE ReadReturns
    <3>1. pc' \in {"read", "show"} /\ saved' = saved /\ pc = "blocked"
      BY <2>5 DEF ReadReturns, Throw, restVars
    <3>2. QED
      BY <2>0, <3>1
  <2>6. CASE RestoreEcho \/ RestoreFails
    BY <2>0, <2>6 DEF RestoreEcho, RestoreFails, SetAttr, restVars
  <2>7. CASE User
    <3>1. UNCHANGED <<pc, saved, lflag>>
      BY <2>7 DEF User, Type, PressEnter, Press, lineVars
    <3>2. QED
      BY <2>0, <3>1
  <2>8. CASE \E s \in Signals : Deliver(s)
    <3>1. PICK s \in Signals : Deliver(s)
      BY <2>8
    <3>2. UNCHANGED <<saved, lflag>>
      BY <3>1 DEF Deliver
    <3>3. CASE pc \in {"read", "blocked", "eintr", "show"}
      <4>1. handler[s] = "remember_signal"
        BY <3>3, SignalPlaces DEF GuardInv
      <4>2. pc' \in Interrupted
        BY <3>1, <4>1 DEF Deliver
      <4>3. pc' \in {"read", "blocked", "eintr", "show"}
        BY <3>3, <4>2 DEF Interrupted
      <4>4. QED
        BY <2>0, <3>2, <3>3, <4>3
    <3>4. CASE pc \notin {"read", "blocked", "eintr", "show"}
      <4>1. pc' \in {pc, "killed"}
        BY <3>1, <3>4 DEF Deliver, Interrupted
      <4>2. QED
        BY <2>0, <3>2, <3>4, <4>1
    <3>5. QED
      BY <3>3, <3>4
  <2>9. QED
    BY <1>3, <2>1, <2>2, <2>3, <2>4, <2>5, <2>6, <2>7, <2>8
       DEF InCall, LineNext, LineStep, LineFailure
<1>4. QED
  BY <1>0, <1>1, <1>2, <1>3 DEF Next, Terminated

\* Unless the restoring tcsetattr can fail, by a caught signal or otherwise, the
\* terminal has the shell's echo settings whenever the process is past the
\* entry, also when a signal has killed it.
THEOREM EchoAlwaysRestored ==
  ASSUME ~DrainInterruptible, ~RestoreCanFail
  PROVE  Spec => []EchoRestored
<1>1. Init => EchoInv
  BY DEF Init, LineInit, EchoInv
<1>2. TypeOK /\ GuardInv /\ EchoInv /\ [Next]_vars => EchoInv'
  BY EchoStep
<1>3. EchoInv => EchoRestored
  BY DEF EchoInv, EchoRestored, Running
<1>4. QED
  BY <1>1, <1>2, <1>3, GuardInvariant, PTL DEF Spec

-------------------------------------------------------------------------------
(* Lemmas about sequences of keystrokes.                                   *)

\* The first keystrokes of a sequence.
LEMMA FirstKeys ==
  ASSUME NEW S, NEW s \in Seq(S), NEW n \in 0..Len(s)
  PROVE  /\ SubSeq(s, 1, n) \in Seq(S) /\ Len(SubSeq(s, 1, n)) = n
         /\ \A i \in 1..n : SubSeq(s, 1, n)[i] = s[i]
<1>1. Len(s) \in Nat /\ \A i \in 1..n : s[i] \in S
  BY LenProperties, ElementOfSeq
<1>2. QED
  BY <1>1, SubSeqProperties

\* One keystroke more.
LEMMA OneKeyMore ==
  ASSUME NEW S, NEW s \in Seq(S), NEW n \in 1..Len(s)
  PROVE  Append(SubSeq(s, 1, n - 1), s[n]) = SubSeq(s, 1, n)
<1>1. Len(s) \in Nat /\ n \in Nat /\ n - 1 \in 0..Len(s) /\ n \in 0..Len(s)
      /\ s[n] \in S /\ (n - 1) + 1 = n
  BY LenProperties, ElementOfSeq
<1> DEFINE a == SubSeq(s, 1, n - 1)
           b == SubSeq(s, 1, n)
           c == Append(a, s[n])
<1>2. /\ a \in Seq(S) /\ Len(a) = n - 1 /\ \A i \in 1..n - 1 : a[i] = s[i]
      /\ b \in Seq(S) /\ Len(b) = n /\ \A i \in 1..n : b[i] = s[i]
  BY <1>1, FirstKeys
<1> HIDE DEF a, b
<1>3. /\ c \in Seq(S) /\ Len(c) = Len(a) + 1 /\ c[Len(a) + 1] = s[n]
      /\ \A i \in 1..Len(a) : c[i] = a[i]
  BY <1>1, <1>2, AppendProperties
<1> HIDE DEF c
<1>4. \A i \in 1..n : i = n \/ i \in 1..n - 1
  BY <1>1
<1>5. \A i \in 1..n : c[i] = b[i]
  BY <1>1, <1>2, <1>3, <1>4
<1>6. Len(c) = n /\ Len(b) = n
  BY <1>1, <1>2, <1>3
<1>7. c = b
  BY <1>2, <1>3, <1>5, <1>6, SeqEqual
<1>8. QED
  BY <1>7 DEF a, b, c

\* An element appended to a concatenation is appended to its second part.
LEMMA AppendBehind ==
  ASSUME NEW S, NEW s \in Seq(S), NEW t \in Seq(S), NEW e \in S
  PROVE  s \o Append(t, e) = Append(s \o t, e)
<1>1. /\ <<e>> \in Seq(S)
      /\ \A u \in Seq(S) : Append(u, e) = u \o <<e>>
  <2>1. <<e>> \in Seq(S) /\ Len(<<e>>) = 1 /\ <<e>>[1] = e
    OBVIOUS
  <2>2. ASSUME NEW u \in Seq(S)
        PROVE  Append(u, e) = u \o <<e>>
    <3>1. Len(u) \in Nat
      BY LenProperties
    <3>2. /\ Append(u, e) \in Seq(S) /\ Len(Append(u, e)) = Len(u) + 1
          /\ \A i \in 1..Len(u) : Append(u, e)[i] = u[i]
          /\ Append(u, e)[Len(u) + 1] = e
      BY AppendProperties
    <3>3. /\ u \o <<e>> \in Seq(S) /\ Len(u \o <<e>>) = Len(u) + 1
          /\ \A i \in 1..Len(u) + 1 :
               (u \o <<e>>)[i] = IF i <= Len(u) THEN u[i] ELSE <<e>>[i - Len(u)]
      BY <2>1, ConcatProperties
    <3>4. \A i \in 1..Len(u) + 1 : Append(u, e)[i] = (u \o <<e>>)[i]
      BY <2>1, <3>1, <3>2, <3>3
    <3>5. QED
      BY <3>2, <3>3, <3>4, SeqEqual
  <2>3. QED
    BY <2>1, <2>2
<1>2. s \o t \in Seq(S)
  BY ConcatProperties
<1>3. (s \o t) \o <<e>> = s \o (t \o <<e>>)
  BY <1>1, ConcatAssociative
<1>4. QED
  BY <1>1, <1>2, <1>3

-------------------------------------------------------------------------------
(* What is typed of a line: keystrokes without end-of-file marks.          *)

\* The recursion that Kept solves, up to the m-th keystroke.
KeepsTo(q, m, f) ==
  f = [n \in 0..m |->
         IF n = 0 THEN <<>>
         ELSE IF q[n].key = EOF THEN f[n - 1] ELSE Append(f[n - 1], q[n])]

\* A solution up to one keystroke is a solution up to the next.
LEMMA KeepsNext ==
  ASSUME NEW q, NEW m \in Nat, m # 0, NEW g, KeepsTo(q, m - 1, g)
  PROVE  \E f : KeepsTo(q, m, f)
<1> DEFINE next == IF q[m].key = EOF THEN g[m - 1] ELSE Append(g[m - 1], q[m])
           f == [n \in 0..m |-> IF n = m THEN next ELSE g[n]]
<1>1. \A n \in 0..m : n = m \/ (n \in 0..m - 1 /\ n # m)
  OBVIOUS
<1>2. \A n \in 0..m : n # 0 => n - 1 \in 0..m - 1 /\ n - 1 \in 0..m
                               /\ n - 1 # m
  OBVIOUS
<1>3. \A n \in 0..m - 1 :
        g[n] = IF n = 0 THEN <<>>
               ELSE IF q[n].key = EOF THEN g[n - 1] ELSE Append(g[n - 1], q[n])
  BY DEF KeepsTo
<1>4. \A n \in 0..m - 1 : f[n] = g[n]
  OBVIOUS
<1>5. m \in 0..m /\ f[m] = next
  OBVIOUS
<1>6. ASSUME NEW n \in 0..m
      PROVE  f[n] = IF n = 0 THEN <<>>
                    ELSE IF q[n].key = EOF THEN f[n - 1]
                    ELSE Append(f[n - 1], q[n])
  <2> HIDE DEF f
  <2>1. CASE n = m
    BY <1>2, <1>4, <1>5, <2>1
  <2>2. CASE n \in 0..m - 1
    <3>1. n # 0 => f[n - 1] = g[n - 1]
      BY <1>2, <1>4
    <3>2. QED
      BY <1>3, <1>4, <2>2, <3>1
  <2>3. QED
    BY <1>1, <2>1, <2>2
<1>7. f = [n \in 0..m |-> f[n]]
  OBVIOUS
<1>8. KeepsTo(q, m, f)
  <2> HIDE DEF f
  <2>1. QED
    BY <1>6, <1>7 DEF KeepsTo
<1>9. QED
  BY <1>8

\* There is a solution for every queue: a least length without one would have
\* one for the length before it.
LEMMA KeepsExists ==
  ASSUME NEW q
  PROVE  \A m \in Nat : \E f : KeepsTo(q, m, f)
<1> DEFINE Wrong == {m \in Nat : ~ \E f : KeepsTo(q, m, f)}
<1>1. Wrong = {}
  <2> SUFFICES ASSUME Wrong # {} PROVE FALSE
    OBVIOUS
  <2>1. PICK m \in Wrong : \A j \in Wrong : m <= j
    <3>1. Wrong \in SUBSET Nat
      OBVIOUS
    <3> HIDE DEF Wrong
    <3>2. QED
      BY <3>1, MinExists
  <2>2. m \in Nat /\ ~ \E f : KeepsTo(q, m, f)
    BY <2>1
  <2>3. m # 0
    <3>1. KeepsTo(q, 0, [n \in 0..0 |-> <<>>])
      <4>1. \A n \in 0..0 : n = 0
        OBVIOUS
      <4>2. QED
        BY <4>1 DEF KeepsTo
    <3>2. QED
      BY <2>2, <3>1
  <2>4. m - 1 \in Nat /\ ~ (m <= m - 1)
    BY <2>2, <2>3
  <2>5. m - 1 \notin Wrong
    BY <2>1, <2>4
  <2>6. \E g : KeepsTo(q, m - 1, g)
    BY <2>4, <2>5
  <2>7. QED
    BY <2>2, <2>3, <2>6, KeepsNext
<1>2. QED
  BY <1>1

\* Kept satisfies its recursion.
LEMMA KeptSteps ==
  ASSUME NEW q \in Seq(Keystroke)
  PROVE  /\ Kept(q)[0] = <<>>
         /\ \A n \in 1..Len(q) :
              Kept(q)[n] = IF q[n].key = EOF THEN Kept(q)[n - 1]
                           ELSE Append(Kept(q)[n - 1], q[n])
<1>1. Len(q) \in Nat
  BY LenProperties
<1>2. \E f : KeepsTo(q, Len(q), f)
  BY <1>1, KeepsExists
<1>3. Kept(q) = CHOOSE f : KeepsTo(q, Len(q), f)
  BY DEF Kept, KeepsTo
<1>4. KeepsTo(q, Len(q), Kept(q))
  BY <1>2, <1>3
<1> DEFINE f == Kept(q)
<1>5. f = [n \in 0..Len(q) |->
             IF n = 0 THEN <<>>
             ELSE IF q[n].key = EOF THEN f[n - 1] ELSE Append(f[n - 1], q[n])]
  BY <1>4 DEF KeepsTo
<1> HIDE DEF f
<1>6. \A n \in 0..Len(q) :
        f[n] = IF n = 0 THEN <<>>
               ELSE IF q[n].key = EOF THEN f[n - 1] ELSE Append(f[n - 1], q[n])
  BY <1>5
<1>7. 0 \in 0..Len(q) /\ \A n \in 1..Len(q) : n \in 0..Len(q) /\ n # 0
  BY <1>1
<1>8. QED
  BY <1>6, <1>7 DEF f

\* What is kept are keystrokes.
LEMMA KeptType ==
  ASSUME NEW q \in Seq(Keystroke)
  PROVE  \A n \in 0..Len(q) : Kept(q)[n] \in Seq(Keystroke)
<1>1. Len(q) \in Nat /\ \A n \in 1..Len(q) : q[n] \in Keystroke
  BY LenProperties, ElementOfSeq
<1> DEFINE Wrong == {n \in 0..Len(q) : Kept(q)[n] \notin Seq(Keystroke)}
<1>2. Wrong = {}
  <2> SUFFICES ASSUME Wrong # {} PROVE FALSE
    OBVIOUS
  <2>1. PICK n \in Wrong : \A j \in Wrong : n <= j
    <3>1. Wrong \in SUBSET Nat
      BY <1>1
    <3> HIDE DEF Wrong
    <3>2. QED
      BY <3>1, MinExists
  <2>2. n \in 0..Len(q) /\ Kept(q)[n] \notin Seq(Keystroke)
    BY <2>1
  <2>3. n # 0
    BY <2>2, KeptSteps, EmptySeq
  <2>4. n - 1 \in 0..Len(q) /\ ~ (n <= n - 1) /\ n \in 1..Len(q)
    BY <1>1, <2>2, <2>3
  <2>5. Kept(q)[n - 1] \in Seq(Keystroke)
    BY <2>1, <2>4
  <2>6. Append(Kept(q)[n - 1], q[n]) \in Seq(Keystroke)
    BY <1>1, <2>4, <2>5, AppendProperties
  <2>7. QED
    BY <2>2, <2>4, <2>5, <2>6, KeptSteps
<1>3. QED
  BY <1>2

\* What is kept of a queue is what is kept of its beginning followed by what is
\* kept of the rest.
LEMMA KeptJoins ==
  ASSUME NEW q \in Seq(Keystroke), NEW r \in Seq(Keystroke),
         NEW m \in 0..Len(q), NEW l \in 0..Len(r), m + l <= Len(q),
         \A j \in 1..l : r[j] = q[m + j]
  PROVE  \A j \in 0..l : Kept(q)[m + j] = Kept(q)[m] \o Kept(r)[j]
<1>1. Len(q) \in Nat /\ Len(r) \in Nat /\ l \in Nat /\ m \in Nat
  BY LenProperties
<1>2. Kept(q)[m] \in Seq(Keystroke)
      /\ \A j \in 0..l : Kept(r)[j] \in Seq(Keystroke)
  BY <1>1, KeptType
<1> DEFINE Wrong == {j \in 0..l : Kept(q)[m + j] # Kept(q)[m] \o Kept(r)[j]}
<1>3. Wrong = {}
  <2> SUFFICES ASSUME Wrong # {} PROVE FALSE
    OBVIOUS
  <2>1. PICK j \in Wrong : \A k \in Wrong : j <= k
    <3>1. \A j \in 0..l : j \in Nat
      BY <1>1
    <3>2. Wrong \in SUBSET Nat
      BY <3>1, Zenon
    <3> HIDE DEF Wrong
    <3>3. QED
      BY <3>2, MinExists
  <2>2. j \in 0..l /\ Kept(q)[m + j] # Kept(q)[m] \o Kept(r)[j]
    BY <2>1
  <2>3. j # 0
    <3>1. Kept(q)[m] \o <<>> = Kept(q)[m] /\ m + 0 = m
      BY <1>1, <1>2, ConcatEmptySeq
    <3>2. Kept(r)[0] = <<>>
      BY KeptSteps
    <3>3. QED
      BY <2>2, <3>1, <3>2
  <2>4. /\ j - 1 \in 0..l /\ ~ (j <= j - 1) /\ j \in 1..l /\ j \in 1..Len(r)
        /\ m + j \in 1..Len(q) /\ (m + j) - 1 = m + (j - 1)
    BY <1>1, <2>2, <2>3
  <2>5. Kept(q)[m + (j - 1)] = Kept(q)[m] \o Kept(r)[j - 1]
    BY <2>1, <2>4
  <2>6. r[j] = q[m + j] /\ r[j] \in Keystroke
    BY <2>4, ElementOfSeq
  <2>7. Kept(q)[m + j] = IF r[j].key = EOF THEN Kept(q)[m + (j - 1)]
                         ELSE Append(Kept(q)[m + (j - 1)], r[j])
    BY <2>4, <2>6, KeptSteps
  <2>8. Kept(r)[j] = IF r[j].key = EOF THEN Kept(r)[j - 1]
                     ELSE Append(Kept(r)[j - 1], r[j])
    BY <2>4, KeptSteps
  <2>9. Kept(q)[m] \o Append(Kept(r)[j - 1], r[j])
          = Append(Kept(q)[m] \o Kept(r)[j - 1], r[j])
    <3>1. /\ Kept(q)[m] \in Seq(Keystroke)
          /\ Kept(r)[j - 1] \in Seq(Keystroke)
          /\ r[j] \in Keystroke
      BY <1>2, <2>4, <2>6
    <3>2. \A a, b \in Seq(Keystroke) : \A e \in Keystroke :
            a \o Append(b, e) = Append(a \o b, e)
      BY AppendBehind
    <3>3. QED
      BY <3>1, <3>2
  <2>10. QED
    BY <2>2, <2>5, <2>7, <2>8, <2>9
<1>4. QED
  BY <1>3

\* Without end-of-file marks everything is kept.
LEMMA KeptPlain ==
  ASSUME NEW q \in Seq(Keystroke), NEW m \in 0..Len(q),
         \A j \in 1..m : q[j].key # EOF
  PROVE  Kept(q)[m] = SubSeq(q, 1, m)
<1>1. Len(q) \in Nat /\ m \in Nat /\ \A n \in 1..Len(q) : q[n] \in Keystroke
  BY LenProperties, ElementOfSeq
<1>2. \A n \in 0..m : /\ SubSeq(q, 1, n) \in Seq(Keystroke)
                      /\ Len(SubSeq(q, 1, n)) = n
                      /\ \A i \in 1..n : SubSeq(q, 1, n)[i] = q[i]
  BY <1>1, FirstKeys
<1> DEFINE Wrong == {n \in 0..m : Kept(q)[n] # SubSeq(q, 1, n)}
<1>3. Wrong = {}
  <2> SUFFICES ASSUME Wrong # {} PROVE FALSE
    OBVIOUS
  <2>1. PICK n \in Wrong : \A j \in Wrong : n <= j
    <3>1. Wrong \in SUBSET Nat
      BY <1>1
    <3> HIDE DEF Wrong
    <3>2. QED
      BY <3>1, MinExists
  <2>2. n \in 0..m /\ Kept(q)[n] # SubSeq(q, 1, n)
    BY <2>1
  <2>3. n # 0
    <3>1. SubSeq(q, 1, 0) = <<>>
      BY <1>1, <1>2, EmptySeq
    <3>2. QED
      BY <2>2, <3>1, KeptSteps
  <2>4. /\ n - 1 \in 0..m /\ ~ (n <= n - 1) /\ n \in 1..m /\ n \in 1..Len(q)
        /\ (n - 1) + 1 = n
    BY <1>1, <2>2, <2>3
  <2>5. Kept(q)[n - 1] = SubSeq(q, 1, n - 1)
    BY <2>1, <2>4
  <2>6. Kept(q)[n] = Append(SubSeq(q, 1, n - 1), q[n])
    BY <2>4, <2>5, KeptSteps
  <2>7. Append(SubSeq(q, 1, n - 1), q[n]) = SubSeq(q, 1, n)
    BY <1>1, <2>4, OneKeyMore
  <2>8. QED
    BY <2>2, <2>6, <2>7
<1>4. QED
  BY <1>3

-------------------------------------------------------------------------------
(* The end of the current line, and what is typed of it.                   *)

\* LineEnd counts the keystrokes before the first newline.
LEMMA LineEndIs ==
  ASSUME NEW q \in Seq(Keystroke)
  PROVE  /\ LineEnd(q) \in 0..Len(q)
         /\ \A i \in 1..LineEnd(q) : q[i].key # NL
         /\ LineEnd(q) # Len(q) => q[LineEnd(q) + 1].key = NL
<1> DEFINE NewLines == {i \in DOMAIN q : q[i].key = NL}
           least    == CHOOSE i \in NewLines : \A j \in NewLines : i <= j
<1>1. Len(q) \in Nat /\ DOMAIN q = 1..Len(q)
  BY LenProperties
<1>2. CASE NewLines = {}
  <2>1. LineEnd(q) = Len(q)
    BY <1>2 DEF LineEnd
  <2>2. QED
    BY <1>1, <1>2, <2>1
<1>3. CASE NewLines # {}
  <2>1. LineEnd(q) = least - 1
    BY <1>3 DEF LineEnd
  <2>2. NewLines \in SUBSET Nat
    BY <1>1
  <2>3. \E i \in NewLines : \A j \in NewLines : i <= j
    <3> HIDE DEF NewLines
    <3>1. QED
      BY <1>3, <2>2, MinExists
  <2>4. least \in NewLines /\ \A j \in NewLines : least <= j
    BY <2>3
  <2>5. least \in 1..Len(q) /\ q[least].key = NL
    BY <1>1, <2>4
  <2>6. \A i \in 1..Len(q) : q[i].key = NL => least <= i
    BY <1>1, <2>4
  <2> HIDE DEF least
  <2>7. QED
    BY <1>1, <2>1, <2>5, <2>6
<1>4. QED
  BY <1>2, <1>3

\* There is only one such number.
LEMMA LineEndOf ==
  ASSUME NEW q \in Seq(Keystroke), NEW n \in 0..Len(q),
         \A i \in 1..n : q[i].key # NL,
         n # Len(q) => q[n + 1].key = NL
  PROVE  LineEnd(q) = n
<1>1. Len(q) \in Nat
  BY LenProperties
<1>2. /\ LineEnd(q) \in 0..Len(q)
      /\ \A i \in 1..LineEnd(q) : q[i].key # NL
      /\ LineEnd(q) # Len(q) => q[LineEnd(q) + 1].key = NL
  BY LineEndIs
<1>3. ~ (n < LineEnd(q))
  <2> SUFFICES ASSUME n < LineEnd(q) PROVE FALSE
    OBVIOUS
  <2>1. n + 1 \in 1..LineEnd(q) /\ n # Len(q)
    BY <1>1, <1>2
  <2>2. QED
    BY <1>2, <2>1
<1>4. ~ (LineEnd(q) < n)
  <2> SUFFICES ASSUME LineEnd(q) < n PROVE FALSE
    OBVIOUS
  <2>1. LineEnd(q) + 1 \in 1..n /\ LineEnd(q) # Len(q)
    BY <1>1, <1>2
  <2>2. QED
    BY <1>2, <2>1
<1>5. QED
  BY <1>1, <1>2, <1>3, <1>4

\* What is typed of the current line.
TypedOf(q) == Kept(q)[LineEnd(q)]

\* It is a sequence of keystrokes, empty when nothing is queued.
LEMMA TypedOfType ==
  ASSUME NEW q \in Seq(Keystroke)
  PROVE  TypedOf(q) \in Seq(Keystroke) /\ (q = <<>> => TypedOf(q) = <<>>)
<1>1. LineEnd(q) \in 0..Len(q)
  BY LineEndIs
<1>2. TypedOf(q) \in Seq(Keystroke)
  BY <1>1, KeptType DEF TypedOf
<1>3. ASSUME q = <<>> PROVE TypedOf(q) = <<>>
  <2>1. Len(q) = 0
    BY <1>3, EmptySeq
  <2>2. LineEnd(q) = 0
    BY <1>1, <2>1
  <2>3. QED
    BY <2>2, KeptSteps DEF TypedOf
<1>4. QED
  BY <1>2, <1>3

\* A key typed behind the queue either adds its character to the line or, when
\* it marks an end of file, ends the line or comes after its end, nothing.
LEMMA TypedMore ==
  ASSUME NEW q \in Seq(Keystroke), NEW k \in Keystroke
  PROVE  \/ TypedOf(Append(q, k)) = TypedOf(q)
         \/ /\ TypedOf(Append(q, k)) = Append(TypedOf(q), k)
            /\ k.key \notin {NL, EOF}
<1> DEFINE p == Append(q, k)
<1>1. Len(q) \in Nat
  BY LenProperties
<1>2. /\ p \in Seq(Keystroke) /\ Len(p) = Len(q) + 1
      /\ \A i \in 1..Len(q) : p[i] = q[i]
      /\ p[Len(q) + 1] = k
  BY AppendProperties
<1> HIDE DEF p
<1>3. /\ LineEnd(q) \in 0..Len(q)
      /\ \A i \in 1..LineEnd(q) : q[i].key # NL
      /\ LineEnd(q) # Len(q) => q[LineEnd(q) + 1].key = NL
  BY LineEndIs
<1>4. \A j \in 0..Len(q) : Kept(p)[j] = Kept(q)[j]
  <2>1. 0 \in 0..Len(p) /\ Len(q) \in 0..Len(q) /\ 0 + Len(q) <= Len(p)
    BY <1>1, <1>2
  <2>2. \A j \in 1..Len(q) : q[j] = p[0 + j]
    BY <1>1, <1>2
  <2>3. \A j \in 0..Len(q) : Kept(p)[0 + j] = Kept(p)[0] \o Kept(q)[j]
    BY <1>2, <2>1, <2>2, KeptJoins
  <2>4. \A j \in 0..Len(q) : <<>> \o Kept(q)[j] = Kept(q)[j]
    BY KeptType, ConcatEmptySeq
  <2>5. Kept(p)[0] = <<>>
    BY <1>2, KeptSteps
  <2>6. \A j \in 0..Len(q) : 0 + j = j
    BY <1>1
  <2>7. QED
    BY <2>3, <2>4, <2>5, <2>6
<1>5. CASE LineEnd(q) # Len(q) \/ k.key = NL
  <2>1. LineEnd(p) = LineEnd(q)
    <3>1. LineEnd(q) \in 0..Len(p)
      BY <1>1, <1>2, <1>3
    <3>2. \A i \in 1..LineEnd(q) : p[i].key # NL
      BY <1>1, <1>2, <1>3
    <3>3. p[LineEnd(q) + 1].key = NL
      BY <1>1, <1>2, <1>3, <1>5
    <3>4. QED
      BY <1>2, <3>1, <3>2, <3>3, LineEndOf
  <2>2. QED
    BY <1>3, <1>4, <2>1 DEF TypedOf, p
<1>6. CASE LineEnd(q) = Len(q) /\ k.key # NL
  <2>1. LineEnd(p) = Len(p)
    <3>1. Len(p) \in 0..Len(p)
      BY <1>1, <1>2
    <3>2. \A i \in 1..Len(p) : i \in 1..Len(q) \/ i = Len(q) + 1
      BY <1>1, <1>2
    <3>3. \A i \in 1..Len(p) : p[i].key # NL
      BY <1>2, <1>3, <1>6, <3>2
    <3>4. QED
      BY <1>2, <3>1, <3>3, LineEndOf
  <2>2. Kept(p)[Len(p)] = IF k.key = EOF THEN Kept(p)[Len(q)]
                          ELSE Append(Kept(p)[Len(q)], k)
    <3>1. Len(p) \in 1..Len(p) /\ Len(p) - 1 = Len(q)
      BY <1>1, <1>2
    <3>2. QED
      BY <1>2, <3>1, KeptSteps
  <2>3. Kept(p)[Len(q)] = Kept(q)[Len(q)]
    BY <1>1, <1>4
  <2>4. QED
    BY <1>6, <2>1, <2>2, <2>3 DEF TypedOf, p
<1>7. QED
  BY <1>5, <1>6

\* What is typed of a line is what is kept of its beginning, followed by what is
\* typed of the rest.
LEMMA TypedSplit ==
  ASSUME NEW q \in Seq(Keystroke), NEW m \in 0..Len(q),
         \A i \in 1..m : q[i].key # NL
  PROVE  /\ SubSeq(q, m + 1, Len(q)) \in Seq(Keystroke)
         /\ TypedOf(q) = Kept(q)[m] \o TypedOf(SubSeq(q, m + 1, Len(q)))
<1> DEFINE r == SubSeq(q, m + 1, Len(q))
<1>1. Len(q) \in Nat /\ m \in Nat
      /\ \A i \in (m + 1)..Len(q) : q[i] \in Keystroke
  BY LenProperties, ElementOfSeq
<1>2. /\ r \in Seq(Keystroke)
      /\ Len(r) = IF m + 1 <= Len(q) THEN Len(q) - (m + 1) + 1 ELSE 0
      /\ \A i \in 1..Len(q) - (m + 1) + 1 : r[i] = q[(m + 1) + i - 1]
  BY <1>1, SubSeqProperties
<1> HIDE DEF r
<1>3. Len(r) = Len(q) - m
  BY <1>1, <1>2
<1>4. \A i \in 1..Len(r) : r[i] = q[m + i]
  <2>1. \A i \in 1..Len(r) : (m + 1) + i - 1 = m + i
    BY <1>1, <1>3
  <2>2. Len(q) - (m + 1) + 1 = Len(r)
    BY <1>1, <1>3
  <2>3. QED
    BY <1>2, <2>1, <2>2
<1> DEFINE n == LineEnd(r)
<1>5. /\ n \in 0..Len(r)
      /\ \A i \in 1..n : r[i].key # NL
      /\ n # Len(r) => r[n + 1].key = NL
  BY <1>2, LineEndIs
<1> HIDE DEF n
<1>6. LineEnd(q) = m + n
  <2>1. m + n \in 0..Len(q)
    BY <1>1, <1>3, <1>5
  <2>2. \A i \in 1..m + n : q[i].key # NL
    <3> SUFFICES ASSUME NEW i \in 1..m + n PROVE q[i].key # NL
      OBVIOUS
    <3>1. CASE i \in 1..m
      BY <3>1
    <3>2. CASE i - m \in 1..n
      <4>1. i - m \in 1..Len(r) /\ m + (i - m) = i
        BY <1>1, <1>3, <1>5, <3>2
      <4>2. QED
        BY <1>4, <1>5, <3>2, <4>1
    <3>3. QED
      BY <1>1, <1>5, <3>1, <3>2
  <2>3. ASSUME m + n # Len(q) PROVE q[(m + n) + 1].key = NL
    <3>1. n # Len(r) /\ n + 1 \in 1..Len(r) /\ m + (n + 1) = (m + n) + 1
      BY <1>1, <1>3, <1>5, <2>3
    <3>2. QED
      BY <1>4, <1>5, <3>1
  <2>4. QED
    BY <2>1, <2>2, <2>3, LineEndOf
<1>7. \A j \in 0..n : Kept(q)[m + j] = Kept(q)[m] \o Kept(r)[j]
  <2>1. m + n <= Len(q) /\ \A j \in 1..n : r[j] = q[m + j]
    BY <1>1, <1>3, <1>4, <1>5
  <2>2. QED
    BY <1>2, <1>5, <2>1, KeptJoins
<1>8. n \in 0..n
  BY <1>1, <1>3, <1>5
<1>9. Kept(q)[m + n] = Kept(q)[m] \o Kept(r)[n]
  BY <1>7, <1>8
<1>10. TypedOf(q) = Kept(q)[m] \o TypedOf(r)
  BY <1>6, <1>9 DEF TypedOf, n
<1>11. QED
  BY <1>2, <1>10 DEF r

-------------------------------------------------------------------------------
(* The characters of keystrokes.                                           *)

\* Text keeps the length and takes the key of each keystroke.
LEMMA TextIs ==
  ASSUME NEW s \in Seq(Keystroke)
  PROVE  /\ Text(s) \in Seq(Keys) /\ Len(Text(s)) = Len(s)
         /\ \A i \in 1..Len(s) : Text(s)[i] = s[i].key
<1>1. Len(s) \in Nat /\ DOMAIN s = 1..Len(s)
      /\ \A i \in 1..Len(s) : s[i] \in Keystroke
  BY LenProperties, ElementOfSeq
<1>2. \A i \in 1..Len(s) : s[i].key \in Keys
  BY <1>1 DEF Keystroke
<1>3. Text(s) = [i \in 1..Len(s) |-> s[i].key]
  BY <1>1 DEF Text
<1>4. QED
  BY <1>1, <1>2, <1>3, IsASeq, LenProperties

\* A sequence is empty exactly when its text is.
LEMMA TextEmpty ==
  ASSUME NEW s \in Seq(Keystroke)
  PROVE  Text(s) = <<>> <=> s = <<>>
  BY TextIs, EmptySeq

\* The text of one keystroke more.
LEMMA TextAppend ==
  ASSUME NEW s \in Seq(Keystroke), NEW k \in Keystroke
  PROVE  Text(Append(s, k)) = Append(Text(s), k.key)
<1> DEFINE a == Append(s, k)
           b == Text(a)
           c == Append(Text(s), k.key)
<1>1. Len(s) \in Nat /\ k.key \in Keys
  BY LenProperties DEF Keystroke
<1>2. /\ a \in Seq(Keystroke) /\ Len(a) = Len(s) + 1
      /\ \A i \in 1..Len(s) : a[i] = s[i]
      /\ a[Len(s) + 1] = k
  BY AppendProperties
<1>3. /\ Text(s) \in Seq(Keys) /\ Len(Text(s)) = Len(s)
      /\ \A i \in 1..Len(s) : Text(s)[i] = s[i].key
  BY TextIs
<1> HIDE DEF a
<1>4. /\ b \in Seq(Keys) /\ Len(b) = Len(s) + 1
      /\ \A i \in 1..Len(s) + 1 : b[i] = a[i].key
  BY <1>2, TextIs
<1>5. /\ c \in Seq(Keys) /\ Len(c) = Len(s) + 1
      /\ \A i \in 1..Len(s) : c[i] = Text(s)[i]
      /\ c[Len(s) + 1] = k.key
  BY <1>1, <1>3, AppendProperties
<1> HIDE DEF b, c
<1>6. \A i \in 1..Len(s) + 1 : i \in 1..Len(s) \/ i = Len(s) + 1
  BY <1>1
<1>7. \A i \in 1..Len(s) + 1 : b[i] = c[i]
  BY <1>2, <1>3, <1>4, <1>5, <1>6
<1>8. b = c
  BY <1>4, <1>5, <1>7, SeqEqual
<1>9. QED
  BY <1>8 DEF a, b, c

\* The text of the first keystrokes is the beginning of the text.
LEMMA TextFirst ==
  ASSUME NEW s \in Seq(Keystroke), NEW n \in 0..Len(s)
  PROVE  Text(SubSeq(s, 1, n)) = SubSeq(Text(s), 1, n)
<1> DEFINE a == SubSeq(s, 1, n)
           b == Text(a)
           c == SubSeq(Text(s), 1, n)
<1>1. Len(s) \in Nat /\ \A i \in 1..n : i \in 1..Len(s)
  BY LenProperties
<1>2. a \in Seq(Keystroke) /\ Len(a) = n /\ \A i \in 1..n : a[i] = s[i]
  BY FirstKeys
<1>3. /\ Text(s) \in Seq(Keys) /\ Len(Text(s)) = Len(s)
      /\ \A i \in 1..Len(s) : Text(s)[i] = s[i].key
  BY TextIs
<1>4. c \in Seq(Keys) /\ Len(c) = n /\ \A i \in 1..n : c[i] = Text(s)[i]
  BY <1>3, FirstKeys
<1> HIDE DEF a
<1>5. b \in Seq(Keys) /\ Len(b) = n /\ \A i \in 1..n : b[i] = a[i].key
  BY <1>2, TextIs
<1> HIDE DEF b, c
<1>6. \A i \in 1..n : b[i] = c[i]
  BY <1>1, <1>2, <1>3, <1>4, <1>5
<1>7. b = c
  BY <1>4, <1>5, <1>6, SeqEqual
<1>8. QED
  BY <1>7 DEF a, b, c

\* The text of a beginning of a line is one of the beginnings of its text.
LEMMA TextPrefix ==
  ASSUME NEW s \in Seq(Keystroke), NEW t \in Seq(Keystroke)
  PROVE  Text(s) \in P!Prefixes(Text(s \o t))
<1> DEFINE u == s \o t
<1>1. Len(s) \in Nat /\ Len(t) \in Nat
  BY LenProperties
<1>2. /\ u \in Seq(Keystroke) /\ Len(u) = Len(s) + Len(t)
      /\ \A i \in 1..Len(s) + Len(t) :
           u[i] = IF i <= Len(s) THEN s[i] ELSE t[i - Len(s)]
  BY ConcatProperties
<1> HIDE DEF u
<1>3. Len(s) \in 0..Len(u) /\ \A i \in 1..Len(s) : u[i] = s[i]
  BY <1>1, <1>2
<1>4. SubSeq(u, 1, Len(s)) = s
  <2>1. /\ SubSeq(u, 1, Len(s)) \in Seq(Keystroke)
        /\ Len(SubSeq(u, 1, Len(s))) = Len(s)
        /\ \A i \in 1..Len(s) : SubSeq(u, 1, Len(s))[i] = u[i]
    BY <1>2, <1>3, FirstKeys
  <2>2. QED
    BY <1>3, <2>1, SeqEqual
<1>5. Text(s) = SubSeq(Text(u), 1, Len(s))
  BY <1>2, <1>3, <1>4, TextFirst
<1>6. Len(s) \in 0..Len(Text(u))
  BY <1>2, <1>3, TextIs
<1>7. QED
  BY <1>5, <1>6 DEF P!Prefixes, u

\* Stripping the line end of a line takes its newline, and from its text what
\* the promise says.
LEMMA TextStripped ==
  ASSUME NEW s \in Seq(Keystroke), s # <<>>
  PROVE  Text(StripLineEnd(s)) = P!WithoutCR(Text(Front(s)))
<1> DEFINE t == Front(s)
<1>1. Len(s) \in Nat /\ Len(s) # 0
  BY LenProperties, EmptySeq
<1>2. t \in Seq(Keystroke)
  <2>1. Len(s) - 1 \in 0..Len(s)
    BY <1>1
  <2>2. QED
    BY <2>1, FirstKeys DEF Front
<1> HIDE DEF t
<1>3. Len(t) \in Nat /\ (t # <<>> => Len(t) # 0)
  BY <1>2, LenProperties, EmptySeq
<1>4. t = <<>> <=> Text(t) = <<>>
  BY <1>2, TextEmpty
<1>5. /\ Len(Text(t)) = Len(t)
      /\ \A i \in 1..Len(t) : Text(t)[i] = t[i].key
  BY <1>2, TextIs
<1>6. t # <<>> => P!Last(Text(t)) = Last(t).key
  <2>1. t # <<>> => Len(t) \in 1..Len(t)
    BY <1>3
  <2>2. QED
    BY <1>5, <2>1 DEF P!Last, Last
<1>7. t # <<>> => Text(Front(t)) = P!Front(Text(t))
  <2>1. t # <<>> => Len(t) - 1 \in 0..Len(t)
    BY <1>3
  <2>2. QED
    BY <1>2, <1>5, <2>1, TextFirst DEF P!Front, Front
<1>8. StripLineEnd(s) = IF t # <<>> /\ Last(t).key = CR THEN Front(t) ELSE t
  BY DEF StripLineEnd, t
<1>9. QED
  BY <1>4, <1>6, <1>7, <1>8 DEF P!WithoutCR, t

-------------------------------------------------------------------------------
(* read_passphrase keeps the promise.                                      *)

\* The promise needs to know that a call begins with nothing read, and that
\* nothing has gone wrong while it may still read, or when it has returned.
LineInv ==
  /\ pc \in {"install", "settings", "hide"} => input = <<>>
  /\ pc \in {"install", "settings", "hide", "read", "blocked", "eintr",
             "returned"}
       => ~thrown /\ signal_number = NoSignal

\* Every step keeps that.
LEMMA LineInvStep ==
  ASSUME LineInv, [Next]_vars
  PROVE  LineInv'
<1> USE DEF LineInv
<1>1. CASE UNCHANGED vars
  BY <1>1 DEF vars, hvars, lineVars
<1>2. CASE StoreFirst
  BY <1>2 DEF StoreFirst, EnterCall
<1>3. CASE Compare
  BY <1>3 DEF Compare
<1>4. CASE InCall
  <2>1. CASE User
    BY <2>1 DEF User, lineVars
  <2>2. CASE \E s \in Signals : Deliver(s)
    BY <2>2 DEF Deliver, Interrupted
  <2>3. CASE InstallHandler \/ ReadSettings \/ HideEcho \/ EnterRead
    BY <2>3 DEF InstallHandler, ReadSettings, HideEcho, EnterRead, restVars
  <2>4. CASE InstallFails \/ EchoGuardFails \/ ReadFails
    BY <2>4 DEF InstallFails, EchoGuardFails, ReadFails, Throw, Restoring
  <2>5. CASE ReadReturns
    BY <2>5 DEF ReadReturns, Throw
  <2>6. CASE ReadRestarted \/ CheckSignal
    BY <2>6 DEF ReadRestarted, CheckSignal, SignalCaught
  <2>7. CASE RestoreEcho \/ RestoreFails \/ RestoreHandler
    BY <2>7 DEF RestoreEcho, RestoreFails, RestoreHandler
  <2>8. CASE LeaveCall
    BY <2>8 DEF LeaveCall, Throw
  <2>9. QED
    BY <1>4, <2>1, <2>2, <2>3, <2>4, <2>5, <2>6, <2>7, <2>8
       DEF InCall, LineNext, LineStep, LineFailure
<1>5. QED
  BY <1>1, <1>2, <1>3, <1>4 DEF Next, Terminated

\* A read takes from the queue what it adds to the line, and an end-of-file mark
\* behind it: of a whole line the rest is its newline, and of a part the rest
\* is what is still queued.
LEMMA ReadTakes ==
  ASSUME queue \in Seq(Keystroke), LineReady, ReadChunk # <<>>
  PROVE  /\ ReadChunk \in Seq(Keystroke)
         /\ Last(ReadChunk).key = NL => TypedOf(queue) = Front(ReadChunk)
         /\ Last(ReadChunk).key # NL
              => TypedOf(queue) = ReadChunk \o TypedOf(AfterRead)
<1> DEFINE first == CHOOSE i \in Delimiters : \A j \in Delimiters : i <= j
           r     == ReadLength
<1>1. Len(queue) \in Nat /\ DOMAIN queue = 1..Len(queue)
  BY LenProperties
<1>2. /\ first \in Delimiters /\ first \in 1..Len(queue)
      /\ \A j \in Delimiters : first <= j
  <2>1. Delimiters \in SUBSET (1..Len(queue))
    BY <1>1 DEF Delimiters
  <2>2. \E i \in Delimiters : \A j \in Delimiters : i <= j
    BY <2>1, MinExists DEF LineReady
  <2>3. QED
    BY <2>1, <2>2
<1>3. queue[first].key \in {NL, EOF}
  BY <1>2 DEF Delimiters
<1>4. \A i \in 1..Len(queue) : i < first => queue[i].key \notin {NL, EOF}
  <2> SUFFICES ASSUME NEW i \in 1..Len(queue), i < first,
                      queue[i].key \in {NL, EOF}
               PROVE  FALSE
    OBVIOUS
  <2>1. i \in Delimiters
    BY <1>1 DEF Delimiters
  <2>2. first <= i
    BY <1>2, <2>1
  <2>3. QED
    BY <1>1, <1>2, <2>2
<1>5. r = IF (IF queue[first].key = NL THEN first ELSE first - 1) < BufferSize
          THEN IF queue[first].key = NL THEN first ELSE first - 1
          ELSE BufferSize
  BY DEF ReadLength
<1>6. BufferSize \in Nat
  BY TerminalAssumption
<1> HIDE DEF first, r
<1>7. /\ r \in 0..Len(queue) /\ r <= first
      /\ r = first => queue[first].key = NL
  BY <1>1, <1>2, <1>5, <1>6
<1>8. /\ ReadChunk \in Seq(Keystroke) /\ Len(ReadChunk) = r
      /\ \A i \in 1..r : ReadChunk[i] = queue[i]
  BY <1>7, FirstKeys DEF ReadChunk, r
<1>9. r # 0
  BY <1>8, EmptySeq
<1>10. r \in 1..Len(queue) /\ r \in 1..r
  BY <1>1, <1>7, <1>9
<1>11. Last(ReadChunk) = queue[r]
  BY <1>8, <1>10 DEF Last
<1>12. \A i \in 1..r - 1 : queue[i].key \notin {NL, EOF}
  BY <1>1, <1>2, <1>4, <1>7
<1>13. ASSUME queue[r].key = NL
       PROVE  TypedOf(queue) = Front(ReadChunk)
  <2>1. r - 1 \in 0..Len(queue) /\ (r - 1) + 1 = r
    BY <1>1, <1>10
  <2>2. LineEnd(queue) = r - 1
    BY <1>12, <1>13, <2>1, LineEndOf
  <2>3. Kept(queue)[r - 1] = SubSeq(queue, 1, r - 1)
    BY <1>12, <2>1, KeptPlain
  <2>4. Front(ReadChunk) = SubSeq(queue, 1, r - 1)
    <3>1. r - 1 \in 0..r
      BY <1>1, <1>10
    <3>2. /\ Front(ReadChunk) \in Seq(Keystroke)
          /\ Len(Front(ReadChunk)) = r - 1
          /\ \A i \in 1..r - 1 : Front(ReadChunk)[i] = ReadChunk[i]
      BY <1>8, <3>1, FirstKeys DEF Front
    <3>3. /\ SubSeq(queue, 1, r - 1) \in Seq(Keystroke)
          /\ Len(SubSeq(queue, 1, r - 1)) = r - 1
          /\ \A i \in 1..r - 1 : SubSeq(queue, 1, r - 1)[i] = queue[i]
      BY <2>1, FirstKeys
    <3>4. \A i \in 1..r - 1 : i \in 1..r
      BY <1>1, <1>10
    <3>5. \A i \in 1..r - 1 :
            Front(ReadChunk)[i] = SubSeq(queue, 1, r - 1)[i]
      BY <1>8, <3>2, <3>3, <3>4
    <3>6. QED
      BY <3>2, <3>3, <3>5, SeqEqual
  <2>5. QED
    BY <2>2, <2>3, <2>4 DEF TypedOf
<1>14. ASSUME queue[r].key # NL
       PROVE  TypedOf(queue) = ReadChunk \o TypedOf(AfterRead)
  <2>1. \A i \in 1..r : queue[i].key \notin {NL, EOF}
    BY <1>1, <1>2, <1>4, <1>7, <1>14
  <2>2. Kept(queue)[r] = ReadChunk
    BY <1>7, <2>1, KeptPlain DEF ReadChunk, r
  <2>3. CASE r + 1 \in DOMAIN queue /\ queue[r + 1].key = EOF
    <3>1. r + 1 \in 0..Len(queue) /\ r + 1 \in 1..Len(queue)
          /\ (r + 1) - 1 = r
          /\ \A i \in 1..r + 1 : i \in 1..r \/ i = r + 1
      BY <1>1, <1>7, <2>3
    <3>2. \A i \in 1..r + 1 : queue[i].key # NL
      BY <2>1, <2>3, <3>1, TerminalAssumption
    <3>3. Kept(queue)[r + 1] = ReadChunk
      BY <2>2, <2>3, <3>1, KeptSteps
    <3>4. AfterRead = SubSeq(queue, (r + 1) + 1, Len(queue))
      BY <2>1, <2>3 DEF AfterRead, r
    <3>5. QED
      BY <3>1, <3>2, <3>3, <3>4, TypedSplit
  <2>4. CASE ~ (r + 1 \in DOMAIN queue /\ queue[r + 1].key = EOF)
    <3>1. AfterRead = SubSeq(queue, r + 1, Len(queue))
      BY <2>4 DEF AfterRead, r
    <3>2. QED
      BY <1>7, <2>1, <2>2, <3>1, TypedSplit
  <2>5. QED
    BY <2>3, <2>4
<1>15. QED
  BY <1>8, <1>11, <1>13, <1>14

\* What the promise sees is the same after a step that reads nothing, and stays
\* before, in or behind the reading.
LEMMA SameStory ==
  ASSUME UNCHANGED <<confirming, passphrase, thrown, signal_number>>,
         \/ /\ pc \in {"install", "settings", "hide"}
            /\ pc' \in {"install", "settings", "hide"}
         \/ /\ pc \in {"read", "blocked", "eintr"}
            /\ pc' \in {"read", "blocked", "eintr"}
            /\ input' = input /\ TypedOf(queue') = TypedOf(queue)
         \/ /\ pc \in {"show", "unwind", "returned"}
            /\ pc' \in {"show", "unwind", "returned"}
            /\ input' = input
         \/ UNCHANGED <<pc, queue, input>>
  PROVE  UNCHANGED P!pvars
<1>1. Pending = TypedOf(queue) /\ Pending' = TypedOf(queue')
  BY DEF Pending, TypedOf
<1>2. PromisedOutcome' = PromisedOutcome /\ PromisedFirst' = PromisedFirst
  BY DEF PromisedOutcome, PromisedFirst
<1>3. Answered' = Answered
  BY DEF Answered
<1>4. PromisedLine' = PromisedLine
  BY <1>1 DEF PromisedLine
<1>5. QED
  BY <1>2, <1>3, <1>4 DEF P!pvars

\* An exception that leaves the call, or a signal that ends the process,
\* abandons the entry.
LEMMA Abandoned ==
  ASSUME Running, pc' \in {"threw", "killed"}
  PROVE  P!Abandon
  BY DEF Running, P!Abandon, PromisedOutcome, PromisedFirst, PromisedLine,
         Answered

\* A reading that fails, is interrupted or is flushed, discards the end of what
\* was typed.
LEMMA Discarded ==
  ASSUME TypeOK, TypeOK', pc \in {"read", "blocked", "eintr"},
         UNCHANGED <<confirming, passphrase, input>>,
         \/ pc' \in {"read", "blocked", "eintr"} /\ queue' = <<>>
         \/ pc' = "show" /\ thrown'
         \/ pc' = "show" /\ signal_number' # NoSignal
  PROVE  P!Discard
<1>1. queue \in Seq(Keystroke) /\ queue' \in Seq(Keystroke)
      /\ input \in Seq(Keystroke)
  BY DEF TypeOK, LineTypeOK, TerminalTypeOK
<1>2. TypedOf(queue) \in Seq(Keystroke)
      /\ (queue' = <<>> => TypedOf(queue') = <<>>)
  BY <1>1, TypedOfType
<1>3. PromisedLine = Text(input \o TypedOf(queue))
  BY DEF PromisedLine, Pending, TypedOf
<1>4. PromisedLine' = Text(input)
  <2>1. CASE queue' = <<>> /\ pc' \in {"read", "blocked", "eintr"}
    <3>1. Pending' = <<>>
      BY <1>2, <2>1 DEF Pending, TypedOf
    <3>2. input \o <<>> = input
      BY <1>1, ConcatEmptySeq
    <3>3. QED
      BY <2>1, <3>1, <3>2 DEF PromisedLine
  <2>2. CASE pc' = "show"
    BY <2>2 DEF PromisedLine
  <2>3. QED
    BY <2>1, <2>2
<1>5. PromisedLine' \in P!Prefixes(PromisedLine)
  BY <1>1, <1>2, <1>3, <1>4, TextPrefix
<1>6. Answered = FALSE /\ Answered' = FALSE
  BY DEF Answered
<1>7. PromisedFirst' = PromisedFirst
  BY DEF PromisedFirst
<1>8. PromisedOutcome = "asking" /\ PromisedOutcome' = "asking"
  BY DEF PromisedOutcome
<1>9. QED
  BY <1>5, <1>6, <1>7, <1>8 DEF P!Discard

\* A key the user presses adds a character to the line, or nothing.
LEMMA PressPromised ==
  ASSUME TypeOK, Running, NEW k \in Keys, Press(k), UNCHANGED lineVars,
         UNCHANGED <<confirming, passphrase>>
  PROVE  P!TypeChar \/ UNCHANGED P!pvars
<1> DEFINE e == [key |-> k, visible |-> "ECHO" \in lflag]
<1>1. /\ queue \in Seq(Keystroke) /\ input \in Seq(Keystroke)
      /\ e \in Keystroke /\ e.key = k
  BY DEF TypeOK, LineTypeOK, TerminalTypeOK, Keystroke
<1>2. queue' = Append(queue, e)
  BY DEF Press
<1> HIDE DEF e
<1>3. UNCHANGED <<pc, input, thrown, signal_number>>
  BY DEF lineVars
<1>4. CASE pc \in {"read", "blocked", "eintr"}
  <2>1. CASE TypedOf(queue') = TypedOf(queue)
    BY <1>3, <1>4, <2>1, SameStory
  <2>2. CASE /\ TypedOf(queue') = Append(TypedOf(queue), e)
             /\ k \notin {NL, EOF}
    <3> DEFINE t == TypedOf(queue)
    <3>1. t \in Seq(Keystroke) /\ input \o t \in Seq(Keystroke)
      BY <1>1, TypedOfType, ConcatProperties
    <3>2. input \o Append(t, e) = Append(input \o t, e)
      <4> HIDE DEF t
      <4>1. \A a, b \in Seq(Keystroke) : \A x \in Keystroke :
              a \o Append(b, x) = Append(a \o b, x)
        BY AppendBehind
      <4>2. QED
        BY <1>1, <3>1, <4>1
    <3>3. Text(Append(input \o t, e)) = Append(Text(input \o t), k)
      BY <1>1, <3>1, TextAppend
    <3>4. PromisedLine = Text(input \o t)
      BY <1>4 DEF PromisedLine, Pending, TypedOf
    <3>5. PromisedLine' = Text(input \o Append(t, e))
      BY <1>3, <1>4, <2>2 DEF PromisedLine, Pending, TypedOf
    <3>6. k \in Chars \cup {CR}
      BY <2>2 DEF Keys
    <3>7. PromisedLine' = Append(PromisedLine, k)
      BY <3>2, <3>3, <3>4, <3>5
    <3>8. Answered = FALSE /\ Answered' = FALSE
      BY <1>3, <1>4 DEF Answered
    <3>9. /\ PromisedFirst' = PromisedFirst
          /\ PromisedOutcome = "asking" /\ PromisedOutcome' = "asking"
      BY <1>3, <1>4 DEF PromisedFirst, PromisedOutcome
    <3>10. QED
      BY <3>6, <3>7, <3>8, <3>9 DEF P!TypeChar
  <2>3. QED
    BY <1>1, <1>2, <2>1, <2>2, TypedMore
<1>5. CASE pc \in {"install", "settings", "hide", "show", "unwind", "returned"}
  BY <1>3, <1>5, SameStory
<1>6. pc \in Locations
  BY DEF TypeOK, LineTypeOK
<1>7. QED
  BY <1>4, <1>5, <1>6 DEF Running, Locations

\* A read that returns completes the line, moves a part of it to the program, or
\* gives it up.
LEMMA ReadPromised ==
  ASSUME TypeOK, TypeOK', LineInv, ReadReturns,
         UNCHANGED <<confirming, passphrase>>
  PROVE  P!Complete \/ P!Discard \/ UNCHANGED P!pvars
<1> DEFINE text == input \o ReadChunk
<1>1. queue \in Seq(Keystroke) /\ input \in Seq(Keystroke)
  BY DEF TypeOK, LineTypeOK, TerminalTypeOK
<1>2. /\ pc = "blocked" /\ LineReady /\ queue' = AfterRead
      /\ UNCHANGED signal_number
      /\ ~thrown /\ signal_number = NoSignal
  BY DEF ReadReturns, LineInv
<1>3. CASE ReadChunk = <<>>
  <2>1. pc' = "show" /\ thrown' /\ UNCHANGED input
    BY <1>3 DEF ReadReturns, Throw
  <2>2. QED
    BY <1>2, <2>1, Discarded
<1>4. CASE ReadChunk # <<>>
  <2>1. /\ ReadChunk \in Seq(Keystroke)
        /\ Last(ReadChunk).key = NL => TypedOf(queue) = Front(ReadChunk)
        /\ Last(ReadChunk).key # NL
             => TypedOf(queue) = ReadChunk \o TypedOf(AfterRead)
    BY <1>1, <1>2, <1>4, ReadTakes
  <2> DEFINE c == ReadChunk
  <2>2. Len(input) \in Nat /\ Len(c) \in Nat /\ Len(c) # 0
    BY <1>1, <1>4, <2>1, LenProperties, EmptySeq
  <2>3. /\ text \in Seq(Keystroke) /\ Len(text) = Len(input) + Len(c)
        /\ \A i \in 1..Len(input) + Len(c) :
             text[i] = IF i <= Len(input) THEN input[i]
                       ELSE c[i - Len(input)]
    BY <1>1, <2>1, ConcatProperties
  <2>4. text # <<>>
    BY <1>1, <1>4, <2>1, ConcatEmptySeq
  <2>5. Last(text) = Last(c)
    <3> HIDE DEF text, c
    <3>1. /\ Len(text) \in 1..Len(input) + Len(c)
          /\ ~ (Len(text) <= Len(input)) /\ Len(text) - Len(input) = Len(c)
      BY <2>2, <2>3
    <3>2. QED
      BY <2>3, <3>1 DEF Last
  <2>6. PromisedLine = Text(input \o TypedOf(queue))
    BY <1>2 DEF PromisedLine, Pending, TypedOf
  <2>7. CASE Last(c).key = NL
    <3>1. input' = StripLineEnd(text) /\ pc' = "show" /\ UNCHANGED thrown
      BY <1>4, <2>5, <2>7 DEF ReadReturns
    <3>2. input \o Front(c) = Front(text)
      <4> DEFINE f == Front(c)
                 u == Front(text)
                 v == input \o f
      <4>1. /\ f \in Seq(Keystroke) /\ Len(f) = Len(c) - 1
            /\ \A i \in 1..Len(c) - 1 : f[i] = c[i]
        <5>1. Len(c) - 1 \in 0..Len(c)
          BY <2>2
        <5>2. QED
          BY <2>1, <5>1, FirstKeys DEF Front
      <4>2. /\ u \in Seq(Keystroke) /\ Len(u) = Len(text) - 1
            /\ \A i \in 1..Len(text) - 1 : u[i] = text[i]
        <5> HIDE DEF text
        <5>1. Len(text) - 1 \in 0..Len(text)
          BY <2>2, <2>3
        <5>2. QED
          BY <2>3, <5>1, FirstKeys DEF Front
      <4> HIDE DEF text, c, f, u
      <4>3. /\ v \in Seq(Keystroke) /\ Len(v) = Len(input) + Len(f)
            /\ \A i \in 1..Len(input) + Len(f) :
                 v[i] = IF i <= Len(input) THEN input[i]
                        ELSE f[i - Len(input)]
        BY <1>1, <4>1, ConcatProperties
      <4> HIDE DEF v
      <4>4. Len(v) = Len(u) /\ Len(v) = Len(input) + Len(c) - 1
        BY <2>2, <2>3, <4>1, <4>2, <4>3
      <4>5. ASSUME NEW i \in 1..Len(v)
            PROVE  v[i] = u[i]
        <5>1. /\ i \in 1..Len(input) + Len(f) /\ i \in 1..Len(text) - 1
              /\ i \in 1..Len(input) + Len(c)
          BY <2>2, <2>3, <4>1, <4>4
        <5>2. ~ (i <= Len(input)) => i - Len(input) \in 1..Len(c) - 1
          BY <2>2, <4>4
        <5>3. QED
          BY <2>3, <4>1, <4>2, <4>3, <5>1, <5>2
      <4>6. v = u
        BY <4>2, <4>3, <4>4, <4>5, SeqEqual
      <4>7. QED
        BY <4>6 DEF v, u, f
    <3>3. PromisedLine = Text(Front(text))
      BY <2>1, <2>6, <2>7, <3>2
    <3>4. PromisedLine' = P!WithoutCR(PromisedLine)
      <4>1. PromisedLine' = Text(StripLineEnd(text))
        BY <3>1 DEF PromisedLine
      <4> HIDE DEF text
      <4>2. QED
        BY <2>3, <2>4, <3>3, <4>1, TextStripped
    <3>5. Answered = FALSE /\ Answered' = TRUE
      BY <1>2, <3>1 DEF Answered
    <3>6. /\ PromisedFirst' = PromisedFirst
          /\ PromisedOutcome = "asking" /\ PromisedOutcome' = "asking"
      BY <1>2, <3>1 DEF PromisedFirst, PromisedOutcome
    <3>7. QED
      BY <3>4, <3>5, <3>6 DEF P!Complete
  <2>8. CASE Last(c).key # NL
    <3>1. input' = text /\ pc' = "read" /\ UNCHANGED thrown
      BY <1>4, <2>5, <2>8 DEF ReadReturns
    <3>2. TypedOf(queue') \in Seq(Keystroke)
          /\ TypedOf(queue) = c \o TypedOf(queue')
      <4>1. queue' \in Seq(Keystroke)
        BY DEF TypeOK, LineTypeOK, TerminalTypeOK
      <4>2. QED
        BY <1>2, <2>1, <2>8, <4>1, TypedOfType
    <3>3. input \o TypedOf(queue) = text \o TypedOf(queue')
      BY <1>1, <2>1, <3>2, ConcatAssociative
    <3>4. PromisedLine' = Text(text \o TypedOf(queue'))
      BY <3>1 DEF PromisedLine, Pending, TypedOf
    <3>5. PromisedLine' = PromisedLine
      BY <2>6, <3>3, <3>4
    <3>6. Answered' = Answered
      BY <1>2, <3>1 DEF Answered
    <3>7. PromisedFirst' = PromisedFirst /\ PromisedOutcome' = PromisedOutcome
      BY <1>2, <3>1 DEF PromisedFirst, PromisedOutcome
    <3>8. QED
      BY <3>5, <3>6, <3>7 DEF P!pvars
  <2>9. QED
    BY <2>7, <2>8
<1>5. QED
  BY <1>3, <1>4

\* Storing the first line asks again, or accepts that there is no passphrase.
LEMMA StorePromised ==
  ASSUME TypeOK, LineInv, StoreFirst
  PROVE  P!AskAgain \/ P!Accept
<1>1. input \in Seq(Keystroke)
  BY DEF TypeOK, LineTypeOK
<1>2. pc = "returned" /\ ~confirming /\ passphrase' = input
  BY DEF StoreFirst
<1>3. Answered = TRUE
  BY <1>2 DEF Answered, LineInv
<1>4. /\ PromisedFirst = <<>> /\ PromisedLine = Text(input)
      /\ PromisedOutcome = "asking"
  BY <1>2 DEF PromisedFirst, PromisedLine, PromisedOutcome
<1>5. Text(input) = <<>> <=> input = <<>>
  BY <1>1, TextEmpty
<1>6. CASE input = <<>>
  <2>1. /\ pc' = "accepted"
        /\ UNCHANGED <<input, signal_number, thrown, confirming>>
    BY <1>6 DEF StoreFirst, EnterCall
  <2>2. /\ PromisedFirst' = <<>> /\ PromisedLine' = Text(input)
        /\ PromisedOutcome' = "accepted"
    BY <1>2, <2>1 DEF PromisedFirst, PromisedLine, PromisedOutcome
  <2>3. Answered' = TRUE
    BY <1>2, <2>1 DEF Answered, LineInv
  <2>4. QED
    BY <1>3, <1>4, <1>5, <1>6, <2>2, <2>3 DEF P!Accept
<1>7. CASE input # <<>>
  <2>1. pc' = "install" /\ confirming' = TRUE
    BY <1>7 DEF StoreFirst, EnterCall
  <2>2. /\ PromisedFirst' = Text(input) /\ PromisedLine' = <<>>
        /\ PromisedOutcome' = "asking"
    BY <1>2, <2>1 DEF PromisedFirst, PromisedLine, PromisedOutcome
  <2>3. Answered' = FALSE
    BY <2>1 DEF Answered
  <2>4. QED
    BY <1>3, <1>4, <1>5, <1>7, <2>2, <2>3 DEF P!AskAgain
<1>8. QED
  BY <1>6, <1>7

\* Comparing accepts a repeated line only.
LEMMA ComparePromised ==
  ASSUME LineInv, Compare
  PROVE  P!Accept \/ P!Abandon
<1>1. pc = "returned" /\ confirming
      /\ UNCHANGED <<input, signal_number, thrown, confirming, passphrase>>
  BY DEF Compare
<1>2. CASE Text(passphrase) = Text(input)
  <2>1. pc' = "accepted"
    BY <1>2 DEF Compare
  <2>2. Answered = TRUE /\ Answered' = TRUE
    BY <1>1, <2>1 DEF Answered, LineInv
  <2>3. /\ PromisedFirst = Text(passphrase) /\ PromisedLine = Text(input)
        /\ PromisedOutcome = "asking" /\ PromisedOutcome' = "accepted"
        /\ PromisedFirst' = PromisedFirst /\ PromisedLine' = PromisedLine
    BY <1>1, <2>1 DEF PromisedFirst, PromisedLine, PromisedOutcome
  <2>4. QED
    BY <1>2, <2>2, <2>3 DEF P!Accept
<1>3. CASE Text(passphrase) # Text(input)
  <2>1. pc' = "threw"
    BY <1>3 DEF Compare
  <2>2. QED
    BY <1>1, <2>1, Abandoned DEF Running
<1>4. QED
  BY <1>2, <1>3

\* A signal discards what a key flushes, ends the process or changes nothing.
LEMMA DeliverPromised ==
  ASSUME TypeOK, TypeOK', LineInv, NEW s \in Signals, Deliver(s),
         UNCHANGED <<confirming, passphrase>>
  PROVE  P!Discard \/ P!Abandon \/ UNCHANGED P!pvars
<1>1. /\ Running
      /\ queue' = queue \/ queue' = <<>>
      /\ UNCHANGED <<input, signal_number, thrown>>
  BY DEF Deliver
<1>2. CASE pc' = "killed"
  BY <1>1, <1>2, Abandoned
<1>3. CASE pc' # "killed" /\ pc \in {"read", "blocked", "eintr"}
  <2>1. pc' \in {"read", "blocked", "eintr"}
    BY <1>3 DEF Deliver, Interrupted
  <2>2. CASE queue' = queue
    BY <1>1, <1>3, <2>1, <2>2, SameStory
  <2>3. CASE queue' = <<>>
    BY <1>1, <1>3, <2>1, <2>3, Discarded
  <2>4. QED
    BY <1>1, <2>2, <2>3
<1>4. CASE pc' # "killed" /\ pc \in {"install", "settings", "hide"}
  <2>1. pc' = pc
    BY <1>4 DEF Deliver, Interrupted
  <2>2. QED
    BY <1>1, <1>4, <2>1, SameStory
<1>5. CASE pc' # "killed" /\ pc \in {"show", "unwind", "returned"}
  <2>1. pc' \in {"show", "unwind", "returned"}
    BY <1>5 DEF Deliver, Interrupted
  <2>2. QED
    BY <1>1, <1>5, <2>1, SameStory
<1>6. pc \in Locations
  BY DEF TypeOK, LineTypeOK
<1>7. QED
  BY <1>1, <1>2, <1>3, <1>4, <1>5, <1>6 DEF Running, Locations

\* Every step of the program, the user or a signal is a step of the promise, or
\* one it does not see.
LEMMA PromiseStep ==
  ASSUME TypeOK, TypeOK', LineInv, LineInv', [Next]_vars
  PROVE  [P!PromiseNext]_P!pvars
<1> SUFFICES P!PromiseNext \/ UNCHANGED P!pvars
  OBVIOUS
<1> USE DEF P!PromiseNext
<1>1. CASE UNCHANGED vars
  <2>1. UNCHANGED <<pc, queue, input, confirming, passphrase, thrown,
                    signal_number>>
    BY <1>1 DEF vars, hvars, lineVars, ttyVars
  <2>2. QED
    BY <2>1, SameStory
<1>2. CASE StoreFirst
  BY <1>2, StorePromised
<1>3. CASE Compare
  BY <1>3, ComparePromised
<1>4. CASE InCall
  <2>0. UNCHANGED <<confirming, passphrase>>
    BY <1>4 DEF InCall
  <2>1. CASE InstallHandler \/ ReadSettings
    <3>1. /\ pc \in {"install", "settings", "hide"}
          /\ pc' \in {"install", "settings", "hide"}
          /\ UNCHANGED <<thrown, signal_number>>
      BY <2>1 DEF InstallHandler, ReadSettings
    <3>2. QED
      BY <2>0, <3>1, SameStory
  <2>2. CASE HideEcho
    <3>1. /\ pc = "hide" /\ pc' = "read" /\ queue' = <<>> /\ input' = <<>>
          /\ UNCHANGED <<thrown, signal_number>>
      BY <2>2 DEF HideEcho, Hide, SetAttr, LineInv
    <3>2. PromisedLine' = <<>>
      <4>1. /\ Pending' = TypedOf(queue')
            /\ queue' \in Seq(Keystroke) /\ input' \in Seq(Keystroke)
        BY DEF Pending, TypedOf, TypeOK, LineTypeOK, TerminalTypeOK
      <4>2. Pending' = <<>>
        BY <3>1, <4>1, TypedOfType
      <4>3. input' \o <<>> = <<>>
        BY <3>1, <4>1, ConcatEmptySeq
      <4>4. Text(<<>>) = <<>>
        BY <3>1, <4>1, TextEmpty
      <4>5. PromisedLine' = Text(input' \o Pending')
        BY <3>1 DEF PromisedLine
      <4>6. QED
        BY <4>2, <4>3, <4>4, <4>5
    <3>3. PromisedLine = <<>> /\ Answered' = Answered
          /\ PromisedFirst' = PromisedFirst
          /\ PromisedOutcome' = PromisedOutcome
      BY <2>0, <3>1 DEF PromisedLine, Answered, PromisedFirst, PromisedOutcome
    <3>4. QED
      BY <3>2, <3>3 DEF P!pvars
  <2>3. CASE InstallFails \/ EchoGuardFails
    <3>1. /\ pc \in {"install", "settings", "hide"} /\ pc' = "unwind"
          /\ thrown' /\ UNCHANGED input /\ input = <<>>
      BY <2>3 DEF InstallFails, EchoGuardFails, Throw, Restoring, LineInv
    <3>2. Text(<<>>) = <<>>
      BY EmptySeq, TextEmpty
    <3>3. /\ PromisedLine' = PromisedLine /\ Answered' = Answered
          /\ PromisedFirst' = PromisedFirst
          /\ PromisedOutcome' = PromisedOutcome
      BY <2>0, <3>1, <3>2
         DEF PromisedLine, Answered, PromisedFirst, PromisedOutcome
    <3>4. QED
      BY <3>3 DEF P!pvars
  <2>4. CASE EnterRead \/ ReadRestarted
    <3>1. /\ pc \in {"read", "blocked", "eintr"}
          /\ pc' \in {"read", "blocked", "eintr"}
          /\ UNCHANGED <<queue, input, thrown, signal_number>>
      BY <2>4 DEF EnterRead, ReadRestarted, ttyVars
    <3>2. QED
      BY <2>0, <3>1, SameStory
  <2>5. CASE ReadReturns
    BY <2>0, <2>5, ReadPromised
  <2>6. CASE ReadFails
    <3>1. /\ pc = "blocked" /\ pc' = "show" /\ thrown' /\ UNCHANGED input
      BY <2>6 DEF ReadFails, Throw
    <3>2. QED
      BY <2>0, <3>1, Discarded
  <2>7. CASE CheckSignal
    <3>1. /\ pc = "eintr" /\ signal_number' = caught_signal
          /\ pc' = IF caught_signal = NoSignal THEN "read" ELSE "show"
          /\ UNCHANGED <<queue, input, thrown>>
      BY <2>7 DEF CheckSignal, SignalCaught, ttyVars
    <3>2. CASE caught_signal = NoSignal
      BY <2>0, <3>1, <3>2, SameStory DEF LineInv
    <3>3. CASE caught_signal # NoSignal
      BY <2>0, <3>1, <3>3, Discarded
    <3>4. QED
      BY <3>2, <3>3
  <2>8. CASE RestoreEcho \/ RestoreFails \/ RestoreHandler
    <3>1. /\ pc \in {"show", "unwind", "returned"} /\ pc' = "unwind"
          /\ UNCHANGED <<input, thrown, signal_number>>
      BY <2>8 DEF RestoreEcho, RestoreFails, RestoreHandler
    <3>2. QED
      BY <2>0, <3>1, SameStory
  <2>9. CASE LeaveCall
    <3>1. /\ pc = "unwind" /\ UNCHANGED <<input, signal_number>>
          /\ \/ pc' \in {"threw", "killed"}
             \/ pc' = "returned" /\ UNCHANGED thrown
      BY <2>9 DEF LeaveCall, Throw
    <3>2. CASE pc' \in {"threw", "killed"}
      BY <3>1, <3>2, Abandoned DEF Running
    <3>3. CASE pc' = "returned" /\ UNCHANGED thrown
      BY <2>0, <3>1, <3>3, SameStory
    <3>4. QED
      BY <3>1, <3>2, <3>3
  <2>10. CASE User
    <3>1. \E k \in Keys : Press(k)
      BY <2>10 DEF User, Type, PressEnter, Keys
    <3>2. QED
      BY <2>0, <2>10, <3>1, PressPromised DEF User
  <2>11. CASE \E s \in Signals : Deliver(s)
    BY <2>0, <2>11, DeliverPromised
  <2>12. QED
    BY <1>4, <2>1, <2>2, <2>3, <2>4, <2>5, <2>6, <2>7, <2>8, <2>9, <2>10,
       <2>11
       DEF InCall, LineNext, LineStep, LineFailure
<1>5. QED
  BY <1>1, <1>2, <1>3, <1>4 DEF Next, Terminated

\* read_passphrase implements PassphrasePromise, for any characters, buffer size,
\* signals and number of keystrokes: partial reads, end-of-file marks, flushes
\* and interrupted reads never reorder, repeat or invent a character of an
\* answer and lose at most the last ones typed, and a passphrase is accepted
\* only when it was repeated.
THEOREM PassphraseKeepsPromise == Spec => KeepsPromise
<1>1. Init => P!PromiseInit
  BY DEF Init, LineInit, P!PromiseInit, PromisedLine, Answered, PromisedFirst,
         PromisedOutcome
<1>2. Init => LineInv
  BY DEF Init, LineInit, LineInv
<1>3. LineInv /\ [Next]_vars => LineInv'
  BY LineInvStep
<1>4. TypeOK /\ TypeOK' /\ LineInv /\ LineInv' /\ [Next]_vars
        => [P!PromiseNext]_P!pvars
  BY PromiseStep
<1>5. QED
  BY <1>1, <1>2, <1>3, <1>4, TypeCorrect, PTL
     DEF Spec, KeepsPromise, P!Promise

===============================================================================
