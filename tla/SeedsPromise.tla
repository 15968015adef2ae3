------------------------------ MODULE SeedsPromise ------------------------------
(***************************************************************************)
(* What one run of the program promises whoever started it, with no        *)
(* options, sources or buffers: sections of output appear in their order;  *)
(* nothing is shown and nothing is asked for a request that is not valid;  *)
(* success means that everything wanted was shown; and a run fails either  *)
(* without having shown anything or, if a seed is wanted, with everything  *)
(* but the seed shown.  Only a failing output may lose sections.           *)
(***************************************************************************)
EXTENDS Naturals, Sequences, SequencesExt

VARIABLES
  valid,  \* can the request be carried out?
  wanted, \* the sections it asks for, in order
  shown,  \* the sections that have reached the reader
  asked,  \* has the user been asked to enter anything?
  lost,   \* has the output failed?
  status  \* "running", "success", "failure" or "signal"

rvars == <<valid, wanted, shown, asked, lost, status>>

Mnemonics == {<<"words", "tiny">>, <<"entropy", "words", "tiny">>}
Wants     == {<<"help">>} \cup Mnemonics \cup {m \o <<"seed">> : m \in Mnemonics}

SeedWanted == Last(wanted) = "seed"

RunInit ==
  /\ valid \in BOOLEAN
  /\ wanted \in Wants
  /\ shown = <<>>
  /\ asked = FALSE
  /\ lost = FALSE
  /\ status = "running"

Ask ==
  /\ status = "running" /\ valid
  /\ asked' = TRUE
  /\ UNCHANGED <<valid, wanted, shown, lost, status>>

Show ==
  /\ status = "running" /\ valid /\ ~lost
  /\ shown' \in Prefixes(wanted) /\ IsPrefix(shown, shown')
  /\ UNCHANGED <<valid, wanted, asked, lost, status>>

\* The passphrase is asked for when everything that comes before the seed is
\* on the screen.
ShowAndAsk ==
  /\ status = "running" /\ valid /\ SeedWanted
  /\ shown' = IF lost THEN shown ELSE Front(wanted)
  /\ asked' = TRUE
  /\ UNCHANGED <<valid, wanted, lost, status>>

Lose ==
  /\ status = "running"
  /\ lost' = TRUE
  /\ UNCHANGED <<valid, wanted, shown, asked, status>>

Succeed ==
  /\ status = "running" /\ valid
  /\ status' = "success"
  /\ shown' = IF lost THEN shown ELSE wanted
  /\ UNCHANGED <<valid, wanted, asked, lost>>

Fail ==
  /\ status = "running"
  /\ status' = "failure"
  /\ \/ shown = <<>> /\ UNCHANGED shown
     \/ /\ valid /\ SeedWanted /\ asked
        /\ IF lost THEN UNCHANGED shown ELSE shown' = Front(wanted)
  /\ UNCHANGED <<valid, wanted, asked, lost>>

Killed ==
  /\ status = "running"
  /\ status' = "signal"
  /\ UNCHANGED <<valid, wanted, shown, asked, lost>>

RunNext == Ask \/ Show \/ ShowAndAsk \/ Lose \/ Succeed \/ Fail \/ Killed

Promise == RunInit /\ [][RunNext]_rvars

===============================================================================
