----------------------------- MODULE MCJobControl -----------------------------
(* Small instances of JobControl for TLC.                                  *)
EXTENDS JobControl

CONSTANTS a, cr, nl, eof, SIGINT, SIGHUP

MCChars    == {a}
MCSignals  == <<SIGINT, SIGHUP>>
MCKeyboard == {SIGINT}

===============================================================================
