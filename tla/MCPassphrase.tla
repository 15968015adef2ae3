----------------------------- MODULE MCPassphrase -----------------------------
(* Small instances of Passphrase for TLC.                                  *)
EXTENDS Passphrase

CONSTANTS a, cr, nl, eof, SIGINT

MCOneChar  == {a}
MCOneSignal == <<SIGINT>>
MCKeyboard  == {SIGINT}

===============================================================================
