------------------------------ MODULE ConsoleMC ------------------------------
(* A ring of three bytes: the text and every echo fits it alone, no two of *)
(* them do; only the echo of one character fits the transmit FIFO whole.   *)
EXTENDS Console

Written == {<<"x", "LF">>}
=============================================================================
