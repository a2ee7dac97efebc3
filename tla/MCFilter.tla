------------------------------- MODULE MCFilter -------------------------------
(* Instantiates Filter for TLC: a byte budget of 3, one- and two-byte      *)
(* chunks, and the user write callback scripts the runs choose from.       *)
EXTENDS Filter

FilterOps == {"write", "read", "enable", "disable", "setwatermark", "flush"}

\* The write callback does nothing, or writes one more byte.
PlainScripts == {<<>>, <<"write">>}

\* ... or also flushes the filter (BEV_FLUSH) and then writes.
FlushScripts == {<<>>, <<"write">>, <<"flush", "write">>}

====
