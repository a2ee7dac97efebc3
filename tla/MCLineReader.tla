---------------------------- MODULE MCLineReader ----------------------------
EXTENDS LineReader

CONSTANTS a, cr, lf

MCChars == {a, cr, lf}

AllStyles == {"any", "crlf", "crlf_strict", "lf"}
=============================================================================
