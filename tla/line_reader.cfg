\* evbuffer_readln in every EOL style on every split into chains of every string of up to four bytes, with bytes added between calls and the line allocation allowed to fail.
CONSTANTS
  a = a
  cr = cr
  lf = lf
  Chars <- MCChars
  CR = cr
  LF = lf
  Styles <- AllStyles
  MaxLen = 4
  MaxChains = 3
  MallocFails = TRUE
SPECIFICATION Spec
INVARIANTS TypeOK
PROPERTIES ReadlnAsSpecified
