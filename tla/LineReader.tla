----------------------------- MODULE LineReader -----------------------------
(***************************************************************************)
(* evbuffer_readln (src/buffer.c:595-665) and the iterator helpers it     *)
(* scans the chain list with (evbuffer_strchr, strpbrk, strspn, getchr),  *)
(* together with the evbuffer_remove and evbuffer_drain that consume the  *)
(* line.  The buffer is its chain layout: the visible bytes of each chain *)
(* (buffer + misalign, off bytes), first chain first.  Every ChainBuffer  *)
(* run keeps empty chains to the last position (only expand and a short   *)
(* read leave one), so that is the shape the layouts here have.           *)
(*                                                                         *)
(* The search is translated loop by loop into RECURSIVE operators and is  *)
(* checked against RefReadln, a direct definition of the four EOL styles  *)
(* of the spec (section 4.1, readln) on the flattened byte string.        *)
(***************************************************************************)
EXTENDS Naturals, Sequences, SequencesExt

CONSTANTS
  Chars,       \* the byte values: an ordinary byte, CR and LF
  CR, LF,
  Styles,      \* the EOL styles called: "any", "crlf", "crlf_strict", "lf"
  MaxLen,      \* bound on the bytes in the buffer
  MaxChains,   \* bound on the chains in the buffer
  MallocFails  \* whether mm_malloc of the line may return NULL

ASSUME /\ {CR, LF} \subseteq Chars
       /\ Styles \subseteq {"any", "crlf", "crlf_strict", "lf"}
       /\ {MaxLen, MaxChains} \subseteq Nat /\ MallocFails \in BOOLEAN

\* A chain list in the shape every ChainBuffer run keeps: within the
\* bounds, and no empty chain but the last.
IsLayout(L) ==
  /\ L \in Seq(Seq(Chars))
  /\ Len(L) <= MaxChains /\ Len(FlattenSeq(L)) <= MaxLen
  /\ \A i \in 1..(Len(L) - 1) : L[i] # <<>>

\* The bytes s cut into chains after the positions in C.
Split(s, C) ==
  LET b == <<0>> \o SetToSortSeq(C, <) \o <<Len(s)>>
  IN  [i \in 1..(Len(b) - 1) |-> SubSeq(s, b[i] + 1, b[i + 1])]

\* Every such chain list: each string of at most MaxLen bytes, cut every
\* possible way, with or without an empty chain left by an expand.
Layouts ==
  {L \in {<<>>} \cup
          UNION {{Split(s, C) \o E : C \in SUBSET (1..(Len(s) - 1)),
                                     E \in {<<>>, <<<<>>>>}} :
                 s \in BoundedSeq(Chars, MaxLen)} : IsLayout(L)}

VARIABLES
  layout,   \* the chains of the buffer, first chain first
  result    \* what evbuffer_readln returned in this step, if it was called

vars == <<layout, result>>

NoCall == [style |-> "none", before |-> <<>>, line |-> <<>>,
           found |-> FALSE, oom |-> FALSE]

Bytes(L) == FlattenSeq(L)

-----------------------------------------------------------------------------
(* The iterator (struct evbuffer_iterator): a chain index and an offset.   *)

NotFound == [count |-> -1, ci |-> 0, off |-> 0]

\* evbuffer_strchr / evbuffer_strpbrk (lines 505-548): from chain ci at
\* offset i, the first byte in `set`, with the number of bytes passed.
RECURSIVE Find(_, _, _, _, _)
Find(L, ci, i, set, count) ==
  IF ci > Len(L) THEN NotFound
  ELSE IF i >= Len(L[ci]) THEN Find(L, ci + 1, 0, set, count)
  ELSE IF L[ci][i + 1] \in set THEN [count |-> count, ci |-> ci, off |-> i]
  ELSE Find(L, ci, i + 1, set, count + 1)

\* evbuffer_strspn (lines 550-572): how many bytes from (ci, i) are in set.
RECURSIVE Span(_, _, _, _)
Span(L, ci, i, set) ==
  IF ci > Len(L) THEN 0
  ELSE IF i >= Len(L[ci]) THEN Span(L, ci + 1, 0, set)
  ELSE IF L[ci][i + 1] \in set THEN 1 + Span(L, ci, i + 1, set)
  ELSE 0

\* Variant: the offset is not rebased when getchr steps to the next chain.
RECURSIVE GetchrNoRebase(_, _, _)
GetchrNoRebase(L, ci, off) ==
  IF off >= Len(L[ci])
  THEN IF ci + 1 > Len(L) THEN [ok |-> FALSE, chr |-> CR, ci |-> ci, off |-> off]
       ELSE GetchrNoRebase(L, ci + 1, off)
  ELSE [ok |-> TRUE, chr |-> L[ci][off + 1], ci |-> ci, off |-> off]

\* evbuffer_getchr (lines 574-593): the byte at offset off from chain ci,
\* stepping over whole chains; -1 past the end.
RECURSIVE Getchr(_, _, _)
Getchr(L, ci, off) ==
  IF off >= Len(L[ci])
  THEN IF ci + 1 > Len(L) THEN [ok |-> FALSE, chr |-> CR, ci |-> ci, off |-> off]
       ELSE Getchr(L, ci + 1, off - Len(L[ci]))
  ELSE [ok |-> TRUE, chr |-> L[ci][off + 1], ci |-> ci, off |-> off]

\* The EVBUFFER_EOL_CRLF_STRICT loop (lines 618-635): find '\r', look at
\* the byte after it, stop on '\n', else count the '\r' and search on.
RECURSIVE StrictScan(_, _, _, _)
StrictScan(L, ci, off, count) ==
  LET t == Find(L, ci, off, {CR}, 0) IN
  IF t.count = -1 THEN [found |-> FALSE, n |-> 0]
  ELSE LET g == Getchr(L, t.ci, t.off + 1) IN
       IF ~g.ok THEN [found |-> FALSE, n |-> 0]
       ELSE IF g.chr = LF THEN [found |-> TRUE, n |-> count + t.count]
       ELSE StrictScan(L, g.ci, g.off, count + t.count + 1)

\* The switch on eol_style (lines 609-646): whether a terminator was found,
\* n_to_copy and extra_drain.  The iterator starts at buffer->first.
Search(L, style) ==
  CASE style = "any" ->
         LET t == Find(L, 1, 0, {CR, LF}, 0) IN
         [found |-> t.count # -1, n |-> t.count,
          extra |-> IF t.count = -1 THEN 0 ELSE Span(L, t.ci, t.off, {CR, LF})]
    [] style = "crlf_strict" ->
         LET r == StrictScan(L, 1, 0, 0) IN [found |-> r.found, n |-> r.n, extra |-> 2]
    [] style \in {"crlf", "lf"} ->
         LET t == Find(L, 1, 0, {LF}, 0) IN
         [found |-> t.count # -1, n |-> t.count, extra |-> 1]

-----------------------------------------------------------------------------
(* Consuming the line.                                                     *)

\* The copy loop of evbuffer_remove (lines 331-351): whole chains are freed
\* while datlen >= off, then the first chain left loses datlen bytes.
RECURSIVE RemoveLoop(_, _)
RemoveLoop(L, k) ==
  IF k > 0 /\ k >= Len(Head(L)) THEN RemoveLoop(Tail(L), k - Len(Head(L)))
  ELSE IF k > 0 THEN <<SubSeq(Head(L), k + 1, Len(Head(L)))>> \o Tail(L)
  ELSE L

\* evbuffer_remove (lines 317-359), datlen clamped to total_len.
EvRemove(L, k) ==
  LET d == IF k >= Len(Bytes(L)) THEN Len(Bytes(L)) ELSE k
  IN  IF d = 0 THEN L ELSE RemoveLoop(L, d)

\* Variant: a chain that is exactly used up is kept (>, not >=).
RECURSIVE DrainLoopStrict(_, _)
DrainLoopStrict(L, k) ==
  IF k > Len(Head(L)) THEN DrainLoopStrict(Tail(L), k - Len(Head(L)))
  ELSE <<SubSeq(Head(L), k + 1, Len(Head(L)))>> \o Tail(L)

\* The loop of evbuffer_drain for len < total_len (lines 293-308): chains
\* with off <= len, empty ones included, are freed.
RECURSIVE DrainLoop(_, _)
DrainLoop(L, k) ==
  IF k >= Len(Head(L)) THEN DrainLoop(Tail(L), k - Len(Head(L)))
  ELSE <<SubSeq(Head(L), k + 1, Len(Head(L)))>> \o Tail(L)

\* evbuffer_drain (lines 277-312).
EvDrain(L, k) ==
  CASE Bytes(L) = <<>>    -> L
    [] k >= Len(Bytes(L)) -> <<>>
    [] OTHER              -> DrainLoop(L, k)

\* The line copied out (lines 654-658): n_to_copy bytes, less one '\r'
\* before the '\n' for EVBUFFER_EOL_CRLF.
LineOf(L, style, n) ==
  LET body == SubSeq(Bytes(L), 1, n) IN
  IF style = "crlf" /\ n > 0 /\ body[n] = CR THEN SubSeq(body, 1, n - 1) ELSE body

-----------------------------------------------------------------------------
(* Actions.                                                                *)

Init == layout \in Layouts /\ result = NoCall

\* evbuffer_readln (lines 595-665); evbuffer_readline is the "any" case.
Readln(style) ==
  LET r == Search(layout, style) IN
  IF ~r.found
  THEN /\ result' = [NoCall EXCEPT !.style = style, !.before = Bytes(layout)]
       /\ UNCHANGED layout
  ELSE \E oom \in IF MallocFails THEN BOOLEAN ELSE {FALSE} :
       /\ result' = [style |-> style, before |-> Bytes(layout), found |-> ~oom,
                     line |-> IF oom THEN <<>> ELSE LineOf(layout, style, r.n),
                     oom |-> oom]
       /\ layout' = IF oom THEN EvDrain(layout, r.n + r.extra)
                    ELSE EvDrain(EvRemove(layout, r.n), r.extra)

\* evbuffer_add of one byte: into the last chain when it has room (always
\* when it is empty), else into a new chain.
AddByte(c) ==
  /\ Len(Bytes(layout)) < MaxLen
  /\ \/ /\ layout # <<>>
        /\ layout' = [layout EXCEPT ![Len(layout)] = Append(@, c)]
     \/ /\ Len(layout) < MaxChains
        /\ IF layout = <<>> THEN TRUE ELSE Last(layout) # <<>>
        /\ layout' = Append(layout, <<c>>)
  /\ result' = NoCall

Next ==
  \/ \E s \in Styles : Readln(s)
  \/ \E c \in Chars : AddByte(c)

Spec == Init /\ [][Next]_vars

-----------------------------------------------------------------------------
(* The reference: readln as the spec defines it, on the flat byte string.  *)

\* Whether a terminator of the style starts at position p of s.
EolAt(s, p, style) ==
  CASE style = "any"         -> s[p] \in {CR, LF}
    [] style = "crlf_strict" -> p < Len(s) /\ s[p] = CR /\ s[p + 1] = LF
    [] OTHER                 -> s[p] = LF

\* The terminator's length: the whole run of '\r' and '\n' for ANY.
EolLen(s, p, style) ==
  IF style = "any"
  THEN Max({k \in 1..(Len(s) - p + 1) :
              \A j \in p..(p + k - 1) : s[j] \in {CR, LF}})
  ELSE IF style = "crlf_strict" THEN 2 ELSE 1

RefReadln(s, style) ==
  LET P == {p \in 1..Len(s) : EolAt(s, p, style)} IN
  IF P = {} THEN [found |-> FALSE, line |-> <<>>, rest |-> s]
  ELSE LET p    == Min(P)
           body == SubSeq(s, 1, p - 1)
       IN  [found |-> TRUE,
            line  |-> IF style = "crlf" /\ body # <<>> /\ Last(body) = CR
                      THEN Front(body) ELSE body,
            rest  |-> SubSeq(s, p + EolLen(s, p, style), Len(s))]

-----------------------------------------------------------------------------
(* Properties.                                                             *)

\* The layout keeps the shape of a ChainBuffer's chain list: no empty chain
\* but the last, and within the bounds.
TypeOK ==
  /\ IsLayout(layout)
  /\ result.style \in Styles \cup {"none"}
  /\ result.found \in BOOLEAN /\ result.oom \in BOOLEAN

\* Every call of evbuffer_readln leaves exactly the spec's rest in the
\* buffer, whichever way the bytes are split into chains: a call that finds
\* no terminator leaves the buffer as it was, and one whose line buffer
\* cannot be allocated drops the line with its terminator and no more.  A
\* call that gets its line buffer returns the spec's line.
ReadlnAsSpecified ==
  [][ result'.style # "none" =>
        LET ref == RefReadln(result'.before, result'.style) IN
        /\ Bytes(layout') = ref.rest
        /\ ~result'.oom => /\ result'.found = ref.found
                           /\ result'.line = ref.line ]_vars
=============================================================================
