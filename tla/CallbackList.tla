---------------------------- MODULE CallbackList ----------------------------
(***************************************************************************)
(* The change-notification registry of a ChainBuffer (src/buffer.c): the  *)
(* TAILQ of evbuffer_cb_entry, evbuffer_add_cb / remove_cb /              *)
(* remove_cb_entry / cb_set_flags, and the dispatch loop of               *)
(* evbuffer_invoke_callbacks, which captures `next` before calling each   *)
(* enabled entry.  The buffer modelled is a filtering bufferevent's       *)
(* output: bufferevent_filter_new registers bufferevent_filtered_outbuf_cb *)
(* on it first (bufferevent_filter.c:198), and that callback pumps the    *)
(* buffer from inside the dispatch (be_filter_process_output), which      *)
(* nests a second dispatch on the same list.  Every other entry is a user *)
(* callback whose reentrant behaviour is drawn from Reactions.            *)
(*                                                                         *)
(* Entries live at heap addresses Addrs; an address is never handed out   *)
(* again once freed, so a pointer into freed memory stays recognisable.   *)
(* Data is abstracted to the buffer's total_len.                           *)
(***************************************************************************)
EXTENDS Naturals, Sequences, SequencesExt

CONSTANTS
  Addrs,       \* heap addresses an evbuffer_cb_entry can be allocated at
  FAddr,       \* bevf->outbuf_cb, the filter's own entry
  FCb,         \* bufferevent_filtered_outbuf_cb with its bevf argument
  UserCbs,     \* (cb, cbarg) pairs the user registers
  Reactions,   \* [UserCbs -> SUBSET UserReactions]: what each user callback does
  MaxLen,      \* bound on the buffer's total_len
  MaxDepth,    \* bound on nested dispatches of this list
  MaxMuts,     \* bound on the number of length changes in a behaviour
  MallocFails, \* whether mm_malloc may return NULL
  NULL

UserReactions == {"none", "remove_self", "disable_self", "add",
                  "remove_other", "write"}

ASSUME /\ FAddr \in Addrs /\ FCb \notin UserCbs /\ NULL \notin Addrs
       /\ Reactions \in [UserCbs -> SUBSET UserReactions]
       /\ {MaxLen, MaxDepth, MaxMuts} \subseteq Nat /\ MallocFails \in BOOLEAN

Cbs == UserCbs \cup {FCb}

\* One activation of the loop of evbuffer_invoke_callbacks: `pos` is the
\* pointer the loop dereferences next (cbent, after `cbent = next`), old and
\* new are its sizes, stamp numbers the length change it reports, and
\* `after` is the entry its caller re-enables once it returns (the filter's
\* evbuffer_cb_set_flags(..., EVBUFFER_CB_ENABLED) at the end of its pump).
Frame == [pos: Addrs \cup {NULL}, old: 0..MaxLen, new: 0..MaxLen,
          stamp: 1..MaxMuts, after: Addrs \cup {NULL}]

VARIABLE st
vars == <<st>>

(* st.list   the TAILQ buffer->callbacks, head first                       *)
(* st.heap   allocation state of each address                              *)
(* st.ent    cb and EVBUFFER_CB_ENABLED flag of each allocated entry        *)
(* st.len    buffer->total_len                                             *)
(* st.stack  the active invoke_callbacks loops, innermost last             *)
(* st.obs    ghost: stamp of the last change each entry was told about      *)
(* st.muts   ghost: number of length changes so far                        *)

Init ==
  st = [list  |-> <<FAddr>>,
        heap  |-> [a \in Addrs |-> IF a = FAddr THEN "live" ELSE "fresh"],
        ent   |-> [a \in Addrs |-> [cb |-> FCb, enabled |-> a = FAddr]],
        len   |-> 0,
        stack |-> <<>>,
        obs   |-> [a \in Addrs |-> 0],
        muts  |-> 0]

Live(s) == {a \in Addrs : s.heap[a] = "live"}
UserEntries(s) == {a \in Live(s) : s.ent[a].cb \in UserCbs}

\* TAILQ_NEXT(e, next) of a listed entry, TAILQ_END for the last one.
Succ(s, e) ==
  LET i == SelectInSeq(s.list, LAMBDA x : x = e)
  IN  IF i = Len(s.list) THEN NULL ELSE s.list[i + 1]

-----------------------------------------------------------------------------
(* Registry operations, as transformers of st.                             *)

\* Variant: the new entry is appended (TAILQ_INSERT_TAIL) instead.
AddCbTail(s, c, a) ==
  IF a = NULL THEN s
  ELSE [s EXCEPT !.heap[a] = "live",
                 !.ent[a]  = [cb |-> c, enabled |-> TRUE],
                 !.list    = Append(@, a)]

\* evbuffer_add_cb (buffer.c:1231-1242): `a` is what mm_malloc returned.
AddCb(s, c, a) ==
  IF a = NULL THEN s
  ELSE [s EXCEPT !.heap[a] = "live",
                 !.ent[a]  = [cb |-> c, enabled |-> TRUE],
                 !.list    = <<a>> \o @]

\* The results mm_malloc can give for a new entry.
MallocResults(s) ==
  {a \in Addrs : s.heap[a] = "fresh"}
    \cup (IF MallocFails \/ \A a \in Addrs : s.heap[a] # "fresh"
          THEN {NULL} ELSE {})

\* evbuffer_remove_cb_entry (buffer.c:1244-1250): TAILQ_REMOVE, mm_free.
RemoveCbEntry(s, a) ==
  [s EXCEPT !.list    = Remove(@, a),
            !.heap[a] = "freed"]

\* evbuffer_remove_cb (buffer.c:1252-1262): the first entry, from the head,
\* with this cb and cbarg; -1 and no change when there is none.
RemoveCb(s, c) ==
  LET i == SelectInSeq(s.list, LAMBDA x : s.ent[x].cb = c)
  IN  IF i = 0 THEN s ELSE RemoveCbEntry(s, s.list[i])

\* evbuffer_cb_set_flags (buffer.c:1264-1270): a plain store through `a`.
SetFlags(s, a, en) == [s EXCEPT !.ent[a].enabled = en]

\* evbuffer_invoke_callbacks (buffer.c:116-122) called with the size before
\* a change: nothing when the list is empty or the size did not change,
\* otherwise a loop starting at TAILQ_FIRST.  `after` is the caller's
\* continuation, run at once when no loop starts.
Invoke(s, old, after) ==
  IF s.list = <<>> \/ old = s.len
  THEN IF after = NULL THEN s ELSE SetFlags(s, after, TRUE)
  ELSE [s EXCEPT !.muts  = @ + 1,
                 !.stack = Append(@, [pos |-> Head(s.list), old |-> old,
                                      new |-> s.len, stamp |-> s.muts + 1,
                                      after |-> after])]

\* A ChainBuffer operation that sets total_len to n and then notifies.
Mutate(s, n, after) == Invoke([s EXCEPT !.len = n], s.len, after)

\* A nested or top-level change is possible while the bounds allow it.
CanMutate(s) == Len(s.stack) < MaxDepth /\ s.muts < MaxMuts

\* be_filter_process_output (bufferevent_filter.c:279-353) as seen by the
\* registry: disable outbuf_cb, let the filter drain the output to n bytes
\* (evbuffer_remove_buffer notifies), re-enable outbuf_cb on the way out.
FilterPump(s, n) == Mutate(SetFlags(s, FAddr, FALSE), n, FAddr)

\* Variant: the drain is not clamped to what the buffer holds.
PumpTargetsUnclamped(s) ==
  IF CanMutate(s) THEN {s.len - k : k \in 1..MaxLen} ELSE {}

\* The lengths a pump may drain the output to: at least one byte moves.
PumpTargets(s) == IF CanMutate(s) THEN 0..(s.len - 1) ELSE {}

\* What one enabled user callback `e` may do during its call.
UserCall(s, e, r) ==
  LET c == s.ent[e].cb IN
  CASE r = "none"         -> {s}
    [] r = "remove_self"  -> {RemoveCb(s, c)}
    [] r = "disable_self" -> {SetFlags(s, e, FALSE)}
    [] r = "add"          -> {AddCb(s, u, a) : u \in UserCbs,
                                               a \in MallocResults(s)}
    [] r = "remove_other" -> {RemoveCbEntry(s, o) : o \in Live(s) \ {e}}
    [] r = "write"        -> IF CanMutate(s)
                             THEN {Mutate(s, n, NULL) : n \in (0..MaxLen) \ {s.len}}
                             ELSE {s}  \* past the bounds the write is not explored

\* bufferevent_filtered_outbuf_cb (bufferevent_filter.c:357-367): pump only
\* when bytes were added; the pump itself may return at once when writing is
\* disabled or the underlying output is full (lines 295-298).
FilterCall(s, f) ==
  IF f.new > f.old
  THEN {s} \cup {FilterPump(s, n) : n \in PumpTargets(s)}
  ELSE {s}

\* The outcomes of calling entry e of frame f, once f has moved on.
Call(s, e, f) ==
  IF s.ent[e].cb = FCb THEN FilterCall(s, f)
  ELSE UNION {UserCall(s, e, r) : r \in Reactions[s.ent[e].cb]}

-----------------------------------------------------------------------------
(* Steps of the dispatch loop.                                             *)

\* Variant: the loop reads TAILQ_NEXT(cbent) after the call returns.
InvokeStepLateNext ==
  /\ st.stack # <<>>
  /\ LET f == Last(st.stack)
         e == f.pos
         i == Len(st.stack)
     IN  /\ e # NULL
         /\ st.heap[e] = "live"
         /\ IF st.ent[e].enabled
            THEN \E s3 \in Call([st EXCEPT !.obs[e] = f.stamp], e, f) :
                   st' = [s3 EXCEPT !.stack[i].pos =
                            IF s3.heap[e] = "live" THEN Succ(s3, e) ELSE e]
            ELSE st' = [st EXCEPT !.stack[i].pos = Succ(st, e)]

\* One iteration of the loop of evbuffer_invoke_callbacks (lines 124-132):
\* next = TAILQ_NEXT(cbent) is read first, then an enabled entry is called.
InvokeStep ==
  /\ st.stack # <<>>
  /\ LET f == Last(st.stack)
         e == f.pos
     IN  /\ e # NULL
         /\ st.heap[e] = "live"
         /\ LET s1 == [st EXCEPT !.stack[Len(st.stack)].pos = Succ(st, e)]
                s2 == [s1 EXCEPT !.obs[e] = f.stamp]
            IN  IF st.ent[e].enabled
                THEN \E s3 \in Call(s2, e, f) : st' = s3
                ELSE st' = s1

\* The loop reaches TAILQ_END and returns to whoever made the change.
InvokeReturn ==
  /\ st.stack # <<>>
  /\ LET f == Last(st.stack) IN
     /\ f.pos = NULL
     /\ LET s1 == [st EXCEPT !.stack = Front(@)]
        IN  st' = IF f.after = NULL THEN s1 ELSE SetFlags(s1, f.after, TRUE)

-----------------------------------------------------------------------------
(* Calls made from the reactor loop, outside any dispatch.                 *)

Idle == st.stack = <<>>

\* The user registers a callback on the filter's output buffer.
UserAddCb(c) == Idle /\ \E a \in MallocResults(st) : st' = AddCb(st, c, a)

\* evbuffer_remove_cb with one of the user's (cb, cbarg) pairs.
UserRemoveCb(c) == Idle /\ st' = RemoveCb(st, c)

\* evbuffer_remove_cb_entry with an entry add_cb gave the user.
UserRemoveCbEntry(a) == Idle /\ st' = RemoveCbEntry(st, a)

\* evbuffer_cb_set_flags on one of the user's entries.
UserSetFlags(a, en) == Idle /\ st' = SetFlags(st, a, en)

\* bufferevent_write / evbuffer_drain and the like on the output buffer.
UserWrite(n) ==
  /\ Idle /\ CanMutate(st) /\ n # st.len
  /\ st' = Mutate(st, n, NULL)

\* be_filter_process_output run from be_filter_writecb or be_filter_flush.
FilterPumpOut(n) == Idle /\ n \in PumpTargets(st) /\ st' = FilterPump(st, n)

Next ==
  \/ InvokeStep
  \/ InvokeReturn
  \/ \E c \in UserCbs : UserAddCb(c) \/ UserRemoveCb(c)
  \/ \E a \in UserEntries(st) : UserRemoveCbEntry(a)
                                \/ \E en \in BOOLEAN : UserSetFlags(a, en)
  \/ \E n \in 0..MaxLen : UserWrite(n) \/ FilterPumpOut(n)

Spec == Init /\ [][Next]_vars

-----------------------------------------------------------------------------
(* Properties.                                                             *)

\* Every field of the registry state has its type.
TypeOK ==
  /\ st.list \in Seq(Addrs)
  /\ st.heap \in [Addrs -> {"fresh", "live", "freed"}]
  /\ st.ent \in [Addrs -> [cb: Cbs, enabled: BOOLEAN]]
  /\ st.len \in 0..MaxLen
  /\ st.stack \in Seq(Frame)
  /\ st.obs \in [Addrs -> 0..MaxMuts]
  /\ st.muts \in 0..MaxMuts

\* No pointer an active dispatch still holds points into freed memory: the
\* `next` captured by each invoke_callbacks loop (buffer.c:128), and the
\* filter's outbuf_cb that its pump re-enables on exit (filter.c:349), are
\* live entries.  Removing an entry from inside a callback is safe only when
\* no outer loop has captured it.
NoUseAfterFree ==
  \A i \in DOMAIN st.stack :
    /\ st.stack[i].pos \in Live(st) \cup {NULL}
    /\ st.stack[i].after \in Live(st) \cup {NULL}

\* Every entry is told about the length changes in the order they happened:
\* a callback is never handed an (old, new) pair older than one it has
\* already seen, even when a callback changes the buffer while the outer
\* dispatch is still running.
InOrderDelivery ==
  [][\A a \in Addrs : st'.obs[a] # st.obs[a] => st'.obs[a] > st.obs[a]]_vars
=============================================================================
