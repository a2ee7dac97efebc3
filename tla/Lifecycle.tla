------------------------------ MODULE Lifecycle ------------------------------
(***************************************************************************)
(* The lifetime of socket and filter bufferevents: bufferevent_new and     *)
(* bufferevent_filter_new, bufferevent_free with the two destructors       *)
(* (be_socket_destruct, be_filter_destruct), setfd, setcb, enable and      *)
(* disable through both transports, and the reactor dispatching the        *)
(* socket events into the socket's callbacks, which for a filter's         *)
(* underlying socket are be_filter_readcb/writecb/errorcb with the filter  *)
(* as argument.  Bytes are abstracted away: whether a pump moves bytes,    *)
(* and whether a write empties the output, are free choices.               *)
(*                                                                         *)
(* What is kept is who points at whom: the events the reactor holds        *)
(* pending for a socket, the object its callbacks are bound to, and, while *)
(* a user callback runs, the bufferevents the C frames below it still      *)
(* dereference once it returns.  The client may call the API, bufferevent_ *)
(* free included, from inside its callbacks.                               *)
(***************************************************************************)
EXTENDS FiniteSets

CONSTANTS
  Socks,        \* socket bufferevents
  Filts,        \* filter bufferevents
  NULL,
  CloseOnFree,  \* the BEV_OPT_CLOSE_ON_FREE settings the client passes
  FreeOwnIn     \* user callbacks of a bufferevent inside which the client
                \* frees that same bufferevent: subset of {"read","write","error"}

ASSUME /\ Socks \cap Filts = {} /\ NULL \notin Socks \cup Filts
       /\ CloseOnFree \subseteq BOOLEAN
       /\ FreeOwnIn \subseteq {"read", "write", "error"}

READ == "READ"
WRITE == "WRITE"
Events == {READ, WRITE}
Bevs == Socks \cup Filts
USER == "user"    \* a socket whose callbacks are the client's own

VARIABLES
  heap,      \* each bufferevent: "fresh" (not allocated), "live", "freed"
  under,     \* bufferevent_filtered.underlying
  close,     \* BEV_OPT_CLOSE_ON_FREE in the filter's options
  cbs,       \* a socket's readcb/writecb/errorcb: the client's, or a filter's
  enabled,   \* bufev->enabled
  pending,   \* event_pending(&ev_read), event_pending(&ev_write) of a socket
  cb         \* the user callback running, and what is used when it returns

vars == <<heap, under, close, cbs, enabled, pending, cb>>

\* No user callback is running: the client is at top level.
NoCb == [bev |-> NULL, kind |-> "none", resume |-> {}]

Live == {b \in Bevs : heap[b] = "live"}

\* The sockets a live filter wraps; the client leaves those to the filter.
Wrapped == {under[f] : f \in Filts \cap Live}

Init ==
  /\ heap = [b \in Bevs |-> "fresh"]
  /\ under = [f \in Filts |-> NULL]
  /\ close = [f \in Filts |-> FALSE]
  /\ cbs = [s \in Socks |-> USER]
  /\ enabled = [b \in Bevs |-> {}]
  /\ pending = [s \in Socks |-> {}]
  /\ cb = NoCb

-----------------------------------------------------------------------------
(* Fragments.                                                              *)

\* The socket that bufferevent_enable/disable reach: be_filter_enable and
\* be_filter_disable forward to bevf->underlying.
Transport(b) == IF b \in Socks THEN b ELSE under[b]

\* Variant: the destructor ignores BEV_OPT_CLOSE_ON_FREE.
FreeSetNoClose(b) == {b}

\* What bufferevent_free(b) releases: b itself and, through
\* be_filter_destruct with BEV_OPT_CLOSE_ON_FREE, the underlying socket.
FreeSet(b) == IF b \in Filts /\ close[b] THEN {b, under[b]} ELSE {b}

\* Calling the user callback `kind` of b from a C frame that still uses the
\* bufferevents in `resume` after the callback returns.
CallUser(b, kind, resume) == cb' = [bev |-> b, kind |-> kind, resume |-> resume]

\* The callback a socket's handler calls: the client's on the socket, or
\* be_filter_readcb/errorcb, which call the filter's user callback last.
Deliver(s, kind) ==
  IF cbs[s] = USER THEN CallUser(s, kind, {}) ELSE CallUser(cbs[s], kind, {})

\* be_socket_destruct on each socket in S: event_del of ev_read and ev_write.
Destructed(P, S) == [s \in Socks |-> IF s \in S THEN {} ELSE P[s]]

\* bufferevent_socket_outbuf_cb, from the pending events P: bytes added to
\* a socket's output arm ev_write when WRITE is enabled.
Armed(P, s) ==
  IF WRITE \in enabled[s] THEN [P EXCEPT ![s] = @ \cup {WRITE}] ELSE P

\* be_filter_process_output on filter f, from the pending events P: it may
\* move bytes into the underlying output (arming its ev_write), and it may
\* call the user write callback (after any BEV_OK), after which it reads
\* bufev->enabled and bufev->output and re-enables outbuf_cb: the filter is
\* used after the callback returns.  The early return of BEV_NORMAL is the
\* case that moves nothing and calls nothing.
ProcessOutput(f, P) ==
  \E moved, called \in BOOLEAN :
    /\ pending' = IF moved THEN Armed(P, under[f]) ELSE P
    /\ IF called THEN CallUser(f, "write", {f}) ELSE UNCHANGED cb

-----------------------------------------------------------------------------
(* The client's calls.  Creation and writes happen at top level; free,     *)
(* setfd, setcb, enable and disable also from inside a user callback.      *)

\* bufferevent_init_common: the buffers are allocated and enabled is
\* EV_WRITE (its allocation failures return before any state is kept).
InitCommon(b) ==
  /\ heap' = [heap EXCEPT ![b] = "live"]
  /\ enabled' = [enabled EXCEPT ![b] = {WRITE}]

\* bufferevent_new: bufferevent_socket_new (bufferevent_init_common sets
\* enabled = EV_WRITE), then bufferevent_setcb with the client's callbacks.
BufferEventNew(s) ==
  /\ cb = NoCb /\ heap[s] = "fresh"
  /\ InitCommon(s)
  /\ cbs' = [cbs EXCEPT ![s] = USER]
  /\ UNCHANGED <<under, close, pending, cb>>

\* Variant: bufev_f->underlying is not stored.
FilterNewNoUnder(f, s, c) ==
  /\ cb = NoCb /\ heap[f] = "fresh" /\ heap[s] = "live" /\ s \notin Wrapped
  /\ InitCommon(f)
  /\ close' = [close EXCEPT ![f] = c]
  /\ cbs' = [cbs EXCEPT ![s] = f]
  /\ UNCHANGED <<under, pending, cb>>

\* bufferevent_filter_new over a socket the client owns: the filter takes
\* the socket's callbacks with itself as their argument.
FilterNew(f, s, c) ==
  /\ cb = NoCb /\ heap[f] = "fresh" /\ heap[s] = "live" /\ s \notin Wrapped
  /\ InitCommon(f)
  /\ under' = [under EXCEPT ![f] = s]
  /\ close' = [close EXCEPT ![f] = c]
  /\ cbs' = [cbs EXCEPT ![s] = f]
  /\ UNCHANGED <<pending, cb>>

\* bufferevent_setcb on a socket the client owns again.
SetCb(s) ==
  /\ heap[s] = "live" /\ s \notin Wrapped
  /\ cbs' = [cbs EXCEPT ![s] = USER]
  /\ UNCHANGED <<heap, under, close, enabled, pending, cb>>

\* bufferevent_enable with be_socket_enable or be_filter_enable (no
\* watermark is set, so read_suspended stays 0).
Enable(b, e) ==
  /\ heap[b] = "live"
  /\ enabled' = [x \in Bevs |-> IF x \in {b, Transport(b)} THEN enabled[x] \cup {e}
                                ELSE enabled[x]]
  /\ pending' = [pending EXCEPT ![Transport(b)] = @ \cup {e}]
  /\ UNCHANGED <<heap, under, close, cbs, cb>>

\* bufferevent_disable with be_socket_disable or be_filter_disable.
Disable(b, e) ==
  /\ heap[b] = "live"
  /\ enabled' = [x \in Bevs |-> IF x \in {b, Transport(b)} THEN enabled[x] \ {e}
                                ELSE enabled[x]]
  /\ pending' = [pending EXCEPT ![Transport(b)] = @ \ {e}]
  /\ UNCHANGED <<heap, under, close, cbs, cb>>

\* bufferevent_setfd: both events are deleted and re-assigned, not added.
SetFd(s) ==
  /\ heap[s] = "live"
  /\ pending' = [pending EXCEPT ![s] = {}]
  /\ UNCHANGED <<heap, under, close, cbs, enabled, cb>>

\* bufferevent_free: the destructor (event_del of both events for a socket;
\* for a filter, free_context and, with CLOSE_ON_FREE, bufferevent_free of
\* the underlying socket), then both evbuffers and the object.  The client
\* frees a bufferevent inside one of its own callbacks only for the kinds
\* in FreeOwnIn, and never a socket a live filter wraps.
BufferEventFree(b) ==
  /\ heap[b] = "live" /\ b \notin Wrapped
  /\ b = cb.bev => cb.kind \in FreeOwnIn
  /\ heap' = [x \in Bevs |-> IF x \in FreeSet(b) THEN "freed" ELSE heap[x]]
  /\ pending' = Destructed(pending, FreeSet(b))
  /\ UNCHANGED <<under, close, cbs, enabled, cb>>

\* bufferevent_write: evbuffer_add runs the output's callback, the socket's
\* outbuf_cb or the filter's bufferevent_filtered_outbuf_cb.
Write(b) ==
  /\ cb = NoCb /\ heap[b] = "live"
  /\ IF b \in Socks THEN pending' = Armed(pending, b) /\ UNCHANGED cb
     ELSE ProcessOutput(b, pending)
  /\ UNCHANGED <<heap, under, close, cbs, enabled>>

\* bufferevent_flush on a filter: be_filter_flush pumps (without the
\* enabled test in flush modes), then calls bufferevent_flush on
\* bevf->underlying, so the filter is used after the write callback too.
Flush(f) ==
  /\ cb = NoCb /\ heap[f] = "live"
  /\ ProcessOutput(f, pending)
  /\ UNCHANGED <<heap, under, close, cbs, enabled>>

-----------------------------------------------------------------------------
(* The reactor: one socket event dispatched at top level.                  *)

\* bufferevent_readcb: data (readcb last), a retriable error (nothing), or
\* EOF, a fatal error or a timeout (event_del of ev_read, errorcb last).
\* be_filter_readcb calls the user read callback only after a pump that
\* moved bytes.
ReadReady(s) ==
  /\ cb = NoCb /\ READ \in pending[s]
  /\ \/ /\ \/ Deliver(s, "read")
           \/ cbs[s] # USER /\ UNCHANGED cb
        /\ UNCHANGED pending
     \/ UNCHANGED <<pending, cb>>
     \/ /\ pending' = [pending EXCEPT ![s] = @ \ {READ}]
        /\ Deliver(s, "error")
  /\ UNCHANGED <<heap, under, close, cbs, enabled>>

\* bufferevent_writecb: the output is emptied (event_del of ev_write, then
\* writecb), partly written or retried (nothing), or an error, EOF or
\* timeout (event_del, errorcb).  For a filter's socket writecb is
\* be_filter_writecb, which runs be_filter_process_output.
WriteReady(s) ==
  /\ cb = NoCb /\ WRITE \in pending[s]
  /\ \/ LET P == [pending EXCEPT ![s] = @ \ {WRITE}] IN
        IF cbs[s] = USER THEN pending' = P /\ CallUser(s, "write", {})
        ELSE ProcessOutput(cbs[s], P)
     \/ UNCHANGED <<pending, cb>>
     \/ /\ pending' = [pending EXCEPT ![s] = @ \ {WRITE}]
        /\ Deliver(s, "error")
  /\ UNCHANGED <<heap, under, close, cbs, enabled>>

\* The user callback returns; the C frames below it resume.
CallbackReturn ==
  /\ cb # NoCb
  /\ cb' = NoCb
  /\ UNCHANGED <<heap, under, close, cbs, enabled, pending>>

Next ==
  \/ \E s \in Socks : BufferEventNew(s) \/ SetCb(s) \/ SetFd(s)
                      \/ ReadReady(s) \/ WriteReady(s)
  \/ \E f \in Filts, s \in Socks, c \in CloseOnFree : FilterNew(f, s, c)
  \/ \E b \in Bevs, e \in Events : Enable(b, e) \/ Disable(b, e)
  \/ \E b \in Bevs : BufferEventFree(b) \/ Write(b)
  \/ \E f \in Filts : Flush(f)
  \/ CallbackReturn

Spec == Init /\ [][Next]_vars

-----------------------------------------------------------------------------
(* Properties.                                                             *)

\* The variables have their types, and an allocated filter has a socket.
TypeOK ==
  /\ heap \in [Bevs -> {"fresh", "live", "freed"}]
  /\ under \in [Filts -> Socks \cup {NULL}]
  /\ \A f \in Filts : heap[f] # "fresh" => under[f] \in Socks
  /\ close \in [Filts -> BOOLEAN]
  /\ cbs \in [Socks -> Filts \cup {USER}]
  /\ enabled \in [Bevs -> SUBSET Events]
  /\ pending \in [Socks -> SUBSET Events]
  /\ cb.bev \in Bevs \cup {NULL} /\ cb.resume \subseteq Bevs

\* The reactor never holds an event that would run code on freed memory:
\* a socket with a pending ev_read or ev_write is allocated, and so is the
\* filter its callbacks are bound to (be_filter_readcb and the others
\* dereference it first thing).
NoDanglingDispatch ==
  \A s \in Socks :
    pending[s] # {} =>
      /\ heap[s] = "live"
      /\ cbs[s] \in Filts => heap[cbs[s]] = "live"

\* Whatever the client frees from inside a user callback, the bufferevents
\* that the C frames suspended below that callback dereference after it
\* returns (be_filter_process_output and be_filter_flush use the filter
\* again) are still allocated.
NoUseAfterReturn == cb.resume \subseteq Live
=============================================================================
