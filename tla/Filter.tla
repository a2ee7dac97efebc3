-------------------------------- MODULE Filter --------------------------------
(***************************************************************************)
(* A filtering bufferevent (bufferevent_filter.c) stacked on a socket     *)
(* bufferevent (bufferevent_sock.c), both driven by the generic code of    *)
(* bufferevent.c.  Buffers are reduced to their lengths.  The filter       *)
(* functions move bytes between the two stacks: process_in from the       *)
(* underlying input to the filter input, process_out from the filter      *)
(* output to the underlying output.                                        *)
(*                                                                         *)
(* One reactor dispatch or one user call runs a chain of callbacks         *)
(* (socket readcb -> be_filter_readcb -> process_input -> input watermark  *)
(* callback -> bufferevent_disable(underlying) ...) to completion, so each *)
(* step is a state transformer: an operator from the record st to the      *)
(* record after the whole chain.  The user's write callback may call the   *)
(* API again (write, flush); what it calls in a step is the sequence       *)
(* st.script, chosen when the step starts and consumed by the first write  *)
(* callback that runs.                                                     *)
(***************************************************************************)
EXTENDS Integers, Sequences, FiniteSets

CONSTANTS
  MaxBytes,       \* bound on the bytes the user writes and the peer sends
  Chunks,         \* lengths passed to bufferevent_write/read, sent by the peer
  Marks,          \* read high watermarks the user sets on the filter (0 = none)
  UWriteHigh,     \* underlying->wm_write.high, set before the filter is made
  FilterKind,     \* "null": be_null_filter; "identity": a user filter that
                  \* copies what the limit allows and returns BEV_OK
  WritecbScripts, \* sequences of "write" / "flush" the user write callback runs
  Faults,         \* subset of {"eof", "error"}: what the socket may report
  Ops             \* the API functions the client calls on the filter

ASSUME FilterKind \in {"null", "identity"}

READ == "READ"
WRITE == "WRITE"
Events == {READ, WRITE}
OK == "BEV_OK"
ERROR == "BEV_ERROR"
NORMAL == "BEV_NORMAL"
Modes == {NORMAL, "BEV_FLUSH", "BEV_FINISHED"}

VARIABLE st

Least(a, b) == IF a < b THEN a ELSE b

\* bufferevent_socket_new, then bufferevent_filter_new on it: four empty
\* buffers, both enabled sets EV_WRITE (bufferevent_init_common), nothing
\* pending, no read watermark, the filter's outbuf_cb added enabled.
Init ==
  st = [uin |-> 0, uout |-> 0,              \* underlying->input / output
        uen |-> {WRITE},                    \* underlying->enabled
        uevr |-> FALSE, uevw |-> FALSE,     \* underlying ev_read / ev_write
        fin |-> 0, fout |-> 0,              \* filter input / output
        fen |-> {WRITE},                    \* filter enabled
        fsusp |-> FALSE,                    \* filter read_suspended
        fhigh |-> 0,                        \* filter wm_read.high
        fwmcb |-> "none",                   \* filter read_watermarks_cb
        outcb |-> TRUE,                     \* bevf->outbuf_cb is ENABLED
        sock_in |-> 0, sock_eof |-> FALSE, peer_sent |-> 0,
        written |-> 0, sent |-> 0,
        werr |-> FALSE,     \* ghost: write error reported, ev_write not re-armed
        pumped |-> 0,       \* ghost: bytes be_filter_readcb moved in this step
        readcb |-> FALSE,   \* ghost: the user read callback ran in this step
        depth |-> 0,        \* ghost: be_filter_process_output activations
        nested |-> FALSE,   \* ghost: outbuf_cb pumped inside a running pump
        script |-> <<>>]    \* what the user write callback calls in this step

---------------------------------------------------------------------------
(* bufferevent.c and bufferevent_sock.c on the underlying socket.  It has *)
(* no read watermark, so it is never read_suspended and impl_events of     *)
(* bufferevent_enable is the event itself.                                 *)

\* bufferevent_enable(underlying, ev) with be_socket_enable: event_add.
UEnable(s, ev) ==
  [s EXCEPT !.uen = @ \cup ev,
            !.uevr = @ \/ READ \in ev,
            !.uevw = @ \/ WRITE \in ev,
            !.werr = @ /\ WRITE \notin ev]

\* bufferevent_disable(underlying, ev) with be_socket_disable: event_del.
UDisable(s, ev) ==
  [s EXCEPT !.uen = @ \ ev,
            !.uevr = @ /\ READ \notin ev,
            !.uevw = @ /\ WRITE \notin ev]

\* bufferevent_socket_outbuf_cb after underlying->output grew from old.
UOutbufCb(s, old) ==
  IF s.uout > old /\ WRITE \in s.uen /\ ~s.uevw
  THEN [s EXCEPT !.uevw = TRUE, !.werr = FALSE]
  ELSE s

---------------------------------------------------------------------------
(* bufferevent.c on the filter: be_ops->enable / disable are               *)
(* be_filter_enable / be_filter_disable, which call bufferevent_enable /   *)
(* bufferevent_disable on the underlying bufferevent.                       *)

\* Variant: READ is not masked while the filter is read_suspended.
FEnableNoMask(s, ev) == UEnable([s EXCEPT !.fen = @ \cup ev], ev)

\* bufferevent_enable(filter, ev): masks READ while read_suspended.
FEnable(s, ev) ==
  LET impl == IF s.fsusp THEN ev \ {READ} ELSE ev
  IN UEnable([s EXCEPT !.fen = @ \cup ev], impl)

\* bufferevent_disable(filter, ev).
FDisable(s, ev) == UDisable([s EXCEPT !.fen = @ \ ev], ev)

\* bufferevent_wm_suspend_read on the filter.
FSuspend(s) ==
  IF ~s.fsusp THEN [UDisable(s, {READ}) EXCEPT !.fsusp = TRUE] ELSE s

\* bufferevent_wm_unsuspend_read on the filter.
FUnsuspend(s) ==
  IF s.fsusp
  THEN [(IF READ \in s.fen THEN UEnable(s, {READ}) ELSE s)
          EXCEPT !.fsusp = FALSE]
  ELSE s

\* bufferevent_inbuf_wm_cb on the filter input, which changed from old.
FInbufWmCb(s, old) ==
  IF s.fwmcb = "enabled" /\ s.fin # old
  THEN IF s.fin > old
       THEN IF s.fin >= s.fhigh THEN FSuspend(s) ELSE s
       ELSE IF s.fin < s.fhigh THEN FUnsuspend(s) ELSE s
  ELSE s

---------------------------------------------------------------------------
(* The filter functions and the two pumps of bufferevent_filter.c.         *)

\* be_readbuf_full and be_underlying_writebuf_full.
ReadbufFull(s, mode) == mode = NORMAL /\ s.fhigh # 0 /\ s.fin >= s.fhigh
UnderlyingFull(s, mode) == mode = NORMAL /\ UWriteHigh # 0 /\ s.uout >= UWriteHigh

\* The bytes a filter call moves out of avail with the given limit.  A
\* limit of -1 becomes SIZE_MAX as evbuffer_remove_buffer's size_t datlen.
Moved(avail, limit) == IF limit < 0 THEN avail ELSE Least(limit, avail)

\* The filter's verdict on a call that moved n bytes.  be_null_filter
\* returns BEV_OK iff evbuffer_remove_buffer returned 0, and that function
\* returns nread, the bytes it moved; the identity filter always says OK.
Verdict(n) == IF FilterKind = "null" /\ n # 0 THEN ERROR ELSE OK

\* One call of process_in(underlying->input, bev->input, limit): the move
\* runs the callbacks of the input buffer it added to.
InCall(s, limit) ==
  LET n == Moved(s.uin, limit)
  IN [s |-> FInbufWmCb([s EXCEPT !.uin = @ - n, !.fin = @ + n], s.fin),
      res |-> Verdict(n)]

\* One call of process_out(bev->output, underlying->output, limit).  The
\* filter's outbuf_cb sees only n_deleted on its own buffer; the socket's
\* outbuf_cb sees the bytes added to the underlying output.
OutCall(s, limit) ==
  LET n == Moved(s.fout, limit)
  IN [s |-> UOutbufCb([s EXCEPT !.fout = @ - n, !.uout = @ + n], s.uout),
      res |-> Verdict(n)]

\* Every loop below moves a byte or stops; fuel only makes that visible.
Fuel == MaxBytes + 1

\* The do-while loop of be_filter_process_input.
RECURSIVE PumpIn(_, _, _)
PumpIn(s, mode, fuel) ==
  LET limit == IF mode = NORMAL /\ s.fhigh # 0 THEN s.fhigh - s.fin ELSE -1
      r == InCall(s, limit)
      more == /\ r.res = OK
              /\ READ \in r.s.fen
              /\ r.s.uin > 0
              /\ ~ReadbufFull(r.s, mode)
  IN IF more /\ fuel > 0
     THEN [PumpIn(r.s, mode, fuel - 1) EXCEPT !.processed = TRUE]
     ELSE [s |-> r.s, res |-> r.res, processed |-> r.res = OK]

\* be_filter_process_input, with *processed_out as the field processed.
ProcessInput(s, mode) ==
  IF mode = NORMAL /\ (READ \notin s.fen \/ ReadbufFull(s, mode))
  THEN [s |-> s, res |-> OK, processed |-> FALSE]
  ELSE PumpIn(s, mode, Fuel)

\* The inner do-while loop of be_filter_process_output.
RECURSIVE PumpOut(_, _, _)
PumpOut(s, mode, fuel) ==
  LET limit == IF mode = NORMAL /\ UWriteHigh # 0 THEN UWriteHigh - s.uout
               ELSE -1
      r == OutCall(s, limit)
      more == /\ r.res = OK
              /\ WRITE \in r.s.fen
              /\ r.s.fout > 0
              /\ ~UnderlyingFull(r.s, mode)
  IN IF more /\ fuel > 0
     THEN [PumpOut(r.s, mode, fuel - 1) EXCEPT !.processed = TRUE]
     ELSE [s |-> r.s, res |-> r.res, processed |-> r.res = OK]

\* The pump and what the user's callbacks call back into, defined together:
\* the write callback may write (reaching bufferevent_filtered_outbuf_cb)
\* or flush (reaching be_filter_flush), both of which pump again.
RECURSIVE ProcessOutput(_, _), OutRounds(_, _, _), RunScript(_, _),
          UserWrite(_, _)

\* bufferevent_write(filter, k): evbuffer_add on the filter output runs
\* bufferevent_filtered_outbuf_cb if its entry is ENABLED; n_added > 0 makes
\* it call be_filter_process_output(NORMAL).  The bytes are capped by
\* MaxBytes: a write past the bound is not made.
UserWrite(s, k) ==
  IF s.written + k > MaxBytes THEN s
  ELSE LET s1 == [s EXCEPT !.fout = @ + k, !.written = @ + k]
       IN IF s1.outcb
          THEN ProcessOutput([s1 EXCEPT !.nested = @ \/ s1.depth > 0], NORMAL)
          ELSE s1

\* The user write callback: it runs the calls of the step's script once.
RunScript(s, calls) ==
  IF calls = <<>> THEN s
  ELSE RunScript(IF Head(calls) = "write"
                 THEN UserWrite(s, 1)
                 ELSE ProcessOutput(s, "BEV_FLUSH"),
                 Tail(calls))

Writecb(s) == RunScript([s EXCEPT !.script = <<>>], s.script)

\* The outer do-while (again) loop: pump, call the user write callback if
\* the pump made progress and the output is at or under wm_write.low (0),
\* and go again if the callback left data that can still be pushed.
OutRounds(s, mode, fuel) ==
  LET p == PumpOut(s, mode, Fuel)
      callcb == p.processed /\ p.s.fout <= 0
      t == IF callcb THEN Writecb(p.s) ELSE p.s
      again == /\ callcb
               /\ p.res = OK
               /\ WRITE \in t.fen
               /\ t.fout > 0
               /\ ~UnderlyingFull(t, mode)
  IN IF again /\ fuel > 0 THEN OutRounds(t, mode, fuel - 1) ELSE t

\* Variant: the outbuf_cb entry is left enabled while the pump runs.
ProcessOutputKeepCb(s, mode) ==
  IF mode = NORMAL /\ (WRITE \notin s.fen \/ UnderlyingFull(s, mode)
                       \/ s.fout = 0)
  THEN s
  ELSE [OutRounds([s EXCEPT !.depth = @ + 1], mode, Fuel)
          EXCEPT !.outcb = TRUE, !.depth = @ - 1]

\* be_filter_process_output: the outbuf_cb entry is disabled while it runs
\* and set ENABLED again when it returns.
ProcessOutput(s, mode) ==
  IF mode = NORMAL /\ (WRITE \notin s.fen \/ UnderlyingFull(s, mode)
                       \/ s.fout = 0)
  THEN s
  ELSE LET s1 == [s EXCEPT !.outcb = FALSE, !.depth = @ + 1]
           s2 == OutRounds(s1, mode, Fuel)
       IN [s2 EXCEPT !.outcb = TRUE, !.depth = @ - 1]

\* be_filter_readcb.  got_eof is never assigned, so the mode is NORMAL;
\* the user read callback runs if the pump made progress and the input is
\* at or over wm_read.low (0).
BeFilterReadcb(s) ==
  LET p == ProcessInput(s, NORMAL)
  IN [p.s EXCEPT !.pumped = p.s.fin - s.fin,
                 !.readcb = p.processed /\ p.s.fin >= 0]

\* be_filter_flush(iotype, mode): process_input if EV_READ, then
\* process_output if EV_WRITE; bufferevent_flush on the underlying socket
\* reaches be_socket_flush, which does nothing.
BeFilterFlush(s, io, mode) ==
  LET s1 == IF READ \in io THEN ProcessInput(s, mode).s ELSE s
  IN IF WRITE \in io THEN ProcessOutput(s1, mode) ELSE s1

---------------------------------------------------------------------------
(* Steps.  Fresh starts a step: it clears the per-step ghosts and fixes    *)
(* what the user write callback will call; Settle drops what is left of   *)
(* that script when the chain has run.                                     *)

Fresh(s, sc) == [s EXCEPT !.pumped = 0, !.readcb = FALSE, !.script = sc]
Settle(s) == [s EXCEPT !.script = <<>>]

\* bufferevent_write / bufferevent_write_buffer on the filter.
FilterWrite ==
  /\ "write" \in Ops
  /\ \E k \in Chunks, sc \in WritecbScripts :
       /\ st.written + k <= MaxBytes
       /\ st' = Settle(UserWrite(Fresh(st, sc), k))

\* Variant: the removal is not clamped to the input length.
FilterReadUnclamped ==
  /\ "read" \in Ops
  /\ st.fin > 0
  /\ \E k \in Chunks \cup {st.fin} :
       LET s == Fresh(st, <<>>)
       IN st' = Settle(FInbufWmCb([s EXCEPT !.fin = @ - k], s.fin))

\* bufferevent_read / bufferevent_read_buffer on the filter: evbuffer_remove
\* runs the input callbacks when it removed something.
FilterRead ==
  /\ "read" \in Ops
  /\ st.fin > 0
  /\ \E k \in Chunks \cup {st.fin} :
       LET s == Fresh(st, <<>>)
       IN st' = Settle(FInbufWmCb([s EXCEPT !.fin = @ - Least(k, @)], s.fin))

\* bufferevent_enable / bufferevent_disable on the filter.
FilterEnable ==
  /\ "enable" \in Ops
  /\ \E ev \in {{READ}, {WRITE}} : st' = Settle(FEnable(Fresh(st, <<>>), ev))

FilterDisable ==
  /\ "disable" \in Ops
  /\ \E ev \in {{READ}, {WRITE}} : st' = Settle(FDisable(Fresh(st, <<>>), ev))

\* bufferevent_setwatermark(filter, EV_READ, 0, h).
FilterSetWatermark ==
  /\ "setwatermark" \in Ops
  /\ \E h \in Marks :
       LET s == [Fresh(st, <<>>) EXCEPT !.fhigh = h,
                   !.fwmcb = IF h # 0 THEN "enabled"
                             ELSE IF @ = "none" THEN "none" ELSE "disabled"]
       IN st' = Settle(CASE h # 0 /\ s.fin > h -> FSuspend(s)
                         [] h # 0 /\ s.fin = h -> s
                         [] OTHER              -> FUnsuspend(s))

\* bufferevent_flush(filter, iotype, mode) reaches be_filter_flush.
FilterFlush ==
  /\ "flush" \in Ops
  /\ \E io \in {{READ}, {WRITE}, Events}, mode \in Modes,
        sc \in WritecbScripts :
       st' = Settle(BeFilterFlush(Fresh(st, sc), io, mode))

---------------------------------------------------------------------------
(* The reactor dispatching the underlying socket's events, and the peer.  *)

\* bufferevent_readcb reads n bytes (no read watermark: howmuch = -1) and,
\* the input being at or over wm_read.low (0), calls be_filter_readcb.
UReadcbData ==
  /\ st.uevr
  /\ \E n \in 1..st.sock_in :
       st' = Settle(BeFilterReadcb([Fresh(st, <<>>) EXCEPT !.uin = @ + n,
                                                   !.sock_in = @ - n]))

\* bufferevent_readcb on EOF or a fatal error: event_del(&ev_read), then
\* be_filter_errorcb, which only calls the user's error callback.
UReadcbEof ==
  /\ st.uevr /\ st.sock_in = 0 /\ st.sock_eof
  /\ st' = Settle([Fresh(st, <<>>) EXCEPT !.uevr = FALSE])

UReadcbError ==
  /\ st.uevr /\ "error" \in Faults
  /\ st' = Settle([Fresh(st, <<>>) EXCEPT !.uevr = FALSE])

\* Variant: the write callback test compares with < wm_write.low.
UWritecbSendsStrictLow ==
  /\ st.uevw /\ st.uout > 0
  /\ \E n \in 1..st.uout, sc \in WritecbScripts :
       LET s == [Fresh(st, sc) EXCEPT !.uout = @ - n, !.sent = @ + n,
                                      !.uevw = st.uout - n > 0]
       IN st' = Settle(IF s.uout < 0 THEN ProcessOutput(s, NORMAL) ELSE s)

\* bufferevent_writecb writes n bytes; with the output empty it deletes
\* ev_write; the output being at or under wm_write.low (0), it calls
\* be_filter_writecb, which is be_filter_process_output(NORMAL).
UWritecbSends ==
  /\ st.uevw /\ st.uout > 0
  /\ \E n \in 1..st.uout, sc \in WritecbScripts :
       LET s == [Fresh(st, sc) EXCEPT !.uout = @ - n, !.sent = @ + n,
                                      !.uevw = st.uout - n > 0]
       IN st' = Settle(IF s.uout <= 0 THEN ProcessOutput(s, NORMAL) ELSE s)

\* bufferevent_writecb with nothing to write.
UWritecbIdle ==
  /\ st.uevw /\ st.uout = 0
  /\ \E sc \in WritecbScripts :
       st' = Settle(ProcessOutput([Fresh(st, sc) EXCEPT !.uevw = FALSE],
                                  NORMAL))

\* bufferevent_writecb when the write fails: event_del, be_filter_errorcb.
UWritecbError ==
  /\ st.uevw /\ st.uout > 0 /\ "error" \in Faults
  /\ st' = Settle([Fresh(st, <<>>) EXCEPT !.uevw = FALSE, !.werr = TRUE])

PeerSend ==
  /\ ~st.sock_eof
  /\ \E k \in Chunks :
       /\ st.peer_sent + k <= MaxBytes
       /\ st' = [Fresh(st, <<>>) EXCEPT !.sock_in = @ + k,
                                        !.peer_sent = @ + k]

PeerClose ==
  /\ "eof" \in Faults /\ ~st.sock_eof
  /\ st' = [Fresh(st, <<>>) EXCEPT !.sock_eof = TRUE]

Next ==
  \/ FilterWrite \/ FilterRead \/ FilterEnable \/ FilterDisable
  \/ FilterSetWatermark \/ FilterFlush
  \/ UReadcbData \/ UReadcbEof \/ UReadcbError
  \/ UWritecbSends \/ UWritecbIdle \/ UWritecbError
  \/ PeerSend \/ PeerClose

Spec == Init /\ [][Next]_st

\* The reactor dispatches every pending event whose descriptor is ready
\* (event_base_loop runs until no events are left), and the application
\* keeps reading its filter input.  The peer and the other user calls are
\* not assumed to happen.
FairSpec ==
  /\ Spec
  /\ WF_st(UReadcbData) /\ WF_st(UReadcbEof) /\ WF_st(UReadcbError)
  /\ WF_st(UWritecbSends) /\ WF_st(UWritecbIdle) /\ WF_st(UWritecbError)
  /\ WF_st(FilterRead)

---------------------------------------------------------------------------
(* Properties.                                                             *)

TypeOK ==
  /\ st.uin \in 0..MaxBytes /\ st.uout \in 0..MaxBytes
  /\ st.fin \in 0..MaxBytes /\ st.fout \in 0..MaxBytes
  /\ st.uen \subseteq Events /\ st.fen \subseteq Events
  /\ st.fhigh \in Marks \cup {0}
  /\ st.fwmcb \in {"none", "enabled", "disabled"}
  /\ st.sock_in \in 0..MaxBytes /\ st.peer_sent \in 0..MaxBytes
  /\ st.written \in 0..MaxBytes /\ st.sent \in 0..MaxBytes
  /\ st.pumped \in 0..MaxBytes /\ st.depth = 0 /\ st.script = <<>>
  /\ \A f \in {"uevr", "uevw", "fsusp", "outcb", "sock_eof", "werr",
               "readcb", "nested"} : st[f] \in BOOLEAN

\* The filter steers the socket only through bufferevent_enable/disable on
\* it (be_filter_enable/disable, including the watermark suspension), so
\* the socket reads exactly while the filter reads and is not suspended,
\* writes exactly while the filter writes, and ev_read is pending only
\* while READ is enabled on the socket.
UnderlyingFollowsFilter ==
  /\ (READ \in st.uen) <=> (READ \in st.fen /\ ~st.fsusp)
  /\ (WRITE \in st.uen) <=> (WRITE \in st.fen)
  /\ st.uevr => READ \in st.uen

\* Every dispatch of be_filter_readcb that moves bytes into the filter's
\* input also calls the user's read callback (spec 4.4: after any forward
\* progress, fire the user read callback); otherwise the application is
\* never told the bytes are there.
ReadcbAfterProgress == [][st'.pumped > 0 => st'.readcb]_st

\* be_filter_process_output disables the filter's outbuf_cb "that calls
\* this function when the user adds to the output buffer", so a write made
\* from the user's write callback never reaches the outbuf_cb's call of
\* the pump while the pump is running.
NoReentrantPump == ~st.nested

\* Bytes the user wrote to the filter eventually leave its output buffer,
\* unless writing is disabled or the socket reported a write error: the
\* underlying writecb pumps once the socket output has drained.
OutputDrains ==
  (st.fout > 0) ~> (st.fout = 0 \/ WRITE \notin st.fen \/ st.werr)

\* Bytes read from the socket eventually reach the filter's input while the
\* filter keeps reading and the application keeps consuming it.
NoStuckInput ==
  (st.uin > 0 /\ READ \in st.fen) ~> (st.uin = 0 \/ READ \notin st.fen)

====
