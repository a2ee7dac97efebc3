----------------------------- MODULE BufferEvent -----------------------------
(***************************************************************************)
(* A socket bufferevent: the base object of bufferevent.c driven by the    *)
(* socket transport of bufferevent_sock.c.  The two evbuffers are reduced  *)
(* to their lengths (ChainBuffer checks what happens inside them); what is *)
(* kept is the control: the enabled set, the watermark suspension, whether *)
(* the reactor holds ev_read / ev_write pending, the timeouts, and the     *)
(* change callbacks through which the buffers steer the transport.         *)
(*                                                                         *)
(* The library is single-threaded: every user call and every reactor      *)
(* dispatch (readcb, writecb, a timeout) is one atomic step.  User         *)
(* callbacks run last in a dispatch and change state only by calling the  *)
(* API, which is a later step of the model.  The peer at the other end of  *)
(* the socket sends bytes and may close; faults (EOF, fatal errors) are     *)
(* enabled per run.                                                        *)
(***************************************************************************)
EXTENDS Integers, FiniteSets

CONSTANTS
  MaxBytes,   \* bound on the bytes the user writes and the peer sends
  Chunks,     \* lengths passed to bufferevent_write/read and sent by the peer
  Marks,      \* high watermarks the user sets (0 = none)
  SizeBits,   \* width of size_t
  IntBits,    \* width of int
  Faults,     \* subset of {"eof", "error"}: what the socket may report
  Ops         \* the API functions the client calls

READ == "READ"
WRITE == "WRITE"
Events == {READ, WRITE}

VARIABLES
  input, output,        \* evbuffer_get_length of bufev->input / output
  enabled,              \* bufev->enabled
  read_suspended,       \* bufev->read_suspended
  wm_read_high,         \* bufev->wm_read.high
  wm_cb,                \* read_watermarks_cb: "none", "enabled", "disabled"
  ev_read, ev_write,    \* event_pending(&bufev->ev_read / ev_write)
  timeout_read,         \* bufev->timeout_read is nonzero
  timeout_write,        \* bufev->timeout_write is nonzero
  sock_in,              \* bytes the peer sent that are not read yet
  sock_eof,             \* the peer closed its end
  written, peer_sent,   \* bytes written by the user / sent by the peer
  readDetached,         \* ghost: a read error callback ran, READ not re-enabled
  writeDetached         \* ghost: a write error callback ran, not re-armed since

vars == <<input, output, enabled, read_suspended, wm_read_high, wm_cb,
          ev_read, ev_write, timeout_read, timeout_write, sock_in, sock_eof,
          written, peer_sent, readDetached, writeDetached>>

\* size_t arithmetic, and the conversion of a size_t to int (two's complement).
SizeOf(x) == x % (2 ^ SizeBits)
IntOf(x) == LET m == x % (2 ^ IntBits)
            IN IF m >= 2 ^ (IntBits - 1) THEN m - 2 ^ IntBits ELSE m

\* bufferevent_socket_new after bufferevent_init_common: empty buffers,
\* enabled = EV_WRITE, timeouts cleared, no watermark, nothing pending.
Init ==
  /\ input = 0 /\ output = 0
  /\ enabled = {WRITE}
  /\ read_suspended = FALSE
  /\ wm_read_high = 0
  /\ wm_cb = "none"
  /\ ev_read = FALSE /\ ev_write = FALSE
  /\ timeout_read = FALSE /\ timeout_write = FALSE
  /\ sock_in = 0 /\ sock_eof = FALSE
  /\ written = 0 /\ peer_sent = 0
  /\ readDetached = FALSE /\ writeDetached = FALSE

---------------------------------------------------------------------------
(* Fragments shared by several steps.  Each sets ev_read and              *)
(* read_suspended, the two variables the watermark code writes.           *)

\* bufferevent_wm_suspend_read: be_socket_disable(EV_READ) is event_del.
SuspendRead ==
  IF ~read_suspended
  THEN ev_read' = FALSE /\ read_suspended' = TRUE
  ELSE UNCHANGED <<ev_read, read_suspended>>

\* bufferevent_wm_unsuspend_read: be_socket_enable(EV_READ) is event_add.
UnsuspendRead ==
  IF read_suspended
  THEN /\ ev_read' = (ev_read \/ READ \in enabled)
       /\ read_suspended' = FALSE
  ELSE UNCHANGED <<ev_read, read_suspended>>

\* Variant: the added-bytes test of the input callback compares with > .
InbufWmCbStrict(old, new) ==
  IF wm_cb = "enabled" /\ old # new
  THEN IF new > old
       THEN IF new > wm_read_high THEN SuspendRead
            ELSE UNCHANGED <<ev_read, read_suspended>>
       ELSE IF new < wm_read_high THEN UnsuspendRead
            ELSE UNCHANGED <<ev_read, read_suspended>>
  ELSE UNCHANGED <<ev_read, read_suspended>>

\* evbuffer_invoke_callbacks on the input buffer, which changed from old to
\* new bytes, reaching bufferevent_inbuf_wm_cb when it is enabled.
InbufWmCb(old, new) ==
  IF wm_cb = "enabled" /\ old # new
  THEN IF new > old
       THEN IF new >= wm_read_high THEN SuspendRead
            ELSE UNCHANGED <<ev_read, read_suspended>>
       ELSE IF new < wm_read_high THEN UnsuspendRead
            ELSE UNCHANGED <<ev_read, read_suspended>>
  ELSE UNCHANGED <<ev_read, read_suspended>>

\* Variant: the outbuf callback tests n_deleted instead of n_added.
OutbufCbOnDelete(old, new) ==
  IF new < old /\ WRITE \in enabled /\ ~ev_write
  THEN ev_write' = TRUE /\ writeDetached' = FALSE
  ELSE UNCHANGED <<ev_write, writeDetached>>

\* bufferevent_socket_outbuf_cb, for output growing from old to new bytes:
\* bytes were added, WRITE is enabled and ev_write is not pending.
OutbufCb(old, new) ==
  IF new > old /\ WRITE \in enabled /\ ~ev_write
  THEN ev_write' = TRUE /\ writeDetached' = FALSE
  ELSE UNCHANGED <<ev_write, writeDetached>>

---------------------------------------------------------------------------
(* The client's calls (bufferevent.c).                                     *)

wmVars == <<read_suspended, wm_read_high, wm_cb>>
timeVars == <<timeout_read, timeout_write>>
sockVars == <<sock_in, sock_eof, peer_sent>>

\* bufferevent_write and bufferevent_write_buffer: evbuffer_add (or
\* evbuffer_add_buffer) on the output, whose callback is the outbuf_cb.
BufferEventWrite ==
  /\ "write" \in Ops
  /\ \E k \in Chunks :
       /\ written + k <= MaxBytes
       /\ output' = output + k
       /\ written' = written + k
       /\ OutbufCb(output, output + k)
  /\ UNCHANGED <<input, enabled, wmVars, ev_read, timeVars, sockVars,
                 readDetached>>

\* Variant: the removal is not clamped to the input length.
BufferEventReadUnclamped ==
  /\ "read" \in Ops
  /\ input > 0
  /\ \E k \in Chunks \cup {input} :
       /\ input' = input - k
       /\ InbufWmCb(input, input - k)
  /\ UNCHANGED <<output, enabled, wm_read_high, wm_cb, ev_write, timeVars,
                 sockVars, written, readDetached, writeDetached>>

\* bufferevent_read (evbuffer_remove of up to k bytes) and
\* bufferevent_read_buffer (all of the input); the input's callback runs.
BufferEventRead ==
  /\ "read" \in Ops
  /\ input > 0
  /\ \E k \in Chunks \cup {input} :
       LET n == IF k < input THEN k ELSE input
       IN /\ input' = input - n
          /\ InbufWmCb(input, input - n)
  /\ UNCHANGED <<output, enabled, wm_read_high, wm_cb, ev_write, timeVars,
                 sockVars, written, readDetached, writeDetached>>

\* Variant: enable passes READ to the transport even while suspended.
BufferEventEnableNoMask ==
  /\ "enable" \in Ops
  /\ \E ev \in SUBSET Events \ {{}} :
       /\ enabled' = enabled \cup ev
       /\ ev_read' = (ev_read \/ READ \in ev)
       /\ ev_write' = (ev_write \/ WRITE \in ev)
       /\ readDetached' = (readDetached /\ READ \notin ev)
       /\ writeDetached' = (writeDetached /\ WRITE \notin ev)
  /\ UNCHANGED <<input, output, wmVars, timeVars, sockVars, written>>

\* bufferevent_enable: READ is not passed to be_socket_enable while reading
\* is suspended; be_socket_enable event_adds what it is passed.
BufferEventEnable ==
  /\ "enable" \in Ops
  /\ \E ev \in SUBSET Events \ {{}} :
       LET impl == IF read_suspended THEN ev \ {READ} ELSE ev
       IN /\ enabled' = enabled \cup ev
          /\ ev_read' = (ev_read \/ READ \in impl)
          /\ ev_write' = (ev_write \/ WRITE \in impl)
          /\ readDetached' = (readDetached /\ READ \notin ev)
          /\ writeDetached' = (writeDetached /\ WRITE \notin ev)
  /\ UNCHANGED <<input, output, wmVars, timeVars, sockVars, written>>

\* bufferevent_disable, then be_socket_disable (event_del).
BufferEventDisable ==
  /\ "disable" \in Ops
  /\ \E ev \in SUBSET Events \ {{}} :
       /\ enabled' = enabled \ ev
       /\ ev_read' = (ev_read /\ READ \notin ev)
       /\ ev_write' = (ev_write /\ WRITE \notin ev)
  /\ UNCHANGED <<input, output, wmVars, timeVars, sockVars, written,
                 readDetached, writeDetached>>

\* Variant: clearing the high watermark does not unsuspend.
SetWatermarkNoUnsuspend ==
  /\ "setwatermark" \in Ops
  /\ \E high \in Marks :
       /\ wm_read_high' = high
       /\ IF high # 0
          THEN /\ wm_cb' = "enabled"
               /\ IF input > high THEN SuspendRead
                  ELSE IF input < high THEN UnsuspendRead
                  ELSE UNCHANGED <<ev_read, read_suspended>>
          ELSE /\ wm_cb' = IF wm_cb = "none" THEN "none" ELSE "disabled"
               /\ UNCHANGED <<ev_read, read_suspended>>
  /\ UNCHANGED <<input, output, enabled, ev_write, timeVars, sockVars,
                 written, readDetached, writeDetached>>

\* bufferevent_setwatermark(EV_READ, low, high).  The low marks and the
\* write marks only gate user callbacks, which change no state here.  A
\* nonzero high registers (once) and enables the input callback, then
\* suspends on length > high or unsuspends on length < high; high = 0
\* disables the callback and unsuspends.
SetWatermark ==
  /\ "setwatermark" \in Ops
  /\ \E high \in Marks :
       /\ wm_read_high' = high
       /\ IF high # 0
          THEN /\ wm_cb' = "enabled"
               /\ IF input > high THEN SuspendRead
                  ELSE IF input < high THEN UnsuspendRead
                  ELSE UNCHANGED <<ev_read, read_suspended>>
          ELSE /\ wm_cb' = IF wm_cb = "none" THEN "none" ELSE "disabled"
               /\ UnsuspendRead
  /\ UNCHANGED <<input, output, enabled, ev_write, timeVars, sockVars,
                 written, readDetached, writeDetached>>

\* bufferevent_set_timeouts / bufferevent_settimeout: a zero timeout clears
\* it; be_socket_adj_timeouts re-adds the pending events with the new
\* timeouts, which leaves them pending.
SetTimeouts ==
  /\ "settimeouts" \in Ops
  /\ \E tr, tw \in BOOLEAN :
       /\ timeout_read' = tr
       /\ timeout_write' = tw
  /\ UNCHANGED <<input, output, enabled, wmVars, ev_read, ev_write, sockVars,
                 written, readDetached, writeDetached>>

---------------------------------------------------------------------------
(* The reactor's dispatches (bufferevent_sock.c).  A pending event fires  *)
(* when its fd is ready or its timeout expires.  A retriable -1 from       *)
(* readv or writev returns without changing anything, so it is a          *)
(* stuttering step and is not written out.                                *)

\* The error label of bufferevent_readcb: event_del(ev_read), errorcb.
ReadError ==
  /\ ev_read' = FALSE
  /\ readDetached' = TRUE

\* bufferevent_readcb with EV_TIMEOUT.
ReadTimeout ==
  /\ ev_read /\ timeout_read
  /\ ReadError
  /\ UNCHANGED <<input, output, enabled, wmVars, ev_write, timeVars, sockVars,
                 written, writeDetached>>

\* howmuch in bufferevent_readcb: int howmuch = high - len, in size_t.
HowMuch == IntOf(SizeOf(wm_read_high - input))

\* bufferevent_readcb on a readable fd.  With a high watermark it reads at
\* most howmuch bytes and suspends instead when howmuch <= 0.  evbuffer_read
\* reads at most min(howmuch, FIONREAD) bytes (all of them for howmuch = -1),
\* and readv may return fewer.  0 is EOF and a fatal -1 an error; both go to
\* the error label.
Readcb ==
  /\ ev_read
  /\ sock_in > 0 \/ sock_eof \/ "error" \in Faults
  /\ IF wm_read_high # 0 /\ HowMuch <= 0
     THEN /\ SuspendRead
          /\ UNCHANGED <<readDetached, input, sock_in>>
     ELSE LET cap == IF wm_read_high = 0 \/ HowMuch > sock_in
                     THEN sock_in ELSE HowMuch
          IN \/ \E n \in 1..cap :
                  /\ input' = input + n
                  /\ sock_in' = sock_in - n
                  /\ InbufWmCb(input, input + n)
                  /\ UNCHANGED readDetached
             \/ /\ sock_in = 0 /\ sock_eof
                /\ ReadError
                /\ UNCHANGED <<input, sock_in, read_suspended>>
             \/ /\ "error" \in Faults
                /\ ReadError
                /\ UNCHANGED <<input, sock_in, read_suspended>>
  /\ UNCHANGED <<output, enabled, wm_read_high, wm_cb, ev_write, timeVars,
                 sock_eof, peer_sent, written, writeDetached>>

\* The error label of bufferevent_writecb: event_del(ev_write), errorcb.
WriteError ==
  /\ ev_write' = FALSE
  /\ writeDetached' = TRUE

\* bufferevent_writecb with EV_TIMEOUT.
WriteTimeout ==
  /\ ev_write /\ timeout_write
  /\ WriteError
  /\ UNCHANGED <<input, output, enabled, wmVars, ev_read, timeVars, sockVars,
                 written, readDetached>>

\* Variant: writecb deletes ev_write when one byte or none is left.
WritecbSendsEarlyDel ==
  /\ ev_write /\ output > 0
  /\ \E n \in 1..output :
       /\ output' = output - n
       /\ ev_write' = (output - n > 1)
  /\ UNCHANGED <<input, enabled, wmVars, ev_read, timeVars, sockVars, written,
                 readDetached, writeDetached>>

\* Variant: the write gathers one byte less than the output holds.
WritecbSendsShort ==
  /\ ev_write /\ output > 0
  /\ \E n \in 1..(output - 1) :
       /\ output' = output - n
       /\ ev_write' = (output - n # 0)
  /\ UNCHANGED <<input, enabled, wmVars, ev_read, timeVars, sockVars, written,
                 readDetached, writeDetached>>

\* bufferevent_writecb writing n > 0 bytes: evbuffer_write drains them (the
\* outbuf_cb sees nothing added), and ev_write is deleted once the output
\* is empty.
WritecbSends ==
  /\ ev_write /\ output > 0
  /\ \E n \in 1..output :
       /\ output' = output - n
       /\ ev_write' = (output - n # 0)
  /\ UNCHANGED <<input, enabled, wmVars, ev_read, timeVars, sockVars, written,
                 readDetached, writeDetached>>

\* bufferevent_writecb whose writev returns 0 (EOF) or a fatal -1.
WritecbFails ==
  /\ ev_write /\ output > 0
  /\ Faults # {}
  /\ WriteError
  /\ UNCHANGED <<input, output, enabled, wmVars, ev_read, timeVars, sockVars,
                 written, readDetached>>

\* bufferevent_writecb with an empty output: event_del(ev_write).
WritecbIdle ==
  /\ ev_write /\ output = 0
  /\ ev_write' = FALSE
  /\ UNCHANGED <<input, output, enabled, wmVars, ev_read, timeVars, sockVars,
                 written, readDetached, writeDetached>>

---------------------------------------------------------------------------
(* The peer.                                                               *)

PeerSend ==
  /\ ~sock_eof
  /\ \E k \in Chunks :
       /\ peer_sent + k <= MaxBytes
       /\ sock_in' = sock_in + k
       /\ peer_sent' = peer_sent + k
  /\ UNCHANGED <<input, output, enabled, wmVars, ev_read, ev_write, timeVars,
                 sock_eof, written, readDetached, writeDetached>>

PeerClose ==
  /\ "eof" \in Faults /\ ~sock_eof
  /\ sock_eof' = TRUE
  /\ UNCHANGED <<input, output, enabled, wmVars, ev_read, ev_write, timeVars,
                 sock_in, peer_sent, written, readDetached, writeDetached>>

Next ==
  \/ BufferEventWrite \/ BufferEventRead
  \/ BufferEventEnable \/ BufferEventDisable
  \/ SetWatermark \/ SetTimeouts
  \/ Readcb \/ ReadTimeout
  \/ WritecbSends \/ WritecbFails \/ WritecbIdle \/ WriteTimeout
  \/ PeerSend \/ PeerClose

Spec == Init /\ [][Next]_vars

\* The reactor dispatches a pending ev_write once the fd is writable, and a
\* peer that keeps reading makes writev accept bytes.  Nothing else is
\* assumed fair: the user and the peer may stop at any time.
FairSpec == Spec /\ WF_vars(WritecbSends)

---------------------------------------------------------------------------
(* Properties.                                                             *)

TypeOK ==
  /\ input \in 0..MaxBytes /\ output \in 0..MaxBytes
  /\ enabled \subseteq Events
  /\ read_suspended \in BOOLEAN
  /\ wm_read_high \in Marks
  /\ wm_cb \in {"none", "enabled", "disabled"}
  /\ {ev_read, ev_write, timeout_read, timeout_write, sock_eof,
      readDetached, writeDetached} \subseteq BOOLEAN
  /\ sock_in \in 0..MaxBytes
  /\ written \in 0..MaxBytes /\ peer_sent \in 0..MaxBytes

\* The reactor holds ev_read only while the user has READ enabled and the
\* watermark has not suspended reading: enable, disable, suspend,
\* unsuspend and the read error path must agree on it.
ReadArmedOnlyWhenWanted ==
  ev_read => READ \in enabled /\ ~read_suspended

\* Reading is suspended only while a high watermark is set and the input
\* has reached it (readcb's howmuch <= 0, the input callback and
\* setwatermark are the three places that suspend).
SuspendedOnlyAtHigh ==
  read_suspended => wm_read_high > 0 /\ input >= wm_read_high

\* Spec property 6: with a high watermark set, right after any step that
\* changes the input length, reading is suspended exactly when the input
\* has reached the high watermark (bufferevent_inbuf_wm_cb).
WatermarkAfterMutation ==
  [][input' # input /\ wm_read_high' > 0
       => (read_suspended' <=> input' >= wm_read_high')]_vars

\* Output waiting to be written with WRITE enabled has ev_write armed,
\* unless a write error callback has run and nothing re-armed it since:
\* bufferevent_socket_outbuf_cb, enable and writecb must keep this.
OutputArmed ==
  output > 0 /\ WRITE \in enabled /\ ~writeDetached => ev_write

\* Bytes in the output with WRITE enabled are eventually all written,
\* unless the user disables WRITE or the write side fails.
OutputDrains ==
  (output > 0 /\ WRITE \in enabled)
    ~> (output = 0 \/ WRITE \notin enabled \/ writeDetached)

\* Spec section 5: after a fatal read error (or EOF, or timeout) exactly one
\* error callback is delivered and no further read callback follows until
\* the user enables READ again: ev_read stays deleted.
ReadErrorOnce ==
  readDetached => ~ev_read

====
