# TLA+ models of libevent's buffer layer

This directory holds TLA+ specifications of the buffered I/O layer in
`src/`, together with the TLC configurations that check them. The layer has
four parts:

* `src/buffer.c`: the chained byte buffer (`struct evbuffer`);
* `src/bufferevent.c`: the buffered event (`struct bufferevent`), with
  watermarks and user callbacks;
* `src/bufferevent_sock.c`: the socket transport;
* `src/libevent/bufferevent_filter.c`: the filter transport.

The chained buffer is modelled by `ChainBuffer`, the buffered event with its
socket transport by `BufferEvent`, and the filter stacked on a socket
bufferevent by `Filter`, the change-notification registry of a buffer,
with its reentrant dispatch, by `CallbackList`, the line reader
`evbuffer_readln` by `LineReader`, and the lifetime of socket and filter
bufferevents (creation, `bufferevent_free`, `setfd`, `setcb` and the
callbacks that may free them) by `Lifecycle`.

## 1. Inventory

### Components and how they interact

| Component | Source | State it keeps | Operations that change state |
|---|---|---|---|
| ChainBuffer | buffer.c | Chain list `first`, `last`, `previous_to_last`. Per chain: `buffer_len`, `misalign`, `off`, `next`. Also `total_len`. | add, prepend, drain, remove, remove_buffer, add_buffer, prepend_buffer, pullup, find (= pullup(-1)), expand, reserve_space (= expand), commit_space, read, write_atmost, write, add_printf/vprintf, readln/readline, free |
| Callback registry | buffer.c 116-143, 1222-1274 | TAILQ of `{cb, cbarg, flags}` | add_cb (inserts at head), remove_cb, remove_cb_entry, cb_set_flags, setcb, and dispatch inside every size change |
| BufferedEvent base | bufferevent.c | `input`, `output`, `enabled`, `read_suspended`, `wm_read`, `wm_write`, timeouts, user callbacks | new/init, setcb, write, write_buffer, read, read_buffer, enable, disable, settimeout, setwatermark, inbuf watermark callback (suspend/unsuspend), free |
| SocketTransport | bufferevent_sock.c | `ev_read`, `ev_write` (pending or not), fd | readcb, writecb, outbuf_cb (arms `ev_write` when bytes are added), enable, disable, destruct, adj_timeouts |
| FilterTransport | bufferevent_filter.c | `underlying`, `outbuf_cb` guard flag, `got_eof`, filter functions | process_input, process_output, outbuf_cb, underlying readcb/writecb/errorcb, flush, enable, disable, destruct |
| Reactor, allocator | outside src/ | pending registrations, heap | abstracted to "pending or not" and "malloc may fail" |

Data flows as follows. The reactor reports the fd as readable. The socket
readcb calls `evbuffer_read` into `input`. The input change callback applies
the read watermark (suspend or unsuspend). The user readcb runs when
`len(input) >= wm_read.low`. For writes, the user adds to `output`, and
`outbuf_cb` arms `ev_write`. The socket writecb calls `evbuffer_write`, and the
user writecb runs when `len(output) <= wm_write.low`. A filter sits on top of
an underlying bufferevent and pumps bytes between the two on every callback.

### Hard behaviours

The code runs on one thread. The difficulty is in long sequences of legal
calls and in callbacks that re-enter the structures being changed:

* Cached pointers. `previous_to_last` is written by ten functions and
  trusted by `evbuffer_expand`, `_evbuffer_expand_fast` and `evbuffer_read`.
* Chains left empty. expand, reserve, printf and failed reads can leave an
  empty chain behind, and later operations must cope with it.
* Partial failure under out-of-memory in the middle of a call.
* Notification exactness: one `(old, new)` pair per changed buffer.
* Reentrancy: callbacks removing entries during dispatch, and the filter's
  outbuf guard.
* Watermark edges (`>` against `>=`), int truncation of `howmuch`, the
  error-once rule, and data stuck behind a suspended filter.

PROJECT.json lists every hazard at the line where it bites.

## 2. Plan

Modules, in order of importance:

1. **ChainBuffer**, done in this sitting, with **ByteQueue** as its abstract
   specification. It models every chain operation at pointer level.
2. **BufferEvent** (base + SocketTransport), done: see section 4. `setfd`
   and `free` are in Lifecycle. Still to add: the write side of the
   error-once rule once the spec's two statements about it are reconciled.
3. **Filter**, done: see section 5. It composes the filter with the socket
   transport beneath it in one module of state transformers, because every
   step runs a chain of callbacks across both. Still to add: timeouts
   (`be_filter_adj_timeouts`). `bufferevent_free` is in Lifecycle.
4. **CallbackList**, done: see section 6. Still to add: `evbuffer_setcb`
   and the teardown in `evbuffer_free`.
5. **LineReader**, done: see section 7.
6. **Lifecycle**, done: see section 8.

## 3. The ChainBuffer model (`ChainBuffer.tla`)

**State.**

* `chain[c]` is the chain at heap address `c` in `ChainIds`. It records
  `buffer_len`, `misalign`, `data` (the valid bytes, so `off = Len(data)`)
  and `next`.
* `alloc` is the set of live addresses.
* `buf[b]` is `[first, last, previous_to_last, total_len]`, as in
  `struct evbuffer`.

Bytes are abstracted to fresh numbers: the i-th byte ever produced is `i`.
Memory outside the valid bytes is not tracked, so a byte the code counts
without writing it reads as `Garbage` (0). Freed chains are reset to an
empty record. The ghost variables are:

* `produced`: the bytes produced so far;
* `delivered`: the bytes handed to the client by drain, remove and write;
* `notified`: the `(buffer, old, new)` notifications of the last call, in
  order;
* `contents`: the bytes of each buffer read along its chain list.

**Actions.** Each public function is one atomic step, since the library is
single-threaded. Its body is a state transformer on a record `s` (`AddSt`,
`DrainSt`, ...), so the internal calls compose as they do in C:
`evbuffer_remove_buffer` calls `evbuffer_add`, and `evbuffer_read` calls
`_evbuffer_expand_fast`. Loops are RECURSIVE operators (`DrainLoop`,
`RemoveLoop`, `MoveLoop`, `PullLoop`) that keep the C loop conditions,
boundary cases included. Allocation (`evbuffer_chain_new`) picks a free
address, rounds the size up as the C code does, and fails when the `oom`
flag of the step is set or the heap is exhausted. A failing step is allowed
only when `MallocFails` is TRUE. Inputs come from small sets: lengths from
`Sizes` (plus -1 where the API takes it), FIONREAD answers from
`SocketAvail`, and every possible `readv`/`writev` result (-1, 0, or 1..cap).

**Client profiles.** `Ops` is the set of API functions a run's client calls.
This lets a run check a property of the functions that keep it while another
run exhibits the function that breaks it.

**Scaling.** `MIN_BUFFER_SIZE = 2`, a 1-byte chain header and
`EVBUFFER_CHAIN_MAX_AUTO_SIZE = 4` give chains of 1, 3 or 7 bytes. With these
values one or two adds fill a chain, the add-a-chain, realign and growth
branches of evbuffer_add all happen, and `evbuffer_read`'s FIONREAD clamp
(`EVBUFFER_MAX_READ = 4`, `buffer_len << 2`) takes every branch. Other
bounds:

* `NUM_IOVEC = 2`, so writev is cut at two chains;
* `PrintfReserve = 2` stands for the 64 bytes of `evbuffer_add_vprintf`;
* `ChainIds = 1..4` bounds the heap;
* `MaxBytes` = 3 or 4 bytes per behaviour bounds the runs, and the shortest
  counterexamples need 2-3 bytes.

**Abstract specification.** `ByteQueue.tla` is a map from buffers to FIFO
byte sequences. Its actions are Put (append fresh bytes), PutFront (prepend),
Take (the oldest n bytes go to the client), Move (the oldest n bytes of src
go to the tail of dst) and MoveFront (all of src goes to the head of dst).
`ContentsPreserved == ABS!Spec` with `q <- contents` states that ChainBuffer
implements it.

### Properties

* `TypeOK`: the type invariant.
* `HeapShape`: each list is acyclic, uses only live chains and ends at
  `last`, and `previous_to_last` is the chain before `last`.
* `NoLeakedChains`: every live chain belongs to exactly one buffer.
* `TotalLenMatches`: `total_len` is the sum of `off` along the list.
* `ChainBounds`: `misalign + off <= buffer_len`.
* `NotifyExact` (action property): a call notifies each buffer whose length
  changed exactly once, with the lengths before and after, and notifies no
  other buffer. This is spec property 5.
* `ContentsPreserved` (refinement): no byte is lost, duplicated, reordered or
  invented.

### Runs (MCChainBuffer)

| Run | Expect | Checks | Shows |
|---|---|---|---|
| cb_queue | pass | TypeOK, HeapShape, NoLeakedChains, ContentsPreserved, NotifyExact | queue and splice operations are correct, also when any allocation fails (a failed call changes and notifies nothing) |
| cb_reserve | pass | HeapShape, NoLeakedChains, ContentsPreserved | expand/reserve, printf and commit relocate chains correctly, also under out-of-memory |
| cb_read | pass | HeapShape, NoLeakedChains, TotalLenMatches | evbuffer_read keeps shape and the length cache |
| cb_move | pass | ContentsPreserved | remove_buffer moves bytes in FIFO order when memory suffices |
| read_overrun | violation | ChainBounds | evbuffer_read reads into previous_to_last and counts the bytes on the last chain, past its end (buffer.c:996, 1066) |
| move_ptl | violation | HeapShape | remove_buffer sets previous_to_last = last (buffer.c:397) |

Three more configurations reproduce disagreements found in the first
sitting. They stay in this directory but are no longer in PROJECT.json's run
list, which the filter runs now share:

| Config | Expect | Checks | Shows |
|---|---|---|---|
| add_buffer_leak.cfg | violation | NoLeakedChains | add_buffer leaks an empty chain (buffer.c:240) |
| commit_silent.cfg | violation | NotifyExact | commit_space does not notify (buffer.c:193) |
| move_oom_loss.cfg | violation | ContentsPreserved | remove_buffer ignores a failed evbuffer_add (buffer.c:409) |

Run any of them with `tlc -config <name>.cfg MCChainBuffer`.

Two more disagreements were met and are described rather than kept as
runs. With smaller reads, the read_overrun situation makes the buffer hand
out uninitialised bytes (ContentsPreserved fails; `read_garbage` in the
counterexamples below). `evbuffer_remove_buffer` notifies the destination
twice (once from its inner `evbuffer_add`, buffer.c:409, once at 417) and
the source last, against the spec's one pair per buffer, source first; this
is why the clients checking NotifyExact leave remove_buffer out.

The passing runs between them fire every action. Each property of a passing
run is also shown to fail for a plausible bug of the code, using the
`Variant:` operators next to the definitions they replace (the mutants of
PROJECT.json). Deadlock is checked. No fairness is assumed, because the
ChainBuffer properties are safety properties.

### Counterexamples in short

* read_overrun (and read_garbage): a read of up to 7 bytes (FIONREAD = 7) finds
  a 7-byte chain holding 1 byte. `_evbuffer_expand_fast` appends a 1-byte
  chain, and readv returns -1. The next read, of 2 bytes, reads into the
  7-byte chain but adds 2 to the `off` of the 1-byte chain.
* move_ptl: add 2 bytes to b1, then move 1 byte to b2. The whole first chain
  moves and b2's `previous_to_last` is b2's `last`.
* add_buffer_leak: expand b2 (an empty chain), add to b1, add_buffer(b2, b1).
  b2's empty chain is lost.

## 4. The BufferEvent model (`BufferEvent.tla`)

A socket bufferevent: `bufferevent.c` driven by `bufferevent_sock.c`. The
two evbuffers are reduced to their lengths `input` and `output`; what
ChainBuffer does inside them is checked there. Every change of a length
runs the buffer's callbacks once, as the ChainBuffer runs check (except for
`evbuffer_commit_space`, see below).

**State.** `enabled`, `read_suspended` and `wm_read_high` are the fields of
`struct bufferevent`. `wm_cb` says whether `read_watermarks_cb` is
registered and enabled. `ev_read`/`ev_write` say whether the reactor holds
the event pending. `timeout_read`/`timeout_write` say whether a timeout is
set. The peer is `sock_in` (bytes sent and not read) and `sock_eof`.
`written` and `peer_sent` bound the bytes (`MaxBytes`). The ghosts
`readDetached`/`writeDetached` record that an error callback ran for that
direction and nothing has restarted it.

**Actions.** One per API call (`BufferEventWrite`, which also stands for
`write_buffer`; `BufferEventRead`, also `read_buffer`; `BufferEventEnable`;
`BufferEventDisable`; `SetWatermark`; `SetTimeouts`), and one
per reactor dispatch: `Readcb` (every readv result up to `min(howmuch,
available)`, EOF, fatal error, and the `howmuch <= 0` suspension),
`ReadTimeout`, `WritecbSends`, `WritecbFails`, `WritecbIdle`,
`WriteTimeout`. The peer sends (`PeerSend`) and closes (`PeerClose`). The
callbacks `bufferevent_inbuf_wm_cb` and `bufferevent_socket_outbuf_cb` are
operators (`InbufWmCb`, `OutbufCb`) that every step changing a length
calls, as `evbuffer_invoke_callbacks` does. User callbacks run last in a
dispatch and act only through the API, so a user call made from a callback
is the next step. A retriable -1 changes nothing and is a stutter.

**Integer widths.** `howmuch` is `int howmuch = high - len` with `high`
and `len` of type `size_t`. `SizeOf` and `IntOf` model the size_t
subtraction and the two's-complement conversion. The runs scale the
widths to `SizeBits = 4`, `IntBits = 3`, keeping int narrower than size_t;
a mark of 15 is `SIZE_MAX`.

**Fairness.** `FairSpec` adds only `WF_vars(WritecbSends)`: the reactor
dispatches a pending write event once the fd is writable, and a peer that
keeps reading makes `writev` accept bytes. The user and the peer owe
nothing.

### Properties

* `TypeOK`.
* `ReadArmedOnlyWhenWanted`: `ev_read` pending implies READ enabled and not
  suspended.
* `SuspendedOnlyAtHigh`: reading is suspended only with a high watermark
  set and the input at or above it.
* `WatermarkAfterMutation` (action property, spec property 6): right after
  any change of the input length, with a high watermark set, reading is
  suspended exactly when the input is at or above it.
* `OutputArmed`: output waiting with WRITE enabled has `ev_write` armed,
  unless a write error happened and nothing re-armed since.
* `OutputDrains` (liveness): such output is eventually all written, or
  WRITE is disabled, or the write side fails.
* `ReadErrorOnce` (violation only): after a read error, EOF or timeout,
  `ev_read` stays deleted until the user enables READ again.

### Runs (MCBufferEvent)

`MaxBytes = 3`, `Chunks = {1, 2}`: reads and writes of one and two bytes,
so partial reads and writes, reaching and passing the watermark, and
draining below it all happen. Marks `0..3` cover no watermark, marks below,
at and above every input length.

| Run | Expect | Checks | Shows |
|---|---|---|---|
| bev_core | pass | TypeOK, ReadArmedOnlyWhenWanted, SuspendedOnlyAtHigh, WatermarkAfterMutation, OutputArmed, OutputDrains | the read side and the watermark machine, and the arming and draining of the output, with EOF, errors and timeouts (165,088 states, 16 s) |

`bev_wm_wrap.cfg` (violation of SuspendedOnlyAtHigh, kept in the directory
but not in the run list) shows that a high mark of SIZE_MAX makes `howmuch`
negative and suspends reading on an empty input (bufferevent_sock.c:129).

Output filled by `evbuffer_commit_space` would break OutputArmed and
OutputDrains: that is ChainBuffer's commit_silent finding seen from the
socket, and BufferEvent leaves commit out rather than repeat it.

`bev_error_rearm.cfg` (violation of ReadErrorOnce, kept in the directory
but not in the run list) shows that after EOF a suspend and a drain re-arm
`ev_read` (bufferevent.c:77). Its trace: enable READ; the peer sends 3 bytes; readcb
reads them; the peer's EOF reaches readcb, which event_dels `ev_read` and
calls the error callback; setwatermark(high = 2) suspends; a read of 2
bytes runs the input callback, which unsuspends and, READ still being in
`enabled`, event_adds `ev_read` on the dead socket.

## 5. The Filter model (`Filter.tla`)

A filtering bufferevent (`bufferevent_filter.c`) stacked on a socket
bufferevent. All four buffers are reduced to their lengths. One variable,
the record `st`, holds both objects:

* the socket: `uin`, `uout` (its buffers), `uen` (`enabled`), and `uevr`,
  `uevw` (whether `ev_read`, `ev_write` are pending);
* the filter: `fin`, `fout`, `fen`, `fsusp` (`read_suspended`), `fhigh`
  (`wm_read.high`), `fwmcb` (the read watermark callback entry), and `outcb`
  (whether `bevf->outbuf_cb` is ENABLED);
* the peer and counters: `sock_in`, `sock_eof`, `peer_sent`, `written`,
  `sent`;
* ghosts for the properties: `pumped` and `readcb` (what this step's
  `be_filter_readcb` moved and whether it called the user read callback),
  `depth` (active `be_filter_process_output` calls), `nested` (outbuf_cb
  reached the pump inside a running pump) and `werr` (a write error was
  reported and ev_write not re-armed since).

One reactor dispatch or user call runs a chain of callbacks across both
objects. For example, the socket's readcb runs `be_filter_readcb`, which
runs `be_filter_process_input`; its filter call fires the filter input's
watermark callback, and that calls `bufferevent_disable` on the socket. So
each piece of code is an operator from a state record to a state record
(`UEnable`, `FSuspend`, `InCall`, `PumpIn`, `ProcessOutput`, ...), and an
action applies the whole chain in one step. The pumps' do-while loops are
RECURSIVE operators. `ProcessOutput`, the user write callback, `UserWrite`
(bufferevent_write reaching `bufferevent_filtered_outbuf_cb`) and a flush
called from the write callback are mutually recursive, as in the code.

What the user's write callback calls is the step's `script`, a sequence of
`"write"` (one byte) and `"flush"` (`bufferevent_flush(WRITE, BEV_FLUSH)`),
chosen from `WritecbScripts` when the step starts. The first write callback
of the step consumes it. The user read and error callbacks do nothing
within the step; the user reacts in later steps.

Two filters are modelled (`FilterKind`). `"null"` is `be_null_filter`, which
the library installs when the caller gives none. `"identity"` is a user
filter that moves what the limit allows and returns `BEV_OK`, like the
identity filters of spec test S5.

`got_eof` is never assigned in the code, so `be_filter_readcb` always pumps
in `BEV_NORMAL`; the model has no field for it.

### Properties

* `TypeOK`.
* `UnderlyingFollowsFilter`: READ is enabled on the socket exactly when it
  is enabled on the filter and the filter is not suspended; WRITE is enabled
  on the socket exactly when it is on the filter; ev_read is pending only
  with READ enabled on the socket. Enable, disable, setwatermark and the
  watermark callback inside the input pump all keep this.
* `ReadcbAfterProgress` (action property, violation run only): a
  `be_filter_readcb` that moves bytes into the filter input calls the user
  read callback (spec 4.4). filter_core does not check it: the pass-through
  filter always answers OK, so it would hold there whatever the pump does.
* `NoReentrantPump`: the outbuf_cb never reaches the pump while a pump
  runs, which is what disabling the entry is for (comment at line 301,
  spec section 5).
* `OutputDrains` (liveness): bytes written to the filter eventually leave
  its output, unless WRITE is disabled or a write error was reported.
* `NoStuckInput` (liveness, violation only): bytes in the socket's input
  eventually reach the filter input while the filter reads.

The liveness properties are checked under `FairSpec`. It has weak fairness
on each socket dispatch (read with data, EOF, error; write, idle write,
write error), because `event_base_loop` dispatches every pending event whose
descriptor is ready. It also has weak fairness on the application reading
the filter input, because a reader that never reads cannot complain that
data does not flow. The peer and every other user call get no fairness.

### Runs (MCFilter)

`MaxBytes = 2`, `Chunks = {1, 2}`, `Marks = {0, 1}`, `UWriteHigh = 1`. A
two-byte read or write against a limit of one byte makes every pump stop
part-way. That covers the input pump stopping at the filter's watermark,
the output pump stopping at the socket's write watermark, the again loop
after the write callback writes, and suspension and unsuspension. Three
bytes give the same cases. They made the liveness run take over six
minutes, because checking fairness re-evaluates the recursive transformers
on every transition.

| Run | Expect | Checks | Shows |
|---|---|---|---|
| filter_core | pass | TypeOK, UnderlyingFollowsFilter, NoReentrantPump, OutputDrains | the identity filter over a socket with EOF and errors, every API call and a write callback that writes again (7,626 states, about 45 s) |
| filter_null_silent | violation | ReadcbAfterProgress | with the default filter, a pump that moves bytes returns BEV_ERROR, so the reader is never told (filter.c:158) |
| filter_stuck_input.cfg | violation (not in the run list) | NoStuckInput | bytes left in the socket's input at the filter's watermark stay there after the reader drains (filter.c:274) |
| filter_reentrant.cfg | violation (not in the run list) | NoReentrantPump | a write callback that flushes and then writes re-enters the pump (filter.c:349) |

The traces:

* filter_null_silent: enable READ; the peer sends 1 byte; the socket's
  readcb reads it and `be_filter_readcb` pumps it into the filter input.
  `evbuffer_remove_buffer` returns 1, so `be_null_filter` returns
  BEV_ERROR, `processed_any` stays 0 and the user read callback does not
  run. The same verdict means the user write callback never runs either.
* filter_stuck_input: the filter reads with high watermark 1. The peer
  sends 2 bytes and the socket reads both. The pump moves 1 byte and stops
  at the watermark, and the watermark callback disables reading on the
  socket. The user lifts the watermark (draining has the same effect), which
  re-arms ev_read. The peer sends nothing more, so the byte in the socket's
  input never moves.
* filter_reentrant: the user writes 1 byte, and outbuf_cb starts the pump.
  The pump moves the byte and calls the write callback. The callback calls
  `bufferevent_flush(BEV_FLUSH)`, whose nested pump re-enables outbuf_cb on
  return. The callback then writes again, and outbuf_cb calls the pump
  inside the outer one.

`be_filter_flush` pumps input without calling the user read callback,
unlike spec test S6. No run is spent on this: the bytes are in the input,
and the user sees them at its next read. The null filter's verdict also
means the user write callback of a filter built with default filters never
runs. That is the same defect as filter_null_silent, seen from the write
side.

## 6. The CallbackList model (`CallbackList.tla`)

`CallbackList` models the list of `evbuffer_cb_entry` on one buffer, and the
dispatch of `evbuffer_invoke_callbacks` one loop iteration at a time. The
buffer is a filtering bufferevent's output, the one buffer in `src/` whose
callback changes the buffer from inside the dispatch.
`bufferevent_filter_new` registers `bufferevent_filtered_outbuf_cb` there
first. That callback runs `be_filter_process_output`, which disables its own
entry, drains the buffer (a nested dispatch on the same list), and
re-enables the entry through the pointer `bevf->outbuf_cb`. Every other entry
is a user callback. What each one may do while it is called is drawn from
`Reactions`: nothing, `evbuffer_remove_cb` of itself, disabling itself,
`evbuffer_add_cb`, removing another entry, or writing to the buffer.

State (one record `st`, changed by transformers as in Filter):

| Field | Code |
|---|---|
| `list` | `buffer->callbacks`, head first |
| `heap[a]` | whether address `a` is fresh, allocated or freed. A freed address is never handed out again, so a stale pointer stays recognisable. |
| `ent[a]` | `cb`/`cbarg` (one model value per pair) and `EVBUFFER_CB_ENABLED` |
| `len` | `total_len`; bytes are abstracted away |
| `stack` | the active `invoke_callbacks` loops. Each holds `pos` (the captured `next`), `old`, `new`, and `after`, the entry its caller re-enables on return. |
| `obs`, `muts` | ghosts: the number of the last change each entry was told about, and the count of changes |

Actions:

* Reactor-level calls with no dispatch running: UserAddCb, UserRemoveCb,
  UserRemoveCbEntry, UserSetFlags, UserWrite (any operation that changes the
  length), and FilterPumpOut (`be_filter_writecb`).
* InvokeStep: one iteration of the loop. It reads `TAILQ_NEXT` first and then
  calls the entry if it is enabled.
* InvokeReturn: the loop reaching `TAILQ_END`.

`mm_malloc` may fail (`MallocFails`), and it always fails once the address
pool is used up.

Properties:

* `NoUseAfterFree`: no active loop holds a captured `next`, and no pump
  holds an `outbuf_cb`, that points into freed memory.
* `InOrderDelivery` (action): an entry is never told about a length change
  older than one it has already seen.

The guard at bufferevent_filter.c:303 (outbuf_cb disabled during the pump)
is not a property here: in this model the only call it blocks is the
drain's notification, which the filter's callback ignores. Filter's
`NoReentrantPump` checks the guard where it matters, against a write from
the write callback.

Bounds: addresses `{f, a1, a2}`, two user callbacks, `MaxLen = 2`,
`MaxDepth = 2`, `MaxMuts = 3`. These bounds allow:

* two user entries in front of the filter's entry;
* a user write whose dispatch reaches the filter;
* a pump nested in that dispatch, whose inner dispatch calls the users
  again;
* a failing allocation.

| Run / cfg | Expect | Checks | Shows |
|---|---|---|---|
| cl_core | pass | TypeOK, NoUseAfterFree, InOrderDelivery | Well-behaved user callbacks (remove themselves, add, disable themselves) under writes, pumps and failing allocations. No stale pointer is used and deliveries stay in order (53,385 states, 5 s). |
| cl_remove_other.cfg | violation (not in the run list) | NoUseAfterFree | A user callback removes the next entry. Spec section 5 says this is allowed, but the loop then reads freed memory. |
| cl_user_write.cfg | violation (not in the run list) | InOrderDelivery | A user callback writes to the buffer. The nested dispatch tells the filter's entry "1 -> 0" before the outer loop tells it "0 -> 1". |

The safety in cl_core depends on head insertion. The filter's entry is
registered first, so it stays last. Its nested dispatch therefore never
reaches an entry that its outer loop has already captured. The mutant that
appends instead (`AddCbTail`) breaks both NoUseAfterFree and
InOrderDelivery. Reading `next` after the call instead of before it
(`InvokeStepLateNext`) breaks NoUseAfterFree as soon as a callback removes
itself.

## 7. The LineReader model (`LineReader.tla`)

`evbuffer_readln` (buffer.c 595-665) finds the end of the first line by
walking the chain list with a `struct evbuffer_iterator`, a chain and an
offset in it. It then copies the line out with `evbuffer_remove` and drains
the terminator with `evbuffer_drain`. Every loop of that code works across
chain boundaries, so the model keeps the chains. The buffer is its
**layout**: a sequence of chains, each the sequence of its visible bytes.
Every ChainBuffer run keeps no empty chain but the last, and the layouts
have that shape.

| Definition | Code |
|---|---|
| `Find(L, ci, i, set, count)` | `evbuffer_strchr` and `evbuffer_strpbrk` (505-548); `NotFound` is their `-1` |
| `Span` | `evbuffer_strspn` (550-572) |
| `Getchr` | `evbuffer_getchr` (574-593): the offset is rebased chain by chain |
| `StrictScan` | the `EVBUFFER_EOL_CRLF_STRICT` loop (618-635) |
| `Search(L, style)` | the switch on `eol_style` (609-646): found, `n_to_copy`, `extra_drain` |
| `RemoveLoop`, `EvRemove` | `evbuffer_remove` (317-359) |
| `DrainLoop`, `EvDrain` | `evbuffer_drain` (277-312) |
| `LineOf` | the copy and the `EVBUFFER_EOL_CRLF` strip of one `'\r'` (654-658) |
| `Readln(style)` | the whole call, including the `mm_malloc` failure path, which drains `n_to_copy + extra_drain` and returns NULL |
| `AddByte(c)` | `evbuffer_add` of one byte: into the last chain, or into a new chain (the model leaves the chain's room open) |

`evbuffer_readline` is `readln` with `EVBUFFER_EOL_ANY`, which `Styles`
includes.

Properties:

* **ReadlnAsSpecified** (action): every call leaves exactly the rest that
  `RefReadln` leaves. `RefReadln` is readln as spec section 4.1 defines it,
  written directly on the flat byte string. A call whose line buffer is
  allocated also returns `RefReadln`'s line. So the out-of-memory path
  drops the line with its terminator and nothing more, and a call that
  finds no terminator leaves the buffer untouched.
* **TypeOK**: the layout keeps the chain-list shape, with no empty chain
  before the last.

Bounds: the bytes `{a, CR, LF}`, at most 4 bytes and 3 chains, all four
styles, and allocation allowed to fail. The initial states are all 1,124
layouts: every string of up to 4 bytes, cut into chains every possible way,
with or without a trailing empty chain. That covers:

* a `"\r\n"` split across two chains (`getchr` rebasing);
* a `'\r'` as the last byte;
* a run of terminators crossing a chain boundary (`strspn`);
* a line that ends exactly at a chain's end (remove and drain at
  `datlen == off`).

| Run | Expect | Checks | Shows |
|---|---|---|---|
| line_reader | pass | TypeOK, ReadlnAsSpecified | the code agrees with the spec's readln on every layout, style and allocation result (4,646 states, 2 s) |

The mutants show what the run tells apart:

* `GetchrNoRebase` keeps the offset when stepping to the next chain, so it
  misreads a `"\r\n"` split across chains.
* `DrainLoopStrict` keeps a chain that is exactly used up, which leaves an
  empty chain ahead of the data.

One thing the code does that a reader may not expect is allowed by the
spec's wording. With `EVBUFFER_EOL_ANY`, the whole run of `'\r'` and `'\n'`
after a line is drained, so empty lines inside that run are lost.

## 8. The Lifecycle model (`Lifecycle.tla`)

The other models keep one bufferevent alive for ever. Lifecycle keeps the
bytes out and models who points at whom while bufferevents are created and
freed. The client may call the API, `bufferevent_free` included, from inside
its callbacks.

| Variable | Code |
|---|---|
| `heap[b]` | "fresh" (not yet allocated), "live", "freed" |
| `under[f]`, `close[f]` | `bevf->underlying`, `BEV_OPT_CLOSE_ON_FREE` in `bevf->options` |
| `cbs[s]` | the socket's readcb/writecb/errorcb: the client's (`USER`) or `be_filter_*` bound to a filter |
| `enabled[b]` | `bufev->enabled` |
| `pending[s]` | which of `ev_read`/`ev_write` the reactor holds pending |
| `cb` | the user callback running: its bufferevent, its kind, and `resume`, the bufferevents the C frames below it dereference after it returns |

Actions, one per entry point: `BufferEventNew` (`bufferevent_new`),
`FilterNew` (`bufferevent_filter_new`, which sets the underlying's callbacks
to the filter and enables WRITE through `bufferevent_init_common`),
`SetCb`, `Enable` and `Disable` (forwarded to the underlying by
`be_filter_enable`/`disable`), `SetFd` (deletes both events), `Write` (a
socket arms `ev_write` through `outbuf_cb`, a filter runs
`be_filter_process_output`), `Flush` on a filter, `BufferEventFree`
(`bufferevent_free` with `be_socket_destruct` or `be_filter_destruct`), the
reactor's `ReadReady` and `WriteReady` (`bufferevent_readcb`/`writecb` with
their data, retry, EOF and error branches), and `CallbackReturn`. While a
user callback runs, every API call applies to any live bufferevent, so the
callback may free its own or another one.

The client never frees or re-points a socket a live filter wraps; spec
section 5 forbids freeing a bufferevent from inside one of its own callbacks,
and `FreeOwnIn` names the callbacks where the model still lets it happen.

Properties:

* **NoDanglingDispatch**: every socket with a pending event is live, and if
  its callbacks are a filter's, that filter is live. Breaking it needs a
  filter created over a socket, an event enabled, and a free that takes the
  filter but not the socket.
* **NoUseAfterReturn** (kept cfg only): every bufferevent a C frame will
  use after the running user callback returns is live. The socket handlers
  and `be_filter_readcb`/`errorcb` call the user callback last; only
  `be_filter_process_output` (and `be_filter_flush` above it) uses the filter
  after the write callback. So only a free of the filter from its own write
  callback can break it, and the spec forbids that free. life_core does not
  check it, because there it would hold by the model's shape.
* **TypeOK**, including that every allocated filter has a socket beneath it.

Bounds: two sockets and one filter (symmetry over the sockets). A filter
over either socket, a second socket free for the client, and every call at
top level or inside every callback: 5,103 states.

| Run | Expect | Checks | Shows |
|---|---|---|---|
| life_core | pass | TypeOK, NoDanglingDispatch | with CLOSE_ON_FREE, and frees from inside read and error callbacks, no freed object is reachable from the reactor |
| life_no_close.cfg | violation (not in the run list) | NoDanglingDispatch | without CLOSE_ON_FREE, `be_filter_destruct` (filter.c 204-214) leaves the socket's events pending with callbacks bound to the freed filter: `bufferevent_new`, `bufferevent_filter_new`, `enable(EV_READ)`, `bufferevent_free(filter)` |
| life_write_free.cfg | violation (not in the run list) | NoUseAfterReturn | freeing a filter from its own write callback, which the spec leaves undefined, makes `be_filter_process_output` read the freed filter (filter.c 337) |

The run finishes with CHECK_DEADLOCK FALSE because once every bufferevent is
freed the program really has nothing left to do.

## 9. Not modelled, and why

* In the callback registry: `evbuffer_setcb` and
  `evbuffer_remove_all_callbacks`. On a bufferevent's buffer they would also
  free the bufferevent's own entries, and no caller in `src/` does that.
  Also left out is the teardown in `evbuffer_free`. ChainBuffer records
  notifications as if one enabled callback were registered.
* `evbuffer_free` and the getters, which change no state the properties use.
* The WIN32 and non-iovec branches of read/write. The WIN32 `WSASend`
  branch does not compile.
* In BufferEvent: `setcb` and the low and write watermarks, which only gate
  user callbacks; `flush` (a no-op for sockets), `priority_set` and
  `base_set`, which change only the event's priority and base in the
  reactor; `setfd` and `free` are in Lifecycle, not here, where `setfd`
  would break OutputArmed; a failing `evbuffer_add` inside
  `bufferevent_write` (ChainBuffer's cb_queue covers it).
* In Filter: `be_filter_adj_timeouts` (it copies the filter's timeouts to
  the socket, whose timeout handling BufferEvent models); filters that return `BEV_NEED_MORE` or transform
  bytes (the filter interface is modelled with the library's default filter
  and a pass-through filter, which between them produce every verdict the
  pumps react to: OK with and without progress, and ERROR); read and write
  watermarks on the underlying socket other than `wm_write.high`.
  `evbuffer_freeze`/`unfreeze`, called by the socket callbacks, are not
  defined in this version's buffer.c and are taken as no-ops.
* The reactor, the allocator hooks and the DNS tests (`src/libevent/test`),
  which are external or out of scope.
* Old and new sizes in notifications are exact integers. The size_t
  wrap-around of `dst->total_len - nread` appears as a negative number in
  the move_oom_loss trace.
