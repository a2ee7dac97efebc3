----------------------------- MODULE ChainBuffer -----------------------------
(***************************************************************************)
(* The chained byte buffer of buffer.c (struct evbuffer) at the level of   *)
(* its pointers.  A chain lives at a heap address of ChainIds and holds    *)
(* buffer_len bytes of room, an unused prefix of misalign bytes and the    *)
(* valid bytes `data' (off == Len(data)); memory outside the valid bytes   *)
(* is not tracked, so a byte the code counts without writing it reads as   *)
(* Garbage.  A buffer keeps first, last, previous_to_last and total_len.   *)
(*                                                                         *)
(* Each API function is one atomic step (the library is single-threaded).  *)
(* It is written as a state transformer on a record s = [chain, alloc,     *)
(* buf, produced, delivered, notes, oom, failed] so that helpers such as   *)
(* evbuffer_expand compose the way the C functions call each other.        *)
(* notes is the sequence of (buffer, old, new) change notifications the    *)
(* call made (evbuffer_invoke_callbacks).                                  *)
(***************************************************************************)
EXTENDS Integers, Sequences, SequencesExt, FiniteSets

CONSTANTS
  Bufs,                          \* the evbuffers of the client
  ChainIds,                      \* heap addresses for chains (1..N)
  MIN_BUFFER_SIZE,               \* smallest allocation (scaled)
  EVBUFFER_CHAIN_SIZE,           \* size of a chain header (scaled)
  EVBUFFER_CHAIN_MAX_AUTO_SIZE,  \* growth cap of evbuffer_add (scaled)
  EVBUFFER_MAX_READ,             \* read size cap of evbuffer_read (scaled)
  NUM_IOVEC,                     \* iovecs per writev
  PrintfReserve,                 \* the 64 bytes evbuffer_add_vprintf expands by
  Sizes,                         \* byte counts the client passes
  SocketAvail,                   \* what FIONREAD may report
  MaxBytes,                      \* bound: bytes produced in a behaviour
  MallocFails,                   \* TRUE: mm_malloc may return NULL
  Ops                            \* the API functions this client calls

Nil == 0
Garbage == 0

ASSUME Nil \notin ChainIds /\ ChainIds \subseteq Nat \ {0}
ASSUME Sizes \subseteq Nat \ {0} /\ MallocFails \in BOOLEAN

VARIABLES
  chain,      \* chain[c]: the chain record at address c
  alloc,      \* the allocated addresses
  buf,        \* buf[b]: [first, last, previous_to_last, total_len]
  produced,   \* bytes produced so far; byte i has the value i (0 is Garbage)
  delivered,  \* bytes handed to the client (drain, remove, write)
  notified,   \* notifications made by the last call, in order
  contents    \* ghost: the bytes of each buffer, read along its chain list

vars == <<chain, alloc, buf, produced, delivered, notified, contents>>

FreedChain == [buffer_len |-> 0, misalign |-> 0, data |-> <<>>, next |-> Nil]

ZERO_CHAIN == [first |-> Nil, last |-> Nil, previous_to_last |-> Nil, total_len |-> 0]

Init ==
  /\ chain = [c \in ChainIds |-> FreedChain]
  /\ alloc = {}
  /\ buf = [b \in Bufs |-> ZERO_CHAIN]
  /\ produced = 0
  /\ delivered = {}
  /\ notified = <<>>
  /\ contents = [b \in Bufs |-> <<>>]

-----------------------------------------------------------------------------
(* State transformers.                                                     *)

S0(oom) == [chain |-> chain, alloc |-> alloc, buf |-> buf, produced |-> produced,
            delivered |-> delivered, notes |-> <<>>, oom |-> oom, failed |-> FALSE]

Ok(s) == [ok |-> TRUE, st |-> s]
Fail(s) == [ok |-> FALSE, st |-> [s EXCEPT !.failed = TRUE]]

Off(s, c) == Len(s.chain[c].data)
CHAIN_SPACE_LEN(s, c) == s.chain[c].buffer_len - (s.chain[c].misalign + Off(s, c))

Fresh(s, k) == [i \in 1..k |-> s.produced + i]
GarbageBytes(k) == [i \in 1..k |-> Garbage]

RECURSIVE RoundUp(_, _)
RoundUp(a, need) == IF a >= need THEN a ELSE RoundUp(2 * a, need)

\* evbuffer_chain_new: room of a chain asked for size bytes.
ChainNewLen(size) ==
  RoundUp(MIN_BUFFER_SIZE, size + EVBUFFER_CHAIN_SIZE) - EVBUFFER_CHAIN_SIZE

CanAlloc(s) == ~s.oom /\ s.alloc # ChainIds
NewId(s) == CHOOSE c \in ChainIds \ s.alloc : TRUE
NewChainAt(s, c, size) ==
  [s EXCEPT !.alloc = @ \cup {c},
            !.chain[c] = [buffer_len |-> ChainNewLen(size), misalign |-> 0,
                          data |-> <<>>, next |-> Nil]]
\* mm_free; what freed memory held is forgotten.
FreeChain(s, c) == [s EXCEPT !.alloc = @ \ {c}, !.chain[c] = FreedChain]
FreeChains(s, S) ==
  [s EXCEPT !.alloc = @ \ S, !.chain = [c \in ChainIds |-> IF c \in S THEN FreedChain ELSE @[c]]]

\* evbuffer_invoke_callbacks(buffer, old_size)
Invoke(s, b, old) ==
  IF old = s.buf[b].total_len THEN s
  ELSE [s EXCEPT !.notes = Append(@, <<b, old, s.buf[b].total_len>>)]

RECURSIVE WalkFrom(_, _, _)
WalkFrom(ch, c, fuel) ==
  IF c = Nil \/ fuel = 0 THEN <<>> ELSE <<c>> \o WalkFrom(ch, ch[c].next, fuel - 1)

\* The chain list of b, cut after |ChainIds|+1 hops so a cycle shows.
ChainsOf(s, b) == WalkFrom(s.chain, s.buf[b].first, Cardinality(ChainIds) + 1)

\* evbuffer_expand when the buffer has no chain
FirstChain(s, b, datlen) ==
  IF ~CanAlloc(s) THEN Fail(s)
  ELSE LET t == NewId(s) IN
       Ok([NewChainAt(s, t, datlen) EXCEPT !.buf[b].first = t, !.buf[b].last = t,
                                           !.buf[b].previous_to_last = Nil])

\* Variant: first is not moved to the new chain.
ExpandStKeepFirst(s, b, datlen) ==
  LET c == s.buf[b].last
      ch == s.chain[c]
  IN IF c = Nil THEN FirstChain(s, b, datlen)
     ELSE IF ch.buffer_len >= ch.misalign + Off(s, c) + datlen THEN Ok(s)
     ELSE IF ch.buffer_len - Off(s, c) >= datlen THEN Ok([s EXCEPT !.chain[c].misalign = 0])
     ELSE IF ~CanAlloc(s) THEN Fail(s)
     ELSE LET t == NewId(s)
              s1 == [NewChainAt(s, t, ch.buffer_len - ch.misalign + datlen)
                       EXCEPT !.chain[t].data = ch.data]
              s2 == s1
              p == s2.buf[b].previous_to_last
              s3 == IF p # Nil THEN [s2 EXCEPT !.chain[p].next = t] ELSE s2
          IN Ok(FreeChain([s3 EXCEPT !.buf[b].last = t], c))

\* Variant: the replaced chain is not freed.
ExpandStNoFree(s, b, datlen) ==
  LET c == s.buf[b].last
      ch == s.chain[c]
  IN IF c = Nil THEN FirstChain(s, b, datlen)
     ELSE IF ch.buffer_len >= ch.misalign + Off(s, c) + datlen THEN Ok(s)
     ELSE IF ch.buffer_len - Off(s, c) >= datlen THEN Ok([s EXCEPT !.chain[c].misalign = 0])
     ELSE IF ~CanAlloc(s) THEN Fail(s)
     ELSE LET t == NewId(s)
              s1 == [NewChainAt(s, t, ch.buffer_len - ch.misalign + datlen)
                       EXCEPT !.chain[t].data = ch.data]
              s2 == IF s1.buf[b].first = c THEN [s1 EXCEPT !.buf[b].first = t] ELSE s1
              p == s2.buf[b].previous_to_last
              s3 == IF p # Nil THEN [s2 EXCEPT !.chain[p].next = t] ELSE s2
          IN Ok([s3 EXCEPT !.buf[b].last = t])

\* evbuffer_expand (with evbuffer_chain_align)
ExpandSt(s, b, datlen) ==
  LET c == s.buf[b].last
      ch == s.chain[c]
  IN IF c = Nil THEN FirstChain(s, b, datlen)
     ELSE IF ch.buffer_len >= ch.misalign + Off(s, c) + datlen THEN Ok(s)
     ELSE IF ch.buffer_len - Off(s, c) >= datlen THEN Ok([s EXCEPT !.chain[c].misalign = 0])
     ELSE IF ~CanAlloc(s) THEN Fail(s)
     ELSE LET t == NewId(s)
              s1 == [NewChainAt(s, t, ch.buffer_len - ch.misalign + datlen)
                       EXCEPT !.chain[t].data = ch.data]
              s2 == IF s1.buf[b].first = c THEN [s1 EXCEPT !.buf[b].first = t] ELSE s1
              p == s2.buf[b].previous_to_last
              s3 == IF p # Nil THEN [s2 EXCEPT !.chain[p].next = t] ELSE s2
          IN Ok(FreeChain([s3 EXCEPT !.buf[b].last = t], c))

\* Variant: the head of the data is copied into the last chain before the new chain is allocated.
AddStCopyFirst(s, b, bytes) ==
  LET datlen == Len(bytes)
      old == s.buf[b].total_len
      e == IF s.buf[b].last = Nil THEN ExpandSt(s, b, datlen) ELSE Ok(s)
      s1 == e.st
      c == s1.buf[b].last
      remain == CHAIN_SPACE_LEN(s1, c)
      toAlloc == LET bl == s1.chain[c].buffer_len
                     grown == IF bl <= EVBUFFER_CHAIN_MAX_AUTO_SIZE \div 2 THEN 2 * bl ELSE bl
                 IN Max({grown, datlen})
  IN IF ~e.ok THEN e
     ELSE IF remain >= datlen
     THEN Ok(Invoke([s1 EXCEPT !.chain[c].data = @ \o bytes, !.buf[b].total_len = @ + datlen], b, old))
     ELSE IF s1.chain[c].misalign >= datlen
     THEN Ok(Invoke([s1 EXCEPT !.chain[c].misalign = 0, !.chain[c].data = @ \o bytes,
                               !.buf[b].total_len = @ + datlen], b, old))
     ELSE IF ~CanAlloc(s1) THEN Fail([s1 EXCEPT !.chain[c].data = @ \o SubSeq(bytes, 1, remain)])
     ELSE LET t == NewId(s1) IN
          Ok(Invoke([NewChainAt(s1, t, toAlloc)
                       EXCEPT !.chain[c].next = t, !.buf[b].last = t,
                              !.buf[b].previous_to_last = c, !.buf[b].total_len = @ + datlen,
                              !.chain[c].data = @ \o SubSeq(bytes, 1, remain),
                              !.chain[t].data = SubSeq(bytes, remain + 1, datlen)], b, old))

\* evbuffer_add(buf, bytes, Len(bytes))
AddSt(s, b, bytes) ==
  LET datlen == Len(bytes)
      old == s.buf[b].total_len
      e == IF s.buf[b].last = Nil THEN ExpandSt(s, b, datlen) ELSE Ok(s)
      s1 == e.st
      c == s1.buf[b].last
      remain == CHAIN_SPACE_LEN(s1, c)
      toAlloc == LET bl == s1.chain[c].buffer_len
                     grown == IF bl <= EVBUFFER_CHAIN_MAX_AUTO_SIZE \div 2 THEN 2 * bl ELSE bl
                 IN Max({grown, datlen})
  IN IF ~e.ok THEN e
     ELSE IF remain >= datlen
     THEN Ok(Invoke([s1 EXCEPT !.chain[c].data = @ \o bytes, !.buf[b].total_len = @ + datlen], b, old))
     ELSE IF s1.chain[c].misalign >= datlen
     THEN Ok(Invoke([s1 EXCEPT !.chain[c].misalign = 0, !.chain[c].data = @ \o bytes,
                               !.buf[b].total_len = @ + datlen], b, old))
     ELSE IF ~CanAlloc(s1) THEN Fail(s1)
     ELSE LET t == NewId(s1) IN
          Ok(Invoke([NewChainAt(s1, t, toAlloc)
                       EXCEPT !.chain[c].next = t, !.buf[b].last = t,
                              !.buf[b].previous_to_last = c, !.buf[b].total_len = @ + datlen,
                              !.chain[c].data = @ \o SubSeq(bytes, 1, remain),
                              !.chain[t].data = SubSeq(bytes, remain + 1, datlen)], b, old))

\* Variant: total_len is raised before the new chain is allocated.
PrependStCountFirst(s, b, bytes) ==
  LET datlen == Len(bytes)
      old == s.buf[b].total_len
      empty == s.buf[b].first = Nil
      e == IF empty THEN ExpandSt(s, b, datlen) ELSE Ok(s)
      f == e.st.buf[b].first
      s1 == IF empty THEN [e.st EXCEPT !.chain[f].misalign = e.st.chain[f].buffer_len] ELSE e.st
  IN IF ~e.ok THEN e
     ELSE IF s1.chain[f].misalign >= datlen
     THEN Ok(Invoke([s1 EXCEPT !.chain[f].data = bytes \o @, !.chain[f].misalign = @ - datlen,
                               !.buf[b].total_len = @ + datlen], b, old))
     ELSE IF ~CanAlloc(s1) THEN Fail([s1 EXCEPT !.buf[b].total_len = @ + datlen])
     ELSE LET t == NewId(s1)
              s2 == NewChainAt(s1, t, datlen)
          IN Ok(Invoke([s2 EXCEPT !.buf[b].first = t,
                                  !.buf[b].previous_to_last = IF @ = Nil THEN t ELSE @,
                                  !.chain[t].next = f, !.chain[t].data = bytes,
                                  !.chain[t].misalign = s2.chain[t].buffer_len - datlen,
                                  !.buf[b].total_len = @ + datlen], b, old))

\* evbuffer_prepend(buf, bytes, Len(bytes))
PrependSt(s, b, bytes) ==
  LET datlen == Len(bytes)
      old == s.buf[b].total_len
      empty == s.buf[b].first = Nil
      e == IF empty THEN ExpandSt(s, b, datlen) ELSE Ok(s)
      f == e.st.buf[b].first
      s1 == IF empty THEN [e.st EXCEPT !.chain[f].misalign = e.st.chain[f].buffer_len] ELSE e.st
  IN IF ~e.ok THEN e
     ELSE IF s1.chain[f].misalign >= datlen
     THEN Ok(Invoke([s1 EXCEPT !.chain[f].data = bytes \o @, !.chain[f].misalign = @ - datlen,
                               !.buf[b].total_len = @ + datlen], b, old))
     ELSE IF ~CanAlloc(s1) THEN Fail(s1)
     ELSE LET t == NewId(s1)
              s2 == NewChainAt(s1, t, datlen)
          IN Ok(Invoke([s2 EXCEPT !.buf[b].first = t,
                                  !.buf[b].previous_to_last = IF @ = Nil THEN t ELSE @,
                                  !.chain[t].next = f, !.chain[t].data = bytes,
                                  !.chain[t].misalign = s2.chain[t].buffer_len - datlen,
                                  !.buf[b].total_len = @ + datlen], b, old))

\* COPY_CHAIN / APPEND_CHAIN + evbuffer_add_buffer(outbuf, inbuf)
AddBufferSt(s, out, in) ==
  LET outLen == s.buf[out].total_len
      inLen == s.buf[in].total_len
      s1 == IF outLen = 0 THEN [s EXCEPT !.buf[out] = s.buf[in]]
            ELSE [s EXCEPT !.chain[s.buf[out].last].next = s.buf[in].first,
                           !.buf[out].previous_to_last =
                               IF s.buf[in].previous_to_last # Nil
                               THEN s.buf[in].previous_to_last ELSE s.buf[out].last,
                           !.buf[out].last = s.buf[in].last,
                           !.buf[out].total_len = @ + inLen]
  IN IF inLen = 0 THEN s
     ELSE Invoke(Invoke([s1 EXCEPT !.buf[in] = ZERO_CHAIN], in, inLen), out, outLen)

\* COPY_CHAIN / PREPEND_CHAIN + evbuffer_prepend_buffer(outbuf, inbuf)
PrependBufferSt(s, out, in) ==
  LET outLen == s.buf[out].total_len
      inLen == s.buf[in].total_len
      s1 == IF outLen = 0 THEN [s EXCEPT !.buf[out] = s.buf[in]]
            ELSE [s EXCEPT !.chain[s.buf[in].last].next = s.buf[out].first,
                           !.buf[out].first = s.buf[in].first,
                           !.buf[out].total_len = @ + inLen,
                           !.buf[out].previous_to_last =
                               IF @ = Nil THEN s.buf[in].last ELSE @]
  IN IF inLen = 0 THEN s
     ELSE Invoke(Invoke([s1 EXCEPT !.buf[in] = ZERO_CHAIN], in, inLen), out, outLen)

\* Variant: the drained chains are unlinked but not freed.
RECURSIVE DrainLoopNoFree(_, _, _, _)
DrainLoopNoFree(s, c, len, acc) ==
  IF len >= Off(s, c)
  THEN DrainLoopNoFree(s, s.chain[c].next, len - Off(s, c), acc \o s.chain[c].data)
  ELSE [st |-> s, at |-> c, len |-> len, acc |-> acc]

\* The loop of evbuffer_drain: free whole chains while len covers them;
\* acc collects the bytes that leave.
RECURSIVE DrainLoop(_, _, _, _)
DrainLoop(s, c, len, acc) ==
  IF len >= Off(s, c)
  THEN DrainLoop(FreeChain(s, c), s.chain[c].next, len - Off(s, c), acc \o s.chain[c].data)
  ELSE [st |-> s, at |-> c, len |-> len, acc |-> acc]

\* Consume the first len bytes of chain c (misalign += len; off -= len).
Consume(s, c, len) ==
  [s EXCEPT !.chain[c].misalign = @ + len, !.chain[c].data = SubSeq(@, len + 1, Len(@))]

\* The bytes of the chains cs, in order.
RECURSIVE ChainBytes(_, _)
ChainBytes(ch, cs) == IF cs = <<>> THEN <<>> ELSE ch[Head(cs)].data \o ChainBytes(ch, Tail(cs))
Bytes(s, cs) == ChainBytes(s.chain, cs)

\* Variant: previous_to_last left alone when one chain remains.
DrainStKeepPtl(s, b, len) ==
  LET old == s.buf[b].total_len
      cs == ChainsOf(s, b)
      d == DrainLoop([s EXCEPT !.buf[b].total_len = @ - len], s.buf[b].first, len, <<>>)
      t1 == [d.st EXCEPT !.buf[b].first = d.at]
      t2 == IF t1.buf[b].first = t1.buf[b].last
            THEN [t1 EXCEPT !.buf[b].previous_to_last = Nil] ELSE t1
      t3 == [Consume(t1, d.at, d.len)
               EXCEPT !.delivered = @ \cup ToSet(d.acc \o SubSeq(s.chain[d.at].data, 1, d.len))]
  IN IF old = 0 THEN s
     ELSE IF len >= old
     THEN Invoke([FreeChains(s, ToSet(cs)) EXCEPT !.buf[b] = ZERO_CHAIN,
                           !.delivered = @ \cup ToSet(Bytes(s, cs))], b, old)
     ELSE Invoke(t3, b, old)

\* evbuffer_drain(buf, len)
DrainSt(s, b, len) ==
  LET old == s.buf[b].total_len
      cs == ChainsOf(s, b)
      d == DrainLoop([s EXCEPT !.buf[b].total_len = @ - len], s.buf[b].first, len, <<>>)
      t1 == [d.st EXCEPT !.buf[b].first = d.at]
      t2 == IF t1.buf[b].first = t1.buf[b].last
            THEN [t1 EXCEPT !.buf[b].previous_to_last = Nil] ELSE t1
      t3 == [Consume(t2, d.at, d.len)
               EXCEPT !.delivered = @ \cup ToSet(d.acc \o SubSeq(s.chain[d.at].data, 1, d.len))]
  IN IF old = 0 THEN s
     ELSE IF len >= old
     THEN Invoke([FreeChains(s, ToSet(cs)) EXCEPT !.buf[b] = ZERO_CHAIN,
                           !.delivered = @ \cup ToSet(Bytes(s, cs))], b, old)
     ELSE Invoke(t3, b, old)

\* The loop of evbuffer_remove: it stops as soon as datlen reaches 0.
RECURSIVE RemoveLoop(_, _, _, _)
RemoveLoop(s, c, datlen, acc) ==
  IF datlen > 0 /\ datlen >= Off(s, c)
  THEN RemoveLoop(FreeChain(s, c), s.chain[c].next, datlen - Off(s, c), acc \o s.chain[c].data)
  ELSE [st |-> s, at |-> c, len |-> datlen, acc |-> acc]

\* Variant: total_len reduced by the length the caller asked for, not the clamped one.
RemoveStUnclamped(s, b, datlen0) ==
  LET datlen == Min({datlen0, s.buf[b].total_len})
      r == RemoveLoop(s, s.buf[b].first, datlen, <<>>)
      t1 == [r.st EXCEPT !.buf[b].first = r.at,
                         !.buf[b].last = IF r.at = Nil THEN Nil ELSE @]
      t2 == IF t1.buf[b].first = t1.buf[b].last
            THEN [t1 EXCEPT !.buf[b].previous_to_last = Nil] ELSE t1
      part == IF r.len > 0 THEN SubSeq(s.chain[r.at].data, 1, r.len) ELSE <<>>
      t3 == IF r.len > 0 THEN Consume(t2, r.at, r.len) ELSE t2
      t4 == [t3 EXCEPT !.buf[b].total_len = @ - datlen0,
                       !.delivered = @ \cup ToSet(r.acc \o part)]
  IN IF datlen = 0 THEN s ELSE Invoke(t4, b, t4.buf[b].total_len + datlen)

\* evbuffer_remove(buf, data_out, datlen): the copied bytes reach the client.
RemoveSt(s, b, datlen0) ==
  LET datlen == Min({datlen0, s.buf[b].total_len})
      r == RemoveLoop(s, s.buf[b].first, datlen, <<>>)
      t1 == [r.st EXCEPT !.buf[b].first = r.at,
                         !.buf[b].last = IF r.at = Nil THEN Nil ELSE @]
      t2 == IF t1.buf[b].first = t1.buf[b].last
            THEN [t1 EXCEPT !.buf[b].previous_to_last = Nil] ELSE t1
      part == IF r.len > 0 THEN SubSeq(s.chain[r.at].data, 1, r.len) ELSE <<>>
      t3 == IF r.len > 0 THEN Consume(t2, r.at, r.len) ELSE t2
      t4 == [t3 EXCEPT !.buf[b].total_len = @ - datlen,
                       !.delivered = @ \cup ToSet(r.acc \o part)]
  IN IF datlen = 0 THEN s ELSE Invoke(t4, b, t4.buf[b].total_len + datlen)

\* The loop of evbuffer_remove_buffer: walk the chains that fit in datlen,
\* remembering the last one and the one before it.
RECURSIVE MoveLoop(_, _, _, _, _, _)
MoveLoop(s, c, datlen, previous, pprev, nread) ==
  IF Off(s, c) <= datlen
  THEN MoveLoop(s, s.chain[c].next, datlen - Off(s, c), c, previous, nread + Off(s, c))
  ELSE [at |-> c, datlen |-> datlen, previous |-> previous, pprev |-> pprev, nread |-> nread]

\* Variant: the copied bytes are not consumed from the source chain.
RemoveBufferStNoConsume(s, src, dst, datlen) ==
  LET m == MoveLoop(s, s.buf[src].first, datlen, s.buf[src].first, Nil, 0)
      d1 == IF s.buf[dst].first = Nil THEN [s EXCEPT !.buf[dst].first = s.buf[src].first]
            ELSE [s EXCEPT !.chain[s.buf[dst].last].next = s.buf[src].first]
      d2 == [d1 EXCEPT !.buf[dst].previous_to_last = m.pprev,
                       !.buf[dst].last = m.previous,
                       !.chain[m.previous].next = Nil,
                       !.buf[src].first = m.at,
                       !.buf[dst].total_len = @ + m.nread]
      d3 == IF d2.buf[src].first = d2.buf[src].last
            THEN [d2 EXCEPT !.buf[src].previous_to_last = Nil] ELSE d2
      s1 == IF m.nread > 0 THEN d3 ELSE s
      \* the result of this evbuffer_add is not checked
      s2 == AddSt(s1, dst, SubSeq(s1.chain[m.at].data, 1, m.datlen)).st
      nread == m.nread + m.datlen
      s3 == [s2 EXCEPT !.buf[src].total_len = @ - nread]
  IN IF datlen >= s.buf[src].total_len THEN AddBufferSt(s, dst, src)
     ELSE IF datlen = 0 THEN s
     ELSE Invoke(Invoke(s3, dst, s3.buf[dst].total_len - nread), src, s3.buf[src].total_len + nread)

\* evbuffer_remove_buffer(src, dst, datlen)
RemoveBufferSt(s, src, dst, datlen) ==
  LET m == MoveLoop(s, s.buf[src].first, datlen, s.buf[src].first, Nil, 0)
      d1 == IF s.buf[dst].first = Nil THEN [s EXCEPT !.buf[dst].first = s.buf[src].first]
            ELSE [s EXCEPT !.chain[s.buf[dst].last].next = s.buf[src].first]
      d2 == [d1 EXCEPT !.buf[dst].previous_to_last = m.pprev,
                       !.buf[dst].last = m.previous,
                       !.chain[m.previous].next = Nil,
                       !.buf[src].first = m.at,
                       !.buf[dst].total_len = @ + m.nread]
      d3 == IF d2.buf[src].first = d2.buf[src].last
            THEN [d2 EXCEPT !.buf[src].previous_to_last = Nil] ELSE d2
      s1 == IF m.nread > 0 THEN d3 ELSE s
      \* the result of this evbuffer_add is not checked
      s2 == AddSt(s1, dst, SubSeq(s1.chain[m.at].data, 1, m.datlen)).st
      nread == m.nread + m.datlen
      s3 == [Consume(s2, m.at, m.datlen) EXCEPT !.buf[src].total_len = @ - nread]
  IN IF datlen >= s.buf[src].total_len THEN AddBufferSt(s, dst, src)
     ELSE IF datlen = 0 THEN s
     ELSE Invoke(Invoke(s3, dst, s3.buf[dst].total_len - nread), src, s3.buf[src].total_len + nread)

\* The loop of evbuffer_pullup: copy and free every chain that fits.
RECURSIVE PullLoop(_, _, _, _)
PullLoop(s, c, size, acc) ==
  IF c # Nil /\ size >= Off(s, c)
  THEN PullLoop(FreeChain(s, c), s.chain[c].next, size - Off(s, c), acc \o s.chain[c].data)
  ELSE [st |-> s, at |-> c, size |-> size, acc |-> acc]

\* The tail of evbuffer_pullup: copy from the chain the loop stopped at, fix
\* last / previous_to_last and link tmp to the rest.
PullFinish(b, tmp, p) ==
  LET t == p.st
      c == p.at
      part == IF c # Nil THEN SubSeq(t.chain[c].data, 1, p.size) ELSE <<>>
      t1 == IF c # Nil
            THEN [Consume(t, c, p.size) EXCEPT !.buf[b].previous_to_last =
                                                  IF c = t.buf[b].last THEN tmp ELSE @]
            ELSE [t EXCEPT !.buf[b].last = tmp, !.buf[b].previous_to_last = Nil]
  IN [t1 EXCEPT !.chain[tmp].data = p.acc \o part, !.chain[tmp].next = c]

\* evbuffer_pullup(buf, size); size -1 means the whole buffer.
PullupSt(s, b, size0) ==
  LET size == IF size0 = -1 THEN s.buf[b].total_len ELSE size0
      c == s.buf[b].first
  IN IF size = 0 \/ size > s.buf[b].total_len THEN Ok(s)
     ELSE IF Off(s, c) >= size THEN Ok(s)
     ELSE IF s.chain[c].buffer_len - s.chain[c].misalign >= size
     THEN Ok(PullFinish(b, c, PullLoop(s, s.chain[c].next, size - Off(s, c), s.chain[c].data)))
     ELSE IF ~CanAlloc(s) THEN Fail(s)
     ELSE LET t == NewId(s)
              s1 == [NewChainAt(s, t, size) EXCEPT !.buf[b].first = t]
          IN Ok(PullFinish(b, t, PullLoop(s1, c, size, <<>>)))

\* Variant: previous_to_last is not moved when a chain is added.
ExpandFastStKeepPtl(s, b, datlen) ==
  LET c == s.buf[b].last
      p == s.buf[b].previous_to_last
      empty == Off(s, c) = 0
      s1 == IF empty THEN [s EXCEPT !.chain[c].misalign = 0] ELSE s
      avail == IF empty THEN s.chain[c].buffer_len ELSE CHAIN_SPACE_LEN(s, c)
      inPrev == IF empty /\ p # Nil THEN CHAIN_SPACE_LEN(s, p) ELSE 0
      t == NewId(s1)
      r1 == NewChainAt(s1, t, datlen - inPrev)
      r2 == IF r1.buf[b].first = c THEN [r1 EXCEPT !.buf[b].first = t] ELSE r1
      r3 == IF p # Nil THEN [r2 EXCEPT !.chain[p].next = t] ELSE r2
  IN IF c = Nil THEN FirstChain(s, b, datlen)
     ELSE IF avail + inPrev >= datlen THEN Ok(s1)
     ELSE IF ~CanAlloc(s1) THEN Fail(s1)
     ELSE IF empty THEN Ok(FreeChain([r3 EXCEPT !.buf[b].last = t], c))
     ELSE Ok([NewChainAt(s1, t, datlen - avail)
                EXCEPT !.chain[c].next = t, !.buf[b].last = t])

\* Variant: the empty last chain that is replaced is not freed.
ExpandFastStNoFree(s, b, datlen) ==
  LET c == s.buf[b].last
      p == s.buf[b].previous_to_last
      empty == Off(s, c) = 0
      s1 == IF empty THEN [s EXCEPT !.chain[c].misalign = 0] ELSE s
      avail == IF empty THEN s.chain[c].buffer_len ELSE CHAIN_SPACE_LEN(s, c)
      inPrev == IF empty /\ p # Nil THEN CHAIN_SPACE_LEN(s, p) ELSE 0
      t == NewId(s1)
      r1 == NewChainAt(s1, t, datlen - inPrev)
      r2 == IF r1.buf[b].first = c THEN [r1 EXCEPT !.buf[b].first = t] ELSE r1
      r3 == IF p # Nil THEN [r2 EXCEPT !.chain[p].next = t] ELSE r2
  IN IF c = Nil THEN FirstChain(s, b, datlen)
     ELSE IF avail + inPrev >= datlen THEN Ok(s1)
     ELSE IF ~CanAlloc(s1) THEN Fail(s1)
     ELSE IF empty THEN Ok([r3 EXCEPT !.buf[b].last = t])
     ELSE Ok([NewChainAt(s1, t, datlen - avail)
                EXCEPT !.buf[b].previous_to_last = c, !.chain[c].next = t, !.buf[b].last = t])

\* _evbuffer_expand_fast: room for datlen in the last two chains, no copying.
ExpandFastSt(s, b, datlen) ==
  LET c == s.buf[b].last
      p == s.buf[b].previous_to_last
      empty == Off(s, c) = 0
      s1 == IF empty THEN [s EXCEPT !.chain[c].misalign = 0] ELSE s
      avail == IF empty THEN s.chain[c].buffer_len ELSE CHAIN_SPACE_LEN(s, c)
      inPrev == IF empty /\ p # Nil THEN CHAIN_SPACE_LEN(s, p) ELSE 0
      t == NewId(s1)
      r1 == NewChainAt(s1, t, datlen - inPrev)
      r2 == IF r1.buf[b].first = c THEN [r1 EXCEPT !.buf[b].first = t] ELSE r1
      r3 == IF p # Nil THEN [r2 EXCEPT !.chain[p].next = t] ELSE r2
  IN IF c = Nil THEN FirstChain(s, b, datlen)
     ELSE IF avail + inPrev >= datlen THEN Ok(s1)
     ELSE IF ~CanAlloc(s1) THEN Fail(s1)
     ELSE IF empty THEN Ok(FreeChain([r3 EXCEPT !.buf[b].last = t], c))
     ELSE Ok([NewChainAt(s1, t, datlen - avail)
                EXCEPT !.buf[b].previous_to_last = c, !.chain[c].next = t, !.buf[b].last = t])

\* The FIONREAD clamp of evbuffer_read: how many bytes to ask for when the
\* socket reports avail readable bytes.
ReadAmount(s, b, howmuch, avail) ==
  LET c == s.buf[b].last
      n == IF avail = 0 THEN EVBUFFER_MAX_READ
           ELSE IF avail > EVBUFFER_MAX_READ /\ avail > howmuch
                THEN IF c = Nil \/ avail < EVBUFFER_MAX_READ THEN EVBUFFER_MAX_READ
                     ELSE IF avail > s.chain[c].buffer_len * 4 THEN s.chain[c].buffer_len * 4
                     ELSE avail
           ELSE avail
  IN IF howmuch < 0 \/ howmuch > n THEN n ELSE howmuch

\* The iovecs evbuffer_read hands to readv: whether the space of
\* previous_to_last is used, how many vectors, and their total length.
ReadVecs(s, b, howmuch) ==
  LET c == s.buf[b].last
      p == s.buf[b].previous_to_last
  IN IF Off(s, c) = 0 /\ p # Nil /\ CHAIN_SPACE_LEN(s, p) > 0
     THEN IF CHAIN_SPACE_LEN(s, p) >= howmuch
          THEN [prev |-> TRUE, nvecs |-> 1, cap |-> CHAIN_SPACE_LEN(s, p)]
          ELSE [prev |-> TRUE, nvecs |-> 2,
                cap |-> Min({CHAIN_SPACE_LEN(s, p) + CHAIN_SPACE_LEN(s, c), howmuch})]
     ELSE [prev |-> FALSE, nvecs |-> 1, cap |-> Min({CHAIN_SPACE_LEN(s, c), howmuch})]

\* Variant: total_len grows by the vector length rather than by what readv returned.
ReadAccountCountVec(s, b, v, n) ==
  LET c == s.buf[b].last
      p == s.buf[b].previous_to_last
      space == CHAIN_SPACE_LEN(s, p)
      bytes == Fresh(s, n)
      s1 == IF v.nvecs = 2
            THEN IF space < n
                 THEN [s EXCEPT !.chain[p].data = @ \o SubSeq(bytes, 1, space),
                                !.chain[c].data = @ \o SubSeq(bytes, space + 1, n)]
                 ELSE [s EXCEPT !.chain[p].data = @ \o bytes]
            ELSE IF v.prev THEN [s EXCEPT !.chain[c].data = @ \o GarbageBytes(n)]
            ELSE [s EXCEPT !.chain[c].data = @ \o bytes]
  IN Invoke([s1 EXCEPT !.buf[b].total_len = @ + v.cap, !.produced = @ + n], b, s.buf[b].total_len)

\* evbuffer_read after readv returned n > 0: count the bytes into the chains.
\* With one vector the code counts them on the last chain, wherever readv
\* put them.
ReadAccount(s, b, v, n) ==
  LET c == s.buf[b].last
      p == s.buf[b].previous_to_last
      space == CHAIN_SPACE_LEN(s, p)
      bytes == Fresh(s, n)
      s1 == IF v.nvecs = 2
            THEN IF space < n
                 THEN [s EXCEPT !.chain[p].data = @ \o SubSeq(bytes, 1, space),
                                !.chain[c].data = @ \o SubSeq(bytes, space + 1, n)]
                 ELSE [s EXCEPT !.chain[p].data = @ \o bytes]
            ELSE IF v.prev THEN [s EXCEPT !.chain[c].data = @ \o GarbageBytes(n)]
            ELSE [s EXCEPT !.chain[c].data = @ \o bytes]
  IN Invoke([s1 EXCEPT !.buf[b].total_len = @ + n, !.produced = @ + n], b, s.buf[b].total_len)

\* What readv may return: -1 (EAGAIN or an error), 0 at EOF, else at most
\* what is readable and what the vectors hold.
ReadResults(avail, cap) ==
  {-1} \cup (IF avail = 0 THEN {0} ELSE 1..Min({avail, cap}))

\* evbuffer_write_atmost: at most NUM_IOVEC chains, at most howmuch bytes.
WriteCap(s, b, howmuch0) ==
  LET howmuch == IF howmuch0 < 0 THEN s.buf[b].total_len ELSE howmuch0
      cs == ChainsOf(s, b)
      vec == SubSeq(cs, 1, Min({NUM_IOVEC, Len(cs)}))
  IN Min({howmuch, Len(Bytes(s, vec))})

\* Variant: after the second expand the output goes to the chain the first one left.
PrintfStStale(s, b, sz) ==
  LET old == s.buf[b].total_len
      Put(t) == LET c == t.buf[b].last IN
                [t EXCEPT !.chain[c].data = @ \o Fresh(t, sz), !.buf[b].total_len = @ + sz,
                          !.produced = @ + sz]
      e1 == ExpandSt(s, b, PrintfReserve)
      e2 == ExpandSt(e1.st, b, sz + 1)
  IN IF ~e1.ok THEN e1
     ELSE IF sz < CHAIN_SPACE_LEN(e1.st, e1.st.buf[b].last) THEN Ok(Invoke(Put(e1.st), b, old))
     ELSE IF ~e2.ok THEN e2
     ELSE Ok(Invoke(LET c == e1.st.buf[b].last IN
                    [e2.st EXCEPT !.chain[c].data = @ \o Fresh(e2.st, sz),
                       !.buf[b].total_len = @ + sz, !.produced = @ + sz], b, old))

\* evbuffer_add_vprintf formatting sz bytes.
PrintfSt(s, b, sz) ==
  LET old == s.buf[b].total_len
      Put(t) == LET c == t.buf[b].last IN
                [t EXCEPT !.chain[c].data = @ \o Fresh(t, sz), !.buf[b].total_len = @ + sz,
                          !.produced = @ + sz]
      e1 == ExpandSt(s, b, PrintfReserve)
      e2 == ExpandSt(e1.st, b, sz + 1)
  IN IF ~e1.ok THEN e1
     ELSE IF sz < CHAIN_SPACE_LEN(e1.st, e1.st.buf[b].last) THEN Ok(Invoke(Put(e1.st), b, old))
     ELSE IF ~e2.ok THEN e2
     ELSE Ok(Invoke(Put(e2.st), b, old))

\* evbuffer_commit_space after the client wrote size bytes at the reserved
\* pointer.
CommitSt(s, b, size) ==
  LET c == s.buf[b].last IN
  IF c = Nil \/ CHAIN_SPACE_LEN(s, c) < size THEN s
  ELSE [s EXCEPT !.chain[c].data = @ \o Fresh(s, size), !.buf[b].total_len = @ + size,
                 !.produced = @ + size]

-----------------------------------------------------------------------------
(* The API calls.  oom: whether mm_malloc fails during the call.           *)

\* A call is a step only if every allocation it tried either succeeded or
\* was allowed to fail.  contents is recomputed from the chain lists.
Apply(s) ==
  /\ s.failed => MallocFails
  /\ chain' = s.chain /\ alloc' = s.alloc /\ buf' = s.buf
  /\ produced' = s.produced /\ delivered' = s.delivered /\ notified' = s.notes
  /\ contents' = [b \in Bufs |-> Bytes(s, ChainsOf(s, b))]

OomChoices == IF MallocFails THEN BOOLEAN ELSE {FALSE}

Room(k) == produced + k <= MaxBytes

Add(b, k, oom) ==
  /\ "add" \in Ops /\ Room(k)
  /\ LET r == AddSt(S0(oom), b, Fresh(S0(oom), k)) IN
     Apply(IF r.ok THEN [r.st EXCEPT !.produced = @ + k] ELSE r.st)

Prepend(b, k, oom) ==
  /\ "prepend" \in Ops /\ Room(k)
  /\ LET r == PrependSt(S0(oom), b, Fresh(S0(oom), k)) IN
     Apply(IF r.ok THEN [r.st EXCEPT !.produced = @ + k] ELSE r.st)

Drain(b, n) == "drain" \in Ops /\ Apply(DrainSt(S0(FALSE), b, n))

EvbufferRemove(b, n) == "remove" \in Ops /\ Apply(RemoveSt(S0(FALSE), b, n))

AddBuffer(out, in) ==
  /\ "add_buffer" \in Ops /\ out # in
  /\ Apply(AddBufferSt(S0(FALSE), out, in))

PrependBuffer(out, in) ==
  /\ "prepend_buffer" \in Ops /\ out # in
  /\ Apply(PrependBufferSt(S0(FALSE), out, in))

RemoveBuffer(src, dst, n, oom) ==
  /\ "remove_buffer" \in Ops /\ src # dst
  /\ Apply(RemoveBufferSt(S0(oom), src, dst, n))

\* evbuffer_pullup, and evbuffer_find, which pulls up the whole buffer.
Pullup(b, size, oom) == "pullup" \in Ops /\ Apply(PullupSt(S0(oom), b, size).st)

\* evbuffer_expand, and evbuffer_reserve_space, which is evbuffer_expand.
Expand(b, n, oom) == "expand" \in Ops /\ Apply(ExpandSt(S0(oom), b, n).st)

Commit(b, n) == "commit" \in Ops /\ Room(n) /\ Apply(CommitSt(S0(FALSE), b, n))

\* evbuffer_read(buf, fd, howmuch) on a socket with avail readable bytes.
Read(b, howmuch, avail, oom) ==
  /\ "read" \in Ops
  /\ LET s == S0(oom)
         hm == ReadAmount(s, b, howmuch, avail)
         e == ExpandFastSt(s, b, hm)
         v == ReadVecs(e.st, b, hm)
     IN IF ~e.ok THEN Apply(e.st)
        ELSE \E n \in ReadResults(avail, v.cap) :
               /\ Room(n)
               /\ Apply(IF n <= 0 THEN e.st ELSE ReadAccount(e.st, b, v, n))

\* evbuffer_write_atmost / evbuffer_write: writev takes n bytes, then drain.
Write(b, howmuch) ==
  /\ "write" \in Ops
  /\ LET s == S0(FALSE)
         cap == WriteCap(s, b, howmuch)
     IN \E n \in {-1} \cup (IF cap = 0 THEN {0} ELSE 1..cap) :
          Apply(IF n <= 0 THEN s ELSE DrainSt(s, b, n))

Printf(b, sz, oom) ==
  /\ "printf" \in Ops /\ Room(sz)
  /\ Apply(PrintfSt(S0(oom), b, sz).st)

Next ==
  \E oom \in OomChoices :
    \/ \E b \in Bufs, k \in Sizes : Add(b, k, oom) \/ Prepend(b, k, oom) \/ Printf(b, k, oom)
                                    \/ Drain(b, k) \/ EvbufferRemove(b, k) \/ Commit(b, k)
                                    \/ Expand(b, k, oom)
    \/ \E b \in Bufs, k \in Sizes \cup {-1} : Pullup(b, k, oom) \/ Write(b, k)
    \/ \E b \in Bufs, k \in Sizes \cup {-1}, avail \in SocketAvail : Read(b, k, avail, oom)
    \/ \E src, dst \in Bufs :
         \/ AddBuffer(dst, src) \/ PrependBuffer(dst, src)
         \/ \E k \in Sizes : RemoveBuffer(src, dst, k, oom)

Spec == Init /\ [][Next]_vars

-----------------------------------------------------------------------------
(* Properties.                                                             *)

Chains(b) == WalkFrom(chain, buf[b].first, Cardinality(ChainIds) + 1)

Chain == [buffer_len : Nat, misalign : Nat, data : Seq(0..MaxBytes), next : ChainIds \cup {Nil}]

TypeOK ==
  /\ chain \in [ChainIds -> Chain]
  /\ alloc \subseteq ChainIds
  /\ buf \in [Bufs -> [first : ChainIds \cup {Nil}, last : ChainIds \cup {Nil},
                       previous_to_last : ChainIds \cup {Nil}, total_len : Nat]]
  /\ produced \in 0..MaxBytes
  /\ delivered \subseteq 0..MaxBytes
  /\ notified \in Seq(Bufs \X Nat \X Nat)
  /\ contents \in [Bufs -> Seq(0..MaxBytes)]

\* The pointers of every evbuffer describe a well-formed list, whatever
\* sequence of calls built it: first and last are both set or both NULL, the
\* list from first is acyclic, reaches last and uses only live chains, and
\* previous_to_last is the chain before last (NULL for a single chain).  The
\* in-place rewrites of evbuffer_expand and _evbuffer_expand_fast
\* (previous_to_last->next = tmp) rely on this.
HeapShape ==
  \A b \in Bufs :
    LET cs == Chains(b) IN
    /\ (buf[b].first = Nil) <=> (buf[b].last = Nil)
    /\ Len(cs) <= Cardinality(ChainIds)
    /\ ToSet(cs) \subseteq alloc
    /\ cs # <<>> => Last(cs) = buf[b].last
    /\ buf[b].previous_to_last = IF Len(cs) >= 2 THEN cs[Len(cs) - 1] ELSE Nil

\* Every allocated chain belongs to exactly one evbuffer: no call leaks a
\* chain (drops it without mm_free) and no two buffers share one after a
\* splice (COPY_CHAIN, APPEND_CHAIN, PREPEND_CHAIN).
NoLeakedChains ==
  /\ alloc = UNION {ToSet(Chains(b)) : b \in Bufs}
  /\ \A b1, b2 \in Bufs : b1 # b2 => ToSet(Chains(b1)) \cap ToSet(Chains(b2)) = {}

\* The cached total_len equals the sum of off over the chain list.
TotalLenMatches ==
  \A b \in Bufs : buf[b].total_len = Len(contents[b])

\* No chain holds more bytes than its allocation: misalign + off never
\* exceeds buffer_len (else a later memcpy writes past the chain).
ChainBounds ==
  \A c \in alloc : chain[c].misalign + Len(chain[c].data) <= chain[c].buffer_len

\* Change notification (evbuffer_invoke_callbacks): a call that changes the
\* length of a buffer notifies that buffer exactly once, with its length
\* before and after the call; a call that leaves the length alone does not
\* notify it.
NotifyExact ==
  [][\A b \in Bufs :
       SelectSeq(notified', LAMBDA x : x[1] = b) =
         IF buf'[b].total_len = buf[b].total_len THEN <<>>
         ELSE << <<b, buf[b].total_len, buf'[b].total_len>> >>]_vars

\* ChainBuffer implements ByteQueue: the bytes of each buffer, read along its
\* chain list, behave as a FIFO queue; no call loses, duplicates, reorders or
\* invents a byte.
ABS == INSTANCE ByteQueue WITH q <- contents, MaxChunk <- MaxBytes
ContentsPreserved == ABS!Spec

=============================================================================
