------------------------------ MODULE ByteQueue ------------------------------
(***************************************************************************)
(* What an evbuffer promises its clients, with the chains abstracted away: *)
(* each buffer is a FIFO sequence of bytes.  Every byte that enters the    *)
(* system is fresh (bytes are numbered in the order they are produced), so *)
(* a behaviour of this module never loses, duplicates, reorders or invents *)
(* a byte: a byte is in exactly one buffer, or it was handed to the client *)
(* (delivered).  ChainBuffer is shown to implement this specification.     *)
(***************************************************************************)
EXTENDS Naturals, Sequences

CONSTANTS
  Bufs,      \* the buffers
  MaxChunk   \* the most bytes one operation adds

VARIABLES
  q,          \* q[b]: the bytes of buffer b, oldest first
  produced,   \* number of bytes produced so far; byte i is the number i
  delivered   \* the bytes handed to the client by drain/remove/write

vars == <<q, produced, delivered>>

Fresh(k) == [i \in 1..k |-> produced + i]

Init ==
  /\ q = [b \in Bufs |-> <<>>]
  /\ produced = 0
  /\ delivered = {}

\* Fresh bytes appended at the tail (add, commit, printf, read).
Put(b) ==
  /\ UNCHANGED delivered
  /\ produced' > produced
  /\ produced' <= produced + MaxChunk
  /\ LET k == produced' - produced IN q' = [q EXCEPT ![b] = @ \o Fresh(k)]

\* Fresh bytes placed at the head (prepend).
PutFront(b) ==
  /\ UNCHANGED delivered
  /\ produced' > produced
  /\ produced' <= produced + MaxChunk
  /\ LET k == produced' - produced IN q' = [q EXCEPT ![b] = Fresh(k) \o @]

\* The oldest n bytes leave the buffer and reach the client.
Take(b) ==
  /\ UNCHANGED produced
  /\ LET qb == q[b] IN
     \E n \in 1..Len(qb) :
       /\ delivered' = delivered \cup {qb[i] : i \in 1..n}
       /\ q' = [q EXCEPT ![b] = SubSeq(qb, n + 1, Len(qb))]

\* The oldest n bytes of src move to the tail of dst.
Move(src, dst) ==
  /\ UNCHANGED <<produced, delivered>>
  /\ src # dst
  /\ LET qs == q[src] IN
     \E n \in 1..Len(qs) :
       q' = [q EXCEPT ![src] = SubSeq(qs, n + 1, Len(qs)),
                      ![dst] = @ \o SubSeq(qs, 1, n)]

\* All of src moves to the head of dst.
MoveFront(src, dst) ==
  /\ UNCHANGED <<produced, delivered>>
  /\ src # dst
  /\ LET qs == q[src] IN
     /\ qs # <<>>
     /\ q' = [q EXCEPT ![src] = <<>>, ![dst] = qs \o @]

Next ==
  \/ \E b \in Bufs : Put(b) \/ PutFront(b) \/ Take(b)
  \/ \E src, dst \in Bufs : Move(src, dst) \/ MoveFront(src, dst)

Spec == Init /\ [][Next]_vars

=============================================================================
