---------------------------- MODULE MCChainBuffer ----------------------------
(***************************************************************************)
(* ChainBuffer instantiated for TLC.  Sizes are scaled down by the same    *)
(* rules as the C constants: with a 2-byte MIN_BUFFER_SIZE and a 1-byte    *)
(* chain header, evbuffer_chain_new hands out chains of 1, 3 or 7 bytes,   *)
(* so one add fills a chain, a second one overflows it, and the doubling   *)
(* of evbuffer_add and the realignment of evbuffer_expand both happen.     *)
(* Each run is a client profile: the API functions its client calls.       *)
(***************************************************************************)
EXTENDS ChainBuffer

MCChainIds == 1..4

\* a client that only queues and dequeues bytes
QueueOps == {"add", "prepend", "drain", "remove", "pullup", "add_buffer",
             "prepend_buffer", "write"}

\* a client that formats into, or reserves and commits, space
ReserveOps == {"add", "drain", "remove", "pullup", "expand", "commit", "printf",
               "prepend", "write"}

\* a socket reader: evbuffer_read plus the ways the buffer is consumed
ReadOps == {"read", "add", "drain", "remove", "write", "pullup"}

\* a client that moves bytes between buffers without a later expand
MoveOps == {"remove_buffer", "add", "drain", "remove", "add_buffer",
            "prepend_buffer", "pullup", "prepend", "write"}

\* splicing a buffer that holds only an empty chain
SpliceExpandOps == {"add", "expand", "add_buffer"}

\* reserve and commit space with the length watched
CommitOps == {"expand", "commit"}

\* moving part of a buffer
MoveOnlyOps == {"add", "remove_buffer"}

\* reading into a buffer whose last chain is empty
ReadOnlyOps == {"read", "add", "write"}
====
