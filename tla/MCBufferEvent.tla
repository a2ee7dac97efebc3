---------------------------- MODULE MCBufferEvent ----------------------------
(* Client profiles for the BufferEvent runs.                               *)
EXTENDS BufferEvent

\* Everything bufferevent.c offers a client of a socket bufferevent.
BevOps == {"write", "read", "enable", "disable", "setwatermark", "settimeouts"}

====
