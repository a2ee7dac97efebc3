---------------------------- MODULE MCLifecycle ----------------------------
(* Lifecycle with two sockets and one filter.                              *)
EXTENDS Lifecycle, TLC

CONSTANTS s1, s2, f1

MCSocks == {s1, s2}
MCFilts == {f1}

\* The two sockets are interchangeable until a filter wraps one.
SockSymmetry == Permutations(MCSocks)
====
