--------------------------- MODULE MCCallbackList ---------------------------
EXTENDS CallbackList

CONSTANTS f, a1, a2, u1, u2, fcb

MCAddrs == {f, a1, a2}

\* Well-behaved user callbacks: one may unregister itself or register
\* another callback, the other may disable itself.
SafeReactions == (u1 :> {"none", "remove_self", "add"}) @@
                 (u2 :> {"none", "disable_self"})

\* A user callback that unregisters another entry, as the spec allows.
RemoveOtherReactions == (u1 :> {"none", "remove_other"}) @@ (u2 :> {"none"})

\* A user callback that writes to the buffer it is notified about.
WriteReactions == (u1 :> {"none", "write"}) @@ (u2 :> {"none"})
=============================================================================
