-------------------------- MODULE MCAsyncioAdapter --------------------------
EXTENDS AsyncioAdapter

CONSTANTS t1, t2, t3

(* A fresh Operation for every call, as read(), write(), fsync() make it.  *)
MCOperation == [t \in Task |-> t]

(* The kernel's ring: the least power of two that has the room.            *)
MCEntries ==
  [n \in MaxRequests |->
     LET powers == {2 ^ k : k \in 0 .. n} IN
     CHOOSE p \in powers : p > n /\ \A q \in powers : q > n => p <= q]
=============================================================================
