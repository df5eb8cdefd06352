--------------------------- MODULE ConnAllocator ---------------------------
(***************************************************************************)
(* What a connection pool promises: while it is open, every connection is  *)
(* either free or lent to one thread; a thread is lent only a free         *)
(* connection and only the borrower gives it back.  SqlConnPool.tla        *)
(* implements this module.                                                 *)
(***************************************************************************)
CONSTANTS Threads, Conns

VARIABLES free,    \* the connections no thread is using
          lent     \* lent[t]: the connections thread t is using

vars == <<free, lent>>

Init == free = {} /\ lent = [t \in Threads |-> {}]

Used == UNION {lent[t] : t \in Threads}

\* A new connection to the server joins the pool.
Open(c) ==
  /\ c \notin free \cup Used
  /\ free' = free \cup {c}
  /\ UNCHANGED lent

Lend(t, c) ==
  /\ c \in free
  /\ free' = free \ {c}
  /\ lent' = [lent EXCEPT ![t] = @ \cup {c}]

GiveBack(t, c) ==
  /\ c \in lent[t]
  /\ free' = free \cup {c}
  /\ lent' = [lent EXCEPT ![t] = @ \ {c}]

\* The pool may be closed only when it has everything back.
Close ==
  /\ Used = {}
  /\ free' = {}
  /\ UNCHANGED lent

Next ==
  \/ Close
  \/ \E c \in Conns : Open(c)
  \/ \E t \in Threads, c \in Conns : Lend(t, c) \/ GiveBack(t, c)

Spec == Init /\ [][Next]_vars

\* No two threads are lent one connection, and a free one is lent to nobody.
Exclusive ==
  /\ free \cap Used = {}
  /\ \A t, u \in Threads : t # u => lent[t] \cap lent[u] = {}
=============================================================================
