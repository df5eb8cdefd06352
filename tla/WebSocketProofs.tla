--------------------------- MODULE WebSocketProofs ---------------------------
(***************************************************************************)
(* Theorems about the two ends of the WebSocket: the handlers of the       *)
(* server (WebSocketApi), for any number of connections and rows, and the  *)
(* scripts of the page (PageRequests), for any number of calls, lost       *)
(* connections and attempts.                                               *)
(***************************************************************************)
EXTENDS WebSocketApi, PageRequests, SequenceTheorems, FiniteSetTheorems, TLAPS

\* No element twice.
NoRepeats(s) == \A i, j \in 1..Len(s) : s[i] = s[j] => i = j

Reading == pc \in {"query", "commit"}

\* The handler at work has a connection, and one that asks finds one.  There is
\* a query left to make.
Equipped ==
  /\ pc \in {"begin", "query", "commit", "insert", "release"} => conn \in Conns
  /\ pc \in {"idle", "take"} => queue # <<>>
  /\ pc \notin {"idle", "dead"} => left >= 1

\* Every row written is in at most one place.
Placed ==
  /\ table \subseteq 1..rows /\ lost \subseteq 1..rows
  /\ \A c \in Conns : pending[c] \subseteq 1..rows
  /\ \A c, d \in Conns : c # d => pending[c] \cap pending[d] = {}
  /\ \A c \in Conns : pending[c] \cap (table \cup lost) = {}
  /\ table \cap lost = {}
  /\ \A c \in Conns \ up : pending[c] = {}

Kept ==
  /\ \A r \in saved : r \in table \cup lost \/ \E c \in Conns : r \in pending[c]
  /\ NothingIsRolledBack

\* START TRANSACTION has committed what was there when the query runs.
Clean ==
  /\ Reading => pending[conn] = {}
  /\ asked \subseteq table
  /\ ReadsAreCommitted

\* The same as TransactionsEnd, with the connection of the handler.
Transactions ==
  /\ open \subseteq up
  /\ \A c \in open : pending[c] # {} \/ c \in unread \/ (Reading /\ c = conn)

\* A connection is in the queue once, and not while a handler has it.
OneUser ==
  /\ NoRepeats(queue)
  /\ conn # None => conn \notin Elems(queue)

IInv == TypeOK /\ Equipped /\ Placed /\ Kept /\ Clean /\ Transactions

-----------------------------------------------------------------------------
(* The sequences used as queues *)

\* The elements of a sequence after Append.
LEMMA AppendElements ==
  ASSUME NEW S, NEW s \in Seq(S), NEW x \in S
  PROVE  /\ Append(s, x) \in Seq(S)
         /\ Elems(Append(s, x)) = Elems(s) \cup {x}
         /\ Len(Append(s, x)) = Len(s) + 1
         /\ \A i \in 1..Len(s) : Append(s, x)[i] = s[i]
         /\ x \notin Elems(s) /\ NoRepeats(s) => NoRepeats(Append(s, x))
<1>1. /\ Append(s, x) \in Seq(S) /\ Len(Append(s, x)) = Len(s) + 1 /\ Len(s) \in Nat
      /\ \A i \in 1..Len(s) : Append(s, x)[i] = s[i]
      /\ Append(s, x)[Len(s) + 1] = x
  OBVIOUS
<1>2. 1..(Len(s) + 1) = 1..Len(s) \cup {Len(s) + 1} /\ Len(s) + 1 \notin 1..Len(s)
  BY <1>1
<1>3. Elems(Append(s, x)) = Elems(s) \cup {x}
  BY <1>1, <1>2 DEF Elems
<1>4. x \notin Elems(s) /\ NoRepeats(s) => NoRepeats(Append(s, x))
  BY <1>1, <1>2 DEF Elems, NoRepeats
<1> QED BY <1>1, <1>3, <1>4

\* What Tail leaves of a sequence.
LEMMA TailElems ==
  ASSUME NEW S, NEW s \in Seq(S), s # <<>>
  PROVE  /\ Tail(s) \in Seq(S) /\ Elems(Tail(s)) \subseteq Elems(s)
         /\ Head(s) \in S /\ Head(s) \in Elems(s)
<1>1. /\ Tail(s) \in Seq(S) /\ Len(s) \in Nat /\ Len(s) # 0
      /\ Len(Tail(s)) = Len(s) - 1 /\ Head(s) = s[1] /\ Head(s) \in S
      /\ \A i \in 1..(Len(s) - 1) : Tail(s)[i] = s[i + 1] /\ i + 1 \in 1..Len(s)
  OBVIOUS
<1> QED BY <1>1 DEF Elems

-----------------------------------------------------------------------------
(* The handlers: the actions keep the invariant *)

LEMMA InitInv == Init => IInv
<1> SUFFICES ASSUME Init PROVE IInv
  OBVIOUS
<1>1. Cardinality(Conns) \in Nat /\ Cardinality(Conns) # 0
  BY ApiAssumption, FS_CardinalityType, FS_EmptySet
<1>2. queue \in Seq(Conns) /\ Len(queue) = Cardinality(Conns) /\ queue # <<>>
  BY <1>1 DEF Init
<1>3. TypeOK
  BY <1>2, ApiAssumption DEF Init, TypeOK, Jobs
<1>4. Equipped /\ Placed /\ Kept /\ Clean /\ Transactions
  BY <1>2 DEF Init, Equipped, Placed, Kept, Clean, Transactions, Reading,
              NothingIsRolledBack, ReadsAreCommitted
<1> QED BY <1>3, <1>4 DEF IInv

LEMMA RequestInv ==
  ASSUME IInv, NEW work \in Jobs, Request(work)
  PROVE  IInv'
<1> USE DEF IInv, Request, session, store, answers
<1>1. TypeOK' /\ Equipped'
  BY DEF TypeOK, Equipped, Jobs
<1>2. Placed' /\ Kept' /\ Clean' /\ Transactions'
  BY DEF Placed, Kept, Clean, Transactions, Reading, NothingIsRolledBack, ReadsAreCommitted
<1> QED BY <1>1, <1>2

LEMMA TakeInv ==
  ASSUME IInv, Take
  PROVE  IInv'
<1> USE DEF IInv, Take, session, store, answers, request
<1>1. Head(queue) \in Conns /\ Tail(queue) \in Seq(Conns)
  BY DEF TypeOK, Equipped
<1>2. TypeOK' /\ Equipped'
  BY <1>1 DEF TypeOK, Equipped
<1>3. Placed' /\ Kept'
  BY DEF Placed, Kept, NothingIsRolledBack
<1>4. ~Reading /\ ~Reading' /\ pc' # "commit"
  BY DEF Reading
<1>5. Clean'
  BY <1>4 DEF Clean, ReadsAreCommitted
<1>6. Transactions'
  BY <1>4 DEF Transactions
<1> QED BY <1>2, <1>3, <1>5, <1>6

LEMMA ReleaseInv ==
  ASSUME IInv, Release
  PROVE  IInv'
<1> USE DEF IInv, Release, session, store, answers
<1>1. conn \in Conns /\ left \in 1..4 /\ left - 1 \in 0..4 /\ (left > 1 => left - 1 >= 1)
  BY DEF TypeOK, Equipped
<1>2. Append(queue, conn) \in Seq(Conns) /\ Append(queue, conn) # <<>>
  BY <1>1 DEF TypeOK
<1>3. TypeOK' /\ Equipped'
  BY <1>1, <1>2 DEF TypeOK, Equipped
<1>4. Placed' /\ Kept'
  BY DEF Placed, Kept, NothingIsRolledBack
<1>5. ~Reading /\ ~Reading' /\ pc' # "commit"
  BY DEF Reading
<1>6. Clean'
  BY <1>5 DEF Clean, ReadsAreCommitted
<1>7. Transactions'
  BY <1>5 DEF Transactions
<1> QED BY <1>3, <1>4, <1>6, <1>7
LEMMA BeginInv ==
  ASSUME IInv, Begin
  PROVE  IInv'
<1> USE DEF IInv, Begin, request, CommitPending
<1>1. conn \in Conns /\ pending' \in [Conns -> SUBSET Nat] /\ pending'[conn] = {}
      /\ \A c \in Conns : c # conn => pending'[c] = pending[c]
  BY DEF TypeOK, Equipped
<1>2. TypeOK' /\ Equipped'
  BY <1>1 DEF TypeOK, Equipped
<1>3. Placed'
  BY <1>1 DEF Placed
<1>4. Kept'
  BY <1>1 DEF Kept, NothingIsRolledBack
<1>5. Clean'
  BY <1>1 DEF Clean, Reading, ReadsAreCommitted
<1>6. Transactions'
  BY <1>1 DEF Transactions, Reading
<1> QED BY <1>2, <1>3, <1>4, <1>5, <1>6

LEMMA BeginFailsInv ==
  ASSUME IInv, BeginFails
  PROVE  IInv'
<1> USE DEF IInv, BeginFails, request, session, store, answers
<1>1. conn \in Conns /\ conn \notin up
  BY DEF Equipped
<1>2. TypeOK' /\ Equipped' /\ Placed' /\ Kept'
  BY <1>1 DEF TypeOK, Equipped, Placed, Kept, NothingIsRolledBack
<1>3. Clean'
  BY <1>1 DEF Clean, Reading, Placed, ReadsAreCommitted
<1>4. Transactions'
  BY <1>1 DEF Transactions, Reading
<1> QED BY <1>2, <1>3, <1>4

\* A connection that rolls back loses what was pending in it.
LEMMA RollbackPending ==
  ASSUME TypeOK, NEW c \in Conns, Rollback(c)
  PROVE  /\ pending' \in [Conns -> SUBSET Nat] /\ lost' = lost \cup pending[c]
         /\ pending'[c] = {} /\ c \notin open' /\ open' \subseteq open
         /\ \A d \in Conns : d # c => pending'[d] = pending[d]
BY DEF TypeOK, Rollback

LEMMA QueryFailsInv ==
  ASSUME IInv, QueryFails
  PROVE  IInv'
<1> USE DEF IInv, QueryFails, request, answers
<1>1. conn \in Conns /\ pending[conn] = {} /\ pending[conn] \subseteq Nat
  BY DEF Equipped, Clean, Reading
<1>2. pending' = pending /\ lost' = lost /\ open' = open \ {conn}
  BY <1>1 DEF Rollback, TypeOK
<1>3. TypeOK' /\ Equipped' /\ Placed' /\ Kept'
  BY <1>1, <1>2 DEF TypeOK, Equipped, Placed, Kept, NothingIsRolledBack
<1>4. Clean' /\ Transactions'
  BY <1>1, <1>2 DEF Clean, Transactions, Reading, ReadsAreCommitted
<1> QED BY <1>3, <1>4

LEMMA ResultFailsInv ==
  ASSUME IInv, ResultFails
  PROVE  IInv'
<1> USE DEF IInv, ResultFails, request, session, store, answers
<1>1. conn \in Conns
  BY DEF Equipped
<1>2. TypeOK' /\ Equipped' /\ Placed' /\ Kept'
  BY <1>1 DEF TypeOK, Equipped, Placed, Kept, NothingIsRolledBack
<1>3. Clean' /\ Transactions'
  BY <1>1 DEF Clean, Transactions, Reading, ReadsAreCommitted
<1> QED BY <1>2, <1>3

LEMMA QueryInv ==
  ASSUME IInv, Query \/ QueryTruncated \/ Count
  PROVE  IInv'
<1> USE DEF IInv, request, session, store
<1>1. /\ conn \in Conns /\ pending[conn] = {} /\ Visible = table
      /\ pc = "query" /\ pc' = "commit"
      /\ result' \subseteq table /\ unread' \in {unread, unread \cup {conn}}
      /\ asked' = asked /\ (asked \subseteq result' \/ (job = "fetch" /\ conn \in unread'))
      /\ UNCHANGED <<queue, job, left, conn, up, autocommit, open, pending, table, lost, rows, saved>>
  BY DEF Equipped, Clean, Reading, Visible, Query, QueryTruncated, Count
<1>2. TypeOK' /\ Equipped' /\ Placed' /\ Kept'
  BY <1>1 DEF TypeOK, Equipped, Placed, Kept, NothingIsRolledBack
<1>3. Clean' /\ Transactions'
  BY <1>1 DEF Clean, Transactions, Reading, ReadsAreCommitted, Truncated
<1> QED BY <1>2, <1>3

LEMMA CommitReadInv ==
  ASSUME IInv, CommitRead
  PROVE  IInv'
<1> USE DEF IInv, CommitRead, request, answers
<1>1. conn \in Conns /\ pending[conn] = {}
  BY DEF Equipped, Clean, Reading
<1>2. pending' = pending /\ table' = table
  BY <1>1 DEF CommitPending, TypeOK
<1>3. TypeOK' /\ Equipped' /\ Placed' /\ Kept'
  BY <1>1, <1>2 DEF TypeOK, Equipped, Placed, Kept, NothingIsRolledBack
<1>4. Clean' /\ Transactions'
  BY <1>1, <1>2 DEF Clean, Transactions, Reading, ReadsAreCommitted
<1> QED BY <1>3, <1>4

LEMMA CommitRefusedInv ==
  ASSUME IInv, CommitRefused
  PROVE  IInv'
<1> USE DEF IInv, CommitRefused, request, session, store, answers
<1>1. TypeOK' /\ Equipped' /\ Placed' /\ Kept'
  BY DEF TypeOK, Equipped, Placed, Kept, NothingIsRolledBack
<1>2. Clean' /\ Transactions'
  BY DEF Clean, Transactions, Reading, ReadsAreCommitted
<1> QED BY <1>1, <1>2

LEMMA InsertInv ==
  ASSUME IInv, Insert
  PROVE  IInv'
<1> USE DEF IInv, Insert, request
<1>1. conn \in Conns /\ rows + 1 \in Nat /\ rows \in Nat /\ rows + 1 \notin 1..rows
      /\ 1..rows \cup {rows + 1} = 1..rows'
  BY ApiAssumption DEF TypeOK, Equipped
<1>2. CASE autocommit[conn]
  <2>1. table' = table \cup {rows + 1} /\ pending' = pending /\ open' = open
    BY <1>2
  <2>2. TypeOK' /\ Equipped'
    BY <1>1, <2>1, ApiAssumption DEF TypeOK, Equipped
  <2>3. Placed' /\ Kept'
    <3>1. rows + 1 \notin lost /\ \A c \in Conns : rows + 1 \notin pending[c]
      BY <1>1 DEF Placed
    <3>2. Placed'
      BY <1>1, <2>1, <3>1 DEF Placed
    <3>3. Kept'
      BY <1>1, <2>1 DEF Kept, NothingIsRolledBack
    <3> QED BY <3>2, <3>3
  <2>4. Clean' /\ Transactions'
    BY <1>1, <2>1 DEF Clean, Transactions, Reading, ReadsAreCommitted
  <2> QED BY <2>2, <2>3, <2>4
<1>3. CASE ~autocommit[conn]
  <2>1. /\ table' = table /\ open' = open \cup {conn}
        /\ pending' \in [Conns -> SUBSET Nat]
        /\ pending'[conn] = pending[conn] \cup {rows + 1}
        /\ \A c \in Conns : c # conn => pending'[c] = pending[c]
    BY <1>1, <1>3 DEF TypeOK
  <2>2. TypeOK' /\ Equipped'
    BY <1>1, <2>1, ApiAssumption DEF TypeOK, Equipped
  <2>3. Placed'
    BY <1>1, <2>1 DEF Placed
  <2>4. Kept'
    BY <1>1, <2>1 DEF Kept, NothingIsRolledBack
  <2>5. Clean'
    BY <1>1, <2>1 DEF Clean, Reading, ReadsAreCommitted
  <2>6. ~Reading /\ ~Reading' /\ open' \subseteq up
    BY <1>1, <2>1 DEF Reading, Transactions
  <2>7. \A c \in open' : pending'[c] # {} \/ c \in unread
    <3>1. \A c \in open : c \in Conns /\ (pending[c] # {} \/ c \in unread)
      BY <2>6 DEF Transactions, TypeOK
    <3> QED BY <1>1, <2>1, <3>1
  <2>8. Transactions'
    BY <2>6, <2>7 DEF Transactions
  <2> QED BY <2>2, <2>3, <2>4, <2>5, <2>8
<1> QED BY <1>2, <1>3

LEMMA InsertFailsInv ==
  ASSUME IInv, InsertFails
  PROVE  IInv'
<1> USE DEF IInv, InsertFails, request, session, store, answers
<1>1. TypeOK' /\ Equipped' /\ Placed' /\ Kept'
  BY DEF TypeOK, Equipped, Placed, Kept, NothingIsRolledBack
<1>2. Clean' /\ Transactions'
  BY DEF Clean, Transactions, Reading, ReadsAreCommitted
<1> QED BY <1>1, <1>2

LEMMA ServerWritesInv ==
  ASSUME IInv, ServerWrites
  PROVE  IInv'
<1> USE DEF IInv, ServerWrites, request, session, answers
<1>1. rows + 1 \in Nat /\ rows \in Nat /\ rows + 1 \notin 1..rows
      /\ 1..rows \cup {rows + 1} = 1..rows'
  BY ApiAssumption DEF TypeOK
<1>2. TypeOK' /\ Equipped'
  BY <1>1, ApiAssumption DEF TypeOK, Equipped
<1>3. Placed' /\ Kept'
  BY <1>1 DEF Placed, Kept, NothingIsRolledBack
<1>4. Clean' /\ Transactions'
  BY DEF Clean, Transactions, Reading, ReadsAreCommitted, Truncated
<1> QED BY <1>2, <1>3, <1>4

LEMMA DisconnectInv ==
  ASSUME IInv, NEW c \in Conns, Disconnect(c)
  PROVE  IInv'
<1> USE DEF IInv, Disconnect, request, answers
<1>1. /\ pending' \in [Conns -> SUBSET Nat] /\ lost' = lost \cup pending[c]
      /\ pending'[c] = {} /\ open' = open \ {c} /\ pending[c] \subseteq Nat
      /\ \A d \in Conns : d # c => pending'[d] = pending[d]
  BY RollbackPending DEF Rollback, TypeOK
<1>2. TypeOK' /\ Equipped'
  BY <1>1 DEF TypeOK, Equipped
<1>3. Placed'
  BY <1>1 DEF Placed
<1>4. Kept'
  BY <1>1 DEF Kept, NothingIsRolledBack
<1>5. Clean'
  BY <1>1 DEF Clean, Reading, ReadsAreCommitted, Truncated, Equipped
<1>6. Transactions'
  BY <1>1 DEF Transactions, Reading, TypeOK
<1> QED BY <1>2, <1>3, <1>4, <1>5, <1>6

LEMMA KilledInv ==
  ASSUME IInv, Killed
  PROVE  IInv'
<1> USE DEF IInv, Killed, request, answers
<1>1. /\ \A r : r \in lost' <=> r \in lost \/ \E c \in Conns : r \in pending[c]
      /\ \A c \in Conns : pending'[c] = {}
  OBVIOUS
<1>2. lost' \subseteq Nat /\ lost' \subseteq 1..rows
  BY <1>1 DEF TypeOK, Placed
<1>3. TypeOK' /\ Equipped'
  BY <1>1, <1>2 DEF TypeOK, Equipped
<1>4. Placed'
  BY <1>1, <1>2 DEF Placed
<1>5. Kept'
  BY <1>1, ApiAssumption DEF Kept, NothingIsRolledBack
<1>6. Clean' /\ Transactions'
  BY <1>1 DEF Clean, Transactions, Reading, ReadsAreCommitted
<1> QED BY <1>3, <1>4, <1>5, <1>6

LEMMA NextInv == IInv /\ [Next]_vars => IInv'
<1> SUFFICES ASSUME IInv, [Next]_vars PROVE IInv'
  OBVIOUS
<1>1. CASE UNCHANGED vars
  <2>1. TypeOK' /\ Equipped' /\ Placed' /\ Kept'
    BY <1>1 DEF vars, IInv, TypeOK, Equipped, Placed, Kept, NothingIsRolledBack
  <2>2. Clean' /\ Transactions'
    BY <1>1 DEF vars, IInv, Clean, Transactions, Reading, ReadsAreCommitted, Truncated
  <2> QED BY <2>1, <2>2 DEF IInv
<1>2. CASE \E work \in Jobs : Request(work)
  BY <1>2, RequestInv
<1>3. CASE Handler
  BY <1>3, TakeInv, ReleaseInv, BeginInv, BeginFailsInv, QueryFailsInv, ResultFailsInv, QueryInv,
     CommitReadInv, CommitRefusedInv, InsertInv, InsertFailsInv DEF Handler
<1>4. CASE ServerWrites \/ Killed
  BY <1>4, ServerWritesInv, KilledInv
<1>5. CASE \E c \in Conns : Disconnect(c)
  BY <1>5, DisconnectInv
<1> QED BY <1>1, <1>2, <1>3, <1>4, <1>5 DEF Next

LEMMA InitOneUser == Init => OneUser
<1> SUFFICES ASSUME Init PROVE OneUser
  OBVIOUS
<1> DEFINE D == 1..Cardinality(Conns)
<1>1. Cardinality(Conns) \in Nat
  BY ApiAssumption, FS_CardinalityType
<1>2. IsFiniteSet(D) /\ Cardinality(D) = Cardinality(Conns)
  BY <1>1, FS_Interval
<1>3. queue \in [D -> Conns] /\ Elems(queue) = Conns /\ Len(queue) = Cardinality(Conns)
  BY <1>1 DEF Init
<1>4. queue \in Surjection(D, Conns)
  BY <1>3 DEF Elems, Surjection
<1>5. queue \in Injection(D, Conns)
  BY <1>2, <1>4, FS_SurjSameCardinalityImpliesInj
<1>6. NoRepeats(queue)
  BY <1>3, <1>5 DEF Injection, IsInjective, NoRepeats
<1> QED BY <1>6 DEF Init, OneUser

LEMMA NextOneUser == IInv /\ OneUser /\ [Next]_vars => OneUser'
<1> SUFFICES ASSUME IInv, OneUser, [Next]_vars PROVE OneUser'
  OBVIOUS
<1>1. CASE Take
  <2>1. queue \in Seq(Conns) /\ queue # <<>>
    BY <1>1 DEF Take, IInv, TypeOK, Equipped
  <2>2. /\ Len(Tail(queue)) = Len(queue) - 1 /\ Len(queue) \in Nat \ {0}
        /\ Head(queue) = queue[1]
        /\ \A i \in 1..Len(queue) - 1 : Tail(queue)[i] = queue[i + 1]
    BY <2>1
  <2>3. \A i \in 1..Len(queue) - 1 : i + 1 \in 1..Len(queue) /\ i + 1 # 1
    BY <2>2
  <2>4. NoRepeats(Tail(queue)) /\ Head(queue) \notin Elems(Tail(queue))
    BY <2>2, <2>3 DEF OneUser, NoRepeats, Elems
  <2> QED BY <1>1, <2>4 DEF Take, OneUser
<1>2. CASE Release
  <2>1. conn \in Conns /\ conn # None /\ queue \in Seq(Conns)
    BY <1>2, ApiAssumption DEF Release, IInv, TypeOK, Equipped
  <2> QED BY <1>2, <2>1, AppendElements DEF Release, OneUser
<1>3. CASE ~Take /\ ~Release
  <2>1. queue' = queue /\ conn' = conn
    BY <1>3 DEF Next, Handler, vars, Request, Begin, BeginFails, Query, QueryTruncated, Count,
       QueryFails, ResultFails, CommitRead, CommitRefused, Insert, InsertFails, ServerWrites, Killed, Disconnect
  <2> QED BY <2>1 DEF OneUser
<1> QED BY <1>1, <1>2, <1>3

\* The invariant behind the theorems about the handlers.
THEOREM Invariance == Spec => [](IInv /\ OneUser)
BY InitInv, NextInv, InitOneUser, NextOneUser, PTL DEF Spec

-----------------------------------------------------------------------------
(* The handlers: what follows *)

\* Type correctness of the handlers and their connections.
THEOREM TypeCorrect == Spec => []TypeOK
BY Invariance, PTL DEF IInv

\* What a client was told is saved is committed or waits in a connection that
\* works, unless it went with its connection, and no row is in two places.
THEOREM SavedAreSomewhere == Spec => []SavedIsSomewhere
<1>1. IInv => SavedIsSomewhere
  <2> SUFFICES ASSUME IInv PROVE SavedIsSomewhere
    OBVIOUS
  <2>1. \A r : r \in Pending <=> \E c \in Conns : r \in pending[c]
    BY DEF Pending
  <2>2. saved \subseteq table \cup Pending \cup lost
    BY <2>1 DEF IInv, Kept
  <2>3. table \cap (Pending \cup lost) = {} /\ Pending \cap lost = {}
    BY <2>1 DEF IInv, Placed
  <2> QED BY <2>2, <2>3 DEF IInv, Placed, SavedIsSomewhere
<1> QED BY <1>1, Invariance, PTL

\* While connections and process last, no handler's rollback loses a row.
THEOREM RollbacksAreHarmless == Spec => []NothingIsRolledBack
BY Invariance, PTL DEF IInv, Kept

\* A read finds nothing that is not committed, and unless it was truncated all
\* that was when it began, whatever earlier handlers left in its connection.
THEOREM ReadsSeeCommitted == Spec => []ReadsAreCommitted
BY Invariance, PTL DEF IInv, Clean

\* A connection in the pool has a transaction only with rows in it or after a
\* read that left its result unread, whose commit and rollback were refused.
THEOREM NoTransactionIsLeft == Spec => []TransactionsEnd
<1>1. IInv /\ OneUser => TransactionsEnd
  <2> SUFFICES ASSUME IInv, OneUser, NEW i \in 1..Len(queue), queue[i] \in open,
                      pending[queue[i]] = {}
               PROVE  queue[i] \in unread
    BY DEF TransactionsEnd, Elems
  <2>1. conn # queue[i] \/ conn = None
    BY DEF OneUser, Elems
  <2>2. Reading => conn # None
    BY ApiAssumption DEF IInv, Equipped, Reading
  <2> QED BY <2>1, <2>2 DEF IInv, Transactions
<1> QED BY <1>1, Invariance, PTL

-----------------------------------------------------------------------------
(* The page: the invariant *)

\* The requestIds that are somewhere, each with the call it was made for: in a
\* timeout, in pendingRequests, on the way to the server, on the way back.
Remembered == {<<id, pendingRequests[id]>> : id \in DOMAIN pendingRequests}
Asked(s) == Elems(requests[s])
Answered(s) == {<<a.id, a.call>> : a \in Elems(responses[s])}
Known == timers \cup Remembered \cup UNION {Asked(s) \cup Answered(s) : s \in Sockets}

\* No requestId stands for two calls, and the next one is new.
Paired == \A p, q \in Known : p[1] = q[1] => p[2] = q[2]
Fresh == \A p \in Known : p[1] \in 1..requestIdCounter

\* A socket that is not told to be closed is the one in use, and no timer runs.
OneInUse ==
  /\ reconnects \in {0, 1}
  /\ \A s \in Sockets : ready[s] \in Live \cup {"lost"} => s = websocket /\ reconnects = 0

PageInv ==
  /\ PageTypeOK /\ Paired /\ Fresh /\ OneInUse
  /\ AnswersMatch /\ AwaitedIsPending

-----------------------------------------------------------------------------
(* The page: what is known of requests *)

\* Nothing new is known.
LEMMA NothingNew ==
  ASSUME Paired, Fresh, Known' \subseteq Known, requestIdCounter' = requestIdCounter
  PROVE  Paired' /\ Fresh'
BY DEF Paired, Fresh

\* A request makes the next requestId known.
LEMMA OneNew ==
  ASSUME PageTypeOK, Paired, Fresh, NEW c \in Calls,
         requestIdCounter' = requestIdCounter + 1,
         Known' \subseteq Known \cup {<<requestIdCounter + 1, c>>}
  PROVE  Paired' /\ Fresh'
<1> DEFINE n == requestIdCounter + 1
<1>1. requestIdCounter \in Nat
  BY DEF PageTypeOK
<1>2. \A p \in Known : p[1] \in 1..n /\ p[1] # n
  BY <1>1 DEF Fresh
<1>3. \A p \in Known' : p \in Known \/ p = <<n, c>>
  OBVIOUS
<1>4. <<n, c>>[1] = n /\ n \in 1..n
  BY <1>1
<1>5. Fresh'
  BY <1>2, <1>3, <1>4 DEF Fresh
<1>6. Paired'
  <2> SUFFICES ASSUME NEW p \in Known', NEW q \in Known', p[1] = q[1] PROVE p[2] = q[2]
    BY DEF Paired
  <2> QED BY <1>2, <1>3, <1>4 DEF Paired
<1> QED BY <1>5, <1>6

\* pendingRequests after a request and after its answer.
LEMMA PutRemembers ==
  ASSUME NEW id, NEW c, pendingRequests' = Put(pendingRequests, id, c)
  PROVE  /\ Remembered' \subseteq Remembered \cup {<<id, c>>}
         /\ DOMAIN pendingRequests' = DOMAIN pendingRequests \cup {id} /\ pendingRequests'[id] = c
         /\ \A i \in DOMAIN pendingRequests \ {id} : pendingRequests'[i] = pendingRequests[i]
BY DEF Put, Remembered

LEMMA DeleteForgets ==
  ASSUME NEW id, pendingRequests' = Delete(pendingRequests, id)
  PROVE  /\ Remembered' \subseteq Remembered
         /\ DOMAIN pendingRequests' = DOMAIN pendingRequests \ {id}
         /\ \A i \in DOMAIN pendingRequests \ {id} : pendingRequests'[i] = pendingRequests[i]
BY DEF Delete, Remembered

\* A step that at most forgets what is known.
LEMMA Forgets ==
  ASSUME timers' \subseteq timers, Remembered' \subseteq Remembered,
         \A s \in Sockets : Asked(s)' \cup Answered(s)' \subseteq Asked(s) \cup Answered(s)
  PROVE  Known' \subseteq Known
BY DEF Known

\* The same, when the messages on their way are left alone.
LEMMA ForgetsRequest ==
  ASSUME timers' \subseteq timers, Remembered' \subseteq Remembered, UNCHANGED netVars
  PROVE  Known' \subseteq Known
<1>1. \A s \in Sockets : Asked(s)' = Asked(s) /\ Answered(s)' = Answered(s)
  BY DEF Asked, Answered, Elems, netVars
<1> QED BY <1>1, Forgets

-----------------------------------------------------------------------------
(* The page: the actions keep the invariant *)

LEMMA PageInitInv == PageInit => PageInv
<1> SUFFICES ASSUME PageInit PROVE PageInv
  OBVIOUS
<1> USE DEF PageInit
<1>1. 1 \in Sockets
  <2>1. MaxAttempts * (MaxOpens + 1) \in Nat
    BY PageAssumption
  <2> QED BY <2>1 DEF Sockets
<1>2. DOMAIN pendingRequests = {}
  BY DEF Unset
<1>3. PageTypeOK
  <2>1. /\ ready \in [Sockets -> Live \cup {"none", "lost", "closed"}]
        /\ requests \in [Sockets -> Seq((Nat \ {0}) \X Calls)]
        /\ responses \in [Sockets -> Seq([id : Nat \ {0}, call : Calls, success : BOOLEAN])]
    BY DEF Live
  <2>2. /\ reconnectAttempts \in 0..MaxAttempts /\ opens \in 0..MaxOpens
        /\ reconnects \in Nat /\ requestIdCounter \in Nat
    BY PageAssumption
  <2>3. /\ stage \in [Calls -> {"idle", "ws", "http", "ended"}]
        /\ kind \in [Calls -> Kinds \cup {"none"}]
        /\ got \in [Calls -> Calls \cup {NoCall}]
    OBVIOUS
  <2> QED BY <1>1, <1>2, <2>1, <2>2, <2>3 DEF PageTypeOK
<1>4. Known = {}
  <2>1. \A s \in Sockets : Elems(requests[s]) = {} /\ Elems(responses[s]) = {}
    BY DEF Elems
  <2>2. \A s \in Sockets : Asked(s) = {} /\ Answered(s) = {}
    BY <2>1 DEF Asked, Answered
  <2>3. Remembered = {}
    BY <1>2 DEF Remembered
  <2> QED BY <2>2, <2>3 DEF Known
<1>5. Paired /\ Fresh
  BY <1>4 DEF Paired, Fresh
<1>6. OneInUse
  BY DEF OneInUse, Live
<1>7. AnswersMatch /\ AwaitedIsPending
  BY DEF AnswersMatch, AwaitedIsPending
<1> QED BY <1>3, <1>5, <1>6, <1>7 DEF PageInv

\* The steps of a socket leave the calls alone.
LEMMA SocketKeeps ==
  ASSUME PageInv, NEW s \in Sockets, OnOpen(s) \/ Lose(s) \/ SocketStep(s)
  PROVE  PageInv'
<1> USE DEF PageInv
<1>1. UNCHANGED <<mapVars, callVars>>
  BY DEF OnOpen, Lose, SocketStep, OnClose, InitWebSocket
<1>2. UNCHANGED netVars \/ (/\ requests' = [requests EXCEPT ![s] = <<>>]
                            /\ responses' = [responses EXCEPT ![s] = <<>>])
  BY DEF OnOpen, Lose, SocketStep, OnClose, InitWebSocket
<1>3. Known' \subseteq Known
  <2>1. timers' = timers /\ Remembered' = Remembered
    BY <1>1 DEF mapVars, Remembered
  <2>2. CASE UNCHANGED netVars
    BY <2>1, <2>2, ForgetsRequest
  <2>3. CASE /\ requests' = [requests EXCEPT ![s] = <<>>]
             /\ responses' = [responses EXCEPT ![s] = <<>>]
    <3>1. \A r \in Sockets : /\ requests'[r] = requests[r] \/ requests'[r] = <<>>
                             /\ responses'[r] = responses[r] \/ responses'[r] = <<>>
      BY <2>3 DEF PageTypeOK
    <3>2. \A r \in Sockets : /\ Elems(requests'[r]) \subseteq Elems(requests[r])
                             /\ Elems(responses'[r]) \subseteq Elems(responses[r])
      BY <3>1 DEF Elems
    <3> QED BY <2>1, <3>2, Forgets DEF Asked, Answered
  <2> QED BY <1>2, <2>2, <2>3
<1>4. Paired' /\ Fresh'
  BY <1>1, <1>3, NothingNew DEF mapVars
<1>5. AnswersMatch' /\ AwaitedIsPending'
  BY <1>1 DEF AnswersMatch, AwaitedIsPending, mapVars, callVars
<1>6. /\ requests' \in [Sockets -> Seq((Nat \ {0}) \X Calls)]
      /\ responses' \in [Sockets -> Seq([id : Nat \ {0}, call : Calls, success : BOOLEAN])]
  <2>1. CASE UNCHANGED netVars
    BY <2>1 DEF PageTypeOK, netVars
  <2>2. CASE /\ requests' = [requests EXCEPT ![s] = <<>>]
             /\ responses' = [responses EXCEPT ![s] = <<>>]
    <3>1. \A S : <<>> \in Seq(S)
      OBVIOUS
    <3> QED BY <2>2, <3>1, Zenon DEF PageTypeOK
  <2> QED BY <1>2, <2>1, <2>2
<1>7. OneInUse' /\ websocket' \in Sockets /\ isConnected' \in BOOLEAN
      /\ ready' \in [Sockets -> Live \cup {"none", "lost", "closed"}]
      /\ reconnectAttempts' \in 0..MaxAttempts /\ reconnects' \in Nat /\ opens' \in 0..MaxOpens
  <2>1. CASE OnOpen(s)
    BY <2>1, PageAssumption DEF OnOpen, OneInUse, PageTypeOK, Live
  <2>2. CASE Lose(s)
    BY <2>2 DEF Lose, OneInUse, PageTypeOK, Live
  <2>3. CASE OnClose(s)
    <3>1. s = websocket /\ reconnects = 0 /\ ready' = [ready EXCEPT ![s] = "closed"]
      BY <2>3 DEF OnClose, OneInUse
    <3>2. reconnects' \in {0, 1} /\ reconnectAttempts' \in 0..MaxAttempts
      BY <2>3, <3>1, PageAssumption DEF OnClose, AttemptReconnect, PageTypeOK
    <3>3. /\ ready' \in [Sockets -> Live \cup {"none", "lost", "closed"}]
          /\ \A r \in Sockets : ready'[r] \notin Live \cup {"lost"}
      BY <3>1 DEF OneInUse, PageTypeOK, Live
    <3>4. websocket' = websocket /\ opens' = opens /\ isConnected' \in BOOLEAN
      BY <2>3 DEF OnClose
    <3>5. OneInUse'
      BY <3>2, <3>3 DEF OneInUse, Live
    <3>6. websocket \in Sockets /\ opens \in 0..MaxOpens /\ reconnects' \in Nat
      BY <3>2 DEF PageTypeOK
    <3> QED BY <3>2, <3>3, <3>4, <3>5, <3>6, Zenon
  <2>4. CASE InitWebSocket(s)
    BY <2>4 DEF InitWebSocket, OneInUse, PageTypeOK, Live
  <2> QED BY <2>1, <2>2, <2>3, <2>4 DEF SocketStep
<1>8. PageTypeOK'
  BY <1>1, <1>6, <1>7 DEF PageTypeOK, mapVars, callVars
<1> QED BY <1>4, <1>5, <1>7, <1>8

\* A call of a function: a request, or none.
LEMMA CallKeeps ==
  ASSUME PageInv, NEW c \in Calls, NEW k \in Kinds, Call(c, k)
  PROVE  PageInv'
<1> USE DEF PageInv
<1> DEFINE n == requestIdCounter + 1
<1>1. /\ UNCHANGED <<socketVars, got>> /\ stage[c] = "idle"
      /\ kind' = [kind EXCEPT ![c] = k] /\ shown' \in Calls \cup {NoCall}
  BY DEF Call, PageTypeOK
<1>2. /\ ready' = ready /\ websocket' = websocket /\ isConnected' = isConnected
      /\ reconnectAttempts' = reconnectAttempts /\ reconnects' = reconnects
      /\ opens' = opens /\ got' = got
  BY <1>1 DEF socketVars
<1>3. OneInUse' /\ AnswersMatch'
  BY <1>2 DEF OneInUse, AnswersMatch
<1>4. kind' \in [Calls -> Kinds \cup {"none"}] /\ got' \in [Calls -> Calls \cup {NoCall}]
  BY <1>1, <1>2 DEF PageTypeOK
<1>5. CASE UNCHANGED <<netVars, mapVars>> /\ stage' = [stage EXCEPT ![c] = FallsBack(k)]
  <2>1. stage' \in [Calls -> {"idle", "ws", "http", "ended"}]
    BY <1>5 DEF PageTypeOK, FallsBack
  <2>2. \A d \in Calls : stage'[d] = "ws" => stage[d] = "ws"
    BY <1>5 DEF PageTypeOK, FallsBack
  <2>3. PageTypeOK'
    BY <1>1, <1>2, <1>4, <1>5, <2>1 DEF PageTypeOK, netVars, mapVars
  <2>4. AwaitedIsPending'
    BY <1>5, <2>2 DEF AwaitedIsPending, mapVars
  <2>5. timers' = timers /\ Remembered' = Remembered
    BY <1>5 DEF mapVars, Remembered
  <2>6. Paired' /\ Fresh'
    BY <1>5, <2>5, ForgetsRequest, NothingNew DEF mapVars
  <2> QED BY <1>3, <2>3, <2>4, <2>6
<1>6. CASE SendRequest(c) /\ stage' = [stage EXCEPT ![c] = "ws"]
  <2>1. n \in Nat \ {0} /\ n \notin DOMAIN pendingRequests /\ 1..requestIdCounter \subseteq 1..n
        /\ n \in 1..n /\ requestIdCounter' = n /\ <<n, c>> \in (Nat \ {0}) \X Calls
    BY <1>6 DEF SendRequest, PageTypeOK
  <2>2. /\ timers' = timers \cup {<<n, c>>} /\ pendingRequests' = Put(pendingRequests, n, c)
        /\ requests' = [requests EXCEPT ![websocket] = Append(@, <<n, c>>)]
        /\ responses' = responses
    BY <1>6 DEF SendRequest
  <2>3. /\ Remembered' \subseteq Remembered \cup {<<n, c>>}
        /\ DOMAIN pendingRequests' = DOMAIN pendingRequests \cup {n} /\ pendingRequests'[n] = c
        /\ \A i \in DOMAIN pendingRequests \ {n} : pendingRequests'[i] = pendingRequests[i]
    BY <2>2, PutRemembers
  <2>4. /\ requests'[websocket] \in Seq((Nat \ {0}) \X Calls)
        /\ Elems(requests'[websocket]) = Elems(requests[websocket]) \cup {<<n, c>>}
        /\ \A s \in Sockets \ {websocket} : requests'[s] = requests[s]
        /\ requests' \in [Sockets -> Seq((Nat \ {0}) \X Calls)]
    <3>1. requests[websocket] \in Seq((Nat \ {0}) \X Calls) /\ websocket \in Sockets
      BY DEF PageTypeOK
    <3>2. /\ Append(requests[websocket], <<n, c>>) \in Seq((Nat \ {0}) \X Calls)
          /\ Elems(Append(requests[websocket], <<n, c>>))
               = Elems(requests[websocket]) \cup {<<n, c>>}
      <4> DEFINE S == (Nat \ {0}) \X Calls  q == requests[websocket]  x == <<n, c>>
      <4>1. x \in S /\ q \in Seq(S)
        BY <2>1, <3>1
      <4> HIDE DEF S, q, x
      <4>2. Append(q, x) \in Seq(S) /\ Elems(Append(q, x)) = Elems(q) \cup {x}
        BY <4>1, AppendElements
      <4> QED BY <4>2 DEF S, q, x
    <3> QED BY <2>2, <3>1, <3>2, Zenon DEF PageTypeOK
  <2>5. Known' \subseteq Known \cup {<<n, c>>}
    <3>1. \A s \in Sockets : /\ Asked(s)' \subseteq Asked(s) \cup {<<n, c>>}
                             /\ Answered(s)' = Answered(s)
      BY <2>2, <2>4 DEF Asked, Answered, Elems
    <3> QED BY <2>2, <2>3, <3>1 DEF Known
  <2>6. Paired' /\ Fresh'
    BY <2>1, <2>5, OneNew
  <2>7. stage' \in [Calls -> {"idle", "ws", "http", "ended"}]
    BY <1>6 DEF PageTypeOK
  <2>8. /\ DOMAIN pendingRequests' \subseteq 1..n
        /\ \A i \in DOMAIN pendingRequests' : pendingRequests'[i] \in Calls
        /\ timers' \subseteq (1..n) \X Calls
    <3>1. /\ DOMAIN pendingRequests \subseteq 1..requestIdCounter
          /\ timers \subseteq (1..requestIdCounter) \X Calls
          /\ \A i \in DOMAIN pendingRequests : pendingRequests[i] \in Calls
      BY DEF PageTypeOK
    <3>2. <<n, c>> \in (1..n) \X Calls /\ (1..requestIdCounter) \X Calls \subseteq (1..n) \X Calls
      BY <2>1
    <3>3. timers' \subseteq (1..n) \X Calls
      BY <2>2, <3>1, <3>2
    <3> QED BY <2>1, <2>3, <3>1, <3>3
  <2>9. PageTypeOK'
    BY <1>1, <1>2, <1>4, <2>1, <2>2, <2>4, <2>7, <2>8 DEF PageTypeOK
  <2>10. AwaitedIsPending'
    <3> SUFFICES ASSUME NEW d \in Calls, stage'[d] = "ws"
                 PROVE  \E id \in DOMAIN pendingRequests' :
                          pendingRequests'[id] = d /\ <<id, d>> \in timers'
      BY DEF AwaitedIsPending
    <3>1. CASE d = c
      BY <2>2, <2>3, <3>1
    <3>2. CASE d # c
      <4>1. stage[d] = "ws"
        BY <1>6, <3>2 DEF PageTypeOK
      <4>2. PICK id \in DOMAIN pendingRequests : pendingRequests[id] = d /\ <<id, d>> \in timers
        BY <4>1 DEF AwaitedIsPending
      <4> QED BY <2>1, <2>2, <2>3, <4>2
    <3> QED BY <3>1, <3>2
  <2> QED BY <1>3, <2>6, <2>9, <2>10
<1> QED BY <1>5, <1>6 DEF Call

\* A request is forgotten: after its answer or its timeout.  The call that made
\* it is no longer awaited, and no other call loses its own.
LEMMA EndKeeps ==
  ASSUME PageInv, NEW id \in DOMAIN pendingRequests, UNCHANGED <<socketVars, requestIdCounter>>,
         pendingRequests' = Delete(pendingRequests, id),
         timers' = timers \ {<<id, pendingRequests[id]>>},
         Resolve(pendingRequests[id], pendingRequests[id]) \/ Reject(pendingRequests[id]),
         UNCHANGED requests,
         responses' \in [Sockets -> Seq([id : Nat \ {0}, call : Calls, success : BOOLEAN])],
         \A s \in Sockets : Elems(responses'[s]) \subseteq Elems(responses[s])
  PROVE  PageInv'
<1> USE DEF PageInv
<1> DEFINE c == pendingRequests[id]
<1>1. c \in Calls
  BY DEF PageTypeOK
<1>2. /\ Remembered' \subseteq Remembered
      /\ DOMAIN pendingRequests' = DOMAIN pendingRequests \ {id}
      /\ \A i \in DOMAIN pendingRequests \ {id} : pendingRequests'[i] = pendingRequests[i]
  BY DeleteForgets
<1>3. \A s \in Sockets : Asked(s)' = Asked(s) /\ Answered(s)' \subseteq Answered(s)
  BY DEF Asked, Answered, Elems
<1>4. Paired' /\ Fresh'
  BY <1>2, <1>3, Forgets, NothingNew
<1>5. /\ stage' \in [Calls -> {"idle", "ws", "http", "ended"}] /\ kind' = kind
      /\ \A d \in Calls : stage'[d] = "ws" => stage[d] = "ws" /\ d # c
      /\ got' \in [Calls -> Calls \cup {NoCall}] /\ shown' \in Calls \cup {NoCall}
      /\ AnswersMatch'
  <2>1. CASE Resolve(c, c)
    BY <1>1, <2>1 DEF Resolve, Shows, PageTypeOK, AnswersMatch
  <2>2. CASE Reject(c)
    BY <1>1, <2>2 DEF Reject, FallsBack, PageTypeOK, AnswersMatch
  <2> QED BY <2>1, <2>2
<1>6. PageTypeOK' /\ OneInUse'
  BY <1>2, <1>5 DEF PageTypeOK, OneInUse, socketVars
<1>7. AwaitedIsPending'
  <2> SUFFICES ASSUME NEW d \in Calls, stage'[d] = "ws"
               PROVE  \E i \in DOMAIN pendingRequests' :
                        pendingRequests'[i] = d /\ <<i, d>> \in timers'
    BY DEF AwaitedIsPending
  <2>1. PICK i \in DOMAIN pendingRequests : pendingRequests[i] = d /\ <<i, d>> \in timers
    BY <1>5 DEF AwaitedIsPending
  <2>2. i # id /\ <<i, d>> # <<id, c>>
    BY <1>5, <2>1
  <2> QED BY <1>2, <2>1, <2>2
<1> QED BY <1>4, <1>5, <1>6, <1>7

\* An answer settles the promise of the call that asked for it.
LEMMA OnMessageKeeps == ASSUME PageInv, NEW s \in Sockets, OnMessage(s) PROVE PageInv'
<1> USE DEF PageInv
<1> DEFINE told == Head(responses[s])
<1>1. /\ responses[s] # <<>> /\ responses' = [responses EXCEPT ![s] = Tail(@)]
      /\ UNCHANGED <<socketVars, requests, requestIdCounter>>
  BY DEF OnMessage
<1>2. responses[s] \in Seq([id : Nat \ {0}, call : Calls, success : BOOLEAN])
  BY DEF PageTypeOK
<1>3. /\ Tail(responses[s]) \in Seq([id : Nat \ {0}, call : Calls, success : BOOLEAN])
      /\ Elems(Tail(responses[s])) \subseteq Elems(responses[s])
      /\ told \in [id : Nat \ {0}, call : Calls, success : BOOLEAN]
      /\ told \in Elems(responses[s])
  BY <1>1, <1>2, TailElems
<1>4. /\ responses' \in [Sockets -> Seq([id : Nat \ {0}, call : Calls, success : BOOLEAN])]
      /\ responses'[s] = Tail(responses[s])
      /\ \A r \in Sockets \ {s} : responses'[r] = responses[r]
  BY <1>1, <1>3, Zenon DEF PageTypeOK
<1>5. \A r \in Sockets : Elems(responses'[r]) \subseteq Elems(responses[r])
  BY <1>3, <1>4
<1>6. CASE told.id \in DOMAIN pendingRequests
  <2>1. <<told.id, told.call>> \in Known
    BY <1>3 DEF Known, Answered
  <2>2. <<told.id, pendingRequests[told.id]>> \in Known
    BY <1>6 DEF Known, Remembered
  <2>3. told.call = pendingRequests[told.id]
    BY <2>1, <2>2 DEF Paired
  <2>4. /\ timers' = timers \ {<<told.id, pendingRequests[told.id]>>}
        /\ pendingRequests' = Delete(pendingRequests, told.id)
        /\ \/ Resolve(pendingRequests[told.id], pendingRequests[told.id])
           \/ Reject(pendingRequests[told.id])
    BY <1>6, <2>3 DEF OnMessage
  <2> QED BY <1>1, <1>4, <1>5, <1>6, <2>4, EndKeeps
<1>7. CASE told.id \notin DOMAIN pendingRequests
  <2>1. UNCHANGED <<pendingRequests, timers, callVars>>
    BY <1>7 DEF OnMessage
  <2>2. Remembered' = Remembered /\ timers' = timers
    BY <2>1 DEF Remembered
  <2>3. \A r \in Sockets : Asked(r)' = Asked(r) /\ Answered(r)' \subseteq Answered(r)
    BY <1>1, <1>5 DEF Asked, Answered, Elems
  <2>4. Paired' /\ Fresh'
    BY <1>1, <2>2, <2>3, Forgets, NothingNew
  <2> QED BY <1>1, <1>4, <2>1, <2>4
          DEF PageTypeOK, OneInUse, AnswersMatch, AwaitedIsPending, socketVars, callVars
<1> QED BY <1>6, <1>7

\* A timeout settles the promise if nothing has.
LEMMA TimeOutKeeps ==
  ASSUME PageInv, NEW id, NEW c, TimeOut(id, c)
  PROVE  PageInv'
<1> USE DEF PageInv
<1>1. /\ <<id, c>> \in timers /\ timers' = timers \ {<<id, c>>}
      /\ UNCHANGED <<socketVars, netVars, requestIdCounter>>
  BY DEF TimeOut
<1>2. CASE id \in DOMAIN pendingRequests
  <2>1. <<id, c>> \in Known /\ <<id, pendingRequests[id]>> \in Known
    BY <1>1, <1>2 DEF Known, Remembered
  <2>2. c = pendingRequests[id]
    BY <2>1 DEF Paired
  <2>3. pendingRequests' = Delete(pendingRequests, id) /\ Reject(pendingRequests[id])
    BY <1>2, <2>2 DEF TimeOut
  <2>4. /\ requests' = requests
        /\ responses' \in [Sockets -> Seq([id : Nat \ {0}, call : Calls, success : BOOLEAN])]
        /\ \A s \in Sockets : Elems(responses'[s]) \subseteq Elems(responses[s])
    BY <1>1 DEF PageTypeOK, netVars
  <2> QED BY <1>1, <1>2, <2>2, <2>3, <2>4, EndKeeps
<1>3. CASE id \notin DOMAIN pendingRequests
  <2>1. UNCHANGED <<pendingRequests, callVars>>
    BY <1>3 DEF TimeOut
  <2>2. Remembered' = Remembered /\ timers' \subseteq timers
    BY <1>1, <2>1 DEF Remembered
  <2>3. Paired' /\ Fresh'
    BY <1>1, <2>2, ForgetsRequest, NothingNew
  <2>4. AwaitedIsPending'
    <3> SUFFICES ASSUME NEW d \in Calls, stage[d] = "ws"
                 PROVE  \E i \in DOMAIN pendingRequests :
                          pendingRequests[i] = d /\ <<i, d>> \in timers'
      BY <2>1 DEF AwaitedIsPending, callVars
    <3>1. PICK i \in DOMAIN pendingRequests : pendingRequests[i] = d /\ <<i, d>> \in timers
      BY DEF AwaitedIsPending
    <3> QED BY <1>1, <1>3, <3>1
  <2> QED BY <1>1, <2>1, <2>2, <2>3, <2>4
          DEF PageTypeOK, OneInUse, AnswersMatch, socketVars, netVars, callVars
<1> QED BY <1>2, <1>3

\* HTTP: the function that waits for fetch goes on.
LEMMA HttpKeeps == ASSUME PageInv, NEW c \in Calls, HttpEnds(c) PROVE PageInv'
<1> USE DEF PageInv
<1>1. UNCHANGED <<socketVars, netVars, mapVars, kind>>
  BY DEF HttpEnds, HttpAnswer, HttpFails, Resolve
<1>2. /\ stage' = [stage EXCEPT ![c] = "ended"] /\ shown' \in Calls \cup {NoCall}
      /\ got' = [got EXCEPT ![c] = c] \/ got' = got
  BY DEF HttpEnds, HttpAnswer, HttpFails, Resolve, Shows, PageTypeOK
<1>3. AnswersMatch' /\ got' \in [Calls -> Calls \cup {NoCall}]
  <2>1. CASE got' = got
    BY <2>1 DEF AnswersMatch, PageTypeOK
  <2>2. CASE got' = [got EXCEPT ![c] = c]
    BY <2>2 DEF AnswersMatch, PageTypeOK
  <2> QED BY <1>2, <2>1, <2>2
<1>4. /\ stage' \in [Calls -> {"idle", "ws", "http", "ended"}]
      /\ \A d \in Calls : stage'[d] = "ws" => stage[d] = "ws"
  BY <1>2 DEF PageTypeOK
<1>5. AwaitedIsPending'
  BY <1>1, <1>4 DEF AwaitedIsPending, mapVars
<1>6. PageTypeOK' /\ OneInUse'
  BY <1>1, <1>2, <1>3, <1>4 DEF PageTypeOK, OneInUse, socketVars, netVars, mapVars
<1>7. Remembered' = Remembered /\ timers' = timers /\ requestIdCounter' = requestIdCounter
  BY <1>1 DEF Remembered, mapVars
<1>8. Paired' /\ Fresh'
  BY <1>1, <1>7, ForgetsRequest, NothingNew
<1> QED BY <1>3, <1>5, <1>6, <1>8

\* The server: an answer bears the requestId of the request it is for.
LEMMA ServerAnswersKeeps ==
  ASSUME PageInv, NEW s \in Sockets, (\E ok \in BOOLEAN : Reply(s, ok)) \/ NoReply(s)
  PROVE  PageInv'
<1> USE DEF PageInv
<1> DEFINE asking == Head(requests[s])
           Requests == (Nat \ {0}) \X Calls
           Responses == [id : Nat \ {0}, call : Calls, success : BOOLEAN]
<1>1. /\ requests[s] # <<>> /\ requests' = [requests EXCEPT ![s] = Tail(@)]
      /\ UNCHANGED <<socketVars, mapVars, callVars>>
  BY DEF Reply, NoReply
<1>2. requests[s] \in Seq(Requests) /\ responses[s] \in Seq(Responses)
  BY DEF PageTypeOK
<1>3. /\ Tail(requests[s]) \in Seq(Requests)
      /\ Elems(Tail(requests[s])) \subseteq Elems(requests[s])
      /\ asking \in Requests /\ asking \in Elems(requests[s])
  BY <1>1, <1>2, TailElems
<1>4. /\ requests' \in [Sockets -> Seq(Requests)]
      /\ \A r \in Sockets : Elems(requests'[r]) \subseteq Elems(requests[r])
  <2>1. /\ requests' \in [Sockets -> Seq(Requests)] /\ requests'[s] = Tail(requests[s])
        /\ \A r \in Sockets \ {s} : requests'[r] = requests[r]
    BY <1>1, <1>3, Zenon DEF PageTypeOK
  <2> QED BY <1>3, <2>1
<1>5. /\ responses' \in [Sockets -> Seq(Responses)]
      /\ \A r \in Sockets : Answered(r)' \subseteq Answered(r) \cup Asked(r)
  <2>1. CASE NoReply(s)
    <3>1. responses' = responses
      BY <2>1 DEF NoReply
    <3>2. \A r \in Sockets : Answered(r)' = Answered(r)
      BY <3>1 DEF Answered, Elems
    <3> QED BY <3>1, <3>2 DEF PageTypeOK
  <2>2. ASSUME NEW ok \in BOOLEAN, Reply(s, ok) 
        PROVE  /\ responses' \in [Sockets -> Seq(Responses)]
               /\ \A r \in Sockets : Answered(r)' \subseteq Answered(r) \cup Asked(r)
    <3> DEFINE a == [id |-> asking[1], call |-> asking[2], success |-> ok]
    <3>1. responses' = [responses EXCEPT ![s] = Append(@, a)]
      BY <2>2 DEF Reply
    <3>2. a \in Responses /\ <<a.id, a.call>> = asking
      BY <1>3
    <3> HIDE DEF a, Responses
    <3>3. /\ Append(responses[s], a) \in Seq(Responses)
          /\ Elems(Append(responses[s], a)) = Elems(responses[s]) \cup {a}
      BY <1>2, <3>2, AppendElements
    <3>4. /\ responses' \in [Sockets -> Seq(Responses)] /\ responses'[s] = Append(responses[s], a)
          /\ \A r \in Sockets \ {s} : responses'[r] = responses[r]
      BY <3>1, <3>3, Zenon DEF PageTypeOK, Responses
    <3>5. Elems(responses'[s]) = Elems(responses[s]) \cup {a} /\ <<a.id, a.call>> \in Asked(s)
      BY <1>3, <3>2, <3>3, <3>4 DEF Asked
    <3>6. \A r \in Sockets \ {s} : Answered(r)' = Answered(r)
      BY <3>4 DEF Answered, Elems
    <3>7. Answered(s)' \subseteq Answered(s) \cup Asked(s)
      BY <3>5 DEF Answered, Elems
    <3>8. \A r \in Sockets : Answered(r)' \subseteq Answered(r) \cup Asked(r)
      BY <3>6, <3>7
    <3> QED BY <3>4, <3>8
  <2> QED BY <2>1, <2>2
<1>6. Remembered' = Remembered /\ timers' = timers /\ requestIdCounter' = requestIdCounter
  BY <1>1 DEF Remembered, mapVars
<1>7. \A r \in Sockets : Asked(r)' \subseteq Asked(r)
  BY <1>4 DEF Asked, Elems
<1>8. Paired' /\ Fresh'
  BY <1>5, <1>6, <1>7, Forgets, NothingNew
<1>9. PageTypeOK'
  BY <1>1, <1>4, <1>5 DEF PageTypeOK, socketVars, mapVars, callVars
<1> QED BY <1>1, <1>8, <1>9
        DEF OneInUse, AnswersMatch, AwaitedIsPending, socketVars, mapVars, callVars

LEMMA PageInvStep == PageInv /\ [PageNext]_pageVars => PageInv'
<1> SUFFICES ASSUME PageInv, [PageNext]_pageVars PROVE PageInv'
  OBVIOUS
<1>1. CASE PageNext
  <2>1. ASSUME NEW s \in Sockets, OnOpen(s) \/ Lose(s) \/ SocketStep(s) PROVE PageInv'
    BY <2>1, SocketKeeps
  <2>2. ASSUME NEW s \in Sockets, OnMessage(s) PROVE PageInv'
    BY <2>2, OnMessageKeeps
  <2>3. ASSUME NEW s \in Sockets, (\E ok \in BOOLEAN : Reply(s, ok)) \/ NoReply(s) PROVE PageInv'
    BY <2>3, ServerAnswersKeeps
  <2>4. ASSUME NEW c \in Calls, \E k \in Kinds : Call(c, k) PROVE PageInv'
    BY <2>4, CallKeeps
  <2>5. ASSUME NEW c \in Calls, HttpEnds(c) PROVE PageInv'
    BY <2>5, HttpKeeps
  <2>6. ASSUME NEW t \in timers, TimeOut(t[1], t[2]) PROVE PageInv'
    BY <2>6, TimeOutKeeps
  <2> QED BY <1>1, <2>1, <2>2, <2>3, <2>4, <2>5, <2>6 DEF PageNext
<1>2. CASE UNCHANGED pageVars
  <2>1. UNCHANGED <<socketVars, netVars, mapVars, callVars>>
    BY <1>2 DEF pageVars
  <2>2. Remembered' = Remembered /\ timers' = timers /\ requestIdCounter' = requestIdCounter
    BY <2>1 DEF Remembered, mapVars
  <2>3. Paired' /\ Fresh'
    BY <2>1, <2>2, ForgetsRequest, NothingNew DEF PageInv
  <2> QED BY <2>1, <2>3 DEF PageInv, PageTypeOK, OneInUse, AnswersMatch, AwaitedIsPending,
            socketVars, netVars, mapVars, callVars
<1> QED BY <1>1, <1>2

\* The invariant behind the theorems about the page.
THEOREM PageInvariance == PageSpec => []PageInv
BY PageInitInv, PageInvStep, PTL DEF PageSpec

-----------------------------------------------------------------------------
(* The page: what follows *)

\* Type correctness of the scripts and what is on its way.
THEOREM PageTypeCorrect == PageSpec => []PageTypeOK
<1>1. PageInv => PageTypeOK
  BY DEF PageInv
<1> QED BY <1>1, PageInvariance, PTL

\* However late or out of order answers and timeouts come, and however often the
\* socket was replaced, a call is given no answer but its own.
THEOREM AnswersAreOwn == PageSpec => []AnswersMatch
<1>1. PageInv => AnswersMatch
  BY DEF PageInv
<1> QED BY <1>1, PageInvariance, PTL

\* A call that waits will be told: by its answer, or by its timeout, which is
\* still to come.
THEOREM AwaitedAreTold == PageSpec => []AwaitedIsPending
<1>1. PageInv => AwaitedIsPending
  BY DEF PageInv
<1> QED BY <1>1, PageInvariance, PTL

\* The page never has two connections, nor one and a timer for another.
THEOREM AtMostOneConnection == PageSpec => []OneConnection
<1>1. PageInv => OneConnection
  <2> SUFFICES ASSUME PageInv PROVE OneConnection
    OBVIOUS
  <2> DEFINE used == {s \in Sockets : ready[s] \in Live \cup {"lost"}}
  <2>1. used \subseteq {websocket} /\ reconnects \in {0, 1} /\ (used # {} => reconnects = 0)
    BY DEF PageInv, OneInUse
  <2>2. used = {} \/ used = {websocket}
    BY <2>1
  <2>3. Cardinality({}) = 0 /\ Cardinality({websocket}) = 1
    BY FS_EmptySet, FS_Singleton
  <2>4. Cardinality(used) + reconnects <= 1
    BY <2>1, <2>2, <2>3
  <2> QED BY <2>1, <2>4 DEF OneConnection
<1> QED BY <1>1, PageInvariance, PTL

-----------------------------------------------------------------------------
(* The page: there are sockets enough *)

\* Sockets are made in order: the first n have been.
Made(n) == \A s \in Sockets : ready[s] = "none" <=> s > n

\* A page that is never opened again makes MaxAttempts sockets more, and every
\* time it is opened it may begin anew.
Counted ==
  \E n \in Nat : Made(n) /\ n + reconnects <= 1 + MaxAttempts * opens + reconnectAttempts

\* A timer that is to make a socket finds one that was never used.
SocketIsThere == reconnects > 0 => \E s \in Sockets : ready[s] = "none"

\* One more open is room for MaxAttempts more sockets.
LEMMA OneMoreOpen ==
  ASSUME NEW k \in Nat
  PROVE  /\ MaxAttempts * k \in Nat
         /\ MaxAttempts * (k + 1) = MaxAttempts * k + MaxAttempts
BY PageAssumption

\* Fewer opens take no more sockets than the most.
LEMMA OpensBound ==
  ASSUME NEW k \in 0..MaxOpens
  PROVE  MaxAttempts * k + MaxAttempts <= MaxAttempts * (MaxOpens + 1)
<1>1. k \in Nat /\ MaxOpens - k \in Nat /\ MaxAttempts * (MaxOpens - k) >= 0
  BY PageAssumption
<1> QED BY <1>1, PageAssumption

LEMMA CountedStep == PageInv /\ Counted /\ [PageNext]_pageVars => Counted'
<1> SUFFICES ASSUME PageInv, Counted, [PageNext]_pageVars PROVE Counted'
  OBVIOUS
<1>1. PICK n \in Nat : Made(n) /\ n + reconnects <= 1 + MaxAttempts * opens + reconnectAttempts
  BY DEF Counted
<1>2. /\ reconnects \in Nat /\ opens \in Nat /\ reconnectAttempts \in 0..MaxAttempts
      /\ MaxAttempts \in Nat /\ MaxAttempts * opens \in Nat
      /\ MaxAttempts * (opens + 1) = MaxAttempts * opens + MaxAttempts
      /\ MaxAttempts * (MaxOpens + 1) \in Nat
  BY PageAssumption, OneMoreOpen DEF PageInv, PageTypeOK
<1>3. ready \in [Sockets -> Live \cup {"none", "lost", "closed"}]
  BY DEF PageInv, PageTypeOK
<1>4. ASSUME NEW s \in Sockets, OnOpen(s) PROVE Counted'
  <2>1. Made(n)'
    BY <1>1, <1>3, <1>4 DEF Made, OnOpen
  <2>2. n + reconnects' <= 1 + MaxAttempts * opens' + reconnectAttempts'
    BY <1>1, <1>2, <1>4 DEF OnOpen
  <2> QED BY <2>1, <2>2 DEF Counted
<1>5. ASSUME NEW s \in Sockets, Lose(s) PROVE Counted'
  <2>1. Made(n)'
    BY <1>1, <1>3, <1>5 DEF Made, Lose, Live
  <2> QED BY <1>1, <1>5, <2>1 DEF Counted, Lose
<1>6. ASSUME NEW s \in Sockets, OnClose(s) PROVE Counted'
  <2>1. Made(n)'
    BY <1>1, <1>3, <1>6 DEF Made, OnClose
  <2>2. n + reconnects' <= 1 + MaxAttempts * opens' + reconnectAttempts'
    BY <1>1, <1>2, <1>6 DEF OnClose, AttemptReconnect
  <2> QED BY <2>1, <2>2 DEF Counted
<1>7. ASSUME NEW s \in Sockets, InitWebSocket(s) PROVE Counted'
  <2>1. s = n + 1 /\ ready' = [ready EXCEPT ![s] = "connecting"]
    <3>1. s > n /\ \A r \in Sockets : r < s => ~(r > n)
      BY <1>1, <1>7 DEF Made, InitWebSocket
    <3>2. s \in Nat /\ (n + 1 < s => n + 1 \in Sockets)
      BY <1>2 DEF Sockets
    <3> QED BY <1>7, <3>1, <3>2 DEF InitWebSocket
  <2>2. Made(n + 1)'
    <3>1. \A r \in Sockets : r \in Int /\ (r > n + 1 <=> r > n /\ r # s)
      BY <2>1 DEF Sockets
    <3> QED BY <1>1, <1>3, <2>1, <3>1 DEF Made
  <2>3. n + 1 \in Nat /\ n + 1 + reconnects' <= 1 + MaxAttempts * opens' + reconnectAttempts'
    BY <1>1, <1>2, <1>7 DEF InitWebSocket
  <2> QED BY <2>2, <2>3 DEF Counted
<1>8. CASE UNCHANGED socketVars
  BY <1>1, <1>8 DEF Counted, Made, socketVars
<1> QED
  <2>1. CASE PageNext
    <3>1. ASSUME NEW s \in Sockets, OnMessage(s) \/ (\E ok \in BOOLEAN : Reply(s, ok)) \/ NoReply(s)
          PROVE  UNCHANGED socketVars
      BY <3>1 DEF OnMessage, Reply, NoReply
    <3>2. ASSUME NEW c \in Calls, (\E k \in Kinds : Call(c, k)) \/ HttpEnds(c)
          PROVE  UNCHANGED socketVars
      BY <3>2 DEF Call, HttpEnds, HttpAnswer, HttpFails
    <3>3. ASSUME NEW t \in timers, TimeOut(t[1], t[2])
          PROVE  UNCHANGED socketVars
      BY <3>3 DEF TimeOut
    <3> QED BY <1>4, <1>5, <1>6, <1>7, <1>8, <2>1, <3>1, <3>2, <3>3 DEF PageNext, SocketStep
  <2>2. CASE UNCHANGED pageVars
    BY <1>8, <2>2 DEF pageVars
  <2> QED BY <2>1, <2>2

\* The bound on the number of sockets takes no behaviour from the page: whenever
\* initWebSocket is to run, it can.
THEOREM SocketsSuffice == PageSpec => []SocketIsThere
<1>1. PageInit => Counted
  <2> SUFFICES ASSUME PageInit PROVE Counted
    OBVIOUS
  <2>1. \A s \in Sockets : s \in Nat /\ s >= 1
    BY DEF Sockets
  <2>2. Made(1)
    BY <2>1 DEF PageInit, Made
  <2>3. 1 + reconnects <= 1 + MaxAttempts * opens + reconnectAttempts
    BY PageAssumption DEF PageInit
  <2> QED BY <2>2, <2>3 DEF Counted
<1>2. PageInv /\ Counted => SocketIsThere
  <2> SUFFICES ASSUME PageInv, Counted, reconnects > 0
               PROVE  \E s \in Sockets : ready[s] = "none"
    BY DEF SocketIsThere
  <2>1. PICK n \in Nat : Made(n) /\ n + reconnects <= 1 + MaxAttempts * opens + reconnectAttempts
    BY DEF Counted
  <2>2. /\ reconnects \in Nat /\ opens \in 0..MaxOpens /\ reconnectAttempts \in 0..MaxAttempts
        /\ MaxAttempts \in Nat /\ MaxAttempts * opens \in Nat /\ MaxAttempts * (MaxOpens + 1) \in Nat
    BY PageAssumption, OneMoreOpen DEF PageInv, PageTypeOK
  <2>3. n + 1 \in Sockets
    BY <2>1, <2>2, OpensBound DEF Sockets
  <2> QED BY <2>1, <2>3 DEF Made
<1> QED BY <1>1, <1>2, CountedStep, PageInvariance, PTL DEF PageSpec

=============================================================================
