---------------------------- MODULE WebSocketApi ----------------------------
(***************************************************************************)
(* WebSocket.cpp and WebSocketApiHandlers.cpp: the handlers of webserver   *)
(* read and insert log rows over pooled MySQL connections.  One thread     *)
(* runs one handler at a time, but what a handler leaves in a connection   *)
(* (autocommit, an open transaction) is there for the next that gets it.   *)
(* Meanwhile the program `server` commits rows of its own, connections     *)
(* break, and the process may be killed.                                   *)
(*                                                                         *)
(* Rows are numbered.  Levels, limits and the text of the answers are left *)
(* out.  Reads run at READ COMMITTED: a statement sees what is committed   *)
(* when it runs, and the rows of its own transaction.  A connection whose  *)
(* result has not been read to its end refuses every other command; to     *)
(* close the statement throws the rest away.  No connection is ever made   *)
(* again, and init opened at least one.                                    *)
(***************************************************************************)
EXTENDS Integers, Sequences, FiniteSets

CONSTANTS Conns,   \* the connections in the pool
          MaxRows  \* bound on the rows written

None == "none"

ASSUME ApiAssumption ==
  /\ IsFiniteSet(Conns) /\ Conns # {} /\ None \notin Conns
  /\ MaxRows \in Nat

VARIABLES
  queue,       \* the pool's _connQueue
  pc, job,     \* where the loop is, in which request: "fetch", "stats", "insert"
  left,        \* the queries this request still has to make
  conn,        \* the connection of the handler
  up,          \* connections that are not broken
  autocommit,  \* the session variable, for each connection
  open,        \* connections where START TRANSACTION or a row opened a transaction
  pending,     \* the rows inserted in it
  table,       \* the rows committed
  lost,        \* rows that went with their connection or process
  rows,        \* number of rows written
  saved,       \* rows a client was told are saved
  unread,      \* connections whose last read left its result unread
  asked, result \* rows committed when a read began, and rows it found

vars == <<queue, pc, job, left, conn, up, autocommit, open, pending, table,
          lost, rows, saved, unread, asked, result>>
request == <<job, left>>
session == <<up, autocommit, open, pending>>
store   == <<table, lost, rows>>
answers == <<saved, asked, result>>

Elems(s) == {s[i] : i \in 1..Len(s)}
Jobs == {"fetch", "stats", "insert"}

Init ==
  /\ queue \in {s \in [1..Cardinality(Conns) -> Conns] : Elems(s) = Conns}
  /\ pc = "idle" /\ job = "fetch" /\ left = 0
  /\ conn = None
  /\ up = Conns /\ open = {} /\ unread = {}
  /\ autocommit = [c \in Conns |-> TRUE]
  /\ pending = [c \in Conns |-> {}]
  /\ table = {} /\ lost = {} /\ rows = 0
  /\ saved = {} /\ asked = {} /\ result = {}

-----------------------------------------------------------------------------
(* What the statements do to the session of connection c *)

\* START TRANSACTION and COMMIT end the transaction that is open.
CommitPending(c) ==
  /\ table' = table \cup pending[c]
  /\ pending' = [pending EXCEPT ![c] = {}]

Rollback(c) ==
  /\ lost' = lost \cup pending[c]
  /\ pending' = [pending EXCEPT ![c] = {}]
  /\ open' = open \ {c}

-----------------------------------------------------------------------------
(* Requests and the pool *)

\* A request of the page; the statistics are four queries.
Request(kind) ==
  /\ pc = "idle"
  /\ pc' = "take" /\ job' = kind
  /\ left' = IF kind = "stats" THEN 4 ELSE 1
  /\ UNCHANGED <<queue, conn, session, store, answers, unread>>

Take ==
  /\ pc = "take"
  /\ conn' = Head(queue) /\ queue' = Tail(queue)
  /\ pc' = IF job = "insert" THEN "insert" ELSE "begin"
  /\ UNCHANGED <<request, session, store, answers, unread>>

\* Mutant: one query too many.
Release_OneMore ==
  /\ pc = "release"
  /\ queue' = Append(queue, conn) /\ conn' = None
  /\ left' = left - 1
  /\ pc' = IF left >= 1 THEN "take" ELSE "idle"
  /\ UNCHANGED <<job, session, store, answers, unread>>

\* SqlConnRAII gives the connection back on every return path.
Release ==
  /\ pc = "release"
  /\ queue' = Append(queue, conn) /\ conn' = None
  /\ left' = left - 1
  /\ pc' = IF left > 1 THEN "take" ELSE "idle"
  /\ UNCHANGED <<job, session, store, answers, unread>>

-----------------------------------------------------------------------------
(* fetchLogsFromDatabase, getTotalLogsCount, getLogCountByLevel *)

\* Mutant: the read joins the transaction that is open.
Begin_Join ==
  /\ pc = "begin" /\ conn \in up
  /\ autocommit' = [autocommit EXCEPT ![conn] = FALSE]
  /\ open' = open \cup {conn}
  /\ unread' = unread \ {conn}
  /\ asked' = table
  /\ pc' = "query"
  /\ UNCHANGED <<queue, request, conn, up, pending, store, saved, result>>

\* mysql_autocommit(conn, 0), then START TRANSACTION.
Begin ==
  /\ pc = "begin" /\ conn \in up
  /\ autocommit' = [autocommit EXCEPT ![conn] = FALSE]
  /\ CommitPending(conn)
  /\ open' = open \cup {conn}
  /\ unread' = unread \ {conn}
  /\ asked' = table'
  /\ pc' = "query"
  /\ UNCHANGED <<queue, request, conn, up, lost, rows, saved, result>>

\* On a broken connection these calls fail, and their results are not tested.
BeginFails ==
  /\ pc = "begin" /\ conn \notin up
  /\ pc' = "query"
  /\ UNCHANGED <<queue, request, conn, session, store, answers, unread>>

\* Mutant: an error path without its rollback.
QueryFails_NoRollback ==
  /\ pc = "query"
  /\ pc' = "release"
  /\ UNCHANGED <<queue, request, conn, session, store, answers, unread>>

\* Preparing, binding or executing the statement fails: roll back, return.
QueryFails ==
  /\ pc = "query"
  /\ Rollback(conn)
  /\ pc' = "release"
  /\ UNCHANGED <<queue, request, conn, up, autocommit, table, rows, answers, unread>>

\* The statement has been executed and its result cannot be bound: the rollback
\* is refused.
ResultFails ==
  /\ pc = "query" /\ conn \in up
  /\ unread' = unread \cup {conn}
  /\ pc' = "release"
  /\ UNCHANGED <<queue, request, conn, session, store, answers>>

Visible == table \cup pending[conn]

Query ==
  /\ pc = "query" /\ conn \in up /\ job = "fetch"
  /\ result' = Visible
  /\ pc' = "commit"
  /\ UNCHANGED <<queue, request, conn, session, store, saved, asked, unread>>

\* A message longer than the buffer it is bound to ends the loop: mysql_stmt_fetch
\* says MYSQL_DATA_TRUNCATED.
QueryTruncated ==
  /\ pc = "query" /\ conn \in up /\ job = "fetch"
  /\ result' \in (SUBSET Visible) \ {Visible}
  /\ unread' = unread \cup {conn}
  /\ pc' = "commit"
  /\ UNCHANGED <<queue, request, conn, session, store, saved, asked>>

\* One fetch: the number is read, the end of the result is not.
Count ==
  /\ pc = "query" /\ conn \in up /\ job = "stats"
  /\ result' = Visible
  /\ unread' = unread \cup {conn}
  /\ pc' = "commit"
  /\ UNCHANGED <<queue, request, conn, session, store, saved, asked>>

\* mysql_commit works, or the read is rolled back: it has written no row.
CommitRead ==
  /\ pc = "commit" /\ conn \notin unread
  /\ CommitPending(conn)
  /\ open' = open \ {conn}
  /\ pc' = "release"
  /\ UNCHANGED <<queue, request, conn, up, autocommit, lost, rows, answers, unread>>

\* mysql_commit is refused, and the mysql_rollback after it, if there is one.
CommitRefused ==
  /\ pc = "commit" /\ conn \in unread
  /\ pc' = "release"
  /\ UNCHANGED <<queue, request, conn, session, store, answers, unread>>

-----------------------------------------------------------------------------
(* insertWebSocketMessage *)

\* The row is committed at once, or waits in the connection's transaction.  (The
\* statement names no ip and no port, so a server in strict mode refuses it;
\* without that mode it works.)
Insert ==
  LET r == rows + 1 IN
  /\ pc = "insert" /\ conn \in up
  /\ rows < MaxRows /\ rows' = r
  /\ IF autocommit[conn]
     THEN table' = table \cup {r} /\ UNCHANGED <<open, pending>>
     ELSE /\ pending' = [pending EXCEPT ![conn] = @ \cup {r}]
          /\ open' = open \cup {conn}
          /\ UNCHANGED table
  /\ saved' = saved \cup {r}
  /\ pc' = "release"
  /\ UNCHANGED <<queue, request, conn, up, autocommit, lost, unread, asked, result>>

\* Mutant: a failed insert rolls back what the connection has open.
InsertFails_Rollback ==
  /\ pc = "insert"
  /\ Rollback(conn)
  /\ pc' = "release"
  /\ UNCHANGED <<queue, request, conn, up, autocommit, table, rows, answers, unread>>

\* Mutant: the answer does not depend on mysql_stmt_execute.
InsertFails_SaysSaved ==
  /\ pc = "insert"
  /\ rows < MaxRows /\ rows' = rows + 1
  /\ saved' = saved \cup {rows + 1}
  /\ pc' = "release"
  /\ UNCHANGED <<queue, request, conn, session, table, lost, asked, result, unread>>

\* An error answer, or none if the statement could not be prepared or bound.
InsertFails ==
  /\ pc = "insert"
  /\ pc' = "release"
  /\ UNCHANGED <<queue, request, conn, session, store, answers, unread>>

-----------------------------------------------------------------------------
(* The world outside *)

\* The program `server` commits a row.
ServerWrites ==
  /\ rows < MaxRows /\ rows' = rows + 1
  /\ table' = table \cup {rows + 1}
  /\ UNCHANGED <<queue, pc, request, conn, session, lost, answers, unread>>

\* MySQL rolls back what a connection has not committed when it is gone.
Disconnect(c) ==
  /\ c \in up
  /\ up' = up \ {c}
  /\ Rollback(c)
  /\ UNCHANGED <<queue, pc, request, conn, autocommit, table, rows, answers, unread>>

Killed ==
  /\ pc # "dead"
  /\ pc' = "dead"
  /\ up' = {} /\ open' = {}
  /\ pending' = [c \in Conns |-> {}]
  /\ lost' = lost \cup UNION {pending[c] : c \in Conns}
  /\ UNCHANGED <<queue, request, conn, autocommit, table, rows, answers, unread>>

Handler ==
  \/ Take \/ Release
  \/ Begin \/ BeginFails \/ QueryFails \/ ResultFails
  \/ Query \/ QueryTruncated \/ Count \/ CommitRead \/ CommitRefused
  \/ Insert \/ InsertFails

Next ==
  \/ \E kind \in Jobs : Request(kind)
  \/ Handler
  \/ ServerWrites \/ Killed
  \/ \E c \in Conns : Disconnect(c)

Spec == Init /\ [][Next]_vars

-----------------------------------------------------------------------------
(* Properties *)

TypeOK ==
  /\ queue \in Seq(Conns)
  /\ pc \in {"idle", "take", "begin", "query", "commit", "insert", "release", "dead"}
  /\ job \in Jobs /\ left \in 0..4
  /\ conn \in Conns \cup {None}
  /\ up \subseteq Conns /\ open \subseteq Conns /\ unread \subseteq Conns
  /\ autocommit \in [Conns -> BOOLEAN]
  /\ pending \in [Conns -> SUBSET Nat]
  /\ table \subseteq Nat /\ lost \subseteq Nat /\ saved \subseteq Nat
  /\ rows \in 0..MaxRows
  /\ asked \subseteq Nat /\ result \subseteq Nat

\* A row is in one place, and a row a client was told is saved is committed or
\* waits in a connection that works: no handler's rollback throws away what an
\* earlier handler left there.  `lost` is for what went with its connection.
Pending == UNION {pending[c] : c \in Conns}
SavedIsSomewhere ==
  /\ saved \subseteq table \cup Pending \cup lost
  /\ table \cap (Pending \cup lost) = {} /\ Pending \cap lost = {}
  /\ \A c \in Conns \ up : pending[c] = {}

\* While no connection has broken and the process runs, nothing is lost.
NothingIsRolledBack == up = Conns => lost = {}

\* What a read shows is committed, whatever state earlier handlers left the
\* connection in; and it is all that was when the read began, unless a message
\* that is too long cut it short.
Truncated == job = "fetch" /\ conn \in unread
ReadsAreCommitted ==
  pc = "commit" => result \subseteq table /\ (asked \subseteq result \/ Truncated)

\* A connection goes back to the pool with a transaction only if there are rows
\* in it, or the read before left its result unread, as every count does, so
\* that neither commit nor rollback could end it.
TransactionsEnd ==
  \A c \in Elems(queue) : c \in open => pending[c] # {} \/ c \in unread

\* WebSocketApiHandlers.cpp:305, "Log saved to database": a row a client was told
\* is saved is in the table when the process ends.
SavedIsDurable == pc = "dead" => saved \subseteq table
=============================================================================
