------------------------------- MODULE Mysql --------------------------------
(***************************************************************************)
(* The MySQL output, src/src/out_mysql.c.  The server and its library are  *)
(* external.  The server may go away, or end the connection, at any time.  *)
(* The statement that meets the broken connection fails in one of two      *)
(* ways: with CR_SERVER_GONE_ERROR if it could not be sent, or with        *)
(* CR_SERVER_LOST if there was no answer.  In both cases the library       *)
(* closes its end, and statements on a closed connection fail with         *)
(* CR_SERVER_GONE_ERROR.  A statement whose answer is lost may have been   *)
(* executed.  The server may also refuse a statement with another error,   *)
(* over a connection that stays open.                                      *)
(*                                                                         *)
(* mysql_affected_rows() of an UPDATE counts the rows that changed, as     *)
(* MySQL does unless asked for the rows that matched.  A row is its table, *)
(* the ship, the second it was stored in and the value of each column,     *)
(* Null if it was never set.                                               *)
(***************************************************************************)
EXTENDS Integers, FiniteSets

CONSTANTS
  Ships, Values,
  mysql_keepsmall,   \* update the row of a ship rather than insert another
  mysql_oldlimit,    \* 0, or the age in seconds at which rows are deleted
  DeleteEvery,       \* 10: positions between two deletions
  MaxMsgs, MaxTime,  \* bounds of the model
  Null

ASSUME MysqlAssumption ==
  /\ mysql_keepsmall \in BOOLEAN /\ mysql_oldlimit \in Nat
  /\ DeleteEvery \in Nat \ {0} /\ MaxMsgs \in Nat /\ MaxTime \in Nat

VARIABLES
  server,      \* is the server up?
  conn,        \* my->conn: "open", "broken" unnoticed, or "closed"
  inserts,     \* my->inserts
  pc,          \* "idle", "delete", "update", "insert"
  stmt,        \* what the running call stores
  rows,        \* the rows of all tables
  now,         \* the clock, in seconds
  msgs,        \* history: calls made
  last,        \* history: of each table, ship and column what was stored last, and when
  failed       \* history: calls in a row that had no connection to the server,
               \* though it was up, since the connection broke last

vars == <<server, conn, inserts, pc, stmt, rows, now, msgs, last, failed>>

Columns == {"pos", "name", "dims"}

Tables == {"ais_position", "ais_basestation", "ais_vesseldata", "ais_nmea"}

Cells == (Tables \ {"ais_nmea"}) \X Ships \X Columns

Stmt(table, ship, set) == [table |-> table, ship |-> ship, set |-> set, time |-> now]

\* The statements of the calls protodec.c makes; a set is column -> value.
Calls(s, v) ==
  { Stmt("ais_position", s, [c \in {"pos"} |-> v]),             \* myout_ais_position()
    Stmt("ais_basestation", s, [c \in {"pos"} |-> v]),          \* myout_ais_basestation()
    Stmt("ais_vesseldata", s, [c \in {"name", "dims"} |-> v]),  \* myout_ais_vesseldata()
    Stmt("ais_vesseldata", s, [c \in {"dims"} |-> v]),          \* myout_ais_vesseldatab()
    Stmt("ais_vesseldata", s, [c \in {"name"} |-> v]),          \* myout_ais_vesselname()
    Stmt("ais_nmea", s, [c \in {} |-> v]) }                     \* myout_nmea()

\* myout_init() has connected.
Init ==
  /\ server = TRUE /\ conn = "open"
  /\ inserts = 0 /\ pc = "idle" /\ stmt = Null
  /\ rows = {} /\ now = 1 /\ msgs = 0
  /\ last = [c \in Cells |-> Null]
  /\ failed = 0

-----------------------------------------------------------------------------

\* Where a call begins to store: sentences are always inserted.
FirstStatement(s) == IF mysql_keepsmall /\ s.table # "ais_nmea" THEN "update" ELSE "insert"

\* A call: myout_ais_position() counts, and deletes first at every tenth.
Call(s) ==
  /\ pc = "idle" /\ msgs < MaxMsgs
  /\ msgs' = msgs + 1
  /\ stmt' = s
  /\ IF s.table = "ais_position"
       THEN inserts' = IF (inserts + 1) % DeleteEvery = 0 THEN 0 ELSE inserts + 1
       ELSE UNCHANGED inserts
  /\ pc' = IF s.table = "ais_position" /\ inserts' = 0 THEN "delete" ELSE FirstStatement(s)
  /\ UNCHANGED <<server, conn, rows, now, last, failed>>

\* Mutant: everything from before this second is deleted.
OldYounger(r) == r.time < stmt.time

\* DELETE ... WHERE time < now - mysql_oldlimit
Old(r) == r.time < stmt.time - mysql_oldlimit

\* myout_delete_old(): a DELETE for each table, and the next one also if it fails.
\* If it fails for want of a connection, there is no reconnection.
myout_delete_old ==
  /\ pc = "delete"
  /\ \E T \in SUBSET Tables :
       /\ T # {} => mysql_oldlimit > 0 /\ conn = "open"
       /\ rows' = {r \in rows : ~(r.table \in T /\ Old(r))}
  /\ conn' = IF mysql_oldlimit > 0 /\ conn = "broken" THEN "closed" ELSE conn
  /\ pc' = FirstStatement(stmt)
  /\ UNCHANGED <<server, inserts, stmt, now, msgs, last, failed>>

\* Mutant: the connection is not opened again.
myout_reconnectNot == conn' = conn

\* mysql_close(), then myout_connect(), which may fail.
myout_reconnect == conn' = IF server THEN "open" ELSE "closed"

\* A statement fails and the call returns: what it had to store is lost.
StatementFails ==
  /\ pc \in {"update", "insert"}
  /\ pc' = "idle"
  /\ UNCHANGED <<server, inserts, stmt, rows, now, msgs, last>>

OneMoreFailed == failed' = IF server THEN failed + 1 ELSE 0

\* With CR_SERVER_GONE_ERROR, the one error after which the call reconnects.
FailsGone ==
  /\ StatementFails /\ conn # "open"
  /\ myout_reconnect
  /\ OneMoreFailed

\* With CR_SERVER_LOST, and it was not executed.
FailsLost ==
  /\ StatementFails /\ conn = "broken"
  /\ conn' = "closed"
  /\ OneMoreFailed

\* With an error from the server: a table that is locked, a disk that is full.
FailsRefused ==
  /\ StatementFails /\ conn = "open"
  /\ failed' = 0
  /\ UNCHANGED conn

Matches(r) == r.table = stmt.table /\ r.ship = stmt.ship

Updated(r) ==
  [r EXCEPT !.time = stmt.time,
            !.col = [c \in Columns |-> IF c \in DOMAIN stmt.set THEN stmt.set[c] ELSE r.col[c]]]

\* What the statement sets is the last that was stored.
Stored ==
  last' = [x \in Cells |->
            IF x[1] = stmt.table /\ x[2] = stmt.ship /\ x[3] \in DOMAIN stmt.set
              THEN [v |-> stmt.set[x[3]], time |-> stmt.time] ELSE last[x]]

Changed == {r \in rows : Matches(r) /\ Updated(r) # r}

\* The server executes the UPDATE.
ExecUpdate ==
  /\ rows' = {IF Matches(r) THEN Updated(r) ELSE r : r \in rows}
  /\ IF Changed # {} THEN Stored ELSE UNCHANGED last

\* Mutant: nothing is inserted.
ExecInsertNot == rows' = rows /\ Stored

\* The server executes the INSERT.
ExecInsert ==
  /\ rows' = rows \cup
       {[id |-> msgs, table |-> stmt.table, ship |-> stmt.ship, time |-> stmt.time,
         col |-> [c \in Columns |-> IF c \in DOMAIN stmt.set THEN stmt.set[c] ELSE Null]]}
  /\ Stored

\* If no row changed, the call goes on with the INSERT.
Update ==
  /\ pc = "update" /\ conn = "open"
  /\ ExecUpdate
  /\ pc' = IF Changed # {} THEN "idle" ELSE "insert"
  /\ failed' = 0
  /\ UNCHANGED <<server, conn, inserts, stmt, now, msgs>>

Insert ==
  /\ pc = "insert" /\ conn = "open"
  /\ ExecInsert
  /\ pc' = "idle"
  /\ failed' = 0
  /\ UNCHANGED <<server, conn, inserts, stmt, now, msgs>>

\* The connection breaks between the execution and the answer: CR_SERVER_LOST, and
\* the call returns.
AnswerLost ==
  /\ conn = "open"
  /\ \/ pc = "update" /\ ExecUpdate
     \/ pc = "insert" /\ ExecInsert
  /\ conn' = "closed" /\ pc' = "idle"
  /\ failed' = 1
  /\ UNCHANGED <<server, inserts, stmt, now, msgs>>

(* The server and the clock.                                               *)

ServerGoes ==
  /\ server
  /\ server' = FALSE
  /\ conn' = IF conn = "open" THEN "broken" ELSE conn
  /\ failed' = 0
  /\ UNCHANGED <<inserts, pc, stmt, rows, now, msgs, last>>

\* The server, which stays up, or the network ends the connection.
ConnectionBreaks ==
  /\ conn = "open"
  /\ conn' = "broken"
  /\ failed' = 0
  /\ UNCHANGED <<server, inserts, pc, stmt, rows, now, msgs, last>>

ServerComes ==
  /\ ~server
  /\ server' = TRUE
  /\ UNCHANGED <<conn, inserts, pc, stmt, rows, now, msgs, last, failed>>

Tick ==
  /\ now < MaxTime /\ pc = "idle"
  /\ now' = now + 1
  /\ UNCHANGED <<server, conn, inserts, pc, stmt, rows, msgs, last, failed>>

Next ==
  \/ \E s \in Ships, v \in Values : \E c \in Calls(s, v) : Call(c)
  \/ myout_delete_old \/ Update \/ Insert
  \/ FailsGone \/ FailsLost \/ FailsRefused \/ AnswerLost
  \/ ServerGoes \/ ConnectionBreaks \/ ServerComes \/ Tick

Spec == Init /\ [][Next]_vars

-----------------------------------------------------------------------------
(* Properties                                                              *)

TypeOK ==
  /\ conn \in {"open", "broken", "closed"}
  /\ inserts \in 0 .. DeleteEvery - 1
  /\ pc \in {"idle", "delete", "update", "insert"}
  /\ \A r \in rows : r.time \in 1 .. now

(***************************************************************************)
(* The database is current: the last value stored of every ship is in a    *)
(* row of its table until it is older than the limit, whichever columns    *)
(* later statements set and whatever is deleted meanwhile.                 *)
(***************************************************************************)
DatabaseIsCurrent ==
  \A x \in Cells :
    last[x] # Null =>
      \/ \E r \in rows : r.table = x[1] /\ r.ship = x[2] /\ r.col[x[3]] = last[x].v
      \/ mysql_oldlimit > 0 /\ last[x].time < now - mysql_oldlimit

(***************************************************************************)
(* "Deleting data older than %d seconds" (ais.c): no younger row goes.     *)
(***************************************************************************)
RecentRowsKept ==
  [][\A r \in rows : (\A q \in rows' : q.id # r.id) =>
       mysql_oldlimit > 0 /\ r.time < now - mysql_oldlimit]_vars

(***************************************************************************)
(* "Implemented automatic reconnection to MySQL if the connection goes     *)
(* away" (ChangeLog:84): when a connection has broken and the server is    *)
(* up, at most two calls fail for it: one that gets no answer, after which *)
(* nothing reconnects, and one that finds the connection closed.           *)
(***************************************************************************)
ReconnectsAtTheSecond == failed <= 2
=============================================================================
