---------------------------- MODULE MysqlProofs -----------------------------
(***************************************************************************)
(* The MySQL output, for all ships, values, settings and any coming and    *)
(* going of the server and its connections: the newest value stored is in  *)
(* the database, no young row is deleted, and a broken connection costs    *)
(* two calls at most.                                                      *)
(***************************************************************************)
EXTENDS Mysql, TLAPS

Sets == UNION {[D -> Values] : D \in SUBSET Columns}

Statements == [table : Tables, ship : Ships, set : Sets, time : Nat]

Rows ==
  [id : Nat, table : Tables, ship : Ships, time : Nat,
   col : [Columns -> Values \cup {Null}]]

\* A call runs within a second of the clock.
CallOK == pc # "idle" => stmt \in Statements /\ stmt.time = now

MysqlTypeOK ==
  /\ pc \in {"idle", "delete", "update", "insert"}
  /\ now \in Nat /\ msgs \in Nat
  /\ rows \subseteq Rows /\ \A r \in rows : r.time <= now
  /\ CallOK

\* A connection that broke unnoticed has cost no call yet, one that is closed has
\* cost one, and the next call opens it if the server is up.
ConnectionInv ==
  /\ server \in BOOLEAN /\ conn \in {"open", "broken", "closed"}
  /\ failed \in {0, 1, 2}
  /\ ~server => conn # "open" /\ failed = 0
  /\ conn = "broken" => failed = 0
  /\ conn = "closed" => failed <= 1

\* The row that has the last value of a cell, or had it until it was deleted.
Holds(r, x) ==
  r.table = x[1] /\ r.ship = x[2] /\ r.col[x[3]] = last[x].v /\ r.time >= last[x].time

Outdated(x) == mysql_oldlimit > 0 /\ last[x].time < now - mysql_oldlimit

CurrentInv ==
  /\ last \in [Cells -> {Null} \cup [v : Values, time : Nat]]
  /\ \A x \in Cells :
       last[x] # Null =>
         /\ last[x] \in [v : Values, time : Nat] /\ last[x].time <= now
         /\ Outdated(x) \/ \E r \in rows : Holds(r, x)

-----------------------------------------------------------------------------
(* Lemmas                                                                  *)

(***************************************************************************)
(* The calls of protodec.c are well-formed statements of this second.      *)
(***************************************************************************)
LEMMA CallTypes ==
  ASSUME now \in Nat, NEW s \in Ships, NEW v \in Values, NEW c \in Calls(s, v)
  PROVE  c \in Statements /\ c.time = now
<1>1. \A D \in SUBSET Columns : [x \in D |-> v] \in Sets
  BY DEF Sets
<1>2. ASSUME NEW t \in Tables, NEW D \in SUBSET Columns
      PROVE  Stmt(t, s, [x \in D |-> v]) \in Statements /\ Stmt(t, s, [x \in D |-> v]).time = now
  BY <1>1 DEF Stmt, Statements
<1>3. /\ {"pos"} \in SUBSET Columns /\ {"name", "dims"} \in SUBSET Columns
      /\ {"dims"} \in SUBSET Columns /\ {"name"} \in SUBSET Columns /\ {} \in SUBSET Columns
  BY DEF Columns
<1>4. /\ "ais_position" \in Tables /\ "ais_basestation" \in Tables
      /\ "ais_vesseldata" \in Tables /\ "ais_nmea" \in Tables
  BY DEF Tables
<1>5. \E t \in Tables, D \in SUBSET Columns : c = Stmt(t, s, [x \in D |-> v])
  BY <1>3, <1>4 DEF Calls
<1> QED
  BY <1>2, <1>5

(***************************************************************************)
(* The columns a statement sets hold values.                               *)
(***************************************************************************)
LEMMA SetTypes ==
  ASSUME NEW f \in Sets
  PROVE  DOMAIN f \subseteq Columns /\ \A c \in DOMAIN f : f[c] \in Values
  BY DEF Sets

(***************************************************************************)
(* An UPDATE sets the columns of its statement, keeps the others and the   *)
(* row's identity, and dates the row.                                      *)
(***************************************************************************)
LEMMA UpdateTypes ==
  ASSUME stmt \in Statements, NEW r \in Rows
  PROVE  /\ Updated(r) \in Rows
         /\ Updated(r).id = r.id /\ Updated(r).table = r.table /\ Updated(r).ship = r.ship
         /\ Updated(r).time = stmt.time
         /\ \A c \in Columns : Updated(r).col[c] =
                IF c \in DOMAIN stmt.set THEN stmt.set[c] ELSE r.col[c]
<1>1. stmt.set \in Sets /\ stmt.time \in Nat
  BY DEF Statements
<1> DEFINE cols == [c \in Columns |-> IF c \in DOMAIN stmt.set THEN stmt.set[c] ELSE r.col[c]]
<1>2. r.col \in [Columns -> Values \cup {Null}]
  BY DEF Rows
<1>3. cols \in [Columns -> Values \cup {Null}]
  BY <1>1, <1>2, SetTypes
<1>4. Updated(r) = [r EXCEPT !.time = stmt.time, !.col = cols]
  BY DEF Updated
<1> HIDE DEF cols
<1>5. /\ Updated(r) \in Rows
      /\ Updated(r).id = r.id /\ Updated(r).table = r.table /\ Updated(r).ship = r.ship
      /\ Updated(r).time = stmt.time /\ Updated(r).col = cols
  BY <1>1, <1>3, <1>4 DEF Rows
<1> QED
  BY <1>5 DEF cols

-----------------------------------------------------------------------------
(* The connection                                                          *)

(***************************************************************************)
(* What a broken connection has cost, by what the program knows of it.     *)
(***************************************************************************)
THEOREM Connections == Spec => []ConnectionInv
<1>1. Init => ConnectionInv
  BY DEF Init, ConnectionInv
<1>2. ConnectionInv /\ [Next]_vars => ConnectionInv'
  <2> SUFFICES ASSUME ConnectionInv, [Next]_vars PROVE ConnectionInv'
    OBVIOUS
  <2> USE DEF ConnectionInv
  <2>1. ASSUME UNCHANGED <<server, conn>>, failed' = failed \/ failed' = 0 PROVE ConnectionInv'
    BY <2>1
  <2>2. CASE FailsGone
    BY <2>2 DEF FailsGone, StatementFails, myout_reconnect, OneMoreFailed
  <2>3. CASE FailsLost
    BY <2>3 DEF FailsLost, StatementFails, OneMoreFailed
  <2>4. CASE AnswerLost
    BY <2>4 DEF AnswerLost
  <2>5. CASE myout_delete_old
    BY <2>5 DEF myout_delete_old
  <2>6. CASE ServerGoes \/ ConnectionBreaks \/ ServerComes
    <3>1. CASE ServerGoes
      <4>1. server' = FALSE /\ failed' = 0 /\ conn' \in {"broken", "closed"}
        BY <3>1 DEF ServerGoes
      <4>2. server' \in BOOLEAN
        BY <4>1
      <4>3. failed' <= 1
        BY <4>1
      <4> QED
        BY <4>1, <4>2, <4>3, Zenon
    <3>2. CASE ConnectionBreaks
      BY <3>2 DEF ConnectionBreaks
    <3>3. CASE ServerComes
      BY <3>3 DEF ServerComes
    <3> QED
      BY <2>6, <3>1, <3>2, <3>3
  <2>7. CASE Update \/ Insert \/ FailsRefused
    BY <2>1, <2>7 DEF Update, Insert, FailsRefused, StatementFails
  <2>8. ASSUME NEW c, Call(c) PROVE ConnectionInv'
    BY <2>1, <2>8 DEF Call
  <2>9. CASE Tick \/ UNCHANGED vars
    BY <2>1, <2>9 DEF Tick, vars
  <2> QED
    BY <2>2, <2>3, <2>4, <2>5, <2>6, <2>7, <2>8, <2>9 DEF Next
<1> QED
  BY <1>1, <1>2, PTL DEF Spec

(***************************************************************************)
(* When a connection has broken and the server is up, two calls fail at    *)
(* most: out_mysql.c reconnects on CR_SERVER_GONE_ERROR only, and a        *)
(* connection that was lost in a statement gives that error to the next.   *)
(***************************************************************************)
THEOREM Reconnects == Spec => []ReconnectsAtTheSecond
<1>1. ConnectionInv => ReconnectsAtTheSecond
  BY DEF ConnectionInv, ReconnectsAtTheSecond
<1> QED
  BY <1>1, Connections, PTL

-----------------------------------------------------------------------------
(* The rows                                                                *)

(***************************************************************************)
(* Types, and a call that runs within its second.                          *)
(***************************************************************************)
LEMMA TypesStay ==
  ASSUME MysqlTypeOK, [Next]_vars
  PROVE  MysqlTypeOK'
<1> USE DEF MysqlTypeOK, CallOK
<1>1. ASSUME NEW s \in Ships, NEW v \in Values, NEW c \in Calls(s, v), Call(c)
      PROVE  MysqlTypeOK'
  <2>1. c \in Statements /\ c.time = now
    BY <1>1, CallTypes
  <2> QED
    BY <1>1, <2>1 DEF Call, FirstStatement
<1>2. CASE myout_delete_old
  BY <1>2 DEF myout_delete_old, FirstStatement
<1>3. ASSUME pc # "idle", ExecUpdate PROVE rows' \subseteq Rows /\ \A r \in rows' : r.time <= now
  <2>1. stmt \in Statements
    BY <1>3
  <2>2. rows' \subseteq Rows
    BY <1>3, <2>1, UpdateTypes DEF ExecUpdate
  <2>3. \A r \in rows' : r.time <= now
    BY <1>3, <2>1, UpdateTypes DEF ExecUpdate
  <2> QED
    BY <2>2, <2>3
<1>4. ASSUME pc # "idle", ExecInsert PROVE rows' \subseteq Rows /\ \A r \in rows' : r.time <= now
  <2> DEFINE cols == [c \in Columns |-> IF c \in DOMAIN stmt.set THEN stmt.set[c] ELSE Null]
  <2>1. stmt \in Statements
    BY <1>4
  <2>2. stmt.set \in Sets /\ stmt.time \in Nat /\ stmt.table \in Tables /\ stmt.ship \in Ships
    BY <2>1 DEF Statements
  <2>3. cols \in [Columns -> Values \cup {Null}]
    BY <2>2, SetTypes
  <2>4. rows' = rows \cup {[id |-> msgs, table |-> stmt.table, ship |-> stmt.ship,
                            time |-> stmt.time, col |-> cols]}
    BY <1>4 DEF ExecInsert
  <2> HIDE DEF cols
  <2>5. rows' \subseteq Rows
    BY <2>2, <2>3, <2>4 DEF Rows
  <2>6. \A r \in rows' : r.time <= now
    BY <1>4, <2>4
  <2> QED
    BY <2>5, <2>6
<1>5. CASE Update \/ Insert \/ AnswerLost
  <2>1. pc # "idle" /\ (ExecUpdate \/ ExecInsert) /\ UNCHANGED <<stmt, now, msgs>>
    BY <1>5 DEF Update, Insert, AnswerLost
  <2>2. pc' \in {"idle", "insert"}
    BY <1>5 DEF Update, Insert, AnswerLost
  <2> QED
    BY <1>3, <1>4, <2>1, <2>2
<1>6. CASE FailsGone \/ FailsLost \/ FailsRefused \/ ServerGoes \/ ConnectionBreaks \/ ServerComes
  BY <1>6 DEF FailsGone, FailsLost, FailsRefused, StatementFails, ServerGoes, ConnectionBreaks,
              ServerComes
<1>7. CASE Tick
  <2>1. \A r \in rows : r.time <= now + 1
    BY DEF Rows
  <2> QED
    BY <1>7, <2>1 DEF Tick
<1>8. CASE UNCHANGED vars
  BY <1>8 DEF vars
<1> QED
  BY <1>1, <1>2, <1>5, <1>6, <1>7, <1>8 DEF Next

(***************************************************************************)
(* MysqlTypeOK is an invariant of the output.                              *)
(***************************************************************************)
THEOREM MysqlTypes == Spec => []MysqlTypeOK
<1>1. Init => MysqlTypeOK
  BY DEF Init, MysqlTypeOK, CallOK
<1>2. MysqlTypeOK /\ [Next]_vars => MysqlTypeOK'
  BY TypesStay
<1> QED
  BY <1>1, <1>2, PTL DEF Spec

(***************************************************************************)
(* Whatever is updated and inserted, rows disappear by myout_delete_old()  *)
(* only, and only those that are older than the limit.                     *)
(***************************************************************************)
THEOREM YoungRowsKept == Spec => RecentRowsKept
<1>1. MysqlTypeOK /\ [Next]_vars =>
        [\A r \in rows : (\A q \in rows' : q.id # r.id) =>
           mysql_oldlimit > 0 /\ r.time < now - mysql_oldlimit]_vars
  <2> SUFFICES ASSUME MysqlTypeOK, Next, NEW r \in rows, \A q \in rows' : q.id # r.id
               PROVE  mysql_oldlimit > 0 /\ r.time < now - mysql_oldlimit
    OBVIOUS
  <2>1. r \notin rows'
    OBVIOUS
  <2>2. CASE myout_delete_old
    <3>1. mysql_oldlimit > 0 /\ Old(r)
      BY <2>1, <2>2 DEF myout_delete_old
    <3>2. stmt.time = now
      BY <2>2 DEF myout_delete_old, MysqlTypeOK, CallOK
    <3> QED
      BY <3>1, <3>2 DEF Old
  <2>3. CASE pc = "update" /\ ExecUpdate
    <3>1. stmt \in Statements /\ r \in Rows
      BY <2>3 DEF MysqlTypeOK, CallOK
    <3>2. Matches(r) /\ Updated(r) \in rows'
      BY <2>1, <2>3 DEF ExecUpdate
    <3>3. Updated(r).id = r.id
      BY <3>1, UpdateTypes
    <3> QED
      BY <3>2, <3>3
  <2>4. CASE ExecInsert
    BY <2>1, <2>4 DEF ExecInsert
  <2>5. CASE Update \/ Insert \/ AnswerLost
    BY <2>3, <2>4, <2>5 DEF Update, Insert, AnswerLost
  <2>6. CASE \/ FailsGone \/ FailsLost \/ FailsRefused
             \/ ServerGoes \/ ConnectionBreaks \/ ServerComes \/ Tick
    BY <2>1, <2>6 DEF FailsGone, FailsLost, FailsRefused, StatementFails, ServerGoes,
                      ConnectionBreaks, ServerComes, Tick
  <2>7. ASSUME NEW c, Call(c) PROVE FALSE
    BY <2>1, <2>7 DEF Call
  <2> QED
    BY <2>2, <2>5, <2>6, <2>7 DEF Next
<1> QED
  BY <1>1, MysqlTypes, PTL DEF Spec, RecentRowsKept

(***************************************************************************)
(* A cell's newest value keeps its row over every statement.               *)
(***************************************************************************)
LEMMA CurrentStays ==
  ASSUME MysqlTypeOK, CurrentInv, [Next]_vars
  PROVE  CurrentInv'
<1> DEFINE Cell(x) ==
      last[x] # Null =>
        /\ last[x] \in [v : Values, time : Nat] /\ last[x].time <= now
        /\ Outdated(x) \/ \E r \in rows : Holds(r, x)
<1>0. rows' \subseteq Rows
  BY TypesStay DEF MysqlTypeOK
<1>1. \A x \in Cells : Cell(x)
  BY DEF CurrentInv
<1>2. now \in Nat /\ mysql_oldlimit \in Nat /\ rows \subseteq Rows
  BY MysqlAssumption DEF MysqlTypeOK
<1>3. ASSUME UNCHANGED <<now, last>>, rows \subseteq rows'
      PROVE  CurrentInv'
  BY <1>3 DEF CurrentInv, Outdated, Holds
<1>4. ASSUME pc # "idle", Stored, UNCHANGED now,
             \A r \in rows : \E q \in rows' :
               /\ q.table = r.table /\ q.ship = r.ship /\ q.time >= r.time
               /\ \A c \in Columns :
                    \/ q.col[c] = r.col[c]
                    \/ q.table = stmt.table /\ q.ship = stmt.ship /\ c \in DOMAIN stmt.set,
             \E q \in rows' :
               /\ q.table = stmt.table /\ q.ship = stmt.ship /\ q.time >= stmt.time
               /\ \A c \in DOMAIN stmt.set : q.col[c] = stmt.set[c]
      PROVE  CurrentInv'
  <2>1. stmt \in Statements /\ stmt.time = now
    BY <1>4 DEF MysqlTypeOK, CallOK
  <2>2. stmt.set \in Sets
    BY <2>1 DEF Statements
  <2> SUFFICES ASSUME NEW x \in Cells
               PROVE  /\ last'[x] \in {Null} \cup [v : Values, time : Nat]
                      /\ Cell(x)'
    BY <1>4 DEF CurrentInv, Stored
  <2>3. x[3] \in Columns
    BY DEF Cells
  <2>4. CASE x[1] = stmt.table /\ x[2] = stmt.ship /\ x[3] \in DOMAIN stmt.set
    <3>1. last'[x] = [v |-> stmt.set[x[3]], time |-> stmt.time]
      BY <1>4, <2>4 DEF Stored
    <3>2. stmt.set[x[3]] \in Values
      BY <2>2, <2>4, SetTypes
    <3>3. PICK q \in rows' :
            /\ q.table = stmt.table /\ q.ship = stmt.ship /\ q.time >= stmt.time
            /\ \A c \in DOMAIN stmt.set : q.col[c] = stmt.set[c]
      BY <1>4
    <3>4. q.table = x[1] /\ q.ship = x[2] /\ q.col[x[3]] = last'[x].v /\ q.time >= last'[x].time
      BY <2>4, <3>1, <3>3
    <3>5. last'[x] \in [v : Values, time : Nat] /\ last'[x].time <= now'
      BY <1>2, <1>4, <2>1, <3>1, <3>2
    <3> QED
      BY <3>3, <3>4, <3>5 DEF Holds
  <2>5. CASE ~(x[1] = stmt.table /\ x[2] = stmt.ship /\ x[3] \in DOMAIN stmt.set)
    <3>1. last'[x] = last[x]
      BY <1>4, <2>5 DEF Stored
    <3>2. ASSUME NEW r \in rows, Holds(r, x), last[x] # Null
          PROVE  \E q \in rows' :
                   /\ q.table = x[1] /\ q.ship = x[2] /\ q.col[x[3]] = last[x].v
                   /\ q.time >= last[x].time
      <4>1. PICK q \in rows' :
              /\ q.table = r.table /\ q.ship = r.ship /\ q.time >= r.time
              /\ \A c \in Columns :
                   \/ q.col[c] = r.col[c]
                   \/ q.table = stmt.table /\ q.ship = stmt.ship /\ c \in DOMAIN stmt.set
        BY <1>4
      <4>2. q.time \in Nat /\ r.time \in Nat /\ last[x].time \in Nat
        <5>1. q \in Rows /\ r \in Rows /\ last[x] \in [v : Values, time : Nat]
          BY <1>0, <1>1, <1>2, <3>2, <4>1
        <5> QED
          BY <5>1 DEF Rows
      <4>3. r.table = x[1] /\ r.ship = x[2] /\ r.col[x[3]] = last[x].v /\ r.time >= last[x].time
        BY <3>2 DEF Holds
      <4>4. q.table = x[1] /\ q.ship = x[2] /\ q.time >= last[x].time
        BY <4>1, <4>2, <4>3
      <4>5. q.col[x[3]] = last[x].v
        BY <2>3, <2>5, <4>1, <4>3
      <4> QED
        BY <4>1, <4>4, <4>5
    <3> QED
      BY <1>1, <1>4, <3>1, <3>2 DEF CurrentInv, Holds, Outdated
  <2> QED
    BY <2>4, <2>5
<1>5. ASSUME pc = "update", ExecUpdate, UNCHANGED now PROVE CurrentInv'
  <2>1. stmt \in Statements /\ stmt.time = now
    BY <1>5 DEF MysqlTypeOK, CallOK
  <2>2. \A r \in rows : r \in Rows /\ r.time \in Nat /\ r.time <= now
    BY DEF MysqlTypeOK, Rows
  <2>3. CASE Changed = {}
    <3>1. \A r \in rows : Matches(r) => Updated(r) = r
      BY <2>3 DEF Changed
    <3>2. rows' = rows
      BY <1>5, <3>1 DEF ExecUpdate
    <3> QED
      BY <1>3, <1>5, <2>3, <3>2 DEF ExecUpdate
  <2>4. CASE Changed # {}
    <3>1. Stored /\ pc # "idle" /\ UNCHANGED now
      BY <1>5, <2>4 DEF ExecUpdate
    <3>2. ASSUME NEW r \in rows
          PROVE  \E q \in rows' :
                   /\ q.table = r.table /\ q.ship = r.ship /\ q.time >= r.time
                   /\ \A c \in Columns :
                        \/ q.col[c] = r.col[c]
                        \/ q.table = stmt.table /\ q.ship = stmt.ship /\ c \in DOMAIN stmt.set
      <4>1. CASE ~Matches(r)
        BY <1>5, <2>2, <4>1 DEF ExecUpdate
      <4>2. CASE Matches(r)
        <5>1. Updated(r) \in rows'
          BY <1>5, <4>2 DEF ExecUpdate
        <5> QED
          BY <2>1, <2>2, <4>2, <5>1, UpdateTypes DEF Matches
      <4> QED
        BY <4>1, <4>2
    <3>3. PICK r \in rows : Matches(r)
      BY <2>4 DEF Changed
    <3>4. Updated(r) \in rows'
      BY <1>5, <3>3 DEF ExecUpdate
    <3>5. stmt.set \in Sets /\ stmt.time \in Nat
      BY <2>1 DEF Statements
    <3>6. /\ Updated(r).table = stmt.table /\ Updated(r).ship = stmt.ship
          /\ Updated(r).time >= stmt.time
          /\ \A c \in DOMAIN stmt.set : Updated(r).col[c] = stmt.set[c]
      BY <2>1, <2>2, <3>3, <3>5, UpdateTypes, SetTypes DEF Matches
    <3> QED
      BY <1>4, <3>1, <3>2, <3>4, <3>6
  <2> QED
    BY <2>3, <2>4
<1>6. ASSUME pc = "insert", ExecInsert, UNCHANGED now PROVE CurrentInv'
  <2>1. stmt \in Statements /\ stmt.time = now
    BY <1>6 DEF MysqlTypeOK, CallOK
  <2>2. stmt.set \in Sets /\ stmt.time \in Nat
    BY <2>1 DEF Statements
  <2>3. Stored /\ pc # "idle" /\ UNCHANGED now /\ rows \subseteq rows'
    BY <1>6 DEF ExecInsert
  <2>4. ASSUME NEW r \in rows PROVE r.time >= r.time
    BY <1>2 DEF Rows
  <2> DEFINE cols == [c \in Columns |-> IF c \in DOMAIN stmt.set THEN stmt.set[c] ELSE Null]
             q == [id |-> msgs, table |-> stmt.table, ship |-> stmt.ship,
                   time |-> stmt.time, col |-> cols]
  <2>5. q \in rows'
    BY <1>6 DEF ExecInsert
  <2>6. /\ q.table = stmt.table /\ q.ship = stmt.ship /\ q.time >= stmt.time
        /\ \A c \in DOMAIN stmt.set : q.col[c] = stmt.set[c]
    BY <2>2, SetTypes
  <2>7. \E p \in rows' :
          /\ p.table = stmt.table /\ p.ship = stmt.ship /\ p.time >= stmt.time
          /\ \A c \in DOMAIN stmt.set : p.col[c] = stmt.set[c]
    <3> HIDE DEF q
    <3> QED
      BY <2>5, <2>6
  <2> QED
    BY <1>4, <2>3, <2>4, <2>7
<1>7. CASE myout_delete_old
  <2>1. stmt.time = now
    BY <1>7 DEF myout_delete_old, MysqlTypeOK, CallOK
  <2>2. UNCHANGED <<now, last>>
    BY <1>7 DEF myout_delete_old
  <2>3. ASSUME NEW x \in Cells, last[x] # Null, NEW r \in rows, Holds(r, x), r \notin rows'
        PROVE  Outdated(x)
    <3>1. mysql_oldlimit > 0 /\ r.time < now - mysql_oldlimit
      BY <1>7, <2>1, <2>3 DEF myout_delete_old, Old
    <3>2. r.time \in Nat /\ r.time >= last[x].time /\ last[x].time \in Nat
      BY <1>1, <1>2, <2>3 DEF Holds, Rows
    <3> QED
      BY <1>2, <3>1, <3>2 DEF Outdated
  <2>4. ASSUME NEW x \in Cells PROVE Cell(x)'
    BY <1>1, <2>2, <2>3 DEF Holds, Outdated
  <2> QED
    BY <2>2, <2>4 DEF CurrentInv
<1>8. CASE Tick
  <2>1. now' = now + 1 /\ UNCHANGED <<rows, last>>
    BY <1>8 DEF Tick
  <2>2. ASSUME NEW x \in Cells, last[x] # Null
        PROVE  last[x].time <= now' /\ (Outdated(x) => Outdated(x)')
    BY <1>1, <1>2, <2>1, <2>2 DEF Outdated
  <2>3. ASSUME NEW x \in Cells PROVE Cell(x)'
    BY <1>1, <2>1, <2>2 DEF Holds
  <2> QED
    BY <2>1, <2>3 DEF CurrentInv
<1>9. CASE \/ FailsGone \/ FailsLost \/ FailsRefused
           \/ ServerGoes \/ ConnectionBreaks \/ ServerComes \/ UNCHANGED vars
  BY <1>3, <1>9 DEF FailsGone, FailsLost, FailsRefused, StatementFails, ServerGoes,
                    ConnectionBreaks, ServerComes, vars
<1>10. ASSUME NEW c, Call(c) PROVE CurrentInv'
  BY <1>3, <1>10 DEF Call
<1>11. CASE Update \/ Insert \/ AnswerLost
  BY <1>5, <1>6, <1>11 DEF Update, Insert, AnswerLost
<1> QED
  BY <1>7, <1>8, <1>9, <1>10, <1>11 DEF Next

(***************************************************************************)
(* The last value stored of every ship is in the database until it is      *)
(* older than the limit: an UPDATE that finds a row keeps the columns it   *)
(* does not set, and no deletion takes the row that has the newest value.  *)
(***************************************************************************)
THEOREM Current == Spec => []DatabaseIsCurrent
<1>1. Init => CurrentInv
  BY DEF Init, CurrentInv
<1>2. MysqlTypeOK /\ CurrentInv /\ [Next]_vars => CurrentInv'
  BY CurrentStays
<1>3. CurrentInv => DatabaseIsCurrent
  BY DEF CurrentInv, DatabaseIsCurrent, Holds, Outdated
<1> QED
  BY <1>1, <1>2, <1>3, MysqlTypes, PTL DEF Spec
=============================================================================
