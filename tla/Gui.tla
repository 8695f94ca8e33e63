-------------------------------- MODULE Gui ---------------------------------
(***************************************************************************)
(* The reading thread of gnuaisgui, threaden() of src/src/gui/gui.c, on    *)
(* the stream of sentences that ipc_write() makes.  A stream has no        *)
(* message boundaries: one read() may return several sentences, of which   *)
(* the thread looks at the first only, or end inside of one.               *)
(*                                                                         *)
(* The stream is a sequence of units: a sentence is one unit of header,    *)
(* its letters and one unit of trailer.  A message has one letter each for *)
(* its type, its ship and its position; static data take two sentences.    *)
(* A read that ends inside a header is not modelled.                       *)
(***************************************************************************)
EXTENDS Integers, Sequences, FiniteSets

CONSTANTS
  Ships,           \* MMSIs
  Positions,
  MAXSHIPS,        \* ships the map can hold
  ReadLen,         \* 256 bytes, in units
  SockLen,         \* bound of the model: units in the socket's buffer
  MaxMsgs,         \* bound of the model: messages written
  Junk             \* an uninitialised value

ASSUME GuiAssumption ==
  /\ ReadLen \in Nat \ {0} /\ SockLen \in Nat /\ MaxMsgs \in Nat
  /\ MAXSHIPS \in Nat

VARIABLES
  todo,            \* sentences of the current message not yet written
  stream,          \* units in the socket
  previoussentence,
  aisline,         \* letters of the message being put together
  r_buffer,        \* the static buffer of aisdecode(), as letters
  shipd,           \* the last ship decoded
  ships,           \* the map: MMSI -> what is shown of the ship
  msgs,            \* history: messages written so far
  reported,        \* history: every report of a position that was written
  last,            \* history: the last report of each ship
  cut,             \* history: has a read ended inside a sentence?
  behind           \* history: has a read returned more than one sentence?

vars == <<todo, stream, previoussentence, aisline, r_buffer, shipd, ships,
          msgs, reported, last, cut, behind>>

Letter(what, v) == [is |-> "letter", what |-> what, v |-> v]
Header(num, of) == [is |-> "header", num |-> num, of |-> of]
Trailer         == [is |-> "trailer"]
NoLetter        == Letter("none", Junk)
Report(t, s, p) == [type |-> t, mmsi |-> s, pos |-> p]

\* The sentences of a message: position reports of a ship (1) and of a base
\* station (4), the position of a class B ship, which the GUI does not know
\* (18), and static data (5).
Sentences(t, s, p) ==
  LET of    == IF t = 5 THEN 2 ELSE 1
      first == <<Header(1, of), Letter("type", t), Letter("mmsi", s), Letter("pos", p), Trailer>>
      rest  == <<Header(2, of), Letter("text", p), Trailer>>
  IN  IF t = 5 THEN <<first, rest>> ELSE <<first>>

\* The table of reports f with d in it, for the ship that d is of.
With(f, d) == [m \in DOMAIN f \cup {d.mmsi} |-> IF m = d.mmsi THEN d ELSE f[m]]

\* shipd is not initialised: its type may look like any.
Init ==
  /\ todo = <<>> /\ stream = <<>>
  /\ previoussentence = 0 /\ aisline = <<>>
  /\ r_buffer = [i \in 1 .. 4 |-> NoLetter]
  /\ shipd \in {Report(t, Junk, Junk) : t \in {Junk, 1}}
  /\ ships = <<>>
  /\ msgs = 0 /\ reported = {} /\ last = <<>>
  /\ cut = FALSE /\ behind = FALSE

-----------------------------------------------------------------------------
(* The daemon, external to the GUI.                                        *)

Message(t, s, p) ==
  /\ todo = <<>> /\ msgs < MaxMsgs
  /\ msgs' = msgs + 1
  /\ todo' = Sentences(t, s, p)
  /\ reported' = IF t \in {1, 4} THEN reported \cup {Report(t, s, p)} ELSE reported
  /\ last' = IF t \in {1, 4} THEN With(last, Report(t, s, p)) ELSE last
  /\ UNCHANGED <<stream, previoussentence, aisline, r_buffer, shipd, ships, cut, behind>>

\* A write that does not fit the socket waits.
ipc_write ==
  /\ todo # <<>>
  /\ Len(stream) + Len(Head(todo)) <= SockLen
  /\ stream' = stream \o Head(todo)
  /\ todo' = Tail(todo)
  /\ UNCHANGED <<previoussentence, aisline, r_buffer, shipd, ships, msgs, reported, last, cut, behind>>

-----------------------------------------------------------------------------
(* The GUI.                                                                *)

\* The letters of line, in front of what the buffer held before.
Overwritten(line) ==
  [i \in DOMAIN r_buffer |-> IF i <= Len(line) THEN line[i] ELSE r_buffer[i]]

\* Mutant: type5() does not set the type.
aisdecodeKeepsType(buf) ==
  LET type == buf[1].v
  IN  IF type \in {1, 4} THEN Report(type, buf[2].v, buf[3].v)
      ELSE IF type = 5   THEN [shipd EXCEPT !.mmsi = buf[2].v]
      ELSE shipd

\* type1(), type4(), type5(): what aisdecode() leaves in shipd.
aisdecode(buf) ==
  LET type == buf[1].v
  IN  IF type \in {1, 4} THEN Report(type, buf[2].v, buf[3].v)
      ELSE IF type = 5   THEN [shipd EXCEPT !.type = 5, !.mmsi = buf[2].v]
      ELSE shipd

\* Mutant: a new ship takes the place of a ship that is shown.
updateshipFull(d) ==
  ships' = With(IF d.mmsi \notin DOMAIN ships /\ Cardinality(DOMAIN ships) = MAXSHIPS
                  THEN <<>> ELSE ships, d)

updateship(d) ==
  IF d.mmsi \in DOMAIN ships \/ Cardinality(DOMAIN ships) < MAXSHIPS
    THEN ships' = With(ships, d)
    ELSE UNCHANGED ships

\* The continuation of a message whose beginning was not seen.
OutOfOrder(h) == h.num > 1 /\ previoussentence # h.num - 1

\* The rest of the loop, from a header on; letters are those up to the
\* trailer or the end of what was read.
Sentence(h, letters) ==
  LET line == IF h.num = 1 THEN letters ELSE aisline \o letters
  IN  /\ aisline' = line
      /\ previoussentence' = h.num
      /\ IF h.num >= h.of
           THEN r_buffer' = Overwritten(line) /\ shipd' = aisdecode(r_buffer')
           ELSE UNCHANGED <<r_buffer, shipd>>
      /\ IF shipd'.type \in {1, 4} THEN updateship(shipd') ELSE UNCHANGED ships

threaden ==
  /\ stream # <<>>
  /\ LET n       == IF Len(stream) < ReadLen THEN Len(stream) ELSE ReadLen
         chunk   == SubSeq(stream, 1, n)
         headers == {i \in 1 .. n : chunk[i].is = "header"}
         first   == CHOOSE i \in headers : \A j \in headers : i <= j
         letters == {i \in first + 1 .. n : \A j \in first + 1 .. i : chunk[j].is = "letter"}
     IN  /\ stream' = SubSeq(stream, n + 1, Len(stream))
         /\ cut' = (cut \/ chunk[n].is # "trailer")
         /\ behind' = (behind \/ Cardinality(headers) # 1)
         /\ IF headers = {} \/ OutOfOrder(chunk[first])
              THEN UNCHANGED <<previoussentence, aisline, r_buffer, shipd, ships>>
              ELSE Sentence(chunk[first], SubSeq(chunk, first + 1, first + Cardinality(letters)))
  /\ UNCHANGED <<todo, msgs, reported, last>>

Next ==
  \/ \E t \in {1, 4, 5, 18}, s \in Ships, p \in Positions : Message(t, s, p)
  \/ ipc_write
  \/ threaden

Spec == Init /\ [][Next]_vars

-----------------------------------------------------------------------------
(* Properties                                                              *)

Shown == {ships[m] : m \in DOMAIN ships}

\* The line never gets longer than a message, however many sentences are lost.
TypeOK ==
  /\ previoussentence \in 0 .. 2
  /\ Len(aisline) <= 4
  /\ Cardinality(DOMAIN ships) <= MAXSHIPS

(***************************************************************************)
(* The map shows nothing that no ship reported, even if reads return many  *)
(* sentences and messages in two sentences lose one: unless a read ends    *)
(* inside a sentence, or the uninitialised shipd looks like a ship.        *)
(***************************************************************************)
ShowsOnlyReports ==
  ~cut => \A d \in Shown : d \in reported \/ d.mmsi = Junk

(***************************************************************************)
(* A GUI that reads each sentence before the next is written shows every   *)
(* ship where it last was, as long as there is room on the map.            *)
(***************************************************************************)
ShowsLatest ==
  ~behind /\ ~cut /\ todo = <<>> /\ stream = <<>> =>
    \A m \in DOMAIN last :
      \/ m \in DOMAIN ships /\ ships[m] = last[m]
      \/ m \notin DOMAIN ships /\ Cardinality(DOMAIN ships) = MAXSHIPS
=============================================================================
