----------------------------- MODULE GuiProofs ------------------------------
(***************************************************************************)
(* The GUI's reader, for any ships, size of reads, of the socket and of    *)
(* the map: it shows what ships reported, and the latest of it as long as  *)
(* it keeps up.                                                            *)
(***************************************************************************)
EXTENDS Gui, FiniteSetTheorems, SequenceTheorems, WellFoundedInduction, TLAPS

Types == {1, 4, 5, 18}

Units ==
  {Trailer} \cup {Header(n, of) : n \in {1, 2}, of \in {1, 2}}
    \cup {Letter(w, v) : w \in {"type", "mmsi", "pos", "text"},
                         v \in Types \cup Ships \cup Positions}

-----------------------------------------------------------------------------
(* The stream                                                              *)

IsHeader(q, i) == q[i].is = "header"
ReportAt(q, i) == Report(q[i + 1].v, q[i + 2].v, q[i + 3].v)

\* The first sentence of a message begins at place i of q; R are the reports.
FirstAt(q, i, R) ==
  /\ i + 4 <= Len(q)
  /\ q[i].num = 1 /\ q[i].of = IF q[i + 1].v = 5 THEN 2 ELSE 1
  /\ q[i + 1].is = "letter" /\ q[i + 2].is = "letter" /\ q[i + 3].is = "letter"
  /\ q[i + 4].is = "trailer"
  /\ q[i + 1].v \in {1, 4} => ReportAt(q, i) \in R

\* The second sentence of a message begins at place i of q.
RestAt(q, i) ==
  /\ i + 2 <= Len(q)
  /\ q[i].num = 2 /\ q[i].of = 2
  /\ q[i + 1].is = "letter" /\ q[i + 2].is = "trailer"

Whole(q, R) ==
  /\ q \in Seq(Units)
  /\ \A i \in 1 .. Len(q) : IsHeader(q, i) => FirstAt(q, i, R) \/ RestAt(q, i)

\* Sentences are written as a whole, and what ships report was reported.
IsFirst(x, R) ==
  /\ x \in Seq(Units) /\ Len(x) = 5
  /\ IsHeader(x, 1) /\ FirstAt(x, 1, R)

IsRest(x) ==
  /\ x \in Seq(Units) /\ Len(x) = 3
  /\ IsHeader(x, 1) /\ RestAt(x, 1)

TodoInv ==
  \/ todo = <<>>
  \/ \E x : IsFirst(x, reported) /\ x[2].v # 5 /\ todo = <<x>>
  \/ \E x, y : IsFirst(x, reported) /\ x[2].v = 5 /\ IsRest(y) /\ todo = <<x, y>>
  \/ \E y : IsRest(y) /\ todo = <<y>>

StreamInv == Whole(stream, reported) /\ TodoInv

-----------------------------------------------------------------------------
(* The map                                                                 *)

Told(d) == d \in reported \/ d.mmsi = Junk

\* A line that can be continued is the first sentence of a message.
LineInv ==
  /\ aisline \in Seq(Units)
  /\ ~cut /\ previoussentence = 1 =>
       /\ Len(aisline) = 3
       /\ aisline[1].v \in {1, 4} => ReportAt(aisline, 0) \in reported

MapInv ==
  /\ DOMAIN r_buffer = 1 .. 4
  /\ DOMAIN shipd = {"type", "mmsi", "pos"}
  /\ ~cut /\ shipd.type \in {1, 4} => Told(shipd)
  /\ ShowsOnlyReports

-----------------------------------------------------------------------------
(* The latest report                                                       *)

\* Place i of the stream begins a report of m; a report of m will be written next.
Waits(i, m) ==
  IsHeader(stream, i) /\ stream[i].num = 1 /\ stream[i + 1].v \in {1, 4} /\ stream[i + 2].v = m

Coming(m) ==
  todo # <<>> /\ Head(todo)[1].num = 1 /\ Head(todo)[2].v \in {1, 4} /\ Head(todo)[3].v = m

Pending(m) == Coming(m) \/ \E i \in 1 .. Len(stream) : Waits(i, m)

\* The map has d as the report of m, or has no room for m.
Settled(m, d) ==
  \/ m \in DOMAIN ships /\ ships[m] = d
  \/ m \notin DOMAIN ships /\ Cardinality(DOMAIN ships) = MAXSHIPS

\* The last report of a ship is the last one on its way to the map, or there.
LatestInv ==
  \A m \in DOMAIN last :
    /\ Coming(m) => ReportAt(Head(todo), 1) = last[m]
    /\ ~Coming(m) =>
         \A i \in 1 .. Len(stream) :
           Waits(i, m) /\ (\A j \in i + 1 .. Len(stream) : ~Waits(j, m)) =>
             ReportAt(stream, i) = last[m]
    /\ ~Pending(m) => Settled(m, last[m])

\* What is shown again while other messages are read is not out of date.
AgainInv ==
  shipd.type \in {1, 4} /\ shipd.mmsi \in DOMAIN last /\ ~Pending(shipd.mmsi) =>
    shipd = last[shipd.mmsi]

\* What is at place i follows the first sentence of static data.
Follows(i) ==
  IF i = 1 THEN previoussentence = 1 => aisline[1].v = 5
  ELSE /\ i > 5 /\ IsHeader(stream, i - 5) /\ stream[i - 5].num = 1 /\ stream[i - 4].v = 5

RestInv ==
  /\ \A i \in 1 .. Len(stream) : IsHeader(stream, i) /\ stream[i].num = 2 => Follows(i)
  /\ todo # <<>> /\ Head(todo)[1].num = 2 => Follows(Len(stream) + 1)

SizeInv == IsFiniteSet(DOMAIN ships) /\ Cardinality(DOMAIN ships) <= MAXSHIPS

UpToDate == SizeInv /\ (~cut /\ ~behind => LatestInv /\ AgainInv /\ RestInv)

GuiInv == StreamInv /\ LineInv /\ MapInv

-----------------------------------------------------------------------------
(* Reading                                                                 *)

(***************************************************************************)
(* The search for the beginning of a sentence finds the first one.         *)
(***************************************************************************)
LEMMA FirstOne ==
  ASSUME NEW T \in SUBSET Nat, T # {}
  PROVE  LET f == CHOOSE i \in T : \A j \in T : i <= j
         IN  f \in T /\ \A j \in T : f <= j
<1> DEFINE R == {ss \in Nat \X Nat : ss[1] < ss[2]}
<1>1. IsWellFoundedOn(R, Nat)
  BY NatLessThanWellFounded DEF OpToRel
<1>2. \A x, y \in Nat : <<y, x>> \in R <=> y < x
  OBVIOUS
<1> HIDE DEF R
<1>3. PICK x \in T : \A y \in T : ~(<<y, x>> \in R)
  BY <1>1, WFMin
<1>4. ASSUME NEW y \in T PROVE x <= y
  <2>1. ~(y < x)
    BY <1>2, <1>3
  <2> QED
    BY <2>1
<1> QED
  BY <1>4

(***************************************************************************)
(* A piece of a sequence.                                                  *)
(***************************************************************************)
LEMMA Piece ==
  ASSUME NEW S, NEW s, NEW a \in Int, NEW k \in Nat, \A i \in a + 1 .. a + k : s[i] \in S
  PROVE  /\ SubSeq(s, a + 1, a + k) \in Seq(S) /\ Len(SubSeq(s, a + 1, a + k)) = k
         /\ \A i \in 1 .. k : SubSeq(s, a + 1, a + k)[i] = s[a + i]
<1>1. PICK m \in Int : m = a + 1
  OBVIOUS
<1>2. PICK n \in Int : n = a + k
  OBVIOUS
<1>3. /\ SubSeq(s, m, n) \in Seq(S)
      /\ Len(SubSeq(s, m, n)) = IF m <= n THEN n - m + 1 ELSE 0
      /\ \A i \in 1 .. n - m + 1 : SubSeq(s, m, n)[i] = s[m + i - 1]
  BY <1>1, <1>2, SubSeqProperties
<1>4. Len(SubSeq(s, m, n)) = k
  BY <1>1, <1>2, <1>3
<1>5. ASSUME NEW i \in 1 .. k PROVE SubSeq(s, m, n)[i] = s[a + i]
  <2>1. i \in 1 .. n - m + 1 /\ m + i - 1 = a + i
    BY <1>1, <1>2
  <2> QED
    BY <1>3, <2>1
<1> QED
  BY <1>1, <1>2, <1>3, <1>4, <1>5

HeadersIn(n) == {i \in 1 .. n : IsHeader(stream, i)}

\* The letters of the sentence at place f.
LettersOf(f) ==
  IF stream[f].num = 1 THEN <<stream[f + 1], stream[f + 2], stream[f + 3]>>
  ELSE <<stream[f + 1]>>

\* The sentence of the n units read that the thread looks at.
Looks(n, f) ==
  /\ f \in HeadersIn(n) /\ \A j \in HeadersIn(n) : f <= j
  /\ \/ OutOfOrder(stream[f]) /\ UNCHANGED <<previoussentence, aisline, r_buffer, shipd, ships>>
     \/ /\ ~OutOfOrder(stream[f])
        /\ \E x \in Seq(Units) : Sentence(stream[f], x) /\ (~cut' => x = LettersOf(f))

\* A read of n units, of which the thread looks at the first sentence.
Reads(n) ==
  /\ n \in 1 .. Len(stream)
  /\ stream' \in Seq(Units) /\ Len(stream') = Len(stream) - n
  /\ \A i \in 1 .. Len(stream') : stream'[i] = stream[i + n]
  /\ ~cut' => ~cut /\ stream[n].is = "trailer"
  /\ ~behind' => ~behind /\ Cardinality(HeadersIn(n)) = 1
  /\ \/ HeadersIn(n) = {} /\ UNCHANGED <<previoussentence, aisline, r_buffer, shipd, ships>>
     \/ \E f \in HeadersIn(n) : Looks(n, f)
  /\ UNCHANGED <<todo, msgs, reported, last>>

\* What threaden finds in a chunk, from the beginning of a sentence on.
LettersIn(chunk, f) ==
  {i \in f + 1 .. Len(chunk) : \A j \in f + 1 .. i : chunk[j].is = "letter"}

(***************************************************************************)
(* The letters end at the first unit that is none.                         *)
(***************************************************************************)
LEMMA LettersEnd ==
  ASSUME NEW chunk, NEW f \in Nat, NEW e \in f + 1 .. Len(chunk), Len(chunk) \in Nat,
         \A j \in f + 1 .. e - 1 : chunk[j].is = "letter", chunk[e].is # "letter"
  PROVE  LettersIn(chunk, f) = f + 1 .. e - 1
<1>1. ASSUME NEW i \in f + 1 .. e - 1 PROVE i \in LettersIn(chunk, f)
  <2>1. i \in f + 1 .. Len(chunk) /\ \A j \in f + 1 .. i : j \in f + 1 .. e - 1
    OBVIOUS
  <2> QED
    BY <2>1 DEF LettersIn
<1>2. ASSUME NEW i \in LettersIn(chunk, f) PROVE i \in f + 1 .. e - 1
  <2>1. i \in f + 1 .. Len(chunk) /\ \A j \in f + 1 .. i : chunk[j].is = "letter"
    BY DEF LettersIn
  <2>2. e \notin f + 1 .. i
    BY <2>1
  <2> QED
    BY <2>1, <2>2
<1> QED
  BY <1>1, <1>2

(***************************************************************************)
(* A chunk that ends at a trailer has the whole of the sentence at f.      *)
(***************************************************************************)
LEMMA WholeSentence ==
  ASSUME Whole(stream, reported), NEW n \in 1 .. Len(stream), stream[n].is = "trailer",
         NEW f \in HeadersIn(n),
         NEW chunk, Len(chunk) = n, \A i \in 1 .. n : chunk[i] = stream[i]
  PROVE  SubSeq(chunk, f + 1, f + Cardinality(LettersIn(chunk, f))) = LettersOf(f)
<1>1. /\ stream \in Seq(Units) /\ Len(stream) \in Nat /\ f \in 1 .. n
      /\ stream[f].is = "header" /\ (FirstAt(stream, f, reported) \/ RestAt(stream, f))
  BY DEF Whole, HeadersIn, IsHeader
<1>2. f \in Int /\ \A i \in 1 .. n : chunk[i] = stream[i] /\ stream[i] \in Units
  <2> HIDE DEF Units
  <2> QED
    BY <1>1, ElementOfSeq
<1> HIDE DEF Units
<1>3. CASE FirstAt(stream, f, reported)
  <2>1. /\ f + 4 <= n
        /\ stream[f + 1].is = "letter" /\ stream[f + 2].is = "letter" /\ stream[f + 3].is = "letter"
        /\ stream[f + 4].is = "trailer" /\ stream[f].num = 1
    <3>1. /\ stream[f + 1].is = "letter" /\ stream[f + 2].is = "letter" /\ stream[f + 3].is = "letter"
          /\ stream[f + 4].is = "trailer" /\ stream[f].num = 1
      BY <1>3 DEF FirstAt
    <3>2. n # f /\ n # f + 1 /\ n # f + 2 /\ n # f + 3
      BY <1>1, <3>1
    <3> QED
      BY <1>1, <3>1, <3>2
  <2>2. LettersIn(chunk, f) = f + 1 .. f + 3
    <3>1. PICK e \in Nat : e = f + 4
      BY <1>1
    <3>2. e \in f + 1 .. Len(chunk) /\ e - 1 = f + 3 /\ f \in Nat /\ Len(chunk) \in Nat
      BY <1>1, <2>1, <3>1
    <3>3. chunk[e].is # "letter"
      BY <1>1, <1>2, <2>1, <3>1
    <3>4. ASSUME NEW j \in f + 1 .. e - 1 PROVE chunk[j].is = "letter"
      <4>1. j \in {f + 1, f + 2, f + 3} /\ j \in 1 .. n
        BY <1>1, <2>1, <3>2
      <4> QED
        BY <1>2, <2>1, <4>1
    <3>5. LettersIn(chunk, f) = f + 1 .. e - 1
      BY <3>2, <3>3, <3>4, LettersEnd
    <3> QED
      BY <3>2, <3>5
  <2>3. Cardinality(LettersIn(chunk, f)) = 3
    <3>1. PICK a \in Int, b \in Int : a = f + 1 /\ b = f + 3
      BY <1>1
    <3>2. Cardinality(a .. b) = IF a > b THEN 0 ELSE b - a + 1
      BY FS_Interval
    <3> QED
      BY <1>2, <2>2, <3>1, <3>2
  <2>4. SubSeq(chunk, f + 1, f + 3) = <<stream[f + 1], stream[f + 2], stream[f + 3]>>
    <3>1. \A i \in f + 1 .. f + 3 : chunk[i] = stream[i] /\ chunk[i] \in Units
      BY <1>1, <1>2, <2>1
    <3> DEFINE s == SubSeq(chunk, f + 1, f + 3)
               t == <<stream[f + 1], stream[f + 2], stream[f + 3]>>
    <3>2. s \in Seq(Units) /\ Len(s) = 3 /\ \A i \in 1 .. 3 : s[i] = chunk[f + i]
      BY <1>2, <3>1, Piece
    <3> HIDE DEF s
    <3>3. /\ stream[f + 1] \in Units /\ s[1] = stream[f + 1]
          /\ stream[f + 2] \in Units /\ s[2] = stream[f + 2]
          /\ stream[f + 3] \in Units /\ s[3] = stream[f + 3]
      BY <1>2, <3>1, <3>2
    <3>4. t \in Seq(Units) /\ Len(t) = 3 /\ t[1] = s[1] /\ t[2] = s[2] /\ t[3] = s[3]
      BY <3>3
    <3> HIDE DEF t
    <3>5. \A i \in 1 .. Len(s) : s[i] = t[i]
      BY <3>2, <3>4
    <3>6. s = t
      BY <3>2, <3>4, <3>5, SeqEqual
    <3> QED
      BY <3>6 DEF s, t
  <2> QED
    BY <2>1, <2>3, <2>4 DEF LettersOf
<1>4. CASE RestAt(stream, f)
  <2>1. /\ f + 2 <= n
        /\ stream[f + 1].is = "letter" /\ stream[f + 2].is = "trailer" /\ stream[f].num = 2
    BY <1>1, <1>4 DEF RestAt
  <2>2. LettersIn(chunk, f) = {f + 1}
    <3>1. PICK e \in Nat : e = f + 2
      BY <1>1
    <3>2. e \in f + 1 .. Len(chunk) /\ e - 1 = f + 1 /\ f \in Nat /\ Len(chunk) \in Nat
      BY <1>1, <2>1, <3>1
    <3>3. chunk[e].is # "letter"
      BY <1>1, <1>2, <2>1, <3>1
    <3>4. ASSUME NEW j \in f + 1 .. e - 1 PROVE chunk[j].is = "letter"
      <4>1. j = f + 1 /\ j \in 1 .. n
        BY <1>1, <2>1, <3>2
      <4> QED
        BY <1>2, <2>1, <4>1
    <3>5. LettersIn(chunk, f) = f + 1 .. e - 1
      BY <3>2, <3>3, <3>4, LettersEnd
    <3> QED
      BY <1>2, <3>2, <3>5
  <2>3. Cardinality(LettersIn(chunk, f)) = 1
    BY <2>2, FS_Singleton
  <2>4. SubSeq(chunk, f + 1, f + 1) = <<stream[f + 1]>>
    <3>1. \A i \in f + 1 .. f + 1 : chunk[i] = stream[i] /\ chunk[i] \in Units
      BY <1>1, <1>2, <2>1
    <3> DEFINE s == SubSeq(chunk, f + 1, f + 1)
               t == <<stream[f + 1]>>
    <3>2. s \in Seq(Units) /\ Len(s) = 1 /\ \A i \in 1 .. 1 : s[i] = chunk[f + i]
      <4>1. PICK k \in Nat : k = 1
        OBVIOUS
      <4>2. f \in Int /\ \A i \in f + 1 .. f + k : chunk[i] \in Units
        BY <1>2, <3>1, <4>1
      <4>3. /\ SubSeq(chunk, f + 1, f + k) \in Seq(Units) /\ Len(SubSeq(chunk, f + 1, f + k)) = k
            /\ \A i \in 1 .. k : SubSeq(chunk, f + 1, f + k)[i] = chunk[f + i]
        BY <4>2, Piece
      <4> QED
        BY <4>1, <4>3
    <3> HIDE DEF s
    <3>3. stream[f + 1] \in Units /\ s[1] = stream[f + 1]
      BY <1>2, <3>1, <3>2
    <3>4. t \in Seq(Units) /\ Len(t) = 1 /\ t[1] = s[1]
      BY <3>3
    <3> HIDE DEF t
    <3>5. \A i \in 1 .. Len(s) : s[i] = t[i]
      BY <3>2, <3>4
    <3>6. s = t
      BY <3>2, <3>4, <3>5, SeqEqual
    <3> QED
      BY <3>6 DEF s, t
  <2> QED
    BY <2>1, <2>3, <2>4 DEF LettersOf
<1> QED
  BY <1>1, <1>3, <1>4

(***************************************************************************)
(* threaden() takes some units from the stream and looks at the first      *)
(* sentence among them.                                                    *)
(***************************************************************************)
LEMMA ThreadReads ==
  ASSUME Whole(stream, reported), threaden
  PROVE  \E n : Reads(n)
<1> USE GuiAssumption
<1>1. stream \in Seq(Units) /\ stream # <<>> /\ Len(stream) \in Nat \ {0}
  BY SMTT(30) DEF Whole, threaden
<1> DEFINE n       == IF Len(stream) < ReadLen THEN Len(stream) ELSE ReadLen
           chunk   == SubSeq(stream, 1, n)
           headers == {i \in 1 .. n : chunk[i].is = "header"}
           first   == CHOOSE i \in headers : \A j \in headers : i <= j
           letters == {i \in first + 1 .. n : \A j \in first + 1 .. i : chunk[j].is = "letter"}
           line    == SubSeq(chunk, first + 1, first + Cardinality(letters))
<1>2. /\ stream' = SubSeq(stream, n + 1, Len(stream))
      /\ cut' = (cut \/ chunk[n].is # "trailer")
      /\ behind' = (behind \/ Cardinality(headers) # 1)
      /\ IF headers = {} \/ OutOfOrder(chunk[first])
           THEN UNCHANGED <<previoussentence, aisline, r_buffer, shipd, ships>>
           ELSE Sentence(chunk[first], line)
      /\ UNCHANGED <<todo, msgs, reported, last>>
  BY DEF threaden
<1>3. n \in 1 .. Len(stream)
  BY <1>1
<1> HIDE DEF n
<1>4. chunk \in Seq(Units) /\ Len(chunk) = n /\ \A i \in 1 .. n : chunk[i] = stream[i]
  BY <1>1, <1>3, SubSeqProperties
<1> HIDE DEF chunk
<1>5. headers = HeadersIn(n)
  BY <1>4 DEF HeadersIn, IsHeader
<1> HIDE DEF headers
<1>6. /\ stream' \in Seq(Units) /\ Len(stream') = Len(stream) - n
      /\ \A i \in 1 .. Len(stream') : stream'[i] = stream[i + n]
  BY <1>1, <1>2, <1>3, SubSeqProperties
<1>7. ~cut' => ~cut /\ stream[n].is = "trailer"
  <2>1. chunk[n] = stream[n]
    BY <1>3, <1>4
  <2> QED
    BY <1>2, <2>1, Zenon
<1>8. ~behind' => ~behind /\ Cardinality(HeadersIn(n)) = 1
  BY <1>2, <1>5
<1>9. CASE headers = {}
  BY <1>2, <1>3, <1>5, <1>6, <1>7, <1>8, <1>9 DEF Reads
<1>10. CASE headers # {}
  <2>1. headers \in SUBSET Nat
    BY <1>3, <1>5 DEF HeadersIn
  <2>2. first \in headers /\ \A j \in headers : first <= j
    BY <1>10, <2>1, FirstOne
  <2>3. first \in 1 .. n /\ chunk[first] = stream[first]
    BY <1>4, <1>5, <2>2 DEF HeadersIn
  <2> HIDE DEF first
  <2>4. letters = LettersIn(chunk, first)
    BY <1>4 DEF LettersIn
  <2> HIDE DEF letters
  <2>5. Cardinality(letters) \in Nat /\ first + Cardinality(letters) <= n
    <3>1. letters \in SUBSET (first + 1 .. n)
      BY <1>4, <2>4 DEF LettersIn
    <3>2. IsFiniteSet(first + 1 .. n) /\ Cardinality(first + 1 .. n) = n - first
      <4>1. first \in Int /\ n \in Int /\ first <= n
        BY <1>1, <1>3, <2>3
      <4>2. PICK a \in Int : a = first + 1
        BY <4>1
      <4>3. IsFiniteSet(a .. n) /\ Cardinality(a .. n) = IF a > n THEN 0 ELSE n - a + 1
        BY <4>1, FS_Interval
      <4> QED
        BY <4>1, <4>2, <4>3
    <3>3. IsFiniteSet(letters) /\ Cardinality(letters) <= n - first
      BY <3>1, <3>2, FS_Subset
    <3> QED
      BY <1>1, <1>3, <2>3, <3>3, FS_CardinalityType
  <2>6. line \in Seq(Units)
    BY <1>3, <1>4, <2>3, <2>5, SubSeqProperties
  <2>7. ~cut' => line = LettersOf(first)
    BY <1>3, <1>5, <1>7, <2>2, <2>4, <1>4, WholeSentence
  <2> HIDE DEF line
  <2>8. Looks(n, first)
    BY <1>2, <1>5, <1>10, <2>2, <2>3, <2>6, <2>7 DEF Looks
  <2> QED
    BY <1>2, <1>3, <1>5, <1>6, <1>7, <1>8, <2>2, <2>8 DEF Reads
<1> QED
  BY <1>9, <1>10

-----------------------------------------------------------------------------
(* The stream is made of whole sentences                                   *)

(***************************************************************************)
(* The sentences of a message.                                             *)
(***************************************************************************)
LEMMA SentencesOf ==
  ASSUME NEW t \in Types, NEW s \in Ships, NEW p \in Positions, NEW R,
         t \in {1, 4} => Report(t, s, p) \in R
  PROVE  \E x, y : /\ IsFirst(x, R) /\ IsRest(y)
                   /\ x[2].v = t /\ x[3].v = s /\ ReportAt(x, 1) = Report(t, s, p)
                   /\ Sentences(t, s, p) = IF t = 5 THEN <<x, y>> ELSE <<x>>
<1> DEFINE of == IF t = 5 THEN 2 ELSE 1
           x  == <<Header(1, of), Letter("type", t), Letter("mmsi", s), Letter("pos", p), Trailer>>
           y  == <<Header(2, 2), Letter("text", p), Trailer>>
<1>1. /\ Header(1, of) \in Units /\ Header(2, 2) \in Units /\ Trailer \in Units
      /\ Letter("type", t) \in Units /\ Letter("mmsi", s) \in Units
      /\ Letter("pos", p) \in Units /\ Letter("text", p) \in Units
  BY DEF Units, Types
<1>2. x \in Seq(Units) /\ y \in Seq(Units)
  <2> HIDE DEF Units
  <2> QED
    BY <1>1
<1>3. Len(x) = 5 /\ Len(y) = 3
  OBVIOUS
<1>4. /\ x[1] = Header(1, of) /\ x[2] = Letter("type", t) /\ x[3] = Letter("mmsi", s)
      /\ x[4] = Letter("pos", p) /\ x[5] = Trailer
      /\ y[1] = Header(2, 2) /\ y[2] = Letter("text", p) /\ y[3] = Trailer
  OBVIOUS
<1>5. Sentences(t, s, p) = IF t = 5 THEN <<x, y>> ELSE <<x>>
  BY DEF Sentences
<1> HIDE DEF x, y, of
<1>6. IsFirst(x, R) /\ x[2].v = t /\ x[3].v = s /\ ReportAt(x, 1) = Report(t, s, p)
  BY <1>2, <1>3, <1>4
  DEF IsFirst, IsHeader, FirstAt, ReportAt, Report, Letter, Header, Trailer, of
<1>7. IsRest(y)
  BY <1>2, <1>3, <1>4 DEF IsRest, IsHeader, RestAt, Letter, Header, Trailer
<1> QED
  BY <1>5, <1>6, <1>7

(***************************************************************************)
(* What was reported stays reported.                                       *)
(***************************************************************************)
LEMMA MoreReports ==
  ASSUME NEW q, NEW R, NEW T, R \subseteq T
  PROVE  /\ Whole(q, R) => Whole(q, T)
         /\ IsFirst(q, R) => IsFirst(q, T)
<1>1. \A i : FirstAt(q, i, R) => FirstAt(q, i, T)
  BY DEF FirstAt
<1> QED
  BY <1>1, Zenon DEF Whole, IsFirst

(***************************************************************************)
(* A sentence at the end of whole sentences.                               *)
(***************************************************************************)
LEMMA WholeAppended ==
  ASSUME NEW q, NEW x, NEW R, Whole(q, R), IsFirst(x, R) \/ IsRest(x)
  PROVE  Whole(q \o x, R)
<1>1. q \in Seq(Units) /\ x \in Seq(Units) /\ Len(q) \in Nat /\ Len(x) \in Nat
  BY DEF Whole, IsFirst, IsRest
<1>2. /\ q \o x \in Seq(Units) /\ Len(q \o x) = Len(q) + Len(x)
      /\ \A i \in 1 .. Len(q) : (q \o x)[i] = q[i]
      /\ \A i \in 1 .. Len(x) : (q \o x)[Len(q) + i] = x[i]
  BY <1>1, ConcatProperties
<1>3. PICK z : z = q \o x
  OBVIOUS
<1>4. ASSUME NEW i \in 1 .. Len(q), IsHeader(z, i)
      PROVE  FirstAt(z, i, R) \/ RestAt(z, i)
  <2>1. FirstAt(q, i, R) \/ RestAt(q, i)
    BY <1>2, <1>3, <1>4 DEF Whole, IsHeader
  <2>2. CASE FirstAt(q, i, R)
    <3>1. i + 4 <= Len(z) /\ z[i] = q[i] /\ z[i + 1] = q[i + 1] /\ z[i + 2] = q[i + 2]
            /\ z[i + 3] = q[i + 3] /\ z[i + 4] = q[i + 4]
      BY <1>1, <1>2, <1>3, <2>2 DEF FirstAt
    <3> QED
      BY <2>2, <3>1 DEF FirstAt, ReportAt
  <2>3. CASE RestAt(q, i)
    <3>1. i + 2 <= Len(z) /\ z[i] = q[i] /\ z[i + 1] = q[i + 1] /\ z[i + 2] = q[i + 2]
      BY <1>1, <1>2, <1>3, <2>3 DEF RestAt
    <3> QED
      BY <2>3, <3>1 DEF RestAt
  <2> QED
    BY <2>1, <2>2, <2>3
<1>5. ASSUME NEW i \in Len(q) + 1 .. Len(z), IsHeader(z, i)
      PROVE  FirstAt(z, i, R) \/ RestAt(z, i)
  <2>1. CASE IsFirst(x, R)
    <3>1. /\ Len(x) = 5 /\ x[1].is = "header" /\ FirstAt(x, 1, R)
          /\ x[2].is = "letter" /\ x[3].is = "letter" /\ x[4].is = "letter" /\ x[5].is = "trailer"
      BY <2>1 DEF IsFirst, FirstAt, IsHeader
    <3>2. /\ z[Len(q) + 1] = x[1] /\ z[Len(q) + 2] = x[2] /\ z[Len(q) + 3] = x[3]
          /\ z[Len(q) + 4] = x[4] /\ z[Len(q) + 5] = x[5] /\ Len(z) = Len(q) + 5
      BY <1>1, <1>2, <1>3, <3>1
    <3>3. i = Len(q) + 1
      <4>1. i \in {Len(q) + 1, Len(q) + 2, Len(q) + 3, Len(q) + 4, Len(q) + 5}
        <5>1. Len(q) \in Nat /\ i \in Len(q) + 1 .. Len(q) + 5
          BY <1>1, <3>2
        <5> QED
          BY <5>1
      <4> QED
        BY <1>5, <3>1, <3>2, <4>1 DEF IsHeader
    <3>4. /\ z[i] = x[1] /\ z[i + 1] = x[2] /\ z[i + 2] = x[3]
          /\ z[i + 3] = x[4] /\ z[i + 4] = x[5] /\ i + 4 <= Len(z)
      BY <1>1, <3>2, <3>3
    <3> QED
      BY <3>1, <3>4 DEF FirstAt, ReportAt
  <2>2. CASE IsRest(x)
    <3>1. Len(x) = 3 /\ RestAt(x, 1) /\ x[2].is = "letter" /\ x[3].is = "trailer"
      BY <2>2 DEF IsRest, RestAt, IsHeader
    <3>2. /\ z[Len(q) + 1] = x[1] /\ z[Len(q) + 2] = x[2] /\ z[Len(q) + 3] = x[3]
          /\ Len(z) = Len(q) + 3
      BY <1>1, <1>2, <1>3, <3>1
    <3>3. i = Len(q) + 1
      <4>1. i \in {Len(q) + 1, Len(q) + 2, Len(q) + 3}
        <5>1. Len(q) \in Nat /\ i \in Len(q) + 1 .. Len(q) + 3
          BY <1>1, <3>2
        <5> QED
          BY <5>1
      <4> QED
        BY <1>5, <3>1, <3>2, <4>1 DEF IsHeader
    <3>4. z[i] = x[1] /\ z[i + 1] = x[2] /\ z[i + 2] = x[3] /\ i + 2 <= Len(z)
      BY <1>1, <3>2, <3>3
    <3> QED
      BY <3>1, <3>4 DEF RestAt
  <2> QED
    BY <2>1, <2>2
<1>6. \A i \in 1 .. Len(z) : i \in 1 .. Len(q) \/ i \in Len(q) + 1 .. Len(z)
  BY <1>1, <1>2, <1>3
<1>7. Whole(z, R)
  BY <1>2, <1>3, <1>4, <1>5, <1>6 DEF Whole
<1> QED
  BY <1>3, <1>7

(***************************************************************************)
(* A read leaves whole sentences, but for the one it may have ended in.    *)
(***************************************************************************)
LEMMA WholeAfterRead ==
  ASSUME Whole(stream, reported), NEW n, Reads(n)
  PROVE  Whole(stream', reported)
<1>1. /\ n \in 1 .. Len(stream) /\ stream' \in Seq(Units) /\ Len(stream') = Len(stream) - n
      /\ \A i \in 1 .. Len(stream') : stream'[i] = stream[i + n]
      /\ Len(stream) \in Nat
  BY DEF Reads, Whole
<1>2. ASSUME NEW i \in 1 .. Len(stream'), IsHeader(stream', i)
      PROVE  FirstAt(stream', i, reported) \/ RestAt(stream', i)
  <2>1. i + n \in 1 .. Len(stream) /\ stream'[i] = stream[i + n]
    BY <1>1
  <2>2. FirstAt(stream, i + n, reported) \/ RestAt(stream, i + n)
    BY <1>2, <2>1 DEF Whole, IsHeader
  <2>3. \A k \in 1 .. 4 : i + k <= Len(stream') => stream'[i + k] = stream[i + n + k]
    <3> SUFFICES ASSUME NEW k \in 1 .. 4, i + k <= Len(stream')
                 PROVE  stream'[i + k] = stream[i + n + k]
      OBVIOUS
    <3>1. i \in Int /\ n \in Int /\ Len(stream') \in Int /\ 1 <= i
      BY <1>1
    <3>2. PICK j \in Int : j = i + k
      BY <3>1
    <3>3. j \in 1 .. Len(stream') /\ j + n = i + n + k
      BY <3>1, <3>2
    <3>4. stream'[j] = stream[j + n]
      BY <1>1, <3>3
    <3> QED
      BY <3>2, <3>3, <3>4
  <2>4. CASE FirstAt(stream, i + n, reported)
    <3>1. /\ i + 4 <= Len(stream') /\ stream'[i + 1] = stream[i + n + 1]
          /\ stream'[i + 2] = stream[i + n + 2] /\ stream'[i + 3] = stream[i + n + 3]
          /\ stream'[i + 4] = stream[i + n + 4]
      <4>1. i + 4 <= Len(stream')
        BY <1>1, <2>4 DEF FirstAt
      <4> QED
        BY <1>1, <2>3, <4>1
    <3> QED
      BY <2>1, <2>4, <3>1 DEF FirstAt, ReportAt
  <2>5. CASE RestAt(stream, i + n)
    <3>1. /\ i + 2 <= Len(stream') /\ stream'[i + 1] = stream[i + n + 1]
          /\ stream'[i + 2] = stream[i + n + 2]
      <4>1. i + 2 <= Len(stream')
        BY <1>1, <2>5 DEF RestAt
      <4> QED
        BY <1>1, <2>3, <4>1
    <3> QED
      BY <2>1, <2>5, <3>1 DEF RestAt
  <2> QED
    BY <2>2, <2>4, <2>5
<1> QED
  BY <1>1, <1>2 DEF Whole

-----------------------------------------------------------------------------
(* The map shows reports                                                   *)

(***************************************************************************)
(* What threaden() makes of a sentence that it got to the end of.  The     *)
(* second sentence of a message is put behind any first one.               *)
(***************************************************************************)
Decodes(f) ==
  /\ previoussentence' = stream[f].num
  /\ stream[f].num = 1 =>
       /\ Len(aisline') = 3 /\ ReportAt(aisline', 0) = ReportAt(stream, f)
       /\ shipd' = IF stream[f + 1].v \in {1, 4} THEN ReportAt(stream, f) ELSE shipd
  /\ stream[f].num = 2 =>
       /\ previoussentence = 1
       /\ shipd' = IF aisline[1].v \in {1, 4} THEN ReportAt(aisline, 0)
                   ELSE IF aisline[1].v = 5 THEN [shipd EXCEPT !.type = 5, !.mmsi = aisline[2].v]
                   ELSE shipd
  /\ IF shipd'.type \in {1, 4} THEN updateship(shipd') ELSE UNCHANGED ships

LEMMA Decoding ==
  ASSUME Whole(stream, reported), LineInv, MapInv,
         NEW n \in 1 .. Len(stream), NEW f \in HeadersIn(n),
         ~OutOfOrder(stream[f]), Sentence(stream[f], LettersOf(f)), ~cut
  PROVE  Decodes(f)
<1>1. /\ f \in 1 .. Len(stream) /\ Len(stream) \in Nat /\ stream \in Seq(Units)
      /\ FirstAt(stream, f, reported) \/ RestAt(stream, f)
  BY DEF HeadersIn, Whole
<1> HIDE DEF Units
<1>2. DOMAIN r_buffer = 1 .. 4
  BY DEF MapInv
<1>3. CASE FirstAt(stream, f, reported)
  <2>1. /\ f + 4 <= Len(stream) /\ stream[f].num = 1
        /\ stream[f].of = IF stream[f + 1].v = 5 THEN 2 ELSE 1
    BY <1>3 DEF FirstAt
  <2> DEFINE line == <<stream[f + 1], stream[f + 2], stream[f + 3]>>
  <2>2. LettersOf(f) = line
    BY <2>1 DEF LettersOf
  <2>3. /\ aisline' = line /\ previoussentence' = 1
        /\ IF stream[f].num >= stream[f].of
             THEN r_buffer' = Overwritten(line) /\ shipd' = aisdecode(r_buffer')
             ELSE UNCHANGED <<r_buffer, shipd>>
        /\ IF shipd'.type \in {1, 4} THEN updateship(shipd') ELSE UNCHANGED ships
    BY <2>1, <2>2 DEF Sentence
  <2>4. /\ Len(line) = 3 /\ line[1] = stream[f + 1]
        /\ line[2] = stream[f + 2] /\ line[3] = stream[f + 3]
    OBVIOUS
  <2> HIDE DEF line
  <2>5. ReportAt(line, 0) = ReportAt(stream, f)
    BY <2>4 DEF ReportAt
  <2>6. shipd' = IF stream[f + 1].v \in {1, 4} THEN ReportAt(stream, f) ELSE shipd
    <3>1. CASE stream[f + 1].v = 5
      BY <2>1, <2>3, <3>1
    <3>2. CASE stream[f + 1].v # 5
      <4>1. r_buffer' = Overwritten(line) /\ shipd' = aisdecode(r_buffer')
        BY <2>1, <2>3, <3>2
      <4>2. /\ r_buffer'[1] = stream[f + 1] /\ r_buffer'[2] = stream[f + 2]
            /\ r_buffer'[3] = stream[f + 3]
        BY <1>2, <2>4, <4>1 DEF Overwritten
      <4> QED
        BY <3>2, <4>1, <4>2 DEF aisdecode, ReportAt
    <3> QED
      BY <3>1, <3>2
  <2> QED
    BY <2>1, <2>3, <2>4, <2>5, <2>6 DEF Decodes
<1>4. CASE RestAt(stream, f)
  <2>1. stream[f].num = 2 /\ stream[f].of = 2 /\ f + 2 <= Len(stream)
    BY <1>4 DEF RestAt
  <2>2. previoussentence = 1
    BY <2>1 DEF OutOfOrder
  <2>3. aisline \in Seq(Units) /\ Len(aisline) = 3 /\ stream[f + 1] \in Units
    BY <1>1, <2>1, <2>2 DEF LineInv
  <2> DEFINE line == aisline \o <<stream[f + 1]>>
  <2>4. LettersOf(f) = <<stream[f + 1]>>
    BY <2>1 DEF LettersOf
  <2>5. /\ aisline' = line /\ previoussentence' = 2
        /\ r_buffer' = Overwritten(line) /\ shipd' = aisdecode(r_buffer')
        /\ IF shipd'.type \in {1, 4} THEN updateship(shipd') ELSE UNCHANGED ships
    BY <2>1, <2>4 DEF Sentence
  <2>6. /\ Len(line) = 4
        /\ line[1] = aisline[1] /\ line[2] = aisline[2] /\ line[3] = aisline[3]
    <3> DEFINE y == <<stream[f + 1]>>
    <3>1. y \in Seq(Units) /\ Len(y) = 1
      BY <2>3
    <3> HIDE DEF y
    <3>2. /\ Len(aisline \o y) = Len(aisline) + Len(y)
          /\ \A i \in 1 .. Len(aisline) + Len(y) :
               (aisline \o y)[i] = IF i <= Len(aisline) THEN aisline[i] ELSE y[i - Len(aisline)]
      BY <2>3, <3>1, ConcatProperties
    <3>3. Len(aisline) = 3 /\ Len(aisline) + Len(y) = 4
      BY <2>3, <3>1
    <3> QED
      BY <3>2, <3>3 DEF y
  <2> HIDE DEF line
  <2>7. r_buffer'[1] = aisline[1] /\ r_buffer'[2] = aisline[2] /\ r_buffer'[3] = aisline[3]
    BY <1>2, <2>5, <2>6 DEF Overwritten
  <2>8. shipd' = IF aisline[1].v \in {1, 4} THEN ReportAt(aisline, 0)
                 ELSE IF aisline[1].v = 5 THEN [shipd EXCEPT !.type = 5, !.mmsi = aisline[2].v]
                 ELSE shipd
    BY <2>5, <2>7 DEF aisdecode, ReportAt
  <2> QED
    BY <2>1, <2>2, <2>5, <2>8 DEF Decodes
<1> QED
  BY <1>1, <1>3, <1>4

(***************************************************************************)
(* What is shown after updateship() was shown or is d.                     *)
(***************************************************************************)
LEMMA ShownAfter ==
  ASSUME NEW d, updateship(d)
  PROVE  Shown' \subseteq Shown \cup {d}
  BY DEF updateship, Shown, With

(***************************************************************************)
(* The types that hold whatever is read.                                   *)
(***************************************************************************)
LEMMA SentenceTypes ==
  ASSUME LineInv, MapInv, NEW h, NEW x \in Seq(Units), Sentence(h, x)
  PROVE  /\ aisline' \in Seq(Units) /\ DOMAIN r_buffer' = 1 .. 4
         /\ DOMAIN shipd' = {"type", "mmsi", "pos"}
<1> HIDE DEF Units
<1>1. aisline \in Seq(Units) /\ DOMAIN r_buffer = 1 .. 4 /\ DOMAIN shipd = {"type", "mmsi", "pos"}
  BY DEF LineInv, MapInv
<1>2. aisline' \in Seq(Units)
  BY <1>1, ConcatProperties DEF Sentence
<1>3. DOMAIN r_buffer' = 1 .. 4
  BY <1>1 DEF Sentence, Overwritten
<1>4. \A b : DOMAIN aisdecode(b) = {"type", "mmsi", "pos"}
  BY <1>1 DEF aisdecode, Report
<1>5. DOMAIN shipd' = {"type", "mmsi", "pos"}
  BY <1>1, <1>4 DEF Sentence
<1> QED
  BY <1>2, <1>3, <1>5

(***************************************************************************)
(* threaden() shows only what was reported.                                *)
(***************************************************************************)
LEMMA ReadKeepsMap ==
  ASSUME Whole(stream, reported), LineInv, MapInv, NEW n, Reads(n)
  PROVE  LineInv' /\ MapInv'
<1>1. n \in 1 .. Len(stream) /\ reported' = reported /\ (~cut' => ~cut)
  BY DEF Reads
<1>2. CASE UNCHANGED <<previoussentence, aisline, r_buffer, shipd, ships>>
  <2>1. LineInv'
    BY <1>1, <1>2 DEF LineInv, ReportAt
  <2>2. Shown' = Shown
    BY <1>2 DEF Shown
  <2>3. MapInv'
    BY <1>1, <1>2, <2>2, Zenon DEF MapInv, ShowsOnlyReports, Told
  <2> QED
    BY <2>1, <2>3
<1>3. ASSUME NEW f \in HeadersIn(n), Looks(n, f), ~OutOfOrder(stream[f]),
             NEW x \in Seq(Units), Sentence(stream[f], x), ~cut' => x = LettersOf(f)
      PROVE  LineInv' /\ MapInv'
  <2>1. /\ aisline' \in Seq(Units) /\ DOMAIN r_buffer' = 1 .. 4
        /\ DOMAIN shipd' = {"type", "mmsi", "pos"}
    BY <1>3, SentenceTypes
  <2>2. ASSUME ~cut'
        PROVE  /\ previoussentence' = 1 =>
                    /\ Len(aisline') = 3
                    /\ aisline'[1].v \in {1, 4} => ReportAt(aisline', 0) \in reported'
               /\ shipd'.type \in {1, 4} => Told(shipd')
               /\ \A d \in Shown' : Told(d)
    <3>1. Decodes(f) /\ ~cut
      BY <1>1, <1>3, <2>2, Decoding
    <3>2. FirstAt(stream, f, reported) \/ RestAt(stream, f)
      BY <1>1 DEF HeadersIn, Whole
    <3>3. shipd'.type \in {1, 4} => Told(shipd')
      <4>1. CASE stream[f].num = 1
        <5>1. shipd' = IF stream[f + 1].v \in {1, 4} THEN ReportAt(stream, f) ELSE shipd
          BY <3>1, <4>1 DEF Decodes
        <5>2. stream[f + 1].v \in {1, 4} => ReportAt(stream, f) \in reported
          BY <3>2, <4>1 DEF FirstAt, RestAt
        <5> QED
          BY <3>1, <5>1, <5>2 DEF MapInv, Told
      <4>2. CASE stream[f].num = 2
        <5>1. /\ previoussentence = 1
              /\ shipd' = IF aisline[1].v \in {1, 4} THEN ReportAt(aisline, 0)
                          ELSE IF aisline[1].v = 5 THEN [shipd EXCEPT !.type = 5, !.mmsi = aisline[2].v]
                          ELSE shipd
          BY <3>1, <4>2 DEF Decodes
        <5>2. aisline[1].v \in {1, 4} => ReportAt(aisline, 0) \in reported
          BY <3>1, <5>1 DEF LineInv
        <5> QED
          BY <3>1, <5>1, <5>2 DEF MapInv, Told
      <4> QED
        BY <3>2, <4>1, <4>2 DEF FirstAt, RestAt
    <3>4. \A d \in Shown : Told(d)
      BY <3>1 DEF MapInv, ShowsOnlyReports, Told
    <3>5. \A d \in Shown' : Told(d)
      <4>1. CASE shipd'.type \in {1, 4}
        BY <3>1, <3>3, <3>4, <4>1, ShownAfter DEF Decodes
      <4>2. CASE shipd'.type \notin {1, 4}
        BY <3>1, <3>4, <4>2 DEF Decodes, Shown
      <4> QED
        BY <4>1, <4>2
    <3>6. previoussentence' = 1 =>
            /\ Len(aisline') = 3
            /\ aisline'[1].v \in {1, 4} => ReportAt(aisline', 0) \in reported'
      <4>1. SUFFICES ASSUME stream[f].num = 1
                     PROVE  /\ Len(aisline') = 3
                            /\ aisline'[1].v \in {1, 4} => ReportAt(aisline', 0) \in reported
        BY <1>1, <3>1 DEF Decodes
      <4>2. Len(aisline') = 3 /\ ReportAt(aisline', 0) = ReportAt(stream, f)
        BY <3>1, <4>1 DEF Decodes
      <4>3. ReportAt(aisline', 0).type = aisline'[1].v /\ ReportAt(stream, f).type = stream[f + 1].v
        BY DEF ReportAt, Report
      <4>4. stream[f + 1].v \in {1, 4} => ReportAt(stream, f) \in reported
        BY <3>2, <4>1 DEF FirstAt, RestAt
      <4> QED
        BY <4>2, <4>3, <4>4
    <3> QED
      BY <3>3, <3>5, <3>6
  <2>3. LineInv'
    BY <2>1, <2>2 DEF LineInv, ReportAt
  <2>4. MapInv'
    BY <1>1, <2>1, <2>2 DEF MapInv, ShowsOnlyReports, Told
  <2> QED
    BY <2>3, <2>4
<1>4. \/ UNCHANGED <<previoussentence, aisline, r_buffer, shipd, ships>>
      \/ \E f \in HeadersIn(n) : /\ Looks(n, f) /\ ~OutOfOrder(stream[f])
                                 /\ \E x \in Seq(Units) : Sentence(stream[f], x) /\ (~cut' => x = LettersOf(f))
  BY Zenon DEF Reads, Looks
<1> QED
  BY <1>2, <1>3, <1>4

(***************************************************************************)
(* Messages of the daemon.                                                 *)
(***************************************************************************)
LEMMA MessageKeepsGui ==
  ASSUME GuiInv, NEW t \in Types, NEW s \in Ships, NEW p \in Positions, Message(t, s, p)
  PROVE  GuiInv'
<1>1. /\ todo' = Sentences(t, s, p) /\ reported \subseteq reported'
      /\ t \in {1, 4} => Report(t, s, p) \in reported'
      /\ UNCHANGED <<stream, previoussentence, aisline, r_buffer, shipd, ships, cut>>
  BY DEF Message
<1>2. TodoInv'
  <2>1. PICK x, y : /\ IsFirst(x, reported') /\ IsRest(y) /\ x[2].v = t
                    /\ Sentences(t, s, p) = IF t = 5 THEN <<x, y>> ELSE <<x>>
    BY <1>1, SentencesOf
  <2>2. CASE t = 5
    BY <1>1, <2>1, <2>2 DEF TodoInv
  <2>3. CASE t # 5
    BY <1>1, <2>1, <2>3 DEF TodoInv
  <2> QED
    BY <2>2, <2>3
<1>3. StreamInv'
  BY <1>1, <1>2, MoreReports DEF GuiInv, StreamInv
<1>4. LineInv'
  BY <1>1 DEF GuiInv, LineInv, ReportAt
<1>5. MapInv'
  <2>1. Shown' = Shown
    BY <1>1 DEF Shown
  <2> QED
    BY <1>1, <2>1 DEF GuiInv, MapInv, ShowsOnlyReports, Told
<1> QED
  BY <1>3, <1>4, <1>5 DEF GuiInv

(***************************************************************************)
(* A sentence is written as a whole.                                       *)
(***************************************************************************)
LEMMA WriteTakesSentence ==
  ASSUME TodoInv, todo # <<>>
  PROVE  \/ /\ IsFirst(Head(todo), reported)
            /\ IF Head(todo)[2].v = 5 THEN \E y : IsRest(y) /\ Tail(todo) = <<y>>
               ELSE Tail(todo) = <<>>
         \/ IsRest(Head(todo)) /\ Tail(todo) = <<>>
<1>1. \A x : Head(<<x>>) = x /\ Tail(<<x>>) = <<>>
  OBVIOUS
<1>2. \A x, y : Head(<<x, y>>) = x /\ Tail(<<x, y>>) = <<y>>
  OBVIOUS
<1> QED
  BY <1>1, <1>2 DEF TodoInv

LEMMA WriteKeepsGui ==
  ASSUME GuiInv, ipc_write
  PROVE  GuiInv'
<1>1. /\ todo # <<>> /\ stream' = stream \o Head(todo) /\ todo' = Tail(todo)
      /\ UNCHANGED <<previoussentence, aisline, r_buffer, shipd, ships, reported, cut>>
  BY DEF ipc_write
<1>2. \/ /\ IsFirst(Head(todo), reported)
         /\ IF Head(todo)[2].v = 5 THEN \E y : IsRest(y) /\ Tail(todo) = <<y>>
            ELSE Tail(todo) = <<>>
      \/ IsRest(Head(todo)) /\ Tail(todo) = <<>>
  BY <1>1, WriteTakesSentence DEF GuiInv, StreamInv
<1>3. Whole(stream', reported')
  BY <1>1, <1>2, WholeAppended DEF GuiInv, StreamInv
<1>4. TodoInv'
  BY <1>1, <1>2 DEF TodoInv
<1>5. LineInv'
  BY <1>1 DEF GuiInv, LineInv, ReportAt
<1>6. MapInv'
  <2>1. Shown' = Shown
    BY <1>1 DEF Shown
  <2> QED
    BY <1>1, <2>1 DEF GuiInv, MapInv, ShowsOnlyReports, Told
<1> QED
  BY <1>3, <1>4, <1>5, <1>6 DEF GuiInv, StreamInv

LEMMA ReadKeepsGui ==
  ASSUME GuiInv, threaden
  PROVE  GuiInv'
<1>1. PICK n : Reads(n)
  BY ThreadReads DEF GuiInv, StreamInv
<1>2. UNCHANGED <<todo, reported>>
  BY <1>1 DEF Reads
<1>3. Whole(stream', reported')
  BY <1>1, <1>2, WholeAfterRead DEF GuiInv, StreamInv
<1>4. TodoInv'
  BY <1>2 DEF GuiInv, StreamInv, TodoInv
<1> QED
  BY <1>1, <1>3, <1>4, ReadKeepsMap DEF GuiInv, StreamInv

LEMMA GuiInit == Init => GuiInv
<1> SUFFICES ASSUME Init PROVE GuiInv
  OBVIOUS
<1> HIDE DEF Units
<1>1. <<>> \in Seq(Units) /\ Len(<<>>) = 0
  OBVIOUS
<1>2. StreamInv
  BY <1>1 DEF Init, StreamInv, Whole, TodoInv
<1>3. LineInv
  BY <1>1 DEF Init, LineInv
<1>4. DOMAIN shipd = {"type", "mmsi", "pos"} /\ shipd.mmsi = Junk
  BY DEF Init, Report
<1>5. Shown = {}
  BY DEF Init, Shown
<1>6. MapInv
  BY <1>4, <1>5 DEF Init, MapInv, ShowsOnlyReports, Told
<1> QED
  BY <1>2, <1>3, <1>6 DEF GuiInv

(***************************************************************************)
(* What is in the stream is whole sentences, and what is shown, kept in    *)
(* shipd or being put together was reported, until a read ends inside a    *)
(* sentence.                                                               *)
(***************************************************************************)
THEOREM GuiInvariant == Spec => []GuiInv
<1>1. GuiInv /\ [Next]_vars => GuiInv'
  <2> SUFFICES ASSUME GuiInv, [Next]_vars PROVE GuiInv'
    OBVIOUS
  <2>1. CASE \E t \in {1, 4, 5, 18}, s \in Ships, p \in Positions : Message(t, s, p)
    BY <2>1, MessageKeepsGui DEF Types
  <2>2. CASE ipc_write
    BY <2>2, WriteKeepsGui
  <2>3. CASE threaden
    BY <2>3, ReadKeepsGui
  <2>4. CASE UNCHANGED vars
    <3>1. UNCHANGED <<todo, stream, previoussentence, aisline, r_buffer, shipd, ships, reported, cut>>
      BY <2>4 DEF vars
    <3>2. StreamInv' /\ LineInv'
      BY <3>1 DEF GuiInv, StreamInv, TodoInv, LineInv, ReportAt
    <3>3. MapInv'
      BY <3>1 DEF GuiInv, MapInv, ShowsOnlyReports, Told, Shown
    <3> QED
      BY <3>2, <3>3 DEF GuiInv
  <2> QED
    BY <2>1, <2>2, <2>3, <2>4 DEF Next
<1> QED
  BY GuiInit, <1>1, PTL DEF Spec

(***************************************************************************)
(* The map of the GUI shows nothing that no ship reported, however many    *)
(* sentences a read returns and the thread loses, unless a read ends       *)
(* inside of a sentence or shipd looks like a ship before anything is      *)
(* decoded.                                                                *)
(***************************************************************************)
THEOREM OnlyReportsShown == Spec => []ShowsOnlyReports
<1>1. GuiInv => ShowsOnlyReports
  BY DEF GuiInv, MapInv
<1> QED
  BY <1>1, GuiInvariant, PTL

-----------------------------------------------------------------------------
(* The map shows the latest reports                                        *)

(***************************************************************************)
(* updateship() shows d if there is room, and leaves the other ships.      *)
(***************************************************************************)
LEMMA UpdateSettles ==
  ASSUME SizeInv, NEW d, updateship(d)
  PROVE  /\ SizeInv'
         /\ Settled(d.mmsi, d)'
         /\ \A m, e : Settled(m, e) /\ (m = d.mmsi => d = e) => Settled(m, e)'
<1> USE GuiAssumption
<1>1. Cardinality(DOMAIN ships) \in Nat
  BY FS_CardinalityType DEF SizeInv
<1>2. CASE d.mmsi \in DOMAIN ships \/ Cardinality(DOMAIN ships) < MAXSHIPS
  <2>1. /\ DOMAIN ships' = DOMAIN ships \cup {d.mmsi} /\ ships'[d.mmsi] = d
        /\ \A m \in DOMAIN ships : m # d.mmsi => ships'[m] = ships[m]
    BY <1>2 DEF updateship, With
  <2>2. /\ IsFiniteSet(DOMAIN ships')
        /\ Cardinality(DOMAIN ships') =
             IF d.mmsi \in DOMAIN ships THEN Cardinality(DOMAIN ships) ELSE Cardinality(DOMAIN ships) + 1
    BY <2>1, FS_AddElement DEF SizeInv
  <2>3. SizeInv'
    BY <1>1, <1>2, <2>2 DEF SizeInv
  <2>4. ASSUME NEW m, NEW e, Settled(m, e), m = d.mmsi => d = e
        PROVE  Settled(m, e)'
    <3>1. CASE m = d.mmsi
      BY <2>1, <2>4, <3>1 DEF Settled
    <3>2. CASE m # d.mmsi
      <4>1. CASE m \in DOMAIN ships
        BY <2>1, <2>4, <3>2, <4>1 DEF Settled
      <4>2. CASE m \notin DOMAIN ships
        <5>1. Cardinality(DOMAIN ships) = MAXSHIPS /\ d.mmsi \in DOMAIN ships
          BY <1>1, <1>2, <2>4, <4>2 DEF Settled
        <5> QED
          BY <2>1, <2>2, <3>2, <4>2, <5>1 DEF Settled
      <4> QED
        BY <4>1, <4>2
    <3> QED
      BY <3>1, <3>2
  <2> QED
    BY <2>1, <2>3, <2>4 DEF Settled
<1>3. CASE ~(d.mmsi \in DOMAIN ships \/ Cardinality(DOMAIN ships) < MAXSHIPS)
  <2>1. ships' = ships
    BY <1>3 DEF updateship
  <2>2. Cardinality(DOMAIN ships) = MAXSHIPS
    BY <1>1, <1>3 DEF SizeInv
  <2> QED
    BY <1>3, <2>1, <2>2 DEF SizeInv, Settled
<1> QED
  BY <1>2, <1>3

(***************************************************************************)
(* The map has no more than MAXSHIPS ships, whatever is read.              *)
(***************************************************************************)
LEMMA SizeKept ==
  ASSUME SizeInv, Whole(stream, reported), [Next]_vars
  PROVE  SizeInv'
<1>1. CASE threaden
  <2>1. UNCHANGED ships \/ \E d : updateship(d)
    <3>1. PICK n : Reads(n)
      BY <1>1, ThreadReads
    <3> QED
      BY <3>1, Zenon DEF Reads, Looks, Sentence
  <2>2. CASE UNCHANGED ships
    BY <2>2 DEF SizeInv
  <2> QED
    BY <2>1, <2>2, UpdateSettles
<1>2. CASE UNCHANGED ships
  BY <1>2 DEF SizeInv
<1> QED
  BY <1>1, <1>2 DEF Next, Message, ipc_write, vars

(***************************************************************************)
(* A new message: its report is the last one of its ship, and on its way.  *)
(***************************************************************************)
LEMMA MessageKeepsLatest ==
  ASSUME GuiInv, LatestInv, AgainInv, RestInv,
         NEW t \in Types, NEW s \in Ships, NEW p \in Positions, Message(t, s, p)
  PROVE  LatestInv' /\ AgainInv' /\ RestInv'
<1>1. /\ todo = <<>> /\ todo' = Sentences(t, s, p)
      /\ last' = IF t \in {1, 4} THEN With(last, Report(t, s, p)) ELSE last
      /\ t \in {1, 4} => Report(t, s, p) \in reported'
      /\ UNCHANGED <<stream, previoussentence, aisline, r_buffer, shipd, ships>>
  BY DEF Message
<1>2. PICK x, y : /\ IsFirst(x, reported') /\ IsRest(y)
                  /\ x[2].v = t /\ x[3].v = s /\ ReportAt(x, 1) = Report(t, s, p)
                  /\ Sentences(t, s, p) = IF t = 5 THEN <<x, y>> ELSE <<x>>
  BY <1>1, SentencesOf
<1>3. todo' # <<>> /\ Head(todo') = x
  BY <1>1, <1>2
<1>4. x[1].num = 1
  BY <1>2 DEF IsFirst, FirstAt
<1>5. \A m : ~Coming(m) /\ (Coming(m)' <=> t \in {1, 4} /\ m = s)
  BY <1>1, <1>2, <1>3, <1>4 DEF Coming
<1>6. \A i, m : Waits(i, m)' <=> Waits(i, m)
  BY <1>1 DEF Waits, IsHeader
<1>7. \A m : Pending(m)' <=> Pending(m) \/ (t \in {1, 4} /\ m = s)
  BY <1>1, <1>5, <1>6 DEF Pending
<1>8. \A m \in DOMAIN last' : ~(t \in {1, 4} /\ m = s) => m \in DOMAIN last /\ last'[m] = last[m]
  BY <1>1 DEF With, Report
<1>9. t \in {1, 4} => last'[s] = Report(t, s, p)
  BY <1>1 DEF With, Report
<1>10. \A m, d : Settled(m, d) => Settled(m, d)'
  BY <1>1 DEF Settled
<1>11. LatestInv'
  <2> SUFFICES ASSUME NEW m \in DOMAIN last'
               PROVE  /\ Coming(m)' => ReportAt(Head(todo'), 1) = last'[m]
                      /\ ~Coming(m)' =>
                           \A i \in 1 .. Len(stream') :
                             Waits(i, m)' /\ (\A j \in i + 1 .. Len(stream') : ~Waits(j, m)') =>
                               ReportAt(stream', i) = last'[m]
                      /\ ~Pending(m)' => Settled(m, last[m])'
    BY DEF LatestInv, ReportAt
  <2>1. CASE t \in {1, 4} /\ m = s
    BY <1>2, <1>3, <1>5, <1>7, <1>9, <2>1
  <2>2. CASE ~(t \in {1, 4} /\ m = s)
    <3>1. m \in DOMAIN last /\ last'[m] = last[m] /\ ~Coming(m) /\ ~Coming(m)'
      BY <1>5, <1>8, <2>2
    <3>2. ~Pending(m)' => Settled(m, last[m])'
      BY <1>7, <1>10, <2>2, <3>1 DEF LatestInv
    <3>3. ASSUME NEW i \in 1 .. Len(stream'), Waits(i, m)',
                 \A j \in i + 1 .. Len(stream') : ~Waits(j, m)'
          PROVE  ReportAt(stream', i) = last'[m]
      BY <1>1, <1>6, <3>1, <3>3 DEF LatestInv
    <3> QED
      BY <3>1, <3>2, <3>3
  <2> QED
    BY <2>1, <2>2
<1>12. AgainInv'
  BY <1>1, <1>7, <1>8 DEF AgainInv
<1>13. RestInv'
  BY <1>1, <1>3, <1>4 DEF RestInv, Follows, IsHeader
<1> QED
  BY <1>11, <1>12, <1>13

(***************************************************************************)
(* A sentence that is written waits behind what was written before.        *)
(***************************************************************************)
LEMMA WrittenWaits ==
  ASSUME Whole(stream, reported), TodoInv, ipc_write, NEW n, n = Len(stream)
  PROVE  /\ n \in Nat /\ Len(stream') \in Nat /\ Len(stream') > n
         /\ \A i \in 1 .. n : stream'[i] = stream[i]
         /\ stream'[n + 1] = Head(todo)[1] /\ stream'[n + 2] = Head(todo)[2]
         /\ \A i \in n + 2 .. Len(stream') : ~IsHeader(stream', i)
         /\ \A m : \A i \in 1 .. n : /\ Waits(i, m)' <=> Waits(i, m)
                                     /\ Waits(i, m) => ReportAt(stream', i) = ReportAt(stream, i)
         /\ \A m : /\ Waits(n + 1, m)' <=> Coming(m)
                   /\ Coming(m) => ReportAt(stream', n + 1) = ReportAt(Head(todo), 1)
<1> DEFINE x == Head(todo)
<1>1. todo # <<>> /\ stream' = stream \o x
  BY DEF ipc_write
<1>2. IsFirst(x, reported) \/ IsRest(x)
  BY <1>1, WriteTakesSentence
<1> HIDE DEF Units, x
<1>3. /\ stream \in Seq(Units) /\ x \in Seq(Units) /\ n \in Nat /\ Len(x) \in Nat
  BY <1>2 DEF Whole, IsFirst, IsRest
<1>4. /\ stream' \in Seq(Units) /\ Len(stream') = n + Len(x)
      /\ \A i \in 1 .. n + Len(x) : stream'[i] = IF i <= n THEN stream[i] ELSE x[i - n]
  BY <1>1, <1>3, ConcatProperties
<1>5. \A i \in 1 .. n : stream'[i] = stream[i]
  BY <1>3, <1>4
<1>6. \A k \in 1 .. Len(x) : stream'[n + k] = x[k]
  <2> SUFFICES ASSUME NEW k \in 1 .. Len(x) PROVE stream'[n + k] = x[k]
    OBVIOUS
  <2>1. PICK i \in Int : i = n + k
    BY <1>3
  <2>2. i \in 1 .. n + Len(x) /\ ~(i <= n) /\ i - n = k
    BY <1>3, <2>1
  <2>3. stream'[i] = x[i - n]
    BY <1>4, <2>2
  <2> QED
    BY <2>1, <2>2, <2>3
<1>7. ASSUME NEW i \in 1 .. n, NEW m
      PROVE  /\ Waits(i, m)' <=> Waits(i, m)
             /\ Waits(i, m) => ReportAt(stream', i) = ReportAt(stream, i)
  <2>1. stream'[i] = stream[i]
    BY <1>5
  <2>2. CASE IsHeader(stream, i) /\ stream[i].num = 1
    <3>1. i + 4 <= n
      BY <2>2 DEF Whole, FirstAt, RestAt
    <3>2. /\ stream'[i + 1] = stream[i + 1] /\ stream'[i + 2] = stream[i + 2]
          /\ stream'[i + 3] = stream[i + 3]
      BY <1>3, <1>5, <3>1
    <3> QED
      BY <2>1, <3>2 DEF Waits, IsHeader, ReportAt
  <2>3. CASE ~(IsHeader(stream, i) /\ stream[i].num = 1)
    BY <2>1, <2>3 DEF Waits, IsHeader
  <2> QED
    BY <2>2, <2>3
<1>8. CASE IsFirst(x, reported)
  <2>1. /\ Len(x) = 5 /\ x[1].is = "header" /\ x[1].num = 1
        /\ x[2].is = "letter" /\ x[3].is = "letter" /\ x[4].is = "letter" /\ x[5].is = "trailer"
    BY <1>8 DEF IsFirst, FirstAt, IsHeader
  <2>2. /\ stream'[n + 1] = x[1] /\ stream'[n + 2] = x[2] /\ stream'[n + 3] = x[3]
        /\ stream'[n + 4] = x[4] /\ stream'[n + 5] = x[5] /\ Len(stream') = n + 5
    BY <1>4, <1>6, <2>1
  <2>3. ASSUME NEW i \in n + 2 .. Len(stream') PROVE ~IsHeader(stream', i)
    <3>1. i \in {n + 2, n + 3, n + 4, n + 5}
      <4>1. n \in Nat /\ i \in n + 2 .. n + 5
        BY <1>3, <2>2
      <4> QED
        BY <4>1
    <3> QED
      BY <2>1, <2>2, <3>1 DEF IsHeader
  <2>4. stream'[n + 1 + 1] = x[2] /\ stream'[n + 1 + 2] = x[3] /\ stream'[n + 1 + 3] = x[4]
    BY <1>3, <2>2
  <2>5. ASSUME NEW m
        PROVE  /\ Waits(n + 1, m)' <=> Coming(m)
               /\ Coming(m) => ReportAt(stream', n + 1) = ReportAt(x, 1)
    <3>1. PICK k : k = n + 1
      OBVIOUS
    <3>2. /\ stream'[k] = x[1] /\ stream'[k + 1] = x[2] /\ stream'[k + 2] = x[3]
          /\ stream'[k + 3] = x[4]
      BY <2>2, <2>4, <3>1
    <3>3. Waits(k, m)' <=> x[2].v \in {1, 4} /\ x[3].v = m
      BY <2>1, <3>2 DEF Waits, IsHeader
    <3>4. Coming(m) <=> x[2].v \in {1, 4} /\ x[3].v = m
      BY <1>1, <2>1 DEF Coming, x
    <3>5. ReportAt(stream', k) = ReportAt(x, 1)
      BY <3>2 DEF ReportAt
    <3> QED
      BY <3>1, <3>3, <3>4, <3>5
  <2> QED
    BY <1>3, <1>5, <1>7, <2>2, <2>3, <2>5, SMTT(30) DEF x
<1>9. CASE IsRest(x)
  <2>1. Len(x) = 3 /\ x[1].num = 2 /\ x[2].is = "letter" /\ x[3].is = "trailer"
    BY <1>9 DEF IsRest, RestAt, IsHeader
  <2>2. /\ stream'[n + 1] = x[1] /\ stream'[n + 2] = x[2] /\ stream'[n + 3] = x[3]
        /\ Len(stream') = n + 3
    BY <1>4, <1>6, <2>1
  <2>3. ASSUME NEW i \in n + 2 .. Len(stream') PROVE ~IsHeader(stream', i)
    <3>1. i \in {n + 2, n + 3}
      <4>1. n \in Nat /\ i \in n + 2 .. n + 3
        BY <1>3, <2>2
      <4> QED
        BY <4>1
    <3> QED
      BY <2>1, <2>2, <3>1 DEF IsHeader
  <2>4. ASSUME NEW m PROVE ~Waits(n + 1, m)' /\ ~Coming(m)
    <3>1. PICK k : k = n + 1
      OBVIOUS
    <3>2. ~Waits(k, m)' /\ ~Coming(m)
      BY <2>1, <2>2, <3>1 DEF Waits, Coming, x
    <3> QED
      BY <3>1, <3>2
  <2> QED
    BY <1>3, <1>5, <1>7, <2>2, <2>3, <2>4 DEF x
<1> QED
  BY <1>2, <1>8, <1>9

LEMMA WriteKeepsLatest ==
  ASSUME GuiInv, LatestInv, AgainInv, RestInv, ipc_write
  PROVE  LatestInv' /\ AgainInv' /\ RestInv'
<1>1. /\ todo # <<>> /\ todo' = Tail(todo)
      /\ UNCHANGED <<previoussentence, aisline, r_buffer, shipd, ships, last>>
  BY DEF ipc_write
<1>2. PICK n : n = Len(stream)
  OBVIOUS
<1>3. /\ n \in Nat /\ Len(stream') \in Nat /\ Len(stream') > n
      /\ \A i \in 1 .. n : stream'[i] = stream[i]
      /\ stream'[n + 1] = Head(todo)[1] /\ stream'[n + 2] = Head(todo)[2]
      /\ \A i \in n + 2 .. Len(stream') : ~IsHeader(stream', i)
      /\ \A m : \A i \in 1 .. n : /\ Waits(i, m)' <=> Waits(i, m)
                                  /\ Waits(i, m) => ReportAt(stream', i) = ReportAt(stream, i)
      /\ \A m : /\ Waits(n + 1, m)' <=> Coming(m)
                /\ Coming(m) => ReportAt(stream', n + 1) = ReportAt(Head(todo), 1)
  BY <1>2, WrittenWaits DEF GuiInv, StreamInv
<1>4. \/ /\ IsFirst(Head(todo), reported)
         /\ IF Head(todo)[2].v = 5 THEN \E y : IsRest(y) /\ Tail(todo) = <<y>>
            ELSE Tail(todo) = <<>>
      \/ IsRest(Head(todo)) /\ Tail(todo) = <<>>
  BY <1>1, WriteTakesSentence DEF GuiInv, StreamInv
<1>5. todo' # <<>> =>
        /\ Head(todo')[1].num = 2 /\ Len(stream') = n + 5
        /\ IsHeader(stream', n + 1) /\ stream'[n + 1].num = 1 /\ stream'[n + 2].v = 5
  <2> SUFFICES ASSUME todo' # <<>>
               PROVE  /\ Head(todo')[1].num = 2 /\ Len(stream') = n + 5
                      /\ IsHeader(stream', n + 1) /\ stream'[n + 1].num = 1 /\ stream'[n + 2].v = 5
    OBVIOUS
  <2>1. /\ IsFirst(Head(todo), reported) /\ Head(todo)[2].v = 5
        /\ \E y : IsRest(y) /\ todo' = <<y>>
    BY <1>1, <1>4
  <2>2. Head(todo')[1].num = 2
    BY <2>1 DEF IsRest, RestAt
  <2>3. /\ Head(todo) \in Seq(Units) /\ Len(Head(todo)) = 5 /\ stream \in Seq(Units)
        /\ Head(todo)[1].is = "header" /\ Head(todo)[1].num = 1
    BY <2>1 DEF IsFirst, FirstAt, IsHeader, GuiInv, StreamInv, Whole
  <2>4. Len(stream') = n + 5
    <3> HIDE DEF Units
    <3>1. stream' = stream \o Head(todo)
      BY DEF ipc_write
    <3>2. Len(stream \o Head(todo)) = Len(stream) + Len(Head(todo))
      BY <2>3, ConcatProperties
    <3> QED
      BY <1>2, <2>3, <3>1, <3>2
  <2> QED
    BY <1>3, <2>1, <2>2, <2>3, <2>4 DEF IsHeader
<1>6. \A m : ~Coming(m)'
  BY <1>5 DEF Coming
<1>7. \A m : \A i \in n + 2 .. Len(stream') : ~Waits(i, m)'
  BY <1>3 DEF Waits
<1>8. \A m : Pending(m)' <=> Pending(m)
  <2>1. \A i \in 1 .. Len(stream') : i \in 1 .. n \/ i = n + 1 \/ i \in n + 2 .. Len(stream')
    BY <1>3
  <2>2. n + 1 \in 1 .. Len(stream') /\ \A i \in 1 .. n : i \in 1 .. Len(stream')
    BY <1>3
  <2>3. ASSUME NEW m, Pending(m)' PROVE Pending(m)
    <3>1. PICK i \in 1 .. Len(stream') : Waits(i, m)'
      BY <1>6, <2>3 DEF Pending
    <3>2. CASE i \in 1 .. n
      <4>1. Waits(i, m)
        BY <1>3, <3>1, <3>2, Zenon
      <4> QED
        BY <1>2, <3>2, <4>1 DEF Pending
    <3>3. CASE i = n + 1
      BY <1>3, <3>1, <3>3 DEF Pending
    <3> QED
      BY <1>7, <2>1, <3>1, <3>2, <3>3
  <2>4. ASSUME NEW m, Pending(m) PROVE Pending(m)'
    <3>1. CASE Coming(m)
      BY <1>3, <2>2, <3>1 DEF Pending
    <3>2. ASSUME NEW i \in 1 .. n, Waits(i, m) PROVE \E k \in 1 .. Len(stream') : Waits(k, m)'
      <4>1. Waits(i, m)'
        BY <1>3, <3>2, Zenon
      <4> QED
        BY <2>2, <4>1
    <3> QED
      BY <1>2, <2>4, <3>1, <3>2 DEF Pending
  <2> QED
    BY <2>3, <2>4
<1>9. LatestInv'
  <2> SUFFICES ASSUME NEW m \in DOMAIN last'
               PROVE  /\ Coming(m)' => ReportAt(Head(todo'), 1) = last'[m]
                      /\ ~Coming(m)' =>
                           \A i \in 1 .. Len(stream') :
                             Waits(i, m)' /\ (\A j \in i + 1 .. Len(stream') : ~Waits(j, m)') =>
                               ReportAt(stream', i) = last'[m]
                      /\ ~Pending(m)' => Settled(m, last[m])'
    BY DEF LatestInv, ReportAt
  <2>1. m \in DOMAIN last /\ last' = last
    BY <1>1
  <2>2. ~Pending(m)' => Settled(m, last[m])'
    BY <1>1, <1>8, <2>1 DEF LatestInv, Settled
  <2>3. ASSUME NEW i \in 1 .. Len(stream'), Waits(i, m)',
               \A j \in i + 1 .. Len(stream') : ~Waits(j, m)'
        PROVE  ReportAt(stream', i) = last[m]
    <3>1. i \in 1 .. n \/ i = n + 1
      BY <1>3, <1>7, <2>3
    <3>2. CASE i = n + 1
      BY <1>3, <2>1, <2>3, <3>2 DEF LatestInv
    <3>3. CASE i \in 1 .. n
      <4>1. ~Coming(m)
        <5>1. n + 1 \in i + 1 .. Len(stream')
          BY <1>3, <3>3
        <5> QED
          BY <1>3, <2>3, <5>1
      <4>2. \A j \in i + 1 .. n : ~Waits(j, m)
        <5> SUFFICES ASSUME NEW j \in i + 1 .. n PROVE ~Waits(j, m)
          OBVIOUS
        <5>1. j \in 1 .. n /\ j \in i + 1 .. Len(stream')
          BY <1>3, <3>3
        <5> QED
          BY <1>3, <2>3, <5>1, Zenon
      <4>3. Waits(i, m) /\ ReportAt(stream', i) = ReportAt(stream, i)
        BY <1>3, <2>3, <3>3, Zenon
      <4> QED
        BY <1>2, <2>1, <3>3, <4>1, <4>2, <4>3 DEF LatestInv
    <3> QED
      BY <3>1, <3>2, <3>3
  <2> QED
    BY <1>6, <2>1, <2>2, <2>3
<1>10. AgainInv'
  BY <1>1, <1>8 DEF AgainInv
<1>11. RestInv'
  <2>1. ASSUME NEW i \in 1 .. n + 1, Follows(i) PROVE Follows(i)'
    <3>1. CASE i = 1
      BY <1>1, <2>1, <3>1 DEF Follows
    <3>2. CASE i # 1
      <4>1. i > 5 /\ IsHeader(stream, i - 5) /\ stream[i - 5].num = 1 /\ stream[i - 4].v = 5
        BY <2>1, <3>2 DEF Follows
      <4>2. stream'[i - 5] = stream[i - 5] /\ stream'[i - 4] = stream[i - 4]
        <5>1. i - 5 \in 1 .. n /\ i - 4 \in 1 .. n
          BY <1>3, <4>1
        <5> QED
          BY <1>3, <5>1
      <4> QED
        BY <3>2, <4>1, <4>2 DEF Follows, IsHeader
    <3> QED
      BY <3>1, <3>2
  <2>2. ASSUME NEW i \in 1 .. Len(stream'), IsHeader(stream', i), stream'[i].num = 2
        PROVE  Follows(i)'
    <3>1. CASE i \in 1 .. n
      <4>1. stream'[i] = stream[i] /\ i \in 1 .. n + 1
        BY <1>3, <3>1
      <4>2. Follows(i)
        BY <1>2, <2>2, <3>1, <4>1 DEF RestInv, IsHeader
      <4> QED
        BY <2>1, <4>1, <4>2
    <3>2. CASE i = n + 1
      <4>1. Follows(i)
        BY <1>1, <1>2, <1>3, <2>2, <3>2 DEF RestInv
      <4>2. i \in 1 .. n + 1
        BY <1>3, <3>2
      <4> QED
        BY <2>1, <4>1, <4>2
    <3>3. i \in 1 .. n \/ i = n + 1
      BY <1>3, <2>2
    <3> QED
      BY <3>1, <3>2, <3>3
  <2>3. ASSUME todo' # <<>> PROVE Follows(Len(stream) + 1)'
    <3>1. PICK k : k = Len(stream') + 1
      OBVIOUS
    <3>2. k # 1 /\ k > 5 /\ k - 5 = n + 1 /\ k - 4 = n + 2
      BY <1>3, <1>5, <2>3, <3>1
    <3>3. Follows(k)'
      BY <1>5, <2>3, <3>2 DEF Follows, IsHeader
    <3> QED
      BY <3>1, <3>3 DEF Follows
  <2> QED
    BY <2>2, <2>3 DEF RestInv, IsHeader
<1> QED
  BY <1>9, <1>10, <1>11

(***************************************************************************)
(* What was not read waits as before.                                      *)
(***************************************************************************)
LEMMA UnreadWaits ==
  ASSUME Whole(stream, reported), NEW n, Reads(n), NEW m, NEW i \in 1 .. Len(stream')
  PROVE  /\ Waits(i, m)' <=> Waits(i + n, m)
         /\ Waits(i + n, m) => ReportAt(stream', i) = ReportAt(stream, i + n)
<1>1. /\ n \in 1 .. Len(stream) /\ Len(stream') = Len(stream) - n /\ Len(stream) \in Nat
      /\ \A k \in 1 .. Len(stream') : stream'[k] = stream[k + n]
  BY DEF Reads, Whole
<1>2. stream'[i] = stream[i + n] /\ i + n \in 1 .. Len(stream)
  BY <1>1
<1>3. CASE IsHeader(stream, i + n) /\ stream[i + n].num = 1
  <2>1. i + n + 4 <= Len(stream)
    BY <1>2, <1>3 DEF Whole, FirstAt, RestAt
  <2>2. /\ i + 1 \in 1 .. Len(stream') /\ i + 2 \in 1 .. Len(stream') /\ i + 3 \in 1 .. Len(stream')
        /\ i + 1 + n = i + n + 1 /\ i + 2 + n = i + n + 2 /\ i + 3 + n = i + n + 3
    <3>1. i \in Int /\ n \in Int /\ Len(stream') \in Int /\ 1 <= i /\ i + 4 <= Len(stream')
      BY <1>1, <2>1
    <3> QED
      BY <3>1
  <2>3. /\ stream'[i + 1] = stream[i + n + 1] /\ stream'[i + 2] = stream[i + n + 2]
        /\ stream'[i + 3] = stream[i + n + 3]
    BY <1>1, <2>2
  <2> QED
    BY <1>2, <2>3 DEF Waits, IsHeader, ReportAt
<1>4. CASE ~(IsHeader(stream, i + n) /\ stream[i + n].num = 1)
  BY <1>2, <1>4 DEF Waits, IsHeader
<1> QED
  BY <1>3, <1>4

(***************************************************************************)
(* A GUI that keeps up reads one sentence, and the whole of it.            *)
(***************************************************************************)
LEMMA OneSentenceRead ==
  ASSUME GuiInv, NEW n, Reads(n), ~cut', ~behind'
  PROVE  \E f \in 1 .. n :
           /\ IsHeader(stream, f) /\ \A i \in 1 .. n : IsHeader(stream, i) => i = f
           /\ \/ stream[f].num = 1 /\ f + 4 <= n
              \/ stream[f].num = 2
           /\ \/ OutOfOrder(stream[f]) /\ UNCHANGED <<previoussentence, aisline, r_buffer, shipd, ships>>
              \/ Decodes(f)
<1>1. /\ n \in 1 .. Len(stream) /\ stream[n].is = "trailer" /\ ~cut
      /\ Cardinality(HeadersIn(n)) = 1
  BY Zenon DEF Reads
<1>2. Len(stream) \in Nat /\ Whole(stream, reported) /\ LineInv /\ MapInv
  BY DEF GuiInv, StreamInv, Whole
<1>3. IsFiniteSet(HeadersIn(n))
  <2>1. HeadersIn(n) \in SUBSET (1 .. n) /\ n \in Int
    BY <1>1, <1>2 DEF HeadersIn
  <2>2. IsFiniteSet(1 .. n)
    BY <2>1, FS_Interval
  <2> QED
    BY <2>1, <2>2, FS_Subset
<1>4. PICK g : HeadersIn(n) = {g}
  BY <1>1, <1>3, FS_Singleton
<1>5. PICK f \in HeadersIn(n) : Looks(n, f)
  BY <1>4 DEF Reads
<1>6. f \in 1 .. n /\ IsHeader(stream, f) /\ \A i \in 1 .. n : IsHeader(stream, i) => i = f
  BY <1>4, <1>5 DEF HeadersIn
<1>7. \/ stream[f].num = 1 /\ f + 4 <= n
      \/ stream[f].num = 2
  <2>1. FirstAt(stream, f, reported) \/ RestAt(stream, f)
    BY <1>1, <1>2, <1>6 DEF Whole
  <2>2. CASE FirstAt(stream, f, reported)
    <3>1. /\ stream[f + 1].is = "letter" /\ stream[f + 2].is = "letter" /\ stream[f + 3].is = "letter"
          /\ stream[f].num = 1 /\ stream[f].is = "header"
      BY <1>6, <2>2 DEF FirstAt, IsHeader
    <3>2. n # f /\ n # f + 1 /\ n # f + 2 /\ n # f + 3
      BY <1>1, <3>1
    <3> QED
      BY <1>1, <1>2, <1>6, <3>1, <3>2
  <2>3. CASE RestAt(stream, f)
    BY <2>3 DEF RestAt
  <2> QED
    BY <2>1, <2>2, <2>3
<1>8. \/ OutOfOrder(stream[f]) /\ UNCHANGED <<previoussentence, aisline, r_buffer, shipd, ships>>
      \/ Decodes(f)
  <2>1. CASE OutOfOrder(stream[f]) /\ UNCHANGED <<previoussentence, aisline, r_buffer, shipd, ships>>
    BY <2>1
  <2>2. CASE ~OutOfOrder(stream[f]) /\ \E x \in Seq(Units) : Sentence(stream[f], x) /\ (~cut' => x = LettersOf(f))
    <3>1. Sentence(stream[f], LettersOf(f))
      BY <2>2
    <3> QED
      BY <1>1, <1>2, <2>2, <3>1, Decoding
  <2> QED
    BY <1>5, <2>1, <2>2 DEF Looks
<1> QED
  BY <1>6, <1>7, <1>8

LEMMA ReadKeepsLatest ==
  ASSUME GuiInv, SizeInv, LatestInv, AgainInv, RestInv, threaden, ~cut', ~behind'
  PROVE  LatestInv' /\ AgainInv' /\ RestInv'
<1>1. Whole(stream, reported) /\ DOMAIN shipd = {"type", "mmsi", "pos"}
  BY DEF GuiInv, StreamInv, MapInv
<1>2. PICK n : Reads(n)
  BY <1>1, ThreadReads
<1>3. /\ n \in 1 .. Len(stream) /\ Len(stream') = Len(stream) - n /\ Len(stream) \in Nat
      /\ \A i \in 1 .. Len(stream') : stream'[i] = stream[i + n]
      /\ UNCHANGED <<todo, reported, last>>
  BY <1>1, <1>2 DEF Reads, Whole
<1>4. PICK f \in 1 .. n :
         /\ IsHeader(stream, f) /\ \A i \in 1 .. n : IsHeader(stream, i) => i = f
         /\ \/ stream[f].num = 1 /\ f + 4 <= n
            \/ stream[f].num = 2
         /\ \/ OutOfOrder(stream[f]) /\ UNCHANGED <<previoussentence, aisline, r_buffer, shipd, ships>>
            \/ Decodes(f)
  BY <1>2, OneSentenceRead
<1>5. \A m : Coming(m)' <=> Coming(m)
  BY <1>3 DEF Coming
<1>6. ASSUME NEW m PROVE Pending(m) => Pending(m)' \/ Waits(f, m)
  <2> SUFFICES ASSUME NEW i \in 1 .. Len(stream), Waits(i, m) PROVE Pending(m)' \/ i = f
    BY <1>5 DEF Pending
  <2>1. CASE i \in 1 .. n
    BY <1>4, <2>1 DEF Waits
  <2>2. CASE i \notin 1 .. n
    <3>1. PICK k \in 1 .. Len(stream') : i = k + n
      <4>1. i - n \in 1 .. Len(stream') /\ i = i - n + n
        BY <1>3, <2>2
      <4> QED
        BY <4>1
    <3>2. Waits(k, m)'
      BY <1>1, <1>2, <3>1, UnreadWaits
    <3> QED
      BY <3>2 DEF Pending
  <2> QED
    BY <2>1, <2>2
<1>7. ASSUME NEW m \in DOMAIN last, ~Pending(m)', Waits(f, m)
      PROVE  ReportAt(stream, f) = last[m]
  <2>1. ASSUME NEW j \in f + 1 .. Len(stream) PROVE ~Waits(j, m)
    <3>1. CASE j \in 1 .. n
      BY <1>3, <1>4, <3>1 DEF Waits
    <3>2. CASE j \notin 1 .. n
      <4>1. PICK k \in 1 .. Len(stream') : j = k + n
        <5>1. j - n \in 1 .. Len(stream') /\ j = j - n + n
          BY <1>3, <3>2
        <5> QED
          BY <5>1
      <4>2. ~Waits(k, m)'
        BY <1>7 DEF Pending
      <4> QED
        BY <1>1, <1>2, <4>1, <4>2, UnreadWaits
    <3> QED
      BY <3>1, <3>2
  <2>2. ~Coming(m) /\ f \in 1 .. Len(stream)
    BY <1>3, <1>5, <1>7 DEF Pending
  <2> QED
    BY <1>7, <2>1, <2>2 DEF LatestInv
<1>8. stream[f].num = 2 /\ Decodes(f) => shipd'.type = 5
  <2> SUFFICES ASSUME stream[f].num = 2, Decodes(f) PROVE shipd'.type = 5
    OBVIOUS
  <2>1. Follows(f)
    BY <1>3, <1>4 DEF RestInv
  <2>2. f = 1
    <3> SUFFICES ASSUME f # 1 PROVE FALSE
      OBVIOUS
    <3>1. f > 5 /\ IsHeader(stream, f - 5)
      BY <2>1 DEF Follows
    <3>2. f - 5 \in 1 .. n /\ f - 5 # f
      BY <1>3, <3>1
    <3> QED
      BY <1>4, <3>1, <3>2
  <2>3. aisline[1].v = 5 /\ aisline[1].v \notin {1, 4}
    BY <2>1, <2>2 DEF Follows, Decodes
  <2>4. shipd' = [shipd EXCEPT !.type = 5, !.mmsi = aisline[2].v]
    BY <2>3 DEF Decodes
  <2> QED
    BY <1>1, <2>4
<1>9. stream[f].num = 1 => Decodes(f)
  BY <1>4 DEF OutOfOrder
<1>10. \A m : Waits(f, m) =>
         /\ stream[f].num = 1 /\ stream[f + 1].v \in {1, 4}
         /\ ReportAt(stream, f).mmsi = m /\ ReportAt(stream, f).type \in {1, 4}
  BY DEF Waits, ReportAt, Report
<1>11. AgainInv'
  <2> SUFFICES ASSUME shipd'.type \in {1, 4}, shipd'.mmsi \in DOMAIN last, ~Pending(shipd.mmsi)'
               PROVE  shipd' = last[shipd'.mmsi]
    BY <1>3 DEF AgainInv
  <2>1. PICK m \in DOMAIN last : m = shipd'.mmsi
    OBVIOUS
  <2>2. ~Pending(m)'
    BY <2>1 DEF Pending, Coming, Waits, IsHeader
  <2>3. CASE Waits(f, m)
    BY <1>7, <1>9, <1>10, <2>1, <2>2, <2>3 DEF Decodes
  <2>4. CASE ~Waits(f, m)
    <3>1. ~Pending(m)
      BY <1>6, <2>2, <2>4
    <3>2. shipd' = shipd
      <4>1. CASE stream[f].num = 1
        <5>1. stream[f + 1].v \notin {1, 4}
          <6> SUFFICES ASSUME stream[f + 1].v \in {1, 4} PROVE FALSE
            OBVIOUS
          <6>1. shipd' = ReportAt(stream, f)
            BY <1>9, <4>1 DEF Decodes
          <6>2. stream[f + 2].v = m
            BY <2>1, <6>1 DEF ReportAt, Report
          <6> QED
            BY <1>4, <2>4, <4>1, <6>2 DEF Waits
        <5> QED
          BY <1>9, <4>1, <5>1 DEF Decodes
      <4>2. CASE stream[f].num = 2
        <5>1. ~Decodes(f)
          BY <1>8, <4>2
        <5> QED
          BY <1>4, <5>1
      <4> QED
        BY <1>4, <4>1, <4>2
    <3> QED
      BY <2>1, <3>1, <3>2 DEF AgainInv
  <2> QED
    BY <2>1, <2>3, <2>4
<1>12. ASSUME NEW m \in DOMAIN last, ~Pending(m)'
       PROVE  Settled(m, last[m])'
  <2>1. PICK d : d = last[m] /\ d = last'[m]
    BY <1>3
  <2> SUFFICES Settled(m, d)'
    BY <2>1 DEF Settled
  <2>2. CASE Waits(f, m)
    <3>1. ReportAt(stream, f) = d /\ d.mmsi = m /\ d.type \in {1, 4} /\ shipd' = d
      BY <1>7, <1>9, <1>10, <1>12, <2>1, <2>2 DEF Decodes
    <3>2. updateship(d)
      BY <1>9, <1>10, <2>2, <3>1 DEF Decodes
    <3> QED
      BY <3>1, <3>2, UpdateSettles
  <2>3. CASE ~Waits(f, m)
    <3>1. Settled(m, d)
      BY <1>6, <1>12, <2>1, <2>3 DEF LatestInv
    <3>2. CASE UNCHANGED ships
      BY <3>1, <3>2 DEF Settled
    <3>3. CASE updateship(shipd') /\ shipd'.type \in {1, 4}
      <4>1. PICK e : e = shipd'
        OBVIOUS
      <4>2. m = e.mmsi => e = d
        <5> SUFFICES ASSUME m = e.mmsi PROVE e = d
          OBVIOUS
        <5>1. ~Pending(shipd.mmsi)'
          BY <1>12, <4>1 DEF Pending, Coming, Waits, IsHeader
        <5> QED
          BY <1>3, <1>11, <2>1, <3>3, <4>1, <5>1 DEF AgainInv
      <4>3. updateship(e)
        BY <3>3, <4>1
      <4> QED
        BY <3>1, <4>2, <4>3, UpdateSettles
    <3> QED
      BY <1>4, <3>2, <3>3 DEF Decodes
  <2> QED
    BY <2>2, <2>3
<1>13. LatestInv'
  <2> SUFFICES ASSUME NEW m \in DOMAIN last'
               PROVE  /\ Coming(m)' => ReportAt(Head(todo'), 1) = last'[m]
                      /\ ~Coming(m)' =>
                           \A i \in 1 .. Len(stream') :
                             Waits(i, m)' /\ (\A j \in i + 1 .. Len(stream') : ~Waits(j, m)') =>
                               ReportAt(stream', i) = last'[m]
                      /\ ~Pending(m)' => Settled(m, last[m])'
    BY DEF LatestInv, ReportAt
  <2>1. m \in DOMAIN last /\ last' = last /\ todo' = todo
    BY <1>3
  <2>2. Coming(m)' => ReportAt(Head(todo'), 1) = last'[m]
    BY <1>5, <2>1 DEF LatestInv
  <2>3. ASSUME ~Coming(m)', NEW i \in 1 .. Len(stream'), Waits(i, m)',
               \A j \in i + 1 .. Len(stream') : ~Waits(j, m)'
        PROVE  ReportAt(stream', i) = last[m]
    <3>1. Waits(i + n, m) /\ ReportAt(stream', i) = ReportAt(stream, i + n)
      BY <1>1, <1>2, <2>3, UnreadWaits
    <3>2. ASSUME NEW j \in i + n + 1 .. Len(stream) PROVE ~Waits(j, m)
      <4>1. PICK k \in 1 .. Len(stream') : j = k + n /\ k \in i + 1 .. Len(stream')
        <5>1. j - n \in 1 .. Len(stream') /\ j = j - n + n /\ j - n \in i + 1 .. Len(stream')
          BY <1>3
        <5> QED
          BY <5>1
      <4> QED
        BY <1>1, <1>2, <2>3, <4>1, UnreadWaits
    <3>3. i + n \in 1 .. Len(stream)
      BY <1>3
    <3> QED
      BY <1>5, <2>1, <2>3, <3>1, <3>2, <3>3 DEF LatestInv
  <2> QED
    BY <1>12, <2>1, <2>2, <2>3
<1>14. RestInv'
  <2>1. ASSUME NEW i \in 1 .. Len(stream') + 1, Follows(i + n) PROVE Follows(i)'
    <3>1. PICK k \in Nat : k = i + n
      BY <1>3
    <3>2. /\ k > 5 /\ IsHeader(stream, k - 5) /\ stream[k - 5].num = 1 /\ stream[k - 4].v = 5
      <4>1. k # 1
        BY <1>3, <3>1
      <4> QED
        BY <2>1, <3>1, <4>1 DEF Follows
    <3>3. CASE k - 5 > n
      <4>1. /\ i # 1 /\ i > 5 /\ i - 5 + n = k - 5 /\ i - 4 + n = k - 4
            /\ i - 5 \in 1 .. Len(stream') /\ i - 4 \in 1 .. Len(stream')
        BY <1>3, <3>1, <3>3
      <4>2. stream'[i - 5] = stream[k - 5] /\ stream'[i - 4] = stream[k - 4]
        BY <1>3, <4>1
      <4> QED
        BY <3>2, <4>1, <4>2 DEF Follows, IsHeader
    <3>4. CASE k - 5 <= n
      <4>1. k - 5 \in 1 .. n
        BY <1>3, <3>1, <3>2, <3>4, SMTT(30)
      <4>2. k - 5 = f
        BY <1>4, <3>2, <4>1
      <4>3. stream[f].num = 1 /\ f + 4 <= n
        BY <1>4, <3>2, <4>2
      <4>4. i = 1 /\ k - 4 = f + 1
        BY <1>3, <3>1, <4>2, <4>3
      <4>5. ReportAt(aisline', 0) = ReportAt(stream, f)
        BY <1>9, <4>3 DEF Decodes
      <4>6. ReportAt(aisline', 0).type = aisline'[1].v /\ ReportAt(stream, f).type = stream[f + 1].v
        BY DEF ReportAt, Report
      <4>7. aisline'[1].v = 5
        BY <3>2, <4>4, <4>5, <4>6
      <4> QED
        BY <4>4, <4>7 DEF Follows
    <3> QED
      BY <1>3, <3>1, <3>3, <3>4
  <2>2. ASSUME NEW i \in 1 .. Len(stream'), IsHeader(stream', i), stream'[i].num = 2
        PROVE  Follows(i)'
    <3>1. i + n \in 1 .. Len(stream) /\ stream'[i] = stream[i + n] /\ i \in 1 .. Len(stream') + 1
      BY <1>3
    <3>2. Follows(i + n)
      BY <2>2, <3>1 DEF RestInv, IsHeader
    <3> QED
      BY <2>1, <3>1, <3>2
  <2>3. ASSUME todo' # <<>>, Head(todo')[1].num = 2 PROVE Follows(Len(stream) + 1)'
    <3>1. PICK k : k = Len(stream') + 1
      OBVIOUS
    <3>2. k + n = Len(stream) + 1 /\ k \in 1 .. Len(stream') + 1
      BY <1>3, <3>1
    <3>3. Follows(k)'
      BY <1>3, <2>1, <2>3, <3>2 DEF RestInv
    <3> QED
      BY <3>1, <3>3 DEF Follows, IsHeader
  <2> QED
    BY <2>2, <2>3 DEF RestInv, IsHeader
<1> QED
  BY <1>11, <1>13, <1>14

(***************************************************************************)
(* While the GUI keeps up, the last report of every ship is the last one   *)
(* on its way to the map or is on the map, if that has room.               *)
(***************************************************************************)
THEOREM LatestInvariant == Spec => []UpToDate
<1>1. Init => UpToDate
  <2> SUFFICES ASSUME Init PROVE UpToDate
    OBVIOUS
  <2>1. DOMAIN ships = {} /\ DOMAIN last = {} /\ stream = <<>> /\ todo = <<>>
    BY DEF Init
  <2>2. SizeInv
    BY <2>1, FS_EmptySet, GuiAssumption DEF SizeInv
  <2>3. LatestInv /\ AgainInv /\ RestInv
    BY <2>1 DEF LatestInv, AgainInv, RestInv
  <2> QED
    BY <2>2, <2>3 DEF UpToDate
<1>2. GuiInv /\ UpToDate /\ [Next]_vars => UpToDate'
  <2> SUFFICES ASSUME GuiInv, UpToDate, [Next]_vars PROVE UpToDate'
    OBVIOUS
  <2>1. SizeInv'
    BY SizeKept DEF UpToDate, GuiInv, StreamInv
  <2> SUFFICES ASSUME ~cut', ~behind' PROVE LatestInv' /\ AgainInv' /\ RestInv'
    BY <2>1 DEF UpToDate
  <2>2. SizeInv /\ (~cut /\ ~behind => LatestInv /\ AgainInv /\ RestInv)
    BY DEF UpToDate
  <2>3. CASE \E t \in {1, 4, 5, 18}, s \in Ships, p \in Positions : Message(t, s, p)
    <3>1. PICK t \in Types, s \in Ships, p \in Positions : Message(t, s, p)
      BY <2>3 DEF Types
    <3>2. ~cut /\ ~behind
      BY <3>1 DEF Message
    <3> QED
      BY <2>2, <3>1, <3>2, MessageKeepsLatest
  <2>4. CASE ipc_write
    <3>1. ~cut /\ ~behind
      BY <2>4 DEF ipc_write
    <3> QED
      BY <2>2, <2>4, <3>1, WriteKeepsLatest
  <2>5. CASE threaden
    <3>1. ~cut /\ ~behind
      BY <2>5, ThreadReads, Zenon DEF Reads, GuiInv, StreamInv
    <3> QED
      BY <2>2, <2>5, <3>1, ReadKeepsLatest
  <2>6. CASE UNCHANGED vars
    <3>1. ~cut /\ ~behind /\ UNCHANGED <<todo, stream, previoussentence, aisline, shipd, ships, last>>
      BY <2>6 DEF vars
    <3>2. LatestInv /\ AgainInv /\ RestInv
      BY <2>2, <3>1
    <3>3. LatestInv'
      BY <3>1, <3>2 DEF LatestInv, Coming, Waits, Pending, Settled, IsHeader, ReportAt
    <3>4. AgainInv'
      BY <3>1, <3>2 DEF AgainInv, Coming, Waits, Pending, IsHeader
    <3>5. RestInv'
      BY <3>1, <3>2 DEF RestInv, Follows, IsHeader
    <3> QED
      BY <3>3, <3>4, <3>5
  <2> QED
    BY <2>3, <2>4, <2>5, <2>6 DEF Next
<1> QED
  BY <1>1, <1>2, GuiInvariant, PTL DEF Spec

(***************************************************************************)
(* Once it has read what was written, a GUI that took the sentences one by *)
(* one shows every ship where it last was, as far as updateship() has      *)
(* room.                                                                   *)
(***************************************************************************)
THEOREM LatestShown == Spec => []ShowsLatest
<1>1. UpToDate => ShowsLatest
  <2> SUFFICES ASSUME UpToDate, ~behind, ~cut, todo = <<>>, stream = <<>>, NEW m \in DOMAIN last
               PROVE  Settled(m, last[m])
    BY DEF ShowsLatest, Settled
  <2>1. ~Pending(m)
    BY DEF Pending, Coming
  <2> QED
    BY <2>1 DEF UpToDate, LatestInv
<1> QED
  BY <1>1, LatestInvariant, PTL
=============================================================================
