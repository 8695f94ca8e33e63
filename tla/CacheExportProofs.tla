------------------------- MODULE CacheExportProofs --------------------------
(***************************************************************************)
(* The ship cache and its export, for any vessels, uplinks and number of   *)
(* messages and any interleaving of the two threads: nothing is used after *)
(* it is freed, an uplink gets newer facts only, a document is current,    *)
(* and no fact vanishes.                                                   *)
(***************************************************************************)
EXTENDS CacheExport, SequenceTheorems, WellFoundedInduction, TLAPS

Requests == [mmsi : Vessels, write : [fields : SUBSET Fields, gotpos : BOOLEAN]]

\* The main thread in a cache call: it holds the mutex, and e is in the live tree.
InCall ==
  /\ mutex = "main" /\ calls # <<>>
  /\ ent = <<cache_spt, Head(calls).mmsi>>
  /\ Head(calls).mmsi \in DOMAIN tree[cache_spt]

(***************************************************************************)
(* Who has which tree.  The mutex is what keeps the exporter from taking   *)
(* the tree while ent points into it; the join is what keeps cache_deinit  *)
(* from freeing anything while the exporter runs.                          *)
(***************************************************************************)
TreesInv ==
  /\ calls \in Seq(Requests)
  /\ main \in {"decode", "join", "deinit", "exit"}
  /\ main # "decode" => calls = <<>>
  /\ main \in {"deinit", "exit"} => exporter = "dead"
  /\ ent # None => InCall
  /\ cache_spt \in Tree
  /\ sp \in (Tree \ {cache_spt}) \cup {None}
  /\ sp # None <=> exporter = "walk"
  /\ DOMAIN tree = (IF main = "exit" THEN {} ELSE {cache_spt}) \cup (IF sp = None THEN {} ELSE {sp})
  /\ \A t \in DOMAIN tree : DOMAIN tree[t] \subseteq Vessels

IsEntry(e) == DOMAIN e = Fields \cup {"gotpos"} /\ \A f \in Fields : e[f] \in Nat

\* What is said about a vessel is numbered by messages; what the message being
\* decoded will say is new, and each of its calls says something else.
ValuesInv ==
  /\ serial \in Nat
  /\ heard \in [Vessels -> [Fields -> Nat]] /\ asked \in [Vessels -> [Fields -> Nat]]
  /\ \A m \in Vessels, f \in Fields : asked[m][f] <= heard[m][f] /\ heard[m][f] <= serial
  /\ \A t \in DOMAIN tree : \A m \in DOMAIN tree[t] : IsEntry(tree[t][m])
  /\ \A i \in 1 .. Len(calls) : \A f \in calls[i].write.fields :
       heard[calls[i].mmsi][f] < serial
  /\ \A i, j \in 1 .. Len(calls) :
       i # j => calls[i].write.fields \cap calls[j].write.fields = {}

\* The live tree has the newest facts, and only those since the last rotation.
LiveInv ==
  main # "exit" =>
    \A m \in DOMAIN tree[cache_spt], f \in Fields :
      LET n == tree[cache_spt][m][f]
      IN  n # 0 => n = heard[m][f] /\ n > asked[m][f]

Facts == [mmsi : Vessels, field : Fields, serial : Nat]

\* Documents that uplink u got say less of m and f than serial number n.
Older(u, m, f, n) ==
  \A i \in 1 .. Len(sent[u]) : \A x \in sent[u][i] :
    x.mmsi = m /\ x.field = f => x.serial < n

\* The tree that is exported, and the document, have the facts of the rotation,
\* which no uplink has had, but for those that were just posted to.
DocumentInv ==
  /\ up \in 1 .. Uplinks + 1
  /\ exporter # "post" => up = 1
  /\ exporter \notin {"walk", "post"} => json = {}
  /\ sp # None =>
       \A m \in DOMAIN tree[sp], f \in Fields :
         LET n == tree[sp][m][f]
         IN  n # 0 => n = asked[m][f] /\ \A u \in 1 .. Uplinks : Older(u, m, f, n)
  /\ json \subseteq Facts
  /\ \A x \in json :
       /\ x.serial = asked[x.mmsi][x.field]
       /\ \A u \in up .. Uplinks : Older(u, x.mmsi, x.field, x.serial)

\* Uplinks have old facts.
SentInv ==
  /\ sent \in [1 .. Uplinks -> Seq(SUBSET Facts)]
  /\ \A u \in 1 .. Uplinks : \A i \in 1 .. Len(sent[u]) : \A x \in sent[u][i] :
       x.serial <= asked[x.mmsi][x.field]

FactsInv == ValuesInv /\ LiveInv /\ DocumentInv /\ SentInv /\ SentInOrder

-----------------------------------------------------------------------------
(* Lemmas about the data                                                   *)

(***************************************************************************)
(* A walk finds the entry with the least MMSI.                             *)
(***************************************************************************)
LEMMA LeastExists ==
  ASSUME NEW T \in SUBSET Nat, T # {}
  PROVE  (CHOOSE k \in T : \A l \in T : k <= l) \in T
<1> DEFINE R == {ss \in Nat \X Nat : ss[1] < ss[2]}
<1>1. IsWellFoundedOn(R, Nat)
  BY NatLessThanWellFounded DEF OpToRel
<1>2. \A x, y \in Nat : <<y, x>> \in R <=> y < x
  OBVIOUS
<1> HIDE DEF R
<1>3. PICK x \in T : \A y \in T : ~(<<y, x>> \in R)
  BY <1>1, WFMin
<1>4. ASSUME NEW y \in T PROVE x <= y
  <2>1. ~(y < x)
    BY <1>2, <1>3
  <2> QED
    BY <2>1
<1> QED
  BY <1>4

(***************************************************************************)
(* A new entry says nothing.                                               *)
(***************************************************************************)
LEMMA NewEntrySilent == IsEntry(NewEntry) /\ \A f \in Fields : NewEntry[f] = 0
<1>1. "gotpos" \notin Fields
  BY DEF Fields
<1>2. DOMAIN NewEntry = Fields \cup {"gotpos"}
  BY DEF NewEntry
<1>3. \A f \in Fields : NewEntry[f] = 0
  BY <1>1 DEF NewEntry
<1> QED
  BY <1>2, <1>3 DEF IsEntry

(***************************************************************************)
(* A cache call sets its fields to the serial number of the message and    *)
(* keeps the others.                                                       *)
(***************************************************************************)
LEMMA WrittenFields ==
  ASSUME NEW e, NEW c, IsEntry(e), serial \in Nat
  PROVE  /\ IsEntry(Written(e, c))
         /\ \A f \in Fields : Written(e, c)[f] = IF f \in c.fields THEN serial ELSE e[f]
<1>1. "gotpos" \notin Fields
  BY DEF Fields
<1>2. DOMAIN Written(e, c) = Fields \cup {"gotpos"}
  BY DEF Written, IsEntry
<1>3. \A f \in Fields : Written(e, c)[f] = IF f \in c.fields THEN serial ELSE e[f]
  BY <1>1 DEF Written, IsEntry
<1> QED
  BY <1>2, <1>3 DEF IsEntry

(***************************************************************************)
(* The calls that a message leads to: one or two, for the fields of the    *)
(* message, each field by one call.                                        *)
(***************************************************************************)
LEMMA MessageRequests ==
  ASSUME NEW m \in Vessels, NEW c \in MessageCalls
  PROVE  LET q == [i \in DOMAIN c |-> [mmsi |-> m, write |-> c[i]]]
         IN  /\ q \in Seq(Requests)
             /\ \A i \in 1 .. Len(q) : q[i].mmsi = m /\ q[i].write.fields \subseteq Fields
             /\ \A i, j \in 1 .. Len(q) :
                  i # j => q[i].write.fields \cap q[j].write.fields = {}
<1> DEFINE Writes == [fields : SUBSET Fields, gotpos : BOOLEAN]
           q == [i \in DOMAIN c |-> [mmsi |-> m, write |-> c[i]]]
           Good ==
             /\ q \in Seq(Requests)
             /\ \A i \in 1 .. Len(q) : q[i].mmsi = m /\ q[i].write.fields \subseteq Fields
             /\ \A i, j \in 1 .. Len(q) :
                  i # j => q[i].write.fields \cap q[j].write.fields = {}
<1>1. \/ \E w \in Writes : c = <<w>>
      \/ \E w, v \in Writes : c = <<w, v>> /\ w.fields \cap v.fields = {}
  <2>1. /\ cache_position(TRUE) \in Writes /\ cache_position(FALSE) \in Writes
        /\ cache_vesseldata \in Writes /\ cache_vesseldatab \in Writes
        /\ cache_vesselname \in Writes /\ cache_vesseldatabb \in Writes
        /\ cache_vessel_persons \in Writes
    BY DEF Call, cache_position, cache_vesseldata, cache_vesseldatab,
           cache_vesseldatabb, cache_vesselname, cache_vessel_persons, Fields
  <2>2. cache_vesselname.fields \cap cache_vesseldatabb.fields = {}
    BY DEF Call, cache_vesselname, cache_vesseldatabb
  <2> HIDE DEF Writes
  <2> QED
    BY <2>1, <2>2 DEF MessageCalls
<1>2. CASE \E w \in Writes : c = <<w>>
  <2>1. PICK w \in Writes : c = <<w>>
    BY <1>2
  <2>2. q = <<[mmsi |-> m, write |-> w]>>
    BY <2>1
  <2>3. [mmsi |-> m, write |-> w] \in Requests
    BY <2>1 DEF Requests
  <2>4. q \in Seq(Requests) /\ Len(q) = 1 /\ q[1] = [mmsi |-> m, write |-> w]
    BY <2>2, <2>3
  <2>5. Good
    <3> HIDE DEF q
    <3> QED
      BY <2>1, <2>4
  <2> QED
    BY <2>5
<1>3. CASE \E w, v \in Writes : c = <<w, v>> /\ w.fields \cap v.fields = {}
  <2>1. PICK w \in Writes, v \in Writes : c = <<w, v>> /\ w.fields \cap v.fields = {}
    BY <1>3
  <2>2. q = <<[mmsi |-> m, write |-> w], [mmsi |-> m, write |-> v]>>
    BY <2>1
  <2>3. [mmsi |-> m, write |-> w] \in Requests /\ [mmsi |-> m, write |-> v] \in Requests
    BY <2>1 DEF Requests
  <2>4. /\ q \in Seq(Requests) /\ Len(q) = 2
        /\ q[1] = [mmsi |-> m, write |-> w] /\ q[2] = [mmsi |-> m, write |-> v]
    BY <2>2, <2>3
  <2>5. w.fields \subseteq Fields /\ v.fields \subseteq Fields
    BY <2>1
  <2>6. Good
    <3> HIDE DEF q
    <3>1. \A i \in 1 .. Len(q) : i = 1 \/ i = 2
      BY <2>4
    <3> QED
      BY <2>1, <2>4, <2>5, <3>1
  <2> QED
    BY <2>6
<1> QED
  BY <1>1, <1>2, <1>3

(***************************************************************************)
(* What is left of the calls after the first one.                          *)
(***************************************************************************)
LEMMA NextRequests ==
  ASSUME calls \in Seq(Requests), calls # <<>>
  PROVE  /\ Head(calls) \in Requests /\ Head(calls) = calls[1] /\ 1 \in 1 .. Len(calls)
         /\ Tail(calls) \in Seq(Requests)
         /\ \A i \in 1 .. Len(Tail(calls)) :
              i + 1 \in 1 .. Len(calls) /\ i + 1 # 1 /\ Tail(calls)[i] = calls[i + 1]
  BY HeadTailProperties

-----------------------------------------------------------------------------
(* What the steps do to the trees                                          *)

(***************************************************************************)
(* cache_get() adds an entry that says nothing to the live tree, if the    *)
(* vessel has none.                                                        *)
(***************************************************************************)
LEMMA GetEffect ==
  ASSUME TreesInv, cache_get
  PROVE  LET m == Head(calls).mmsi
         IN  /\ main = "decode" /\ cache_spt \in DOMAIN tree /\ m \in Vessels
             /\ DOMAIN tree' = DOMAIN tree
             /\ \A t \in DOMAIN tree \ {cache_spt} : tree'[t] = tree[t]
             /\ DOMAIN tree'[cache_spt] = DOMAIN tree[cache_spt] \cup {m}
             /\ \A k \in DOMAIN tree[cache_spt] : tree'[cache_spt][k] = tree[cache_spt][k]
             /\ m \notin DOMAIN tree[cache_spt] => tree'[cache_spt][m] = NewEntry
<1> DEFINE m == Head(calls).mmsi
<1>1. calls \in Seq(Requests) /\ calls # <<>> /\ main = "decode"
  BY DEF TreesInv, cache_get
<1>2. m \in Vessels
  BY <1>1, NextRequests DEF Requests
<1>3. cache_spt \in DOMAIN tree
  BY <1>1 DEF TreesInv
<1>4. tree' = IF m \in DOMAIN tree[cache_spt] THEN tree
              ELSE [tree EXCEPT ![cache_spt] = Extended(tree[cache_spt], m, NewEntry)]
  BY DEF cache_get
<1> HIDE DEF m
<1>5. CASE m \in DOMAIN tree[cache_spt]
  BY <1>1, <1>2, <1>3, <1>4, <1>5 DEF m
<1>6. CASE m \notin DOMAIN tree[cache_spt]
  <2>1. tree' = [tree EXCEPT ![cache_spt] = Extended(tree[cache_spt], m, NewEntry)]
    BY <1>4, <1>6
  <2>2. /\ DOMAIN tree' = DOMAIN tree /\ \A t \in DOMAIN tree \ {cache_spt} : tree'[t] = tree[t]
        /\ tree'[cache_spt] = Extended(tree[cache_spt], m, NewEntry)
    BY <1>3, <2>1
  <2>3. /\ DOMAIN tree'[cache_spt] = DOMAIN tree[cache_spt] \cup {m}
        /\ \A k \in DOMAIN tree[cache_spt] : tree'[cache_spt][k] = tree[cache_spt][k]
        /\ tree'[cache_spt][m] = NewEntry
    BY <1>6, <2>2 DEF Extended
  <2> QED
    BY <1>1, <1>2, <1>3, <2>2, <2>3 DEF m
<1> QED
  BY <1>5, <1>6

(***************************************************************************)
(* A cache call writes to its entry of the live tree.                      *)
(***************************************************************************)
LEMMA StoreEffect ==
  ASSUME TreesInv, cache_store
  PROVE  LET m == Head(calls).mmsi
         IN  /\ main = "decode" /\ calls # <<>> /\ cache_spt \in DOMAIN tree
             /\ m \in DOMAIN tree[cache_spt] /\ m \in Vessels /\ ent[2] = m
             /\ DOMAIN tree' = DOMAIN tree
             /\ \A t \in DOMAIN tree \ {cache_spt} : tree'[t] = tree[t]
             /\ DOMAIN tree'[cache_spt] = DOMAIN tree[cache_spt]
             /\ \A k \in DOMAIN tree[cache_spt] :
                  tree'[cache_spt][k] = IF k = m THEN Written(tree[cache_spt][m], Head(calls).write)
                                        ELSE tree[cache_spt][k]
<1> DEFINE m == Head(calls).mmsi
           w == Written(tree[cache_spt][m], Head(calls).write)
<1>1. InCall /\ calls \in Seq(Requests)
  BY DEF TreesInv, cache_store
<1>2. /\ calls # <<>> /\ ent[1] = cache_spt /\ ent[2] = m
      /\ m \in DOMAIN tree[cache_spt]
  BY <1>1 DEF InCall
<1>3. main = "decode" /\ cache_spt \in DOMAIN tree
  BY <1>2 DEF TreesInv
<1>4. m \in Vessels
  BY <1>1, <1>2, NextRequests DEF Requests
<1>5. tree' = [tree EXCEPT ![cache_spt] = [tree[cache_spt] EXCEPT ![m] = w]]
  BY <1>2 DEF cache_store
<1> HIDE DEF m, w
<1>6. /\ DOMAIN tree' = DOMAIN tree /\ \A t \in DOMAIN tree \ {cache_spt} : tree'[t] = tree[t]
      /\ tree'[cache_spt] = [tree[cache_spt] EXCEPT ![m] = w]
  BY <1>3, <1>5
<1>7. /\ DOMAIN tree'[cache_spt] = DOMAIN tree[cache_spt]
      /\ \A k \in DOMAIN tree[cache_spt] :
           tree'[cache_spt][k] = IF k = m THEN w ELSE tree[cache_spt][k]
  BY <1>2, <1>6
<1> QED
  BY <1>2, <1>3, <1>4, <1>6, <1>7 DEF m, w

(***************************************************************************)
(* cache_rotate() makes the live tree the exporter's, and an empty one the *)
(* live one; nobody is in a cache call then.                               *)
(***************************************************************************)
LEMMA RotateEffect ==
  ASSUME TreesInv, cache_rotate
  PROVE  /\ main \notin {"deinit", "exit"} /\ ent = None /\ sp = None
         /\ DOMAIN tree = {cache_spt} /\ sp' = cache_spt
         /\ cache_spt' \in Tree \ {cache_spt}
         /\ DOMAIN tree' = {cache_spt, cache_spt'}
         /\ tree'[cache_spt] = tree[cache_spt] /\ DOMAIN tree'[cache_spt'] = {}
<1>1. main \notin {"deinit", "exit"} /\ sp = None /\ cache_spt \in Tree
  BY DEF TreesInv, cache_rotate
<1>2. ent = None
  BY CacheExportAssumption DEF TreesInv, InCall, cache_rotate
<1>3. DOMAIN tree = {cache_spt}
  BY <1>1 DEF TreesInv
<1>4. \E t : t \in Tree \ DOMAIN tree
  BY <1>1, <1>3 DEF Tree
<1>5. cache_spt' \in Tree \ DOMAIN tree
  BY <1>4 DEF cache_rotate
<1>6. tree' = Extended(tree, cache_spt', NoEntries) /\ sp' = cache_spt
  BY DEF cache_rotate
<1>7. /\ DOMAIN tree' = DOMAIN tree \cup {cache_spt'}
      /\ tree'[cache_spt] = tree[cache_spt] /\ tree'[cache_spt'] = NoEntries
  BY <1>3, <1>5, <1>6 DEF Extended
<1> QED
  BY <1>1, <1>2, <1>3, <1>5, <1>6, <1>7 DEF NoEntries

(***************************************************************************)
(* A pass of the walk takes one entry out of the exporter's tree.          *)
(***************************************************************************)
LEMMA EntryEffect ==
  ASSUME TreesInv, ExportEntry
  PROVE  /\ sp # None /\ sp \in DOMAIN tree
         /\ \E m \in DOMAIN tree[sp] :
              /\ json' = json \cup Exported(m, tree[sp][m])
              /\ DOMAIN tree' = DOMAIN tree
              /\ \A t \in DOMAIN tree \ {sp} : tree'[t] = tree[t]
              /\ DOMAIN tree'[sp] = DOMAIN tree[sp] \ {m}
              /\ \A k \in DOMAIN tree[sp] \ {m} : tree'[sp][k] = tree[sp][k]
<1> DEFINE m == CHOOSE k \in DOMAIN tree[sp] : \A l \in DOMAIN tree[sp] : k <= l
<1>1. sp # None /\ sp \in DOMAIN tree /\ DOMAIN tree[sp] # {}
  BY DEF TreesInv, ExportEntry
<1>2. DOMAIN tree[sp] \in SUBSET Nat
  BY <1>1, CacheExportAssumption DEF TreesInv
<1>3. m \in DOMAIN tree[sp]
  BY <1>1, <1>2, LeastExists
<1>4. /\ json' = json \cup Exported(m, tree[sp][m])
      /\ tree' = [tree EXCEPT ![sp] = Restrict(tree[sp], DOMAIN tree[sp] \ {m})]
  BY DEF ExportEntry
<1> HIDE DEF m
<1>5. /\ DOMAIN tree' = DOMAIN tree /\ \A t \in DOMAIN tree \ {sp} : tree'[t] = tree[t]
      /\ tree'[sp] = Restrict(tree[sp], DOMAIN tree[sp] \ {m})
  BY <1>1, <1>4
<1>6. /\ DOMAIN tree'[sp] = DOMAIN tree[sp] \ {m}
      /\ \A k \in DOMAIN tree[sp] \ {m} : tree'[sp][k] = tree[sp][k]
  BY <1>5 DEF Restrict
<1> QED
  BY <1>1, <1>3, <1>4, <1>5, <1>6

(***************************************************************************)
(* At the end of a walk the tree that is freed has no entries left.        *)
(***************************************************************************)
LEMMA WalkedEffect ==
  ASSUME TreesInv, ExportWalked
  PROVE  /\ sp # None /\ sp \in DOMAIN tree /\ DOMAIN tree[sp] = {}
         /\ DOMAIN tree' = DOMAIN tree \ {sp}
         /\ \A t \in DOMAIN tree \ {sp} : tree'[t] = tree[t]
<1>1. sp # None /\ sp \in DOMAIN tree /\ DOMAIN tree[sp] = {}
  BY DEF TreesInv, ExportWalked
<1>2. tree' = Restrict(tree, DOMAIN tree \ {sp})
  BY DEF ExportWalked
<1> QED
  BY <1>1, <1>2 DEF Restrict

(***************************************************************************)
(* cache_deinit() frees the live tree, when the exporter has ended.        *)
(***************************************************************************)
LEMMA DeinitEffect ==
  ASSUME TreesInv, cache_deinit
  PROVE  /\ sp = None /\ ent = None
         /\ main' = "exit" /\ DOMAIN tree' = {}
<1>1. sp = None /\ calls = <<>> /\ DOMAIN tree = {cache_spt}
  BY DEF TreesInv, cache_deinit
<1>2. ent = None
  BY <1>1 DEF TreesInv, InCall
<1>3. tree' = Restrict(tree, DOMAIN tree \ {cache_spt}) /\ main' = "exit"
  BY DEF cache_deinit
<1> QED
  BY <1>1, <1>2, <1>3 DEF Restrict

-----------------------------------------------------------------------------
(* Who has which tree                                                      *)

(***************************************************************************)
(* No step of either thread disturbs the ownership of the trees.           *)
(***************************************************************************)
LEMMA TreesStay == TreesInv /\ [Next]_vars => TreesInv'
<1> SUFFICES ASSUME TreesInv, [Next]_vars PROVE TreesInv'
  OBVIOUS
<1>1. CASE protodec_getdata
  <2>1. calls' \in Seq(Requests)
    BY <1>1, MessageRequests DEF protodec_getdata
  <2>2. ent = None
    BY <1>1 DEF TreesInv, InCall, protodec_getdata
  <2> QED
    BY <1>1, <2>1, <2>2 DEF TreesInv, protodec_getdata, expVars
<1>2. CASE cache_get
  <2>1. InCall'
    <3>1. /\ mutex' = "main" /\ ent' = <<cache_spt, Head(calls).mmsi>>
          /\ calls # <<>> /\ calls' = calls /\ cache_spt' = cache_spt
      BY <1>2 DEF cache_get
    <3>2. Head(calls).mmsi \in DOMAIN tree'[cache_spt]
      BY <1>2, GetEffect
    <3> QED
      BY <3>1, <3>2 DEF InCall
  <2>2. \A t \in DOMAIN tree' : DOMAIN tree'[t] \subseteq Vessels
    BY <1>2, GetEffect DEF TreesInv
  <2> QED
    BY <1>2, <2>1, <2>2, GetEffect DEF TreesInv, cache_get, expVars
<1>3. CASE cache_store
  <2>1. calls' \in Seq(Requests) /\ ent' = None /\ main = "decode"
    BY <1>3, StoreEffect, NextRequests DEF TreesInv, cache_store
  <2>2. DOMAIN tree' = DOMAIN tree /\ \A t \in DOMAIN tree' : DOMAIN tree'[t] \subseteq Vessels
    BY <1>3, StoreEffect DEF TreesInv
  <2> QED
    BY <1>3, <2>1, <2>2 DEF TreesInv, cache_store, expVars
<1>4. CASE jsonout_deinit
  <2>1. ent = None
    BY <1>4 DEF TreesInv, InCall, jsonout_deinit
  <2> QED
    BY <1>4, <2>1 DEF TreesInv, jsonout_deinit, expVars
<1>5. CASE pthread_join
  <2>1. ent = None
    BY <1>5 DEF TreesInv, InCall, pthread_join
  <2> QED
    BY <1>5, <2>1 DEF TreesInv, pthread_join, expVars
<1>6. CASE cache_deinit
  BY <1>6, DeinitEffect DEF TreesInv, cache_deinit, expVars
<1>7. CASE jsonout_thread
  BY <1>7 DEF TreesInv, InCall, jsonout_thread, mainVars
<1>8. CASE cache_rotate
  <2>1. /\ cache_spt' \in Tree /\ sp' \in Tree \ {cache_spt'} /\ ent' = None /\ main' = main
        /\ calls' = calls /\ exporter' = "walk" /\ main \notin {"deinit", "exit"}
    BY <1>8, RotateEffect DEF TreesInv, cache_rotate, mainVars
  <2>2. \A t \in DOMAIN tree' : DOMAIN tree'[t] \subseteq Vessels
    BY <1>8, RotateEffect DEF TreesInv
  <2>3. sp' # None
    BY <2>1, CacheExportAssumption
  <2> QED
    BY <1>8, <2>1, <2>2, <2>3, RotateEffect DEF TreesInv
<1>9. CASE ExportEntry
  <2>1. /\ DOMAIN tree' = DOMAIN tree
        /\ cache_spt \in DOMAIN tree => tree'[cache_spt] = tree[cache_spt]
        /\ \A t \in DOMAIN tree' : DOMAIN tree'[t] \subseteq Vessels
    BY <1>9, EntryEffect DEF TreesInv
  <2> QED
    BY <1>9, <2>1 DEF TreesInv, InCall, ExportEntry, mainVars
<1>10. CASE ExportWalked
  BY <1>10, WalkedEffect DEF TreesInv, InCall, ExportWalked, mainVars
<1>11. ASSUME NEW accepted \in BOOLEAN, jsonout_post_single(accepted) PROVE TreesInv'
  BY <1>11 DEF TreesInv, InCall, jsonout_post_single, mainVars
<1>12. CASE jsonout_posted
  BY <1>12 DEF TreesInv, InCall, jsonout_posted, mainVars
<1>13. CASE UNCHANGED vars
  BY <1>13 DEF TreesInv, InCall, vars, mainVars, expVars
<1> QED
  BY <1>1, <1>2, <1>3, <1>4, <1>5, <1>6, <1>7, <1>8, <1>9, <1>10, <1>11, <1>12, <1>13
     DEF Next, MainStep, ExportStep

(***************************************************************************)
(* Who has which tree, in every reachable state.                           *)
(***************************************************************************)
THEOREM TreesInvariant == Spec => []TreesInv
<1>1. Init => TreesInv
  <2> SUFFICES ASSUME Init PROVE TreesInv
    OBVIOUS
  <2>1. calls \in Seq(Requests) /\ ent = None /\ sp = None /\ exporter = "sleep"
        /\ cache_spt = 1 /\ main = "decode"
    BY DEF Init
  <2>2. DOMAIN tree = {1} /\ DOMAIN tree[1] = {}
    BY DEF Init, NoEntries
  <2> QED
    BY <2>1, <2>2 DEF TreesInv, Tree
<1> QED
  BY <1>1, TreesStay, PTL DEF Spec

(***************************************************************************)
(* Neither thread uses a tree or an entry that the other has freed: the    *)
(* entry a cache call writes through e is allocated and in the live tree,  *)
(* whatever jsonout_export() and cache_deinit() do meanwhile.              *)
(***************************************************************************)
THEOREM TreesSafe == Spec => []NoUseAfterFree
<1>1. TreesInv => NoUseAfterFree
  <2> SUFFICES ASSUME TreesInv PROVE NoUseAfterFree
    OBVIOUS
  <2>1. ASSUME ent # None PROVE ent[1] = cache_spt /\ ent[2] \in DOMAIN tree[cache_spt] /\ main # "exit"
    BY <2>1 DEF TreesInv, InCall
  <2>2. main # "exit" => cache_spt \in DOMAIN tree
    BY DEF TreesInv
  <2>3. sp # None => sp \in DOMAIN tree
    BY DEF TreesInv
  <2>4. sp # cache_spt
    BY CacheExportAssumption DEF TreesInv
  <2> QED
    BY <2>1, <2>2, <2>3, <2>4 DEF NoUseAfterFree
<1> QED
  BY <1>1, TreesInvariant, PTL

-----------------------------------------------------------------------------
(* What the documents say                                                  *)

(***************************************************************************)
(* The JSON messages of an entry say what is in the entry.                 *)
(***************************************************************************)
LEMMA ExportedFacts ==
  ASSUME NEW m, NEW e, NEW x \in Exported(m, e)
  PROVE  \E f \in Fields : e[f] # 0 /\ x = Fact(m, f, e[f])
  BY DEF Exported, FactsOf, Fields

(***************************************************************************)
(* Steps of the main thread leave the exporter's facts alone.              *)
(***************************************************************************)
LEMMA ExportKept ==
  ASSUME FactsInv, UNCHANGED expVars, sp # None => tree'[sp] = tree[sp]
  PROVE  DocumentInv' /\ SentInv' /\ SentInOrder'
<1>1. UNCHANGED <<exporter, tick, sp, json, up, sent, asked>>
  BY DEF expVars
<1>2. DocumentInv'
  BY <1>1 DEF FactsInv, DocumentInv, Older
<1>3. SentInv' /\ SentInOrder'
  BY <1>1 DEF FactsInv, SentInv, SentInOrder
<1> QED
  BY <1>2, <1>3

(***************************************************************************)
(* A message is newer than all that was heard of the vessel before.        *)
(***************************************************************************)
LEMMA GetdataKeepsFacts == TreesInv /\ FactsInv /\ protodec_getdata => FactsInv'
<1> SUFFICES ASSUME TreesInv, FactsInv, protodec_getdata PROVE FactsInv'
  OBVIOUS
<1>1. /\ serial' = serial + 1 /\ UNCHANGED expVars
      /\ UNCHANGED <<main, heard, cache_spt, tree>>
  BY DEF protodec_getdata
<1>2. UNCHANGED <<asked, sp>>
  BY <1>1 DEF expVars
<1>3. PICK m \in Vessels :
        /\ calls' \in Seq(Requests)
        /\ \A i \in 1 .. Len(calls') : calls'[i].mmsi = m /\ calls'[i].write.fields \subseteq Fields
        /\ \A i, j \in 1 .. Len(calls') :
             i # j => calls'[i].write.fields \cap calls'[j].write.fields = {}
  <2>1. PICK m \in Vessels, c \in MessageCalls :
          calls' = [i \in DOMAIN c |-> [mmsi |-> m, write |-> c[i]]]
    BY DEF protodec_getdata
  <2>2. /\ calls' \in Seq(Requests)
        /\ \A i \in 1 .. Len(calls') : calls'[i].mmsi = m /\ calls'[i].write.fields \subseteq Fields
        /\ \A i, j \in 1 .. Len(calls') :
             i # j => calls'[i].write.fields \cap calls'[j].write.fields = {}
    <3> DEFINE q == [i \in DOMAIN c |-> [mmsi |-> m, write |-> c[i]]]
    <3>1. /\ q \in Seq(Requests)
          /\ \A i \in 1 .. Len(q) : q[i].mmsi = m /\ q[i].write.fields \subseteq Fields
          /\ \A i, j \in 1 .. Len(q) : i # j => q[i].write.fields \cap q[j].write.fields = {}
      BY MessageRequests
    <3>2. calls' = q
      BY <2>1
    <3> HIDE DEF q
    <3> QED
      BY <3>1, <3>2
  <2> QED
    BY <2>2
<1>4. ValuesInv'
  <2>1. /\ serial \in Nat /\ serial' \in Nat /\ heard \in [Vessels -> [Fields -> Nat]]
        /\ asked \in [Vessels -> [Fields -> Nat]]
    BY <1>1 DEF FactsInv, ValuesInv
  <2>2. ASSUME NEW k \in Vessels, NEW f \in Fields
        PROVE  asked[k][f] <= heard[k][f] /\ heard[k][f] <= serial' /\ heard[k][f] < serial'
    <3>1. asked[k][f] <= heard[k][f] /\ heard[k][f] <= serial /\ heard[k][f] \in Nat
      BY <2>1 DEF FactsInv, ValuesInv
    <3> QED
      BY <1>1, <2>1, <3>1
  <2>3. \A t \in DOMAIN tree' : \A k \in DOMAIN tree'[t] : IsEntry(tree'[t][k])
    BY <1>1 DEF FactsInv, ValuesInv
  <2>4. \A i \in 1 .. Len(calls') : \A f \in calls'[i].write.fields :
          heard'[calls'[i].mmsi][f] < serial'
    BY <1>1, <1>3, <2>2
  <2> QED
    BY <1>1, <1>2, <1>3, <2>1, <2>2, <2>3, <2>4 DEF ValuesInv
<1>5. LiveInv'
  BY <1>1, <1>2 DEF FactsInv, LiveInv
<1> QED
  BY <1>1, <1>4, <1>5, ExportKept DEF FactsInv

(***************************************************************************)
(* An entry that cache_get() installs says nothing yet.                    *)
(***************************************************************************)
LEMMA GetKeepsFacts == TreesInv /\ FactsInv /\ cache_get => FactsInv'
<1> SUFFICES ASSUME TreesInv, FactsInv, cache_get PROVE FactsInv'
  OBVIOUS
<1>1. UNCHANGED expVars /\ UNCHANGED <<serial, main, calls, heard, cache_spt>>
  BY DEF cache_get
<1>2. UNCHANGED <<asked, sp>>
  BY <1>1 DEF expVars
<1>3. ASSUME NEW t \in DOMAIN tree', NEW k \in DOMAIN tree'[t]
      PROVE  \/ t \in DOMAIN tree /\ k \in DOMAIN tree[t] /\ tree'[t][k] = tree[t][k]
             \/ tree'[t][k] = NewEntry
  BY GetEffect
<1>4. ValuesInv'
  <2>1. \A t \in DOMAIN tree' : \A k \in DOMAIN tree'[t] : IsEntry(tree'[t][k])
    BY <1>3, NewEntrySilent DEF FactsInv, ValuesInv
  <2> QED
    BY <1>1, <1>2, <2>1 DEF FactsInv, ValuesInv
<1>5. LiveInv'
  <2>1. cache_spt \in DOMAIN tree' /\ main # "exit"
    BY GetEffect
  <2> QED
    BY <1>1, <1>2, <1>3, <2>1, NewEntrySilent DEF FactsInv, LiveInv
<1>6. sp # None => tree'[sp] = tree[sp]
  BY GetEffect DEF TreesInv
<1> QED
  BY <1>1, <1>4, <1>5, <1>6, ExportKept DEF FactsInv

(***************************************************************************)
(* A cache call stores the newest value, and what the later calls of the   *)
(* message will say stays new.                                             *)
(***************************************************************************)
LEMMA StoreKeepsFacts == TreesInv /\ FactsInv /\ cache_store => FactsInv'
<1> SUFFICES ASSUME TreesInv, FactsInv, cache_store PROVE FactsInv'
  OBVIOUS
<1> DEFINE m == Head(calls).mmsi
           w == Head(calls).write
           e == tree[cache_spt][m]
<1>1. UNCHANGED expVars /\ UNCHANGED <<serial, main, cache_spt>> /\ calls' = Tail(calls)
  BY DEF cache_store
<1>2. UNCHANGED <<asked, sp>>
  BY <1>1 DEF expVars
<1>3. /\ main = "decode" /\ calls # <<>> /\ cache_spt \in DOMAIN tree
      /\ m \in DOMAIN tree[cache_spt] /\ m \in Vessels /\ ent[2] = m
      /\ DOMAIN tree' = DOMAIN tree
      /\ \A t \in DOMAIN tree \ {cache_spt} : tree'[t] = tree[t]
      /\ DOMAIN tree'[cache_spt] = DOMAIN tree[cache_spt]
      /\ \A k \in DOMAIN tree[cache_spt] :
           tree'[cache_spt][k] = IF k = m THEN Written(e, w) ELSE tree[cache_spt][k]
  BY StoreEffect
<1>4. /\ serial \in Nat /\ heard \in [Vessels -> [Fields -> Nat]]
      /\ asked \in [Vessels -> [Fields -> Nat]]
  BY DEF FactsInv, ValuesInv
<1>5. heard' = [heard EXCEPT ![m] = [f \in Fields |-> IF f \in w.fields THEN serial ELSE heard[m][f]]]
  BY <1>3 DEF cache_store
<1>6. calls \in Seq(Requests) /\ m = calls[1].mmsi /\ w = calls[1].write /\ 1 \in 1 .. Len(calls)
  BY <1>3, NextRequests DEF TreesInv
<1>7. \A f \in w.fields : heard[m][f] < serial
  BY <1>6 DEF FactsInv, ValuesInv
<1>8. IsEntry(e)
  BY <1>3 DEF FactsInv, ValuesInv
<1>9. /\ IsEntry(Written(e, w))
      /\ \A f \in Fields : Written(e, w)[f] = IF f \in w.fields THEN serial ELSE e[f]
  BY <1>4, <1>8, WrittenFields
<1>10. /\ \A i \in 1 .. Len(calls') : /\ i + 1 \in 1 .. Len(calls) /\ i + 1 # 1
                                      /\ calls'[i] = calls[i + 1] /\ calls[i + 1] \in Requests
       /\ \A i \in 1 .. Len(calls') : calls'[i].write.fields \subseteq Fields /\ calls'[i].mmsi \in Vessels
  <2>1. \A i \in 1 .. Len(calls') : /\ i + 1 \in 1 .. Len(calls) /\ i + 1 # 1
                                    /\ calls'[i] = calls[i + 1]
    BY <1>1, <1>3, <1>6, NextRequests
  <2>2. \A i \in 1 .. Len(calls) : calls[i] \in Requests
    BY <1>6
  <2> QED
    BY <2>1, <2>2 DEF Requests
<1> HIDE DEF m, w, e
<1>11. \A k \in Vessels, f \in Fields :
         heard'[k][f] = IF k = m /\ f \in w.fields THEN serial ELSE heard[k][f]
  BY <1>3, <1>4, <1>5
<1>12. ValuesInv'
  <2>1. heard' \in [Vessels -> [Fields -> Nat]]
    BY <1>3, <1>4, <1>5
  <2>2. ASSUME NEW k \in Vessels, NEW f \in Fields
        PROVE  asked[k][f] <= heard'[k][f] /\ heard'[k][f] <= serial
    <3>1. /\ asked[k][f] <= heard[k][f] /\ heard[k][f] <= serial
          /\ asked[k][f] \in Nat /\ heard[k][f] \in Nat
      BY <1>4 DEF FactsInv, ValuesInv
    <3> QED
      BY <1>4, <1>11, <3>1
  <2>3. \A t \in DOMAIN tree' : \A k \in DOMAIN tree'[t] : IsEntry(tree'[t][k])
    BY <1>3, <1>9, ZenonT(30) DEF FactsInv, ValuesInv
  <2>4. ASSUME NEW i \in 1 .. Len(calls'), NEW f \in calls'[i].write.fields
        PROVE  heard'[calls'[i].mmsi][f] < serial
    <3>1. i + 1 \in 1 .. Len(calls) /\ i + 1 # 1 /\ calls'[i] = calls[i + 1]
      BY <1>10
    <3>2. heard[calls'[i].mmsi][f] < serial
      BY <3>1 DEF FactsInv, ValuesInv
    <3>3. w.fields \cap calls'[i].write.fields = {}
      BY <1>6, <3>1 DEF FactsInv, ValuesInv
    <3>4. calls'[i].mmsi \in Vessels /\ f \in Fields /\ f \notin w.fields
      BY <1>10, <3>3
    <3> QED
      BY <1>11, <3>2, <3>4
  <2>5. ASSUME NEW i \in 1 .. Len(calls'), NEW j \in 1 .. Len(calls'), i # j
        PROVE  calls'[i].write.fields \cap calls'[j].write.fields = {}
    <3>1. /\ i + 1 \in 1 .. Len(calls) /\ calls'[i] = calls[i + 1]
          /\ j + 1 \in 1 .. Len(calls) /\ calls'[j] = calls[j + 1] /\ i + 1 # j + 1
      BY <1>10, <2>5
    <3> QED
      BY <3>1 DEF FactsInv, ValuesInv
  <2> QED
    BY <1>1, <1>2, <1>4, <2>1, <2>2, <2>3, <2>4, <2>5 DEF ValuesInv
<1>13. LiveInv'
  <2> SUFFICES ASSUME NEW k \in DOMAIN tree[cache_spt], NEW f \in Fields, tree'[cache_spt][k][f] # 0
               PROVE  tree'[cache_spt][k][f] = heard'[k][f] /\ tree'[cache_spt][k][f] > asked[k][f]
    BY <1>1, <1>2, <1>3 DEF LiveInv
  <2>1. k \in Vessels
    BY <1>3 DEF TreesInv
  <2>2. CASE k = m /\ f \in w.fields
    <3>1. tree'[cache_spt][k][f] = serial /\ heard'[k][f] = serial
      BY <1>3, <1>9, <1>11, <2>1, <2>2
    <3>2. /\ asked[k][f] <= heard[k][f] /\ heard[k][f] < serial
          /\ asked[k][f] \in Nat /\ heard[k][f] \in Nat
      BY <1>4, <1>7, <2>1, <2>2 DEF FactsInv, ValuesInv
    <3> QED
      BY <1>4, <3>1, <3>2
  <2>3. CASE ~(k = m /\ f \in w.fields)
    <3>1. tree'[cache_spt][k][f] = tree[cache_spt][k][f] /\ heard'[k][f] = heard[k][f]
      BY <1>3, <1>9, <1>11, <2>1, <2>3 DEF e
    <3> QED
      BY <1>3, <3>1 DEF FactsInv, LiveInv
  <2> QED
    BY <2>2, <2>3
<1>14. sp # None => tree'[sp] = tree[sp]
  BY <1>3 DEF TreesInv
<1> QED
  BY <1>1, <1>12, <1>13, <1>14, ExportKept DEF FactsInv

(***************************************************************************)
(* Steps that leave the values, the live tree and the calls alone.         *)
(***************************************************************************)
LEMMA LiveKept ==
  ASSUME FactsInv, UNCHANGED mainVars, UNCHANGED <<cache_spt, asked>>,
         main # "exit" => tree'[cache_spt] = tree[cache_spt],
         \A t \in DOMAIN tree' : \A k \in DOMAIN tree'[t] :
           t \in DOMAIN tree /\ k \in DOMAIN tree[t] /\ tree'[t][k] = tree[t][k]
  PROVE  ValuesInv' /\ LiveInv'
<1>1. UNCHANGED <<serial, main, calls, heard, cache_spt, asked>>
  BY DEF mainVars
<1>2. \A t \in DOMAIN tree' : \A k \in DOMAIN tree'[t] : IsEntry(tree'[t][k])
  BY DEF FactsInv, ValuesInv
<1>3. ValuesInv'
  BY <1>1, <1>2 DEF FactsInv, ValuesInv
<1>4. LiveInv'
  BY <1>1 DEF FactsInv, LiveInv
<1> QED
  BY <1>3, <1>4

(***************************************************************************)
(* cache_rotate(): the tree that is taken has what was heard of each       *)
(* vessel last, newer than what any uplink has been sent.                  *)
(***************************************************************************)
LEMMA RotateKeepsFacts == TreesInv /\ FactsInv /\ cache_rotate => FactsInv'
<1> SUFFICES ASSUME TreesInv, FactsInv, cache_rotate PROVE FactsInv'
  OBVIOUS
<1>1. /\ exporter = "rotate" /\ exporter' = "walk" /\ asked' = heard
      /\ UNCHANGED <<serial, main, calls, heard, json, up, sent>>
  BY DEF cache_rotate, mainVars
<1>2. /\ main # "exit" /\ DOMAIN tree = {cache_spt} /\ sp' = cache_spt
      /\ DOMAIN tree' = {cache_spt, cache_spt'}
      /\ tree'[cache_spt] = tree[cache_spt] /\ DOMAIN tree'[cache_spt'] = {}
  BY RotateEffect
<1>3. /\ heard \in [Vessels -> [Fields -> Nat]] /\ asked \in [Vessels -> [Fields -> Nat]]
      /\ \A m \in Vessels, f \in Fields : asked[m][f] <= heard[m][f] /\ heard[m][f] <= serial
      /\ serial \in Nat
  BY DEF FactsInv, ValuesInv
<1>4. /\ sent \in [1 .. Uplinks -> Seq(SUBSET Facts)]
      /\ \A u \in 1 .. Uplinks : \A i \in 1 .. Len(sent[u]) : \A x \in sent[u][i] :
           /\ x.mmsi \in Vessels /\ x.field \in Fields /\ x.serial \in Nat
           /\ x.serial <= asked[x.mmsi][x.field]
  <2>1. /\ sent \in [1 .. Uplinks -> Seq(SUBSET Facts)]
        /\ \A u \in 1 .. Uplinks : \A i \in 1 .. Len(sent[u]) : \A x \in sent[u][i] :
             x.serial <= asked[x.mmsi][x.field]
    BY DEF FactsInv, SentInv
  <2>2. \A u \in 1 .. Uplinks : \A i \in 1 .. Len(sent[u]) : \A x \in sent[u][i] : x \in Facts
    BY <2>1
  <2> QED
    BY <2>1, <2>2 DEF Facts
<1>5. ValuesInv'
  <2>1. \A t \in DOMAIN tree' : \A k \in DOMAIN tree'[t] : IsEntry(tree'[t][k])
    BY <1>2 DEF FactsInv, ValuesInv
  <2>2. \A m \in Vessels, f \in Fields : heard[m][f] <= heard[m][f]
    BY <1>3
  <2> QED
    BY <1>1, <1>3, <2>1, <2>2 DEF FactsInv, ValuesInv
<1>6. LiveInv'
  BY <1>2 DEF LiveInv
<1>7. DocumentInv'
  <2>1. ASSUME NEW m \in DOMAIN tree[cache_spt], NEW f \in Fields, tree[cache_spt][m][f] # 0
        PROVE  /\ tree[cache_spt][m][f] = heard[m][f]
               /\ \A u \in 1 .. Uplinks : Older(u, m, f, tree[cache_spt][m][f])
    <3>1. tree[cache_spt][m][f] = heard[m][f] /\ heard[m][f] > asked[m][f] /\ m \in Vessels
      BY <1>2, <2>1 DEF FactsInv, LiveInv, TreesInv
    <3>2. ASSUME NEW u \in 1 .. Uplinks, NEW i \in 1 .. Len(sent[u]), NEW x \in sent[u][i],
                 x.mmsi = m, x.field = f
          PROVE  x.serial < heard[m][f]
      <4>1. x.serial \in Nat /\ x.serial <= asked[m][f]
        BY <1>4, <3>2
      <4>2. asked[m][f] \in Nat /\ heard[m][f] \in Nat
        BY <1>3, <3>1
      <4> QED
        BY <3>1, <4>1, <4>2
    <3> QED
      BY <3>1, <3>2 DEF Older
  <2>2. json = {} /\ up = 1 /\ up \in 1 .. Uplinks + 1
    BY <1>1 DEF FactsInv, DocumentInv
  <2> QED
    BY <1>1, <1>2, <2>1, <2>2 DEF DocumentInv, Older
<1>8. SentInv'
  <2>1. ASSUME NEW u \in 1 .. Uplinks, NEW i \in 1 .. Len(sent[u]), NEW x \in sent[u][i]
        PROVE  x.serial <= heard[x.mmsi][x.field]
    <3>1. /\ x.mmsi \in Vessels /\ x.field \in Fields /\ x.serial \in Nat
          /\ x.serial <= asked[x.mmsi][x.field]
      BY <1>4
    <3>2. /\ asked[x.mmsi][x.field] <= heard[x.mmsi][x.field]
          /\ asked[x.mmsi][x.field] \in Nat /\ heard[x.mmsi][x.field] \in Nat
      BY <1>3, <3>1
    <3> QED
      BY <3>1, <3>2
  <2> QED
    BY <1>1, <1>4, <2>1 DEF SentInv
<1>9. SentInOrder'
  BY <1>1 DEF FactsInv, SentInOrder
<1> QED
  BY <1>5, <1>6, <1>7, <1>8, <1>9 DEF FactsInv

(***************************************************************************)
(* The document takes over the facts of an entry.                          *)
(***************************************************************************)
LEMMA EntryKeepsFacts == TreesInv /\ FactsInv /\ ExportEntry => FactsInv'
<1> SUFFICES ASSUME TreesInv, FactsInv, ExportEntry PROVE FactsInv'
  OBVIOUS
<1>1. /\ exporter = "walk" /\ UNCHANGED <<exporter, sp, up, sent, asked, cache_spt>>
      /\ UNCHANGED mainVars
  BY DEF ExportEntry
<1>2. sp # None /\ sp \in DOMAIN tree
  BY EntryEffect
<1>3. PICK m \in DOMAIN tree[sp] :
        /\ json' = json \cup Exported(m, tree[sp][m])
        /\ DOMAIN tree' = DOMAIN tree
        /\ \A t \in DOMAIN tree \ {sp} : tree'[t] = tree[t]
        /\ DOMAIN tree'[sp] = DOMAIN tree[sp] \ {m}
        /\ \A k \in DOMAIN tree[sp] \ {m} : tree'[sp][k] = tree[sp][k]
  BY EntryEffect
<1>4. ValuesInv' /\ LiveInv'
  <2>1. main # "exit" => tree'[cache_spt] = tree[cache_spt]
    BY <1>2, <1>3, CacheExportAssumption DEF TreesInv
  <2>2. \A t \in DOMAIN tree' : \A k \in DOMAIN tree'[t] :
          t \in DOMAIN tree /\ k \in DOMAIN tree[t] /\ tree'[t][k] = tree[t][k]
    BY <1>3
  <2> QED
    BY <1>1, <2>1, <2>2, LiveKept
<1>5. DocumentInv'
  <2>1. \A k \in DOMAIN tree[sp], f \in Fields :
          tree[sp][k][f] # 0 =>
            /\ tree[sp][k][f] = asked[k][f]
            /\ \A u \in 1 .. Uplinks : Older(u, k, f, tree[sp][k][f])
    BY <1>2 DEF FactsInv, DocumentInv
  <2>2. ASSUME NEW x \in Exported(m, tree[sp][m])
        PROVE  /\ x \in Facts
               /\ x.serial = asked[x.mmsi][x.field]
               /\ \A u \in 1 .. Uplinks : Older(u, x.mmsi, x.field, x.serial)
    <3>1. PICK f \in Fields : tree[sp][m][f] # 0 /\ x = Fact(m, f, tree[sp][m][f])
      BY ExportedFacts
    <3>2. m \in Vessels /\ tree[sp][m][f] \in Nat
      BY <1>2 DEF TreesInv, FactsInv, ValuesInv, IsEntry
    <3>3. x \in Facts /\ x.mmsi = m /\ x.field = f /\ x.serial = tree[sp][m][f]
      BY <3>1, <3>2 DEF Fact, Facts
    <3> QED
      BY <2>1, <3>1, <3>3
  <2>3. /\ up \in 1 .. Uplinks + 1 /\ up = 1
        /\ json \subseteq Facts
        /\ \A x \in json : /\ x.serial = asked[x.mmsi][x.field]
                           /\ \A u \in up .. Uplinks : Older(u, x.mmsi, x.field, x.serial)
    BY <1>1 DEF FactsInv, DocumentInv
  <2>4. \A x \in json' :
          /\ x \in Facts
          /\ x.serial = asked[x.mmsi][x.field]
          /\ \A u \in up .. Uplinks : Older(u, x.mmsi, x.field, x.serial)
    BY <1>3, <2>2, <2>3
  <2> QED
    BY <1>1, <1>2, <1>3, <2>1, <2>3, <2>4 DEF DocumentInv, Older
<1>6. SentInv' /\ SentInOrder'
  BY <1>1 DEF FactsInv, SentInv, SentInOrder
<1> QED
  BY <1>4, <1>5, <1>6 DEF FactsInv

(***************************************************************************)
(* At the end of the walk the document has all that will be posted.        *)
(***************************************************************************)
LEMMA WalkedKeepsFacts == TreesInv /\ FactsInv /\ ExportWalked => FactsInv'
<1> SUFFICES ASSUME TreesInv, FactsInv, ExportWalked PROVE FactsInv'
  OBVIOUS
<1>1. /\ exporter = "walk" /\ exporter' = (IF json = {} THEN "sleep" ELSE "post") /\ sp' = None
      /\ UNCHANGED <<json, up, sent, asked, cache_spt>> /\ UNCHANGED mainVars
  BY DEF ExportWalked
<1>2. ValuesInv' /\ LiveInv'
  <2>1. main # "exit" => tree'[cache_spt] = tree[cache_spt]
    BY WalkedEffect, CacheExportAssumption DEF TreesInv
  <2>2. \A t \in DOMAIN tree' : \A k \in DOMAIN tree'[t] :
          t \in DOMAIN tree /\ k \in DOMAIN tree[t] /\ tree'[t][k] = tree[t][k]
    BY WalkedEffect
  <2> QED
    BY <1>1, <2>1, <2>2, LiveKept
<1>3. DocumentInv'
  BY <1>1 DEF FactsInv, DocumentInv, Older
<1>4. SentInv' /\ SentInOrder'
  BY <1>1 DEF FactsInv, SentInv, SentInOrder
<1> QED
  BY <1>2, <1>3, <1>4 DEF FactsInv

(***************************************************************************)
(* A post, accepted or not: what the uplink gets is newer than what it     *)
(* has, and the uplinks after it still have older facts only.              *)
(***************************************************************************)
LEMMA PostKeepsFacts ==
  ASSUME TreesInv, FactsInv, NEW accepted \in BOOLEAN, jsonout_post_single(accepted)
  PROVE  FactsInv'
<1>1. /\ exporter = "post" /\ up <= Uplinks /\ up' = up + 1
      /\ sent' = IF accepted THEN [sent EXCEPT ![up] = Append(sent[up], json)] ELSE sent
      /\ UNCHANGED mainVars /\ UNCHANGED <<tree, exporter, sp, json, asked, cache_spt>>
  BY DEF jsonout_post_single
<1>2. /\ up \in 1 .. Uplinks + 1 /\ json \subseteq Facts /\ Uplinks \in Nat
      /\ \A x \in json : /\ x.serial = asked[x.mmsi][x.field]
                         /\ \A u \in up .. Uplinks : Older(u, x.mmsi, x.field, x.serial)
  BY CacheExportAssumption DEF FactsInv, DocumentInv
<1>3. sp = None /\ sp' = None
  BY <1>1 DEF TreesInv
<1>4. up \in 1 .. Uplinks /\ up \in up .. Uplinks /\ up' \in 1 .. Uplinks + 1
  BY <1>1, <1>2
<1>5. ValuesInv' /\ LiveInv'
  BY <1>1, LiveKept
<1>6. sent \in [1 .. Uplinks -> Seq(SUBSET Facts)]
  BY DEF FactsInv, SentInv
<1>7. sent' \in [1 .. Uplinks -> Seq(SUBSET Facts)]
  BY <1>1, <1>2, <1>4, <1>6
<1>8. \A u \in 1 .. Uplinks : u # up => sent'[u] = sent[u]
  BY <1>1, <1>6
<1>9. \A x \in json : x.serial = asked[x.mmsi][x.field] /\ x.serial <= asked[x.mmsi][x.field]
  <2>1. \A x \in json : x.serial \in Nat
    BY <1>2 DEF Facts
  <2> QED
    BY <1>2, <2>1
<1>10. \/ sent'[up] = sent[up]
       \/ /\ Len(sent'[up]) = Len(sent[up]) + 1 /\ Len(sent[up]) \in Nat
          /\ \A i \in 1 .. Len(sent[up]) : sent'[up][i] = sent[up][i]
          /\ sent'[up][Len(sent[up]) + 1] = json
  <2>1. sent[up] \in Seq(SUBSET Facts) /\ json \in SUBSET Facts
    BY <1>2, <1>4, <1>6
  <2>2. CASE accepted
    <3>1. sent'[up] = Append(sent[up], json)
      BY <1>1, <1>4, <1>6, <2>2
    <3> QED
      BY <2>1, <3>1
  <2> QED
    BY <1>1, <2>2
<1>11. DocumentInv'
  <2>1. ASSUME NEW x \in json, NEW u \in up + 1 .. Uplinks
        PROVE  Older(u, x.mmsi, x.field, x.serial)'
    <3>1. u \in up .. Uplinks /\ u \in 1 .. Uplinks /\ u # up
      BY <1>2
    <3>2. sent'[u] = sent[u] /\ Older(u, x.mmsi, x.field, x.serial)
      BY <1>2, <1>8, <3>1
    <3> QED
      BY <3>2 DEF Older
  <2> QED
    BY <1>1, <1>2, <1>3, <1>4, <2>1 DEF DocumentInv
<1>12. SentInv'
  <2>1. ASSUME NEW u \in 1 .. Uplinks, NEW i \in 1 .. Len(sent'[u]), NEW x \in sent'[u][i]
        PROVE  x.serial <= asked[x.mmsi][x.field]
    <3>1. CASE i \in 1 .. Len(sent[u]) /\ sent'[u][i] = sent[u][i]
      BY <3>1 DEF FactsInv, SentInv
    <3>2. CASE sent'[u][i] = json
      BY <1>9, <3>2
    <3> QED
      BY <1>8, <1>10, <3>1, <3>2, SMTT(30)
  <2> QED
    BY <1>1, <1>7, <2>1 DEF SentInv
<1>13. SentInOrder'
  <2> SUFFICES ASSUME NEW u \in 1 .. Uplinks, NEW i \in 1 .. Len(sent'[u]), NEW j \in 1 .. Len(sent'[u]),
                      i < j, NEW x \in sent'[u][i], NEW y \in sent'[u][j],
                      x.mmsi = y.mmsi, x.field = y.field
               PROVE  x.serial < y.serial
    BY DEF SentInOrder
  <2>1. CASE sent'[u] = sent[u]
    BY <2>1 DEF FactsInv, SentInOrder
  <2>2. CASE /\ u = up
             /\ Len(sent'[up]) = Len(sent[up]) + 1 /\ Len(sent[up]) \in Nat
             /\ \A k \in 1 .. Len(sent[up]) : sent'[up][k] = sent[up][k]
             /\ sent'[up][Len(sent[up]) + 1] = json
    <3>1. i \in 1 .. Len(sent[up])
      BY <2>2
    <3>2. CASE j \in 1 .. Len(sent[up])
      BY <1>4, <2>2, <3>1, <3>2 DEF FactsInv, SentInOrder
    <3>3. CASE j = Len(sent[up]) + 1
      <4>1. y \in json /\ x \in sent[up][i]
        BY <2>2, <3>1, <3>3
      <4>2. Older(up, y.mmsi, y.field, y.serial)
        BY <1>2, <1>4, <4>1
      <4> QED
        BY <3>1, <4>1, <4>2 DEF Older
    <3> QED
      BY <2>2, <3>2, <3>3
  <2> QED
    BY <1>8, <1>10, <2>1, <2>2
<1> QED
  BY <1>5, <1>11, <1>12, <1>13 DEF FactsInv

(***************************************************************************)
(* Every step keeps the facts in order.                                    *)
(***************************************************************************)
LEMMA FactsStay == TreesInv /\ FactsInv /\ [Next]_vars => FactsInv'
<1> SUFFICES ASSUME TreesInv, FactsInv, [Next]_vars PROVE FactsInv'
  OBVIOUS
<1>1. CASE protodec_getdata
  BY <1>1, GetdataKeepsFacts
<1>2. CASE cache_get
  BY <1>2, GetKeepsFacts
<1>3. CASE cache_store
  BY <1>3, StoreKeepsFacts
<1>4. CASE \/ jsonout_deinit \/ pthread_join \/ UNCHANGED vars
  <2>1. /\ UNCHANGED expVars /\ UNCHANGED <<serial, calls, heard, cache_spt, tree>>
        /\ main = "exit" => main' = "exit"
    BY <1>4 DEF jsonout_deinit, pthread_join, vars, mainVars
  <2>2. UNCHANGED asked
    BY <2>1 DEF expVars
  <2>3. ValuesInv' /\ LiveInv'
    <3>1. \A t \in DOMAIN tree' : \A k \in DOMAIN tree'[t] : IsEntry(tree'[t][k])
      BY <2>1 DEF FactsInv, ValuesInv
    <3>2. ValuesInv'
      BY <2>1, <2>2, <3>1 DEF FactsInv, ValuesInv
    <3> QED
      BY <2>1, <2>2, <3>2 DEF FactsInv, LiveInv
  <2> QED
    BY <2>1, <2>3, ExportKept DEF FactsInv
<1>5. CASE cache_deinit
  <2>1. UNCHANGED expVars /\ UNCHANGED <<serial, calls, heard, cache_spt>>
    BY <1>5 DEF cache_deinit
  <2>2. main' = "exit" /\ DOMAIN tree' = {} /\ sp = None
    BY <1>5, DeinitEffect
  <2>3. UNCHANGED asked
    BY <2>1 DEF expVars
  <2>4. ValuesInv' /\ LiveInv'
    BY <2>1, <2>2, <2>3 DEF FactsInv, ValuesInv, LiveInv
  <2> QED
    BY <2>1, <2>2, <2>4, ExportKept DEF FactsInv
<1>6. CASE jsonout_thread
  <2>1. /\ UNCHANGED mainVars /\ UNCHANGED <<cache_spt, tree, sp, json, up, sent, asked>>
        /\ exporter = "sleep" /\ exporter' \in {"sleep", "dead", "rotate"}
    BY <1>6 DEF jsonout_thread
  <2>2. ValuesInv' /\ LiveInv'
    BY <2>1, LiveKept
  <2>3. DocumentInv'
    BY <2>1 DEF FactsInv, DocumentInv, Older
  <2>4. SentInv' /\ SentInOrder'
    BY <2>1 DEF FactsInv, SentInv, SentInOrder
  <2> QED
    BY <2>2, <2>3, <2>4 DEF FactsInv
<1>7. CASE cache_rotate
  BY <1>7, RotateKeepsFacts
<1>8. CASE ExportEntry
  BY <1>8, EntryKeepsFacts
<1>9. CASE ExportWalked
  BY <1>9, WalkedKeepsFacts
<1>10. CASE jsonout_post_single(TRUE) \/ jsonout_post_single(FALSE)
  BY <1>10, PostKeepsFacts
<1>11. CASE jsonout_posted
  <2>1. /\ UNCHANGED mainVars /\ UNCHANGED <<cache_spt, tree, sp, sent, asked>>
        /\ exporter = "post" /\ exporter' = "sleep" /\ up' = 1 /\ json' = {}
    BY <1>11 DEF jsonout_posted
  <2>2. ValuesInv' /\ LiveInv'
    BY <2>1, LiveKept
  <2>3. DocumentInv'
    <3>1. sp = None /\ 1 \in 1 .. Uplinks + 1
      BY <2>1, CacheExportAssumption DEF TreesInv
    <3> QED
      BY <2>1, <3>1 DEF DocumentInv
  <2>4. SentInv' /\ SentInOrder'
    BY <2>1 DEF FactsInv, SentInv, SentInOrder
  <2> QED
    BY <2>2, <2>3, <2>4 DEF FactsInv
<1> QED
  BY <1>1, <1>2, <1>3, <1>4, <1>5, <1>6, <1>7, <1>8, <1>9, <1>10, <1>11
     DEF Next, MainStep, ExportStep

(***************************************************************************)
(* What the cache, the document and the uplinks know of each other, in     *)
(* every reachable state.                                                  *)
(***************************************************************************)
THEOREM FactsInvariant == Spec => []FactsInv
<1>1. Init => FactsInv
  <2> SUFFICES ASSUME Init PROVE FactsInv
    OBVIOUS
  <2>1. /\ serial = 0 /\ calls = <<>> /\ sp = None /\ json = {} /\ up = 1 /\ exporter = "sleep"
        /\ sent = [u \in 1 .. Uplinks |-> <<>>] /\ asked = heard
        /\ heard = [m \in Vessels |-> [f \in Fields |-> 0]]
        /\ cache_spt = 1 /\ DOMAIN tree = {1} /\ DOMAIN tree[1] = {}
    BY DEF Init, NoEntries
  <2>2. ValuesInv
    <3>1. heard \in [Vessels -> [Fields -> Nat]] /\ asked \in [Vessels -> [Fields -> Nat]]
      BY <2>1
    <3>2. \A m \in Vessels, f \in Fields : asked[m][f] = 0 /\ heard[m][f] = 0
      BY <2>1
    <3>3. Len(calls) = 0 /\ serial = 0
      BY <2>1
    <3>4. \A t \in DOMAIN tree : DOMAIN tree[t] = {}
      BY <2>1
    <3> QED
      BY <3>1, <3>2, <3>3, <3>4 DEF ValuesInv
  <2>3. LiveInv
    BY <2>1 DEF LiveInv
  <2>4. DocumentInv
    BY <2>1, CacheExportAssumption DEF DocumentInv
  <2>5. SentInv /\ SentInOrder
    BY <2>1 DEF SentInv, SentInOrder
  <2> QED
    BY <2>2, <2>3, <2>4, <2>5 DEF FactsInv
<1> QED
  BY <1>1, TreesInvariant, FactsStay, PTL DEF Spec

(***************************************************************************)
(* jsonout_post_single() never gives an uplink a fact twice, nor an older  *)
(* one after a newer one, whatever posts fail.                             *)
(***************************************************************************)
THEOREM UplinksInOrder == Spec => []SentInOrder
<1>1. FactsInv => SentInOrder
  BY DEF FactsInv
<1> QED
  BY <1>1, FactsInvariant, PTL

(***************************************************************************)
(* A document of jsonout_export() has of each vessel what was heard last   *)
(* when the exporter took the tree.                                        *)
(***************************************************************************)
THEOREM DocumentsCurrent == Spec => []ExportIsCurrent
<1>1. FactsInv => ExportIsCurrent
  <2> SUFFICES ASSUME FactsInv, NEW x \in json PROVE x.serial >= asked[x.mmsi][x.field]
    BY DEF ExportIsCurrent
  <2>1. x \in Facts /\ x.serial = asked[x.mmsi][x.field]
    BY DEF FactsInv, DocumentInv
  <2>2. x.serial \in Nat
    BY <2>1 DEF Facts
  <2> QED
    BY <2>1, <2>2
<1> QED
  BY <1>1, FactsInvariant, PTL

-----------------------------------------------------------------------------
(* Where the facts go                                                      *)

(***************************************************************************)
(* What is in an entry of a tree before and after a step is stored.        *)
(***************************************************************************)
LEMMA StoredAfter ==
  ASSUME NEW t \in DOMAIN tree', NEW m \in DOMAIN tree'[t], NEW f \in Fields
  PROVE  Fact(m, f, tree'[t][m][f]) \in Stored'
<1>1. Stored' = UNION {{Fact(k, g, tree'[a][k][g]) : k \in DOMAIN tree'[a], g \in Fields} : a \in DOMAIN tree'}
  BY DEF Stored, Fact
<1> QED
  BY <1>1

LEMMA StoredBefore ==
  ASSUME NEW x \in Stored
  PROVE  \E t \in DOMAIN tree : \E m \in DOMAIN tree[t], f \in Fields : x = Fact(m, f, tree[t][m][f])
  BY DEF Stored

(***************************************************************************)
(* An entry that is kept keeps its facts stored.                           *)
(***************************************************************************)
LEMMA EntriesKept ==
  ASSUME \A t \in DOMAIN tree : \A m \in DOMAIN tree[t] :
           t \in DOMAIN tree' /\ m \in DOMAIN tree'[t] /\ tree'[t][m] = tree[t][m]
  PROVE  Stored \subseteq Stored'
<1> SUFFICES ASSUME NEW x \in Stored PROVE x \in Stored'
  OBVIOUS
<1>0. PICK t \in DOMAIN tree : \E m \in DOMAIN tree[t], f \in Fields : x = Fact(m, f, tree[t][m][f])
  BY StoredBefore
<1>1. PICK m \in DOMAIN tree[t], f \in Fields : x = Fact(m, f, tree[t][m][f])
  BY <1>0
<1>2. Fact(m, f, tree'[t][m][f]) \in Stored'
  BY StoredAfter
<1> QED
  BY <1>1, <1>2

(***************************************************************************)
(* What protodec.c heard leaves the cache only for something newer, for a  *)
(* document or at the end of the program, but for what jsonout_export()    *)
(* leaves out.                                                             *)
(***************************************************************************)
THEOREM FactsKept == Spec => NoFactVanishes
<1> DEFINE Gone(x) == \/ x.serial = 0
                      \/ Superseded(x) \/ x \in json' \/ main' = "exit"
                      \/ Nameless(x) \/ NextToZero(x) \/ NoMmsi(x)
<1>1. TreesInv /\ FactsInv /\ [Next]_vars => [\A x \in Stored \ Stored' : Gone(x)]_vars
  <2> SUFFICES ASSUME TreesInv, FactsInv, Next, NEW x \in Stored, x \notin Stored'
               PROVE  Gone(x)
    OBVIOUS
  <2>0. PICK t \in DOMAIN tree : \E m \in DOMAIN tree[t], f \in Fields : x = Fact(m, f, tree[t][m][f])
    BY StoredBefore
  <2>1. PICK k \in DOMAIN tree[t], f \in Fields : x = Fact(k, f, tree[t][k][f])
    BY <2>0
  <2>2. x.mmsi = k /\ x.field = f /\ x.serial = tree[t][k][f]
    BY <2>1 DEF Fact
  <2>3. CASE tree' = tree
    BY <2>3, EntriesKept
  <2>4. CASE cache_get
    BY <2>4, GetEffect, EntriesKept
  <2>5. CASE cache_store
    <3> DEFINE m == Head(calls).mmsi
               w == Head(calls).write
    <3>1. t \in DOMAIN tree' /\ k \in DOMAIN tree'[t]
      BY <2>5, StoreEffect
    <3>2. tree'[t][k] # tree[t][k]
      BY <2>1, <3>1, StoredAfter
    <3>3. t = cache_spt /\ k = m /\ tree'[t][k] = Written(tree[t][k], w)
      BY <2>5, <3>2, StoreEffect
    <3>4. IsEntry(tree[t][k]) /\ serial \in Nat
      BY DEF FactsInv, ValuesInv
    <3>5. tree'[t][k][f] = IF f \in w.fields THEN serial ELSE tree[t][k][f]
      BY <3>3, <3>4, WrittenFields
    <3>6. f \in w.fields /\ Fact(k, f, serial) \in Stored'
      BY <2>1, <3>1, <3>5, StoredAfter
    <3>7. heard[k][f] < serial
      <4>1. calls \in Seq(Requests) /\ calls # <<>>
        BY <2>5, StoreEffect DEF TreesInv
      <4>2. m = calls[1].mmsi /\ w = calls[1].write /\ 1 \in 1 .. Len(calls)
        BY <4>1, NextRequests
      <4> QED
        BY <3>3, <3>6, <4>2 DEF FactsInv, ValuesInv
    <3>8. x.serial = 0 \/ x.serial < serial
      <4>1. main # "exit"
        BY <2>5, StoreEffect
      <4> QED
        BY <2>2, <3>3, <3>7, <4>1 DEF FactsInv, LiveInv
    <3>9. x.serial \in Nat
      BY <2>2, <3>4 DEF IsEntry
    <3>10. ASSUME x.serial < serial PROVE Superseded(x)
      <4> DEFINE y == Fact(k, f, serial)
      <4>1. y \in Stored' /\ y.mmsi = x.mmsi /\ y.field = x.field /\ y.serial = serial
        BY <2>2, <3>6 DEF Fact
      <4>2. serial > x.serial
        BY <3>4, <3>9, <3>10
      <4> HIDE DEF y
      <4> QED
        BY <4>1, <4>2 DEF Superseded
    <3> QED
      BY <3>8, <3>10
  <2>6. CASE cache_deinit
    BY <2>6, DeinitEffect
  <2>7. CASE cache_rotate
    BY <2>7, RotateEffect, EntriesKept
  <2>8. CASE ExportEntry
    <3> DEFINE e == tree[t][k]
    <3>1. sp # None /\ sp \in DOMAIN tree
      BY <2>8, EntryEffect
    <3>2. t = sp /\ json' = json \cup Exported(k, e)
      <4>1. ASSUME t \in DOMAIN tree', k \in DOMAIN tree'[t], tree'[t][k] = tree[t][k]
            PROVE  FALSE
        BY <2>1, <4>1, StoredAfter
      <4> QED
        BY <2>8, <4>1, EntryEffect
    <3>3. ASSUME e[f] # 0, k # 0, ~Nameless(x), ~NextToZero(x) PROVE x \in Exported(k, e)
      <4>1. \A G \in SUBSET Fields : f \in G => x \in FactsOf(k, e, G)
        BY <2>1, <3>3 DEF FactsOf
      <4>2. CASE f = "position"
        <5>1. e.gotpos
          BY <2>2, <3>1, <3>2, <3>3, <4>2 DEF NextToZero
        <5>2. x \in FactsOf(k, e, {"position"})
          BY <4>1, <4>2 DEF Fields
        <5> QED
          BY <3>3, <5>1, <5>2 DEF Exported
      <4>3. CASE f \in {"name", "callsign", "dims"}
        <5>1. e.name # 0
          BY <2>2, <3>1, <3>2, <3>3, <4>3 DEF Nameless
        <5>2. x \in FactsOf(k, e, {"name", "callsign", "dims"})
          BY <4>1, <4>3 DEF Fields
        <5> QED
          BY <3>3, <5>1, <5>2 DEF Exported
      <4>4. CASE f = "persons"
        <5>1. x \in FactsOf(k, e, {"persons"})
          BY <4>1, <4>4 DEF Fields
        <5> QED
          BY <5>1 DEF Exported
      <4> QED
        BY <4>2, <4>3, <4>4 DEF Fields
    <3> QED
      BY <2>2, <3>2, <3>3 DEF NoMmsi
  <2>9. CASE ExportWalked
    BY <2>9, WalkedEffect, EntriesKept
  <2>10. CASE \/ protodec_getdata \/ jsonout_deinit \/ pthread_join \/ jsonout_thread
              \/ jsonout_post_single(TRUE) \/ jsonout_post_single(FALSE) \/ jsonout_posted
    BY <2>3, <2>10 DEF protodec_getdata, jsonout_deinit, pthread_join, jsonout_thread,
                       jsonout_post_single, jsonout_posted
  <2> QED
    BY <2>4, <2>5, <2>6, <2>7, <2>8, <2>9, <2>10 DEF Next, MainStep, ExportStep
<1> QED
  BY <1>1, TreesInvariant, FactsInvariant, PTL DEF Spec, NoFactVanishes
=============================================================================
