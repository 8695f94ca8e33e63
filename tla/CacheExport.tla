---------------------------- MODULE CacheExport -----------------------------
(***************************************************************************)
(* The ship cache and its JSON export: cache.c, the calls of protodec.c    *)
(* into it, the thread of out_json.c and the shutdown of ais.c.            *)
(*                                                                         *)
(* The main thread stores what each AIS message says about a vessel in the *)
(* tree cache_spt, under cache_spt_mut.  Once in 60 seconds the exporter   *)
(* takes the whole tree (cache_rotate()), walks it without the lock, frees *)
(* each entry as it goes and posts the result to every uplink.             *)
(*                                                                         *)
(* A value is abstracted to the serial number of the message it came in, 0 *)
(* if it never came.  Trees are named by the addresses in Tree; an entry   *)
(* of a tree is allocated iff it is in the domain of the tree.             *)
(***************************************************************************)
EXTENDS Integers, Sequences, FiniteSets, Functions

CONSTANTS
  Vessels,      \* MMSIs
  Uplinks,      \* uplinks with proto UPLINK_JSON, in the order of the list
  Ticks,        \* 60: seconds slept between exports
  MaxMsgs,      \* bound of the model: AIS messages received
  None          \* no tree, no entry, no thread

Tree == {1, 2}    \* one tree is live and at most one is being exported

ASSUME CacheExportAssumption ==
  /\ Vessels \subseteq Nat
  /\ Uplinks \in Nat \ {0}
  /\ Ticks \in Nat \ {0}
  /\ MaxMsgs \in Nat
  /\ None \notin Tree \cup (Tree \X Vessels) /\ None # "main"

VARIABLES
  serial,       \* messages received so far
  main,         \* the main thread: "decode", "join", "deinit", "exit"
  calls,        \* the cache calls the message being decoded still has to make
  mutex,        \* who holds cache_spt_mut: "main" or None
  ent,          \* e of the running cache call: <<tree, MMSI>>, or None
  cache_spt,    \* the tree of the cache
  tree,         \* the allocated trees: address -> MMSI -> entry
  jsonout_die,
  exporter,     \* the export thread: "sleep", "rotate", "walk", "post", "dead"
  tick,         \* i of jsonout_thread()
  sp,           \* the tree being exported, or None
  json,         \* the facts of the document being built
  up,           \* the uplink posted to next
  sent,         \* history: facts accepted by each uplink, document by document
  heard,        \* history: the newest value of each field a cache call was given
  asked         \* history: heard when the exporter took its tree

mainVars == <<serial, main, calls, ent, jsonout_die, heard>>
expVars  == <<exporter, tick, sp, json, up, sent, asked>>
vars     == <<mainVars, mutex, cache_spt, tree, expVars>>

Fields == {"position", "name", "callsign", "dims", "persons"}

\* cache_get(): an entry is reset when it is allocated.  gotpos is what
\* jsonout_export() later finds: is neither coordinate next to zero?
NewEntry == [f \in Fields \cup {"gotpos"} |-> IF f = "gotpos" THEN FALSE ELSE 0]

NoEntries == [m \in {} |-> NewEntry]

\* The function f, and v at k besides.
Extended(f, k, v) == [x \in DOMAIN f \cup {k} |-> IF x = k THEN v ELSE f[x]]

-----------------------------------------------------------------------------
(* What the messages make protodec_getdata() call, in order.               *)

Call(fields, gotpos) == [fields |-> fields, gotpos |-> gotpos]

cache_position(gotpos)  == Call({"position"}, gotpos)
cache_vesseldata        == Call({"name", "callsign", "dims"}, FALSE)
cache_vesseldatab       == Call({"callsign", "dims"}, FALSE)
cache_vesseldatabb      == Call({"dims"}, FALSE)
cache_vesselname        == Call({"name"}, FALSE)
cache_vessel_persons    == Call({"persons"}, FALSE)

MessageCalls ==
  { <<cache_position(TRUE)>>,                    \* types 1, 2, 3, 4, 18
    <<cache_position(FALSE)>>,                   \* the same, next to 0 degrees
    <<cache_vesseldata>>,                        \* type 5
    <<cache_vesselname, cache_vesseldatabb>>,    \* type 19
    <<cache_vesselname>>,                        \* type 24, part A
    <<cache_vesseldatab>>,                       \* type 24, part B
    <<cache_vessel_persons>> }                   \* types 6 and 8, persons on board

-----------------------------------------------------------------------------

\* cache_init(), jsonout_init()
Init ==
  /\ serial = 0 /\ main = "decode" /\ calls = <<>>
  /\ mutex = None /\ ent = None
  /\ cache_spt = 1 /\ tree = [t \in {1} |-> NoEntries]
  /\ jsonout_die = FALSE
  /\ exporter = "sleep" /\ tick = 0 /\ sp = None
  /\ json = {} /\ up = 1
  /\ sent = [u \in 1 .. Uplinks |-> <<>>]
  /\ heard = [m \in Vessels |-> [f \in Fields |-> 0]]
  /\ asked = heard

(* The main thread.                                                        *)

protodec_getdata ==
  /\ main = "decode" /\ calls = <<>> /\ serial < MaxMsgs
  /\ serial' = serial + 1
  /\ \E m \in Vessels, c \in MessageCalls :
       calls' = [i \in DOMAIN c |-> [mmsi |-> m, write |-> c[i]]]
  /\ UNCHANGED <<main, ent, jsonout_die, heard, mutex, cache_spt, tree, expVars>>

\* Lock, look the vessel up, install it if it is new.
cache_get ==
  /\ calls # <<>> /\ ent = None
  /\ mutex = None
  /\ mutex' = "main"
  /\ LET m == Head(calls).mmsi
     IN  /\ ent' = <<cache_spt, m>>
         /\ tree' = IF m \in DOMAIN tree[cache_spt] THEN tree
                    ELSE [tree EXCEPT ![cache_spt] = Extended(@, m, NewEntry)]
  /\ UNCHANGED <<serial, main, calls, jsonout_die, heard, cache_spt, expVars>>

\* Mutant: a position that is already there is kept.
WrittenOnce(e, c) ==
  [f \in DOMAIN e |->
     IF f = "gotpos" THEN (IF "position" \in c.fields THEN c.gotpos ELSE e.gotpos)
     ELSE IF f \in c.fields /\ e[f] = 0 THEN serial ELSE e[f]]

\* The entry after the assignments of the call.
Written(e, c) ==
  [f \in DOMAIN e |->
     IF f = "gotpos" THEN (IF "position" \in c.fields THEN c.gotpos ELSE e.gotpos)
     ELSE IF f \in c.fields THEN serial ELSE e[f]]

\* The assignments through e, and the unlock.
cache_store ==
  /\ ent # None
  /\ tree' = [tree EXCEPT ![ent[1]][ent[2]] = Written(@, Head(calls).write)]
  /\ calls' = Tail(calls)
  /\ ent' = None
  /\ mutex' = None
  /\ heard' = [heard EXCEPT ![ent[2]] =
                [f \in Fields |-> IF f \in Head(calls).write.fields THEN serial ELSE @[f]]]
  /\ UNCHANGED <<serial, main, jsonout_die, cache_spt, expVars>>

\* done is set by closedown() or at the end of the input; the loop of main()
\* sees it after the messages of the buffer are decoded.
jsonout_deinit ==
  /\ main = "decode" /\ calls = <<>>
  /\ jsonout_die' = TRUE
  /\ main' = "join"
  /\ UNCHANGED <<serial, calls, ent, heard, mutex, cache_spt, tree, expVars>>

pthread_join ==
  /\ main = "join" /\ exporter = "dead"
  /\ main' = "deinit"
  /\ UNCHANGED <<serial, calls, ent, jsonout_die, heard, mutex, cache_spt, tree, expVars>>

\* cache_free() and hfree(cache_spt) under the lock.
cache_deinit ==
  /\ main = "deinit" /\ mutex = None
  /\ tree' = Restrict(tree, DOMAIN tree \ {cache_spt})
  /\ main' = "exit"
  /\ UNCHANGED <<serial, calls, ent, jsonout_die, heard, mutex, cache_spt, expVars>>

-----------------------------------------------------------------------------
(* The export thread.                                                      *)

\* Mutant: the death request is never looked at.
jsonout_threadDeaf ==
  /\ exporter = "sleep"
  /\ IF tick = Ticks
       THEN tick' = 0 /\ exporter' = "rotate"
       ELSE tick' = tick + 1 /\ UNCHANGED exporter
  /\ UNCHANGED <<mainVars, mutex, cache_spt, tree, sp, json, up, sent, asked>>

\* The death request is looked at before every second of sleep only.
jsonout_thread ==
  /\ exporter = "sleep"
  /\ \/ /\ tick < Ticks /\ jsonout_die
        /\ exporter' = "dead"
        /\ UNCHANGED tick
     \/ /\ tick < Ticks /\ ~jsonout_die
        /\ tick' = tick + 1
        /\ UNCHANGED exporter
     \/ /\ tick = Ticks
        /\ exporter' = "rotate"
        /\ tick' = 0
  /\ UNCHANGED <<mainVars, mutex, cache_spt, tree, sp, json, up, sent, asked>>

\* Mutant: the tree is taken without the lock.
cache_rotateUnlocked ==
  /\ exporter = "rotate"
  /\ sp' = cache_spt
  /\ cache_spt' = CHOOSE t \in Tree \ DOMAIN tree : TRUE
  /\ tree' = Extended(tree, cache_spt', NoEntries)
  /\ exporter' = "walk"
  /\ asked' = heard
  /\ UNCHANGED <<mainVars, mutex, tick, json, up, sent>>

cache_rotate ==
  /\ exporter = "rotate"
  /\ mutex = None
  /\ sp' = cache_spt
  /\ cache_spt' = CHOOSE t \in Tree \ DOMAIN tree : TRUE
  /\ tree' = Extended(tree, cache_spt', NoEntries)
  /\ exporter' = "walk"
  /\ asked' = heard
  /\ UNCHANGED <<mainVars, mutex, tick, json, up, sent>>

Fact(m, f, n) == [mmsi |-> m, field |-> f, serial |-> n]

FactsOf(m, e, fields) == {Fact(m, f, e[f]) : f \in {g \in fields : e[g] # 0}}

\* Mutant: a position is sent only for a vessel whose name is known.
ExportedNamedOnly(m, e) ==
  IF m # 0 /\ e.name # 0 /\ e.gotpos THEN FactsOf(m, e, Fields) ELSE {}

\* Mutant: static data is left out of an entry that has a position.
ExportedOneOf(m, e) ==
  IF m # 0 /\ e.gotpos THEN FactsOf(m, e, {"position", "persons"})
  ELSE FactsOf(m, e, {"persons"})
         \cup (IF m # 0 /\ e.name # 0 THEN FactsOf(m, e, {"name", "callsign", "dims"}) ELSE {})

\* The JSON messages of one entry, as facts.
Exported(m, e) ==
  (IF m # 0 /\ e.gotpos    THEN FactsOf(m, e, {"position"}) ELSE {})
    \cup (IF m # 0 /\ e.name # 0 THEN FactsOf(m, e, {"name", "callsign", "dims"}) ELSE {})
    \cup FactsOf(m, e, {"persons"})

\* One pass of the loop of jsonout_export(): the entry is written to the
\* document, freed (cache_free_entry()) and deleted from the tree.
ExportEntry ==
  /\ exporter = "walk"
  /\ DOMAIN tree[sp] # {}
  /\ LET m == CHOOSE k \in DOMAIN tree[sp] : \A l \in DOMAIN tree[sp] : k <= l
     IN  /\ json' = json \cup Exported(m, tree[sp][m])
         /\ tree' = [tree EXCEPT ![sp] = Restrict(@, DOMAIN @ \ {m})]
  /\ UNCHANGED <<mainVars, mutex, cache_spt, exporter, tick, sp, up, sent, asked>>

\* The end of the walk: the tree is freed, an empty document is not sent.
ExportWalked ==
  /\ exporter = "walk"
  /\ DOMAIN tree[sp] = {}
  /\ tree' = Restrict(tree, DOMAIN tree \ {sp})
  /\ sp' = None
  /\ exporter' = IF json = {} THEN "sleep" ELSE "post"
  /\ UNCHANGED <<mainVars, mutex, cache_spt, tick, json, up, sent, asked>>

\* Mutant: the list of uplinks is not advanced after an accepted post.
jsonout_post_singleRepeats(accepted) ==
  /\ exporter = "post" /\ up <= Uplinks
  /\ sent' = IF accepted THEN [sent EXCEPT ![up] = Append(@, json)] ELSE sent
  /\ up' = IF accepted /\ Len(sent[up]) < 2 THEN up ELSE up + 1
  /\ UNCHANGED <<mainVars, mutex, cache_spt, tree, exporter, tick, sp, json, asked>>

\* A post fails for curl's reasons or the server's; nothing is tried again.
jsonout_post_single(accepted) ==
  /\ exporter = "post" /\ up <= Uplinks
  /\ sent' = IF accepted THEN [sent EXCEPT ![up] = Append(@, json)] ELSE sent
  /\ up' = up + 1
  /\ UNCHANGED <<mainVars, mutex, cache_spt, tree, exporter, tick, sp, json, asked>>

jsonout_posted ==
  /\ exporter = "post" /\ up > Uplinks
  /\ up' = 1
  /\ json' = {}
  /\ exporter' = "sleep"
  /\ UNCHANGED <<mainVars, mutex, cache_spt, tree, tick, sp, sent, asked>>

-----------------------------------------------------------------------------

MainStep ==
  \/ protodec_getdata \/ cache_get \/ cache_store
  \/ jsonout_deinit \/ pthread_join \/ cache_deinit

ExportStep ==
  \/ jsonout_thread \/ cache_rotate \/ ExportEntry \/ ExportWalked
  \/ jsonout_post_single(TRUE) \/ jsonout_post_single(FALSE) \/ jsonout_posted

Next == MainStep \/ ExportStep

Spec == Init /\ [][Next]_vars

(***************************************************************************)
(* Both threads run whenever they can; that a message arrives or that the  *)
(* user stops the program is not assumed.  The exporter gets the lock when *)
(* the main thread leaves it alone: messages are rare, and their number is *)
(* bounded here.  curl_easy_perform() is assumed to return.                *)
(***************************************************************************)
Fairness ==
  /\ WF_vars(cache_get) /\ WF_vars(cache_store)
  /\ WF_vars(pthread_join) /\ WF_vars(cache_deinit)
  /\ WF_vars(jsonout_thread) /\ WF_vars(cache_rotate)
  /\ WF_vars(ExportEntry) /\ WF_vars(ExportWalked)
  /\ WF_vars(jsonout_post_single(TRUE) \/ jsonout_post_single(FALSE))
  /\ WF_vars(jsonout_posted)

FairSpec == Spec /\ Fairness

-----------------------------------------------------------------------------
(* Properties                                                              *)

TypeOK ==
  /\ serial \in 0 .. MaxMsgs
  /\ main \in {"decode", "join", "deinit", "exit"}
  /\ mutex \in {None, "main"}
  /\ DOMAIN tree \subseteq Tree
  /\ jsonout_die \in BOOLEAN
  /\ exporter \in {"sleep", "rotate", "walk", "post", "dead"}
  /\ tick \in 0 .. Ticks
  /\ up \in 1 .. Uplinks + 1

(***************************************************************************)
(* No use after free: the entry a cache call writes through e, the tree    *)
(* the main thread installs in and the tree the exporter walks are         *)
(* allocated, and the exporter's tree is not the one that is written to.   *)
(***************************************************************************)
NoUseAfterFree ==
  /\ ent # None => ent[1] \in DOMAIN tree /\ ent[2] \in DOMAIN tree[ent[1]]
  /\ ent # None => ent[1] # sp
  /\ main # "exit" => cache_spt \in DOMAIN tree
  /\ sp # None => sp \in DOMAIN tree /\ sp # cache_spt

\* The facts the trees hold.
Stored == UNION {{Fact(m, f, tree[t][m][f]) : m \in DOMAIN tree[t], f \in Fields} : t \in DOMAIN tree}

Superseded(x) == \E y \in Stored' : y.mmsi = x.mmsi /\ y.field = x.field /\ y.serial > x.serial

Nameless(x)   == sp # None /\ x.mmsi \in DOMAIN tree[sp] /\ tree[sp][x.mmsi].name = 0
                   /\ x.field \in {"callsign", "dims"}
NextToZero(x) == sp # None /\ x.mmsi \in DOMAIN tree[sp] /\ ~tree[sp][x.mmsi].gotpos
                   /\ x.field = "position"
NoMmsi(x)     == x.mmsi = 0

(***************************************************************************)
(* No fact vanishes: what the cache holds leaves it only because something *)
(* newer about the same vessel was stored, because it went into the        *)
(* document that is posted next, or because the program ended; but for a   *)
(* position next to zero degrees, for static data of a vessel whose name   *)
(* was not heard since the last export, and for what came with MMSI 0.     *)
(***************************************************************************)
NoFactVanishes ==
  [][\A x \in Stored \ Stored' :
       \/ x.serial = 0
       \/ Superseded(x) \/ x \in json' \/ main' = "exit"
       \/ Nameless(x) \/ NextToZero(x) \/ NoMmsi(x)]_vars

(***************************************************************************)
(* What cache.c says of itself, "storing the most current up-to-date       *)
(* information for each MMSI, so that it can be sent out at regular        *)
(* intervals": like NoFactVanishes, for the vessels without a name too.    *)
(***************************************************************************)
EveryFactSentOut ==
  [][\A x \in Stored \ Stored' :
       \/ x.serial = 0
       \/ Superseded(x) \/ x \in json' \/ main' = "exit"
       \/ NextToZero(x) \/ NoMmsi(x)]_vars

(***************************************************************************)
(* An uplink gets no fact twice, and of one vessel never an older fact     *)
(* after a newer one, however exports and decoding interleave.             *)
(***************************************************************************)
SentInOrder ==
  \A u \in 1 .. Uplinks : \A i, j \in 1 .. Len(sent[u]) :
    i < j => \A x \in sent[u][i], y \in sent[u][j] :
               x.mmsi = y.mmsi /\ x.field = y.field => x.serial < y.serial

(***************************************************************************)
(* "Most current": a document holds, of every field it has, at least as    *)
(* new a value as the last one a cache call had been given when the tree   *)
(* was taken.                                                              *)
(***************************************************************************)
ExportIsCurrent == \A x \in json : x.serial >= asked[x.mmsi][x.field]

(***************************************************************************)
(* A position that is worth sending is sent: it gets into a document,      *)
(* unless a newer one comes first or the program is told to stop.          *)
(***************************************************************************)
PositionExported ==
  \A m \in Vessels, n \in 1 .. MaxMsgs :
    (/\ \E t \in DOMAIN tree : m \in DOMAIN tree[t] /\ tree[t][m].position = n /\ tree[t][m].gotpos
     /\ m # 0)
    ~> (\/ Fact(m, "position", n) \in json
        \/ \E t \in DOMAIN tree : m \in DOMAIN tree[t] /\ tree[t][m].position > n
        \/ jsonout_die)

(***************************************************************************)
(* A stop request ends the program, with every tree freed, whatever the    *)
(* exporter was doing.                                                     *)
(***************************************************************************)
ShutdownCompletes == jsonout_die ~> (main = "exit" /\ exporter = "dead" /\ tree = <<>>)
=============================================================================
