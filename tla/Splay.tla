------------------------------- MODULE Splay --------------------------------
(***************************************************************************)
(* The splay tree of src/src/splay.c: a heap of nodes with links to the    *)
(* left, to the right and up, and its operations, each one action because  *)
(* a tree has one user at a time (the holder of cache_spt_mut, or the      *)
(* export thread after cache_rotate()).  A node is named by its key.       *)
(*                                                                         *)
(* The code writes every rotation twice, mirrored.  Here a side is a value *)
(* and the link of node x to side s is t[s][x].                            *)
(***************************************************************************)
EXTENDS Integers, Sequences, FiniteSets, TLC

CONSTANTS
  Keys,      \* spkey_t, MMSIs
  NULL

VARIABLES
  q,         \* the tree: root, and the links "l", "r" and "u" of every node
  eltscnt,   \* q->eltscnt
  x,         \* where the deleting walk of jsonout_export() is, NULL outside
  visited,   \* history: keys the walk has visited
  before     \* history: keys in the tree when the walk began

vars == <<q, eltscnt, x, visited, before>>

Other(s) == IF s = "l" THEN "r" ELSE "l"
SORTED(a, b) == a < b

Link(t, f, a, b) == [t EXCEPT ![f][a] = b]                        \* a->f = b
Up(t, a, b)      == IF a = NULL THEN t ELSE Link(t, "u", a, b)    \* if (a) a->uplink = b
Root(t, a)       == [t EXCEPT !.root = a]
Hang(t, s, a, b) == Up(Link(t, s, a, b), b, a)                    \* b becomes a's child

sp_init ==
  [root |-> NULL] @@ [f \in {"l", "r", "u"} |-> [k \in Keys |-> NULL]]

-----------------------------------------------------------------------------
(* _splay(): n, which is in the tree, becomes the root.                    *)

\* up is the s-child of upup and is rotated above it.
RotateUp(t, s, up, upup) ==
  LET upupup == t.u[upup]
      t1 == Hang(t, s, upup, t[Other(s)][up])
      t2 == Link(Link(t1, Other(s), up, upup), "u", upup, up)
      t3 == IF upupup = NULL THEN Root(t2, up)
            ELSE Link(t2, IF t2[s][upupup] = upup THEN s ELSE Other(s), upupup, up)
  IN  Link(t3, "u", up, upupup)

\* Walk towards the root; part["l"] and part["r"] are the tops of what is to
\* the left and to the right of n.
RECURSIVE Climb(_, _, _, _)
Climb(t, prev, up, part) ==
  IF up = NULL THEN [t |-> t, part |-> part]
  ELSE LET s      == IF t.l[up] = prev THEN "l" ELSE "r"
           upup   == t.u[up]
           rotate == upup # NULL /\ t[s][upup] = up
           t1     == IF rotate THEN RotateUp(t, s, up, upup) ELSE t
           next   == IF rotate THEN t.u[upup] ELSE upup
       IN  Climb(Hang(t1, s, up, part[Other(s)]), up, next, [part EXCEPT ![Other(s)] = up])

_splay(n, t) ==
  LET c == Climb(t, n, t.u[n], [l |-> t.l[n], r |-> t.r[n]])
  IN  Up(Root(Hang(Hang(c.t, "l", n, c.part.l), "r", n, c.part.r), n), n, NULL)

RECURSIVE Find(_, _, _)
Find(key, n, t) ==
  IF n = NULL \/ n = key THEN n
  ELSE Find(key, IF SORTED(key, n) THEN t.l[n] ELSE t.r[n], t)

Lookup(key, t) ==
  LET n == Find(key, t.root, t) IN IF n = NULL THEN t ELSE _splay(n, t)

-----------------------------------------------------------------------------
(* _sp_enq(): the tree is split from the top at the key of n.  end["r"] is *)
(* the rightmost node of the left part, end["l"] the leftmost of the right *)
(* part; both are n at first, so that its children come out reversed.      *)

RECURSIVE Split(_, _, _, _)
Split(t, key, next, end) ==
  LET s    == IF SORTED(next, key) THEN "r" ELSE "l"
      temp == t[s][next]
      hung == Link(Link(t, s, end[s], next), "u", next, end[s])
  IN  IF temp = NULL
        THEN Link(hung, Other(s), end[Other(s)], NULL)
      ELSE IF SORTED(temp, key) # (s = "r")
        THEN Split(hung, key, temp, [end EXCEPT ![s] = next])     \* change sides
      ELSE LET t1 == Hang(t, s, next, t[Other(s)][temp])          \* rotate
               t2 == Hang(t1, s, end[s], temp)
               t3 == Hang(t2, Other(s), temp, next)
           IN  IF t3[s][temp] = NULL
                 THEN Link(t3, Other(s), end[Other(s)], NULL)
                 ELSE Split(t3, key, t3[s][temp], [end EXCEPT ![s] = temp])

_sp_enq(n, t) ==
  LET t1 == Up(Root(t, n), n, NULL)
      t2 == Split(t1, n, t.root, [l |-> n, r |-> n])
  IN  IF t.root = NULL THEN t1
      ELSE Link(Link(t2, "l", n, t2.r[n]), "r", n, t2.l[n])

-----------------------------------------------------------------------------
(* _sp_deq(): take the leftmost node out of the right subtree of the root. *)

\* next is not it, left might be it.
RECURSIVE Leftmost(_, _, _)
Leftmost(t, next, left) ==
  LET farleft    == t.l[left]
      farfarleft == t.l[farleft]
      rotated    == Link(Link(Hang(Link(Link(t, "l", next, farleft), "u", farleft, next),
                                   "l", left, t.r[farleft]),
                              "r", farleft, left), "u", left, farleft)
  IN  IF farleft = NULL THEN [t |-> Hang(t, "l", next, t.r[left]), deq |-> left]
      ELSE IF farfarleft = NULL THEN [t |-> Hang(t, "l", left, t.r[farleft]), deq |-> farleft]
      ELSE Leftmost(rotated, farleft, farfarleft)

_sp_deq(t) ==
  LET next == t.r[t.root]
  IN  IF next = NULL THEN [t |-> t, deq |-> NULL]
      ELSE IF t.l[next] = NULL
        THEN [t |-> Up(Link(t, "r", t.root, t.r[next]), t.r[next], NULL), deq |-> next]
      ELSE Leftmost(t, next, t.l[next])

\* Mutant: what is left of n is lost when nothing is right of it.
DeleteDrops(n, t) ==
  LET d  == _sp_deq(_splay(n, t))
      t1 == d.t
      t2 == IF d.deq = NULL
              THEN Root(t1, NULL)
              ELSE Root(Hang(Hang(Up(t1, d.deq, NULL), "l", d.deq, t1.l[n]),
                             "r", d.deq, t1.r[n]), d.deq)
  IN  Link(Link(Link(t2, "l", n, NULL), "r", n, NULL), "u", n, NULL)

\* sp_delete(); sp_free_blk() then clears what the model must not look at.
Delete(n, t) ==
  LET d  == _sp_deq(_splay(n, t))
      t1 == d.t
      t2 == IF d.deq = NULL
              THEN Up(Root(t1, t1.l[n]), t1.l[n], NULL)
              ELSE Root(Hang(Hang(Up(t1, d.deq, NULL), "l", d.deq, t1.l[n]),
                             "r", d.deq, t1.r[n]), d.deq)
  IN  Link(Link(Link(t2, "l", n, NULL), "r", n, NULL), "u", n, NULL)

-----------------------------------------------------------------------------
(* The non-splaying walk.                                                  *)

RECURSIVE FarLeft(_, _)
FarLeft(n, t) == IF n = NULL \/ t.l[n] = NULL THEN n ELSE FarLeft(t.l[n], t)

RECURSIVE Ascend(_, _, _)
Ascend(n, up, t) ==
  IF up = NULL \/ t.l[up] = n THEN up ELSE Ascend(up, t.u[up], t)

\* Mutant: the walk goes one node down to the right, not to the leftmost there.
sp_fnextRight(n, t) == IF t.r[n] # NULL THEN t.r[n] ELSE Ascend(n, t.u[n], t)

sp_fhead(t) == FarLeft(t.root, t)

sp_fnext(n, t) == IF t.r[n] # NULL THEN FarLeft(t.r[n], t) ELSE Ascend(n, t.u[n], t)

-----------------------------------------------------------------------------

RECURSIVE Below(_, _)
Below(n, t) == IF n = NULL THEN {} ELSE {n} \cup Below(t.l[n], t) \cup Below(t.r[n], t)

\* The keys in the tree, found from the root.
InTree(t) == Below(t.root, t)

Init ==
  /\ q = sp_init
  /\ eltscnt = 0
  /\ x = NULL /\ visited = <<>> /\ before = {}

sp_lookup(key) ==
  /\ x = NULL
  /\ q' = Lookup(key, q)
  /\ UNCHANGED <<eltscnt, x, visited, before>>

sp_install(key) ==
  /\ x = NULL
  /\ IF Find(key, q.root, q) # NULL
       THEN q' = Lookup(key, q) /\ UNCHANGED eltscnt
       ELSE q' = _sp_enq(key, q) /\ eltscnt' = eltscnt + 1
  /\ UNCHANGED <<x, visited, before>>

sp_delete(n) ==
  /\ x = NULL
  /\ n \in InTree(q)
  /\ q' = Delete(n, q)
  /\ eltscnt' = eltscnt - 1
  /\ UNCHANGED <<x, visited, before>>

\* The loop of jsonout_export() and of cache_free(): the successor is looked
\* up, then the node is deleted, which splays the tree.
WalkBegin ==
  /\ x = NULL /\ q.root # NULL
  /\ x' = sp_fhead(q)
  /\ visited' = <<>>
  /\ before' = InTree(q)
  /\ UNCHANGED <<q, eltscnt>>

WalkStep ==
  /\ x # NULL
  /\ x' = sp_fnext(x, q)
  /\ q' = Delete(x, q)
  /\ eltscnt' = eltscnt - 1
  /\ visited' = Append(visited, x)
  /\ UNCHANGED before

Next ==
  \/ \E k \in Keys : sp_lookup(k) \/ sp_install(k) \/ sp_delete(k)
  \/ WalkBegin \/ WalkStep

Spec == Init /\ [][Next]_vars

-----------------------------------------------------------------------------
(* Properties                                                              *)

\* The links are nodes, and eltscnt counts those that can be reached.
TypeOK ==
  /\ q.root \in Keys \cup {NULL}
  /\ \A f \in {"l", "r", "u"} : q[f] \in [Keys -> Keys \cup {NULL}]
  /\ x \in Keys \cup {NULL}
  /\ eltscnt = Cardinality(InTree(q))

(***************************************************************************)
(* The walk that deletes behind itself visits every vessel once, in order, *)
(* though each deletion reshapes the tree under it.                        *)
(***************************************************************************)
WalkIsComplete ==
  /\ \A i, j \in DOMAIN visited : i < j => visited[i] < visited[j]
  /\ x = NULL /\ visited # <<>> /\ q.root = NULL
     => \A k \in before : \E i \in DOMAIN visited : visited[i] = k
  /\ x # NULL => x \in InTree(q) /\ before = InTree(q) \cup {visited[i] : i \in DOMAIN visited}

(***************************************************************************)
(* What a tree promises: a set of keys.                                    *)
(***************************************************************************)
KS == INSTANCE KeySet WITH keys <- InTree(q)

IsAKeySet == KS!Spec
=============================================================================
