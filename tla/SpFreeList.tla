----------------------------- MODULE SpFreeList -----------------------------
(***************************************************************************)
(* The free list of tree nodes, sp_free_list in src/src/splay.c, which all *)
(* trees share.  The main thread pops nodes for new ships while it holds   *)
(* cache_spt_mut; the export thread pushes the nodes of the tree it walks  *)
(* without any lock (jsonout_export() calls sp_delete(), that              *)
(* sp_free_blk()).  Every step here is one access to the shared list, the  *)
(* reads and writes of the C code in program order.                        *)
(***************************************************************************)
EXTENDS Integers, FiniteSets

CONSTANTS
  Block,        \* the nodes hmalloc() can give
  SP_ALLOC_N,   \* 200: nodes got at a time
  Null          \* the null pointer

VARIABLES
  sp_free_list, \* head of the list
  uplink,       \* n->uplink of the nodes on the list
  fresh,        \* nodes not yet got from hmalloc()
  live,         \* nodes of the cache's tree
  taken,        \* nodes of the tree being exported
  pc,           \* where sp_alloc_blk() is: "idle", "grow", "push", "read", "write"
  i,            \* i of sp_alloc_blk()
  p,            \* p of sp_alloc_blk()
  n             \* n of sp_free_blk() after its first assignment, Null outside

vars == <<sp_free_list, uplink, fresh, live, taken, pc, i, p, n>>

Init ==
  /\ sp_free_list = Null
  /\ uplink = [b \in Block |-> Null]
  /\ fresh = Block
  /\ live = {} /\ taken = {}
  /\ pc = "idle" /\ i = 0 /\ p = Null
  /\ n = Null

(* sp_alloc_blk(), in the main thread, which holds cache_spt_mut.          *)

\* if (!sp_free_list).  Bound of the model: memory for a whole batch is left.
AllocTest ==
  /\ pc = "idle"
  /\ IF sp_free_list = Null
       THEN pc' = "grow" /\ Cardinality(fresh) >= SP_ALLOC_N
       ELSE pc' = "read"
  /\ i' = 0
  /\ UNCHANGED <<sp_free_list, uplink, fresh, live, taken, p, n>>

\* p = hmalloc(); p->uplink = sp_free_list
AllocGrow ==
  /\ pc = "grow"
  /\ \E b \in fresh :
       /\ p' = b
       /\ fresh' = fresh \ {b}
       /\ uplink' = [uplink EXCEPT ![b] = sp_free_list]
  /\ pc' = "push"
  /\ UNCHANGED <<sp_free_list, live, taken, i, n>>

\* sp_free_list = p
AllocPush ==
  /\ pc = "push"
  /\ sp_free_list' = p
  /\ i' = i + 1
  /\ pc' = IF i + 1 < SP_ALLOC_N THEN "grow" ELSE "read"
  /\ UNCHANGED <<uplink, fresh, live, taken, p, n>>

\* p = sp_free_list
AllocRead ==
  /\ pc = "read"
  /\ p' = sp_free_list
  /\ pc' = "write"
  /\ UNCHANGED <<sp_free_list, uplink, fresh, live, taken, i, n>>

\* sp_free_list = p->uplink; sp_install() then puts p in the tree.
AllocWrite ==
  /\ pc = "write"
  /\ sp_free_list' = uplink[p]
  /\ live' = live \cup {p}
  /\ pc' = "idle"
  /\ UNCHANGED <<uplink, fresh, taken, i, p, n>>

(* The export thread.                                                      *)

\* cache_rotate(), under the lock: not while the main thread allocates.
cache_rotate ==
  /\ pc = "idle" /\ taken = {} /\ n = Null
  /\ taken' = live
  /\ live' = {}
  /\ UNCHANGED <<sp_free_list, uplink, fresh, pc, i, p, n>>

\* n->uplink = sp_free_list
FreeRead ==
  /\ n = Null
  /\ \E b \in taken :
       /\ n' = b
       /\ uplink' = [uplink EXCEPT ![b] = sp_free_list]
  /\ UNCHANGED <<sp_free_list, fresh, live, taken, pc, i, p>>

\* sp_free_list = n
FreeWrite ==
  /\ n # Null
  /\ sp_free_list' = n
  /\ taken' = taken \ {n}
  /\ n' = Null
  /\ UNCHANGED <<uplink, fresh, live, pc, i, p>>

Next ==
  \/ AllocTest \/ AllocGrow \/ AllocPush \/ AllocRead \/ AllocWrite
  \/ cache_rotate \/ FreeRead \/ FreeWrite

Spec == Init /\ [][Next]_vars

(***************************************************************************)
(* What sp_install() says, "If it does not exist, then allocate a new node *)
(* and fill it in": the node a ship is given is in no tree yet.  A node    *)
(* that is, is overwritten under the hands of its other owner.             *)
(***************************************************************************)
NodeIsNew == [][pc = "write" /\ pc' = "idle" => p \notin live \cup taken]_vars
=============================================================================
