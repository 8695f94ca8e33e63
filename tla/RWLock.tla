------------------------------- MODULE RWLock -------------------------------
(***************************************************************************)
(* The read-write lock of src/src/rwlock.c, which is compiled where the    *)
(* system has none of its own: counters under a mutex and two condition    *)
(* variables.  What a thread does between taking the mutex and giving it   *)
(* back, or waiting, is one step.  pthread_cond_wait() may also return     *)
(* without a signal, and a signal may wake a thread that then finds the    *)
(* lock taken by another one.                                              *)
(*                                                                         *)
(* Left out, since nothing in the program calls them: the try-locks,       *)
(* rwl_init(), rwl_destroy(), and the cancellation of a waiting thread.    *)
(***************************************************************************)
EXTENDS Integers, FiniteSets

CONSTANT Threads

ASSUME RWLockAssumption == IsFiniteSet(Threads)

VARIABLES
  r_active, w_active, r_wait, w_wait,   \* as in rwlock_t
  thread      \* where each thread is: see ThreadStates

lockVars == <<r_active, w_active, r_wait, w_wait, thread>>

\* "sleeping": in pthread_cond_wait(); "woken": woken, but without the mutex yet.
ThreadStates ==
  {"out", "read_sleeping", "read_woken", "reading",
   "write_sleeping", "write_woken", "writing"}

At(s) == {t \in Threads : thread[t] = s}

LockInit ==
  /\ r_active = 0 /\ w_active = 0 /\ r_wait = 0 /\ w_wait = 0
  /\ thread = [t \in Threads |-> "out"]

-----------------------------------------------------------------------------
(* The threads after a signal or a broadcast, t itself being at s.         *)

\* pthread_cond_broadcast(&rwl->read)
BroadcastRead(t, s) ==
  thread' = [u \in Threads |->
               IF u = t THEN s
               ELSE IF thread[u] = "read_sleeping" THEN "read_woken" ELSE thread[u]]

\* pthread_cond_signal(&rwl->write)
SignalWrite(t, s) ==
  \/ \E u \in At("write_sleeping") :
       thread' = [thread EXCEPT ![t] = s, ![u] = "write_woken"]
  \/ /\ At("write_sleeping") = {}
     /\ thread' = [thread EXCEPT ![t] = s]

Moves(t, s) == thread' = [thread EXCEPT ![t] = s]

-----------------------------------------------------------------------------

rwl_rdlock(t) ==
  /\ thread[t] = "out"
  /\ IF w_active = 1
       THEN r_wait' = r_wait + 1 /\ Moves(t, "read_sleeping") /\ UNCHANGED r_active
       ELSE r_active' = r_active + 1 /\ Moves(t, "reading") /\ UNCHANGED r_wait
  /\ UNCHANGED <<w_active, w_wait>>

\* The rest of rwl_rdlock() after pthread_cond_wait() has returned.
ReadWakes(t) ==
  /\ thread[t] = "read_woken"
  /\ IF w_active = 1
       THEN Moves(t, "read_sleeping") /\ UNCHANGED <<r_active, r_wait>>
       ELSE /\ r_wait' = r_wait - 1 /\ r_active' = r_active + 1
            /\ Moves(t, "reading")
  /\ UNCHANGED <<w_active, w_wait>>

\* Mutant: nobody is told when the last reader leaves.
rwl_rdunlockSilent(t) ==
  /\ thread[t] = "reading"
  /\ r_active' = r_active - 1
  /\ Moves(t, "out")
  /\ UNCHANGED <<w_active, r_wait, w_wait>>

rwl_rdunlock(t) ==
  /\ thread[t] = "reading"
  /\ r_active' = r_active - 1
  /\ IF r_active' = 0 /\ w_wait > 0 THEN SignalWrite(t, "out") ELSE Moves(t, "out")
  /\ UNCHANGED <<w_active, r_wait, w_wait>>

rwl_wrlock(t) ==
  /\ thread[t] = "out"
  /\ IF w_active = 1 \/ r_active > 0
       THEN w_wait' = w_wait + 1 /\ Moves(t, "write_sleeping") /\ UNCHANGED w_active
       ELSE w_active' = 1 /\ Moves(t, "writing") /\ UNCHANGED w_wait
  /\ UNCHANGED <<r_active, r_wait>>

\* Mutant: a woken writer does not look again whether the lock is free.
WriteWakesUnchecked(t) ==
  /\ thread[t] = "write_woken"
  /\ w_wait' = w_wait - 1 /\ w_active' = 1
  /\ Moves(t, "writing")
  /\ UNCHANGED <<r_active, r_wait>>

\* The rest of rwl_wrlock() after pthread_cond_wait() has returned.
WriteWakes(t) ==
  /\ thread[t] = "write_woken"
  /\ IF w_active = 1 \/ r_active > 0
       THEN Moves(t, "write_sleeping") /\ UNCHANGED <<w_active, w_wait>>
       ELSE /\ w_wait' = w_wait - 1 /\ w_active' = 1
            /\ Moves(t, "writing")
  /\ UNCHANGED <<r_active, r_wait>>

rwl_wrunlock(t) ==
  /\ thread[t] = "writing"
  /\ w_active' = 0
  /\ IF r_wait > 0 THEN BroadcastRead(t, "out")
     ELSE IF w_wait > 0 THEN SignalWrite(t, "out")
     ELSE Moves(t, "out")
  /\ UNCHANGED <<r_active, r_wait, w_wait>>

\* pthread_cond_wait() returns without having been signalled.
Spurious(t) ==
  /\ \/ thread[t] = "read_sleeping" /\ Moves(t, "read_woken")
     \/ thread[t] = "write_sleeping" /\ Moves(t, "write_woken")
  /\ UNCHANGED <<r_active, w_active, r_wait, w_wait>>

LockNext ==
  \E t \in Threads :
    \/ rwl_rdlock(t) \/ ReadWakes(t) \/ rwl_rdunlock(t)
    \/ rwl_wrlock(t) \/ WriteWakes(t) \/ rwl_wrunlock(t)
    \/ Spurious(t)

LockSpec == LockInit /\ [][LockNext]_lockVars

-----------------------------------------------------------------------------
(* Properties                                                              *)

\* The counters count the threads they are about.
LockTypeOK ==
  /\ thread \in [Threads -> ThreadStates]
  /\ r_active = Cardinality(At("reading"))
  /\ w_active = Cardinality(At("writing"))
  /\ r_wait = Cardinality(At("read_sleeping") \cup At("read_woken"))
  /\ w_wait = Cardinality(At("write_sleeping") \cup At("write_woken"))

(***************************************************************************)
(* The counters, signals and spurious wake-ups amount to a read-write      *)
(* lock: a writer is alone, also when it was overtaken after its signal.   *)
(***************************************************************************)
RW == INSTANCE ReadWriteLock WITH readers <- At("reading"), writers <- At("writing")

IsAReadWriteLock == RW!Spec
=============================================================================
