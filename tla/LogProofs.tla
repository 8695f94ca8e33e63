----------------------------- MODULE LogProofs ------------------------------
(***************************************************************************)
(* The lock of rwlock.c is a read-write lock in which no wake-up is lost,  *)
(* and the log of hlog.c writes to open files only, for any number of      *)
(* threads, lines and reopenings.                                          *)
(***************************************************************************)
EXTENDS Log, FiniteSetTheorems, TLAPS

-----------------------------------------------------------------------------
(* The lock                                                                *)

ReadSleeping == At("read_sleeping")
WriteSleeping == At("write_sleeping")
ReadWaiting == ReadSleeping \cup At("read_woken")
WriteWaiting == WriteSleeping \cup At("write_woken")
Woken == At("read_woken") \cup At("write_woken")

\* Many readers or one writer.
Exclusive ==
  /\ w_active \in {0, 1}
  /\ w_active = 1 => r_active = 0

\* A reader sleeps only while there is a writer.  While a writer sleeps, the lock
\* is held or somebody has been woken who will take it, and signal when he leaves.
NoLostWakeup ==
  /\ ReadSleeping # {} => w_active = 1
  /\ WriteSleeping # {} =>
       w_active = 1 \/ r_active > 0 \/ Woken # {}

LockInv == LockTypeOK /\ Exclusive /\ NoLostWakeup

-----------------------------------------------------------------------------
(* The log                                                                 *)

CallStates ==
  {"unborn", "idle", "ended", "report", "line", "line_locked", "writing",
   "open", "opening", "opened", "closing", "reclosing", "closed"}

\* What a thread that is at this place of hlog.c may be doing with the lock.
LockStates ==
  [s \in CallStates |->
     CASE s = "line_locked" -> {"read_sleeping", "read_woken", "reading"}
       [] s = "writing" -> {"reading"}
       [] s \in {"opening", "closing", "reclosing"} ->
            {"write_sleeping", "write_woken", "writing"}
       [] s \in {"opened", "closed"} -> {"writing"}
       [] OTHER -> {"out"}]

LogTypeOK ==
  /\ call \in [Threads -> CallStates]
  /\ fd \in [Threads -> Int] /\ log_file \in Int /\ opened \in Nat
  /\ \A t \in Threads : thread[t] \in LockStates[call[t]]

\* The log may be used by a thread that is here: it has been opened, and is not
\* being closed for good.
Using == {"idle", "report", "line", "line_locked", "writing"}

\* Before the log is used and after it is closed there is the main thread only.
Alone ==
  \A t \in Threads :
    call[t] \in {"closing", "closed"} =>
      t = Main /\ \A u \in Others : call[u] = "ended"

\* A file that is not open is about to be opened by the thread that has the lock.
FileIsOpen ==
  log_dest = "file" =>
    /\ \A t \in Threads : call[t] = "opened" => log_file # Closed
    /\ (\E t \in Threads : call[t] \in Using) =>
         log_file # Closed \/ \E u \in Threads : call[u] = "opening" /\ thread[u] = "writing"

LogInv == LogTypeOK /\ Alone /\ FileIsOpen /\ LineGoesToOpenFile

-----------------------------------------------------------------------------
(* Lemmas about the lock                                                   *)

(***************************************************************************)
(* Two sets of threads that differ in t at most: how their sizes differ.   *)
(***************************************************************************)
LEMMA Recount ==
  ASSUME NEW A \in SUBSET Threads, NEW B \in SUBSET Threads, NEW t \in Threads,
         A \ {t} = B \ {t}
  PROVE  /\ Cardinality(A) \in Nat /\ Cardinality(B) \in Nat
         /\ Cardinality(A) = 0 <=> A = {}
         /\ Cardinality(B) = 0 <=> B = {}
         /\ (t \in A <=> t \in B) => Cardinality(B) = Cardinality(A)
         /\ t \in A /\ t \notin B => Cardinality(B) = Cardinality(A) - 1
         /\ t \notin A /\ t \in B => Cardinality(B) = Cardinality(A) + 1
<1>1. IsFiniteSet(A) /\ IsFiniteSet(B)
  BY RWLockAssumption, FS_Subset
<1>2. /\ Cardinality(A) \in Nat /\ Cardinality(B) \in Nat
      /\ Cardinality(A) = 0 <=> A = {}
      /\ Cardinality(B) = 0 <=> B = {}
  BY <1>1, FS_CardinalityType, FS_EmptySet
<1>3. (t \in A <=> t \in B) => A = B
  OBVIOUS
<1>4. t \in A /\ t \notin B => Cardinality(B) = Cardinality(A) - 1
  <2>1. t \in A /\ t \notin B => B = A \ {t}
    OBVIOUS
  <2> QED
    BY <1>1, <1>2, <2>1, FS_RemoveElement
<1>5. t \notin A /\ t \in B => Cardinality(B) = Cardinality(A) + 1
  <2>1. t \notin A /\ t \in B => B = A \cup {t}
    OBVIOUS
  <2> QED
    BY <1>1, <1>2, <2>1, FS_AddElement
<1> QED
  BY <1>2, <1>3, <1>4, <1>5

(***************************************************************************)
(* A counter of A that goes up when t gets into the set and down when it   *)
(* leaves it counts the set that results.                                  *)
(***************************************************************************)
LEMMA Counted ==
  ASSUME NEW A \in SUBSET Threads, NEW B \in SUBSET Threads, NEW t \in Threads,
         A \ {t} = B \ {t},
         NEW n, n = Cardinality(A),
         NEW m, m = n + (IF t \in B THEN 1 ELSE 0) - (IF t \in A THEN 1 ELSE 0)
  PROVE  m = Cardinality(B)
  BY Recount

\* Other threads than t stay where they are, but for being woken.
OnlyWakes(t) ==
  /\ thread' \in [Threads -> ThreadStates]
  /\ \A u \in Threads \ {t} :
       \/ thread'[u] = thread[u]
       \/ thread[u] = "read_sleeping" /\ thread'[u] = "read_woken"
       \/ thread[u] = "write_sleeping" /\ thread'[u] = "write_woken"

(***************************************************************************)
(* Each counter of rwlock_t follows the step of a thread t, with the       *)
(* signals it sends, if it counts up when t gets among those it is about,  *)
(* and down when t leaves them.                                            *)
(***************************************************************************)
LEMMA SetsCounted ==
  ASSUME LockTypeOK, NEW t \in Threads, OnlyWakes(t),
         r_active' = r_active + (IF t \in At("reading")' THEN 1 ELSE 0) - (IF t \in At("reading") THEN 1 ELSE 0),
         w_active' = w_active + (IF t \in At("writing")' THEN 1 ELSE 0) - (IF t \in At("writing") THEN 1 ELSE 0),
         r_wait' = r_wait + (IF t \in ReadWaiting' THEN 1 ELSE 0) - (IF t \in ReadWaiting THEN 1 ELSE 0),
         w_wait' = w_wait + (IF t \in WriteWaiting' THEN 1 ELSE 0) - (IF t \in WriteWaiting THEN 1 ELSE 0)
  PROVE  LockTypeOK'
<1>1. /\ At("reading") \in SUBSET Threads /\ At("reading")' \in SUBSET Threads
      /\ At("writing") \in SUBSET Threads /\ At("writing")' \in SUBSET Threads
      /\ ReadWaiting \in SUBSET Threads /\ ReadWaiting' \in SUBSET Threads
      /\ WriteWaiting \in SUBSET Threads /\ WriteWaiting' \in SUBSET Threads
  BY DEF At, ReadWaiting, WriteWaiting, ReadSleeping, WriteSleeping
<1>2. At("reading") \ {t} = At("reading")' \ {t}
  BY DEF OnlyWakes, At
<1>3. At("writing") \ {t} = At("writing")' \ {t}
  BY DEF OnlyWakes, At
<1>4. ReadWaiting \ {t} = ReadWaiting' \ {t}
  BY DEF OnlyWakes, At, ReadWaiting, ReadSleeping
<1>5. WriteWaiting \ {t} = WriteWaiting' \ {t}
  BY DEF OnlyWakes, At, WriteWaiting, WriteSleeping
<1>6. /\ r_active = Cardinality(At("reading")) /\ w_active = Cardinality(At("writing"))
      /\ r_wait = Cardinality(ReadWaiting) /\ w_wait = Cardinality(WriteWaiting)
  BY DEF LockTypeOK, ReadWaiting, WriteWaiting, ReadSleeping, WriteSleeping
<1>7. r_active' = Cardinality(At("reading")')
  BY <1>1, <1>2, <1>6, Counted
<1>8. w_active' = Cardinality(At("writing")')
  BY <1>1, <1>3, <1>6, Counted
<1>9. r_wait' = Cardinality(ReadWaiting')
  BY <1>1, <1>4, <1>6, Counted
<1>10. w_wait' = Cardinality(WriteWaiting')
  BY <1>1, <1>5, <1>6, Counted
<1> QED
  BY <1>7, <1>8, <1>9, <1>10
     DEF LockTypeOK, OnlyWakes, ReadWaiting, WriteWaiting, ReadSleeping, WriteSleeping

(***************************************************************************)
(* The same, by what t was doing before the step and does after it.        *)
(***************************************************************************)
LEMMA CountersFollow ==
  ASSUME LockTypeOK, NEW t \in Threads, OnlyWakes(t),
         NEW from, NEW to, from = thread[t], to = thread'[t],
         r_active' = r_active + (IF to = "reading" THEN 1 ELSE 0)
                              - (IF from = "reading" THEN 1 ELSE 0),
         w_active' = w_active + (IF to = "writing" THEN 1 ELSE 0)
                              - (IF from = "writing" THEN 1 ELSE 0),
         r_wait' = r_wait + (IF to = "read_sleeping" \/ to = "read_woken" THEN 1 ELSE 0)
                          - (IF from = "read_sleeping" \/ from = "read_woken" THEN 1 ELSE 0),
         w_wait' = w_wait + (IF to = "write_sleeping" \/ to = "write_woken" THEN 1 ELSE 0)
                          - (IF from = "write_sleeping" \/ from = "write_woken" THEN 1 ELSE 0)
  PROVE  LockTypeOK'
<1>1. /\ t \in At("reading") <=> from = "reading"
      /\ t \in At("reading")' <=> to = "reading"
      /\ t \in At("writing") <=> from = "writing"
      /\ t \in At("writing")' <=> to = "writing"
      /\ t \in ReadWaiting <=> from = "read_sleeping" \/ from = "read_woken"
      /\ t \in ReadWaiting' <=> to = "read_sleeping" \/ to = "read_woken"
      /\ t \in WriteWaiting <=> from = "write_sleeping" \/ from = "write_woken"
      /\ t \in WriteWaiting' <=> to = "write_sleeping" \/ to = "write_woken"
  BY DEF At, ReadWaiting, WriteWaiting, ReadSleeping, WriteSleeping
<1>2. r_active' = r_active + (IF t \in At("reading")' THEN 1 ELSE 0) - (IF t \in At("reading") THEN 1 ELSE 0)
  BY <1>1
<1>3. w_active' = w_active + (IF t \in At("writing")' THEN 1 ELSE 0) - (IF t \in At("writing") THEN 1 ELSE 0)
  BY <1>1
<1>4. r_wait' = r_wait + (IF t \in ReadWaiting' THEN 1 ELSE 0) - (IF t \in ReadWaiting THEN 1 ELSE 0)
  BY <1>1
<1>5. w_wait' = w_wait + (IF t \in WriteWaiting' THEN 1 ELSE 0) - (IF t \in WriteWaiting THEN 1 ELSE 0)
  BY <1>1
<1> HIDE DEF LockTypeOK
<1> QED
  BY <1>2, <1>3, <1>4, <1>5, SetsCounted

(***************************************************************************)
(* A counter of rwlock_t is zero when nobody is where it counts.           *)
(***************************************************************************)
LEMMA CountersMean ==
  ASSUME LockTypeOK
  PROVE  /\ r_active \in Nat /\ w_active \in Nat /\ r_wait \in Nat /\ w_wait \in Nat
         /\ r_active = 0 <=> At("reading") = {}
         /\ w_active = 0 <=> At("writing") = {}
         /\ r_wait = 0 <=> ReadWaiting = {}
         /\ w_wait = 0 <=> WriteWaiting = {}
<1>1. /\ IsFiniteSet(At("reading")) /\ IsFiniteSet(At("writing"))
      /\ IsFiniteSet(ReadWaiting) /\ IsFiniteSet(WriteWaiting)
  BY RWLockAssumption, FS_Subset DEF At, ReadSleeping, WriteSleeping, ReadWaiting, WriteWaiting
<1>2. /\ r_active = Cardinality(At("reading")) /\ w_active = Cardinality(At("writing"))
      /\ r_wait = Cardinality(ReadWaiting) /\ w_wait = Cardinality(WriteWaiting)
  BY DEF LockTypeOK, ReadWaiting, WriteWaiting, ReadSleeping, WriteSleeping
<1> QED
  BY <1>1, <1>2, FS_CardinalityType, FS_EmptySet

\* What a step of the lock is to the abstract lock.
AbstractStep == RW!Next \/ UNCHANGED <<At("reading"), At("writing")>>

(***************************************************************************)
(* rwl_rdlock() and what is left of it after the wait: the reader gets in  *)
(* where no writer is, or waits for the writer there is.                   *)
(***************************************************************************)
LEMMA ReadLock ==
  ASSUME LockInv, NEW t \in Threads, rwl_rdlock(t) \/ ReadWakes(t)
  PROVE  LockInv' /\ AbstractStep
<1> USE DEF LockInv
<1>0. r_active \in Nat /\ w_active \in Nat /\ r_wait \in Nat /\ w_wait \in Nat
  BY CountersMean
<1>1. OnlyWakes(t)
  BY DEF LockTypeOK, ThreadStates, rwl_rdlock, ReadWakes, Moves, OnlyWakes
<1>2. LockTypeOK'
  <2>0. thread \in [Threads -> ThreadStates]
    BY DEF LockTypeOK
  <2>1. CASE w_active = 1
    <3>1. thread'[t] = "read_sleeping"
      BY <2>0, <2>1 DEF rwl_rdlock, ReadWakes, Moves
    <3>2. UNCHANGED <<r_active, w_active, w_wait>>
      BY <2>1 DEF rwl_rdlock, ReadWakes
    <3>3. \/ thread[t] = "out" /\ r_wait' = r_wait + 1
          \/ thread[t] = "read_woken" /\ r_wait' = r_wait
      BY <2>1 DEF rwl_rdlock, ReadWakes
    <3> QED
      BY <1>0, <1>1, <3>1, <3>2, <3>3, CountersFollow
  <2>2. CASE w_active # 1
    <3>1. thread'[t] = "reading"
      BY <2>0, <2>2 DEF rwl_rdlock, ReadWakes, Moves
    <3>2. UNCHANGED <<w_active, w_wait>> /\ r_active' = r_active + 1
      BY <2>2 DEF rwl_rdlock, ReadWakes
    <3>3. \/ thread[t] = "out" /\ r_wait' = r_wait
          \/ thread[t] = "read_woken" /\ r_wait' = r_wait - 1
      BY <2>2 DEF rwl_rdlock, ReadWakes
    <3> QED
      BY <1>0, <1>1, <3>1, <3>2, <3>3, CountersFollow
  <2> QED
    BY <2>1, <2>2
<1>3. CASE w_active = 1
  <2>1. thread' = [thread EXCEPT ![t] = "read_sleeping"]
    BY <1>3 DEF rwl_rdlock, ReadWakes, Moves
  <2>2. UNCHANGED <<r_active, w_active>>
    BY <1>3 DEF rwl_rdlock, ReadWakes
  <2>3. thread[t] \in {"out", "read_woken"}
    BY DEF rwl_rdlock, ReadWakes
  <2>4. UNCHANGED <<At("reading"), At("writing")>>
    BY <2>1, <2>3 DEF At, ReadSleeping, WriteSleeping, LockTypeOK
  <2> QED
    BY <1>2, <1>3, <2>2, <2>4 DEF Exclusive, NoLostWakeup, AbstractStep
<1>4. CASE w_active # 1
  <2>1. thread' = [thread EXCEPT ![t] = "reading"]
    BY <1>4 DEF rwl_rdlock, ReadWakes, Moves
  <2>2. r_active' = r_active + 1 /\ w_active' = 0 /\ w_active = 0
    BY <1>4 DEF rwl_rdlock, ReadWakes, Exclusive
  <2>3. thread[t] \in {"out", "read_woken"}
    BY DEF rwl_rdlock, ReadWakes
  <2>4. ReadSleeping' = {}
    <3>1. ReadSleeping = {}
      BY <1>0, <2>2 DEF NoLostWakeup
    <3> QED
      BY <2>1, <3>1 DEF At, ReadSleeping, WriteSleeping, LockTypeOK
  <2>5. RW!LockRead(t)
    BY <2>1, <2>2, <2>3, CountersMean DEF At, ReadSleeping, WriteSleeping, LockTypeOK, RW!LockRead
  <2>6. r_active' > 0
    BY <2>2, CountersMean
  <2>7. AbstractStep
    BY <2>5 DEF AbstractStep, RW!Next
  <2> QED
    BY <1>0, <1>2, <2>2, <2>4, <2>6, <2>7 DEF Exclusive, NoLostWakeup
<1> QED
  BY <1>3, <1>4

(***************************************************************************)
(* rwl_wrlock() and what is left of it after the wait: the writer gets in  *)
(* where nobody is, or waits for those there are.                          *)
(***************************************************************************)
LEMMA WriteLock ==
  ASSUME LockInv, NEW t \in Threads, rwl_wrlock(t) \/ WriteWakes(t)
  PROVE  LockInv' /\ AbstractStep
<1> USE DEF LockInv
<1>0. r_active \in Nat /\ w_active \in Nat /\ r_wait \in Nat /\ w_wait \in Nat
  BY CountersMean
<1>1. OnlyWakes(t)
  BY DEF LockTypeOK, ThreadStates, rwl_wrlock, WriteWakes, Moves, OnlyWakes
<1>2. w_active = 1 \/ (w_active = 0 /\ At("writing") = {})
  BY CountersMean DEF Exclusive
<1>3. LockTypeOK'
  <2>0. thread \in [Threads -> ThreadStates]
    BY DEF LockTypeOK
  <2>1. CASE w_active = 1 \/ r_active > 0
    <3>1. thread'[t] = "write_sleeping"
      BY <2>0, <2>1 DEF rwl_wrlock, WriteWakes, Moves
    <3>2. UNCHANGED <<r_active, w_active, r_wait>>
      BY <2>1 DEF rwl_wrlock, WriteWakes
    <3>3. \/ thread[t] = "out" /\ w_wait' = w_wait + 1
          \/ thread[t] = "write_woken" /\ w_wait' = w_wait
      BY <2>1 DEF rwl_wrlock, WriteWakes
    <3> QED
      BY <1>0, <1>1, <3>1, <3>2, <3>3, CountersFollow
  <2>2. CASE ~(w_active = 1 \/ r_active > 0)
    <3>1. thread'[t] = "writing"
      BY <2>0, <2>2 DEF rwl_wrlock, WriteWakes, Moves
    <3>2. UNCHANGED <<r_active, r_wait>> /\ w_active' = w_active + 1
      BY <1>2, <2>2 DEF rwl_wrlock, WriteWakes
    <3>3. \/ thread[t] = "out" /\ w_wait' = w_wait
          \/ thread[t] = "write_woken" /\ w_wait' = w_wait - 1
      BY <2>2 DEF rwl_wrlock, WriteWakes
    <3> QED
      BY <1>0, <1>1, <3>1, <3>2, <3>3, CountersFollow
  <2> QED
    BY <2>1, <2>2
<1>4. CASE w_active = 1 \/ r_active > 0
  <2>1. thread' = [thread EXCEPT ![t] = "write_sleeping"]
    BY <1>4 DEF rwl_wrlock, WriteWakes, Moves
  <2>2. UNCHANGED <<r_active, w_active>>
    BY <1>4 DEF rwl_wrlock, WriteWakes
  <2>3. thread[t] \in {"out", "write_woken"}
    BY DEF rwl_wrlock, WriteWakes
  <2>4. UNCHANGED <<At("reading"), At("writing"), ReadSleeping>>
    BY <2>1, <2>3 DEF At, ReadSleeping, WriteSleeping, LockTypeOK
  <2> QED
    BY <1>3, <1>4, <2>2, <2>4 DEF Exclusive, NoLostWakeup, AbstractStep
<1>5. CASE ~(w_active = 1 \/ r_active > 0)
  <2>1. thread' = [thread EXCEPT ![t] = "writing"]
    BY <1>5 DEF rwl_wrlock, WriteWakes, Moves
  <2>2. w_active' = 1 /\ r_active' = r_active /\ r_active = 0
    BY <1>0, <1>5 DEF rwl_wrlock, WriteWakes, Moves
  <2>3. thread[t] \in {"out", "write_woken"}
    BY DEF rwl_wrlock, WriteWakes
  <2>4. At("reading") = {} /\ At("writing") = {}
    BY <1>2, <1>5, <2>2, CountersMean
  <2>5. RW!LockWrite(t)
    BY <2>1, <2>3, <2>4 DEF At, ReadSleeping, WriteSleeping, LockTypeOK, RW!LockWrite
  <2>6. AbstractStep
    BY <2>5 DEF AbstractStep, RW!Next
  <2> QED
    BY <1>3, <2>2, <2>6 DEF Exclusive, NoLostWakeup
<1> QED
  BY <1>4, <1>5

(***************************************************************************)
(* A signal to the writers: one that sleeps is woken, if any sleeps.       *)
(***************************************************************************)
LEMMA Signal ==
  ASSUME LockTypeOK, NEW t \in Threads, SignalWrite(t, "out"),
         thread[t] \in {"reading", "writing"}
  PROVE  /\ OnlyWakes(t)
         /\ thread'[t] = "out"
         /\ ReadSleeping' = ReadSleeping
         /\ WriteSleeping # {} => Woken' # {}
         /\ WriteSleeping' \subseteq WriteSleeping
<1>1. CASE WriteSleeping = {}
  <2>1. thread' = [thread EXCEPT ![t] = "out"]
    BY <1>1 DEF SignalWrite, WriteSleeping
  <2> QED
    BY <1>1, <2>1 DEF LockTypeOK, ThreadStates, OnlyWakes, At, ReadSleeping, WriteSleeping
<1>2. CASE WriteSleeping # {}
  <2>1. PICK u \in WriteSleeping :
          thread' = [thread EXCEPT ![t] = "out", ![u] = "write_woken"]
    BY <1>2 DEF SignalWrite, WriteSleeping
  <2>2. u # t /\ u \in Threads /\ thread[u] = "write_sleeping"
    BY <2>1 DEF At, ReadSleeping, WriteSleeping
  <2>3. u \in Woken'
    BY <2>1, <2>2 DEF Woken, At, ReadSleeping, WriteSleeping, LockTypeOK
  <2> QED
    BY <2>1, <2>2, <2>3 DEF LockTypeOK, ThreadStates, OnlyWakes, At, ReadSleeping, WriteSleeping
<1> QED
  BY <1>1, <1>2

(***************************************************************************)
(* rwl_rdunlock(): the last reader wakes a writer, if any waits.           *)
(***************************************************************************)
LEMMA ReadUnlock ==
  ASSUME LockInv, NEW t \in Threads, rwl_rdunlock(t)
  PROVE  LockInv' /\ AbstractStep
<1> USE DEF LockInv
<1>0. r_active \in Nat /\ w_active \in Nat /\ r_wait \in Nat /\ w_wait \in Nat
  BY CountersMean
<1>1. /\ thread[t] = "reading" /\ r_active' = r_active - 1
      /\ UNCHANGED <<w_active, r_wait, w_wait>>
  BY DEF rwl_rdunlock
<1>2. r_active > 0 /\ w_active = 0
  <2>1. t \in At("reading")
    BY <1>1 DEF At
  <2> QED
    BY <1>0, <2>1, CountersMean DEF Exclusive
<1>3. /\ OnlyWakes(t) /\ thread'[t] = "out"
      /\ ReadSleeping' = ReadSleeping
      /\ WriteSleeping' # {} => r_active' > 0 \/ Woken' # {}
  <2>1. CASE r_active' = 0 /\ w_wait > 0
    <3>1. SignalWrite(t, "out")
      BY <2>1 DEF rwl_rdunlock
    <3> QED
      BY <1>1, <3>1, Signal
  <2>2. CASE ~(r_active' = 0 /\ w_wait > 0)
    <3>1. thread' = [thread EXCEPT ![t] = "out"]
      BY <2>2 DEF rwl_rdunlock, Moves
    <3>2. OnlyWakes(t) /\ thread'[t] = "out"
      BY <3>1 DEF LockTypeOK, ThreadStates, OnlyWakes
    <3>3. ReadSleeping' = ReadSleeping /\ WriteSleeping' = WriteSleeping
      BY <1>1, <3>1 DEF LockTypeOK, At, ReadSleeping, WriteSleeping
    <3>4. r_active' > 0 \/ w_wait = 0
      BY <1>0, <1>1, <1>2, <2>2
    <3>5. w_wait = 0 => WriteSleeping = {}
      BY CountersMean DEF WriteWaiting
    <3> QED
      BY <3>2, <3>3, <3>4, <3>5
  <2> QED
    BY <2>1, <2>2
<1>4. LockTypeOK'
  BY <1>0, <1>1, <1>3, CountersFollow
<1>5. RW!UnlockRead(t)
  <2>1. At("reading")' = At("reading") \ {t} /\ At("writing")' = At("writing")
    BY <1>1, <1>3 DEF OnlyWakes, At
  <2>2. t \in At("reading")
    BY <1>1 DEF At
  <2> QED
    BY <2>1, <2>2 DEF RW!UnlockRead
<1>6. AbstractStep
  BY <1>5 DEF AbstractStep, RW!Next
<1>7. Exclusive'
  BY <1>0, <1>1, <1>2 DEF Exclusive
<1>8. NoLostWakeup'
  BY <1>0, <1>1, <1>2, <1>3 DEF NoLostWakeup
<1> QED
  BY <1>4, <1>6, <1>7, <1>8

(***************************************************************************)
(* rwl_wrunlock(): the writer wakes all the readers that wait, or, if none *)
(* does, a writer.                                                         *)
(***************************************************************************)
LEMMA WriteUnlock ==
  ASSUME LockInv, NEW t \in Threads, rwl_wrunlock(t)
  PROVE  LockInv' /\ AbstractStep
<1> USE DEF LockInv
<1>0. r_active \in Nat /\ w_active \in Nat /\ r_wait \in Nat /\ w_wait \in Nat
  BY CountersMean
<1>1. /\ thread[t] = "writing" /\ w_active' = 0
      /\ UNCHANGED <<r_active, r_wait, w_wait>>
  BY DEF rwl_wrunlock
<1>2. w_active = 1 /\ r_active = 0
  <2>1. t \in At("writing")
    BY <1>1 DEF At
  <2> QED
    BY <1>0, <2>1, CountersMean DEF Exclusive
<1>3. /\ OnlyWakes(t) /\ thread'[t] = "out"
      /\ ReadSleeping' = {}
      /\ WriteSleeping' # {} => Woken' # {}
  <2>1. CASE r_wait > 0
    <3>1. thread' = [u \in Threads |->
                       IF u = t THEN "out"
                       ELSE IF thread[u] = "read_sleeping" THEN "read_woken" ELSE thread[u]]
      BY <2>1 DEF rwl_wrunlock, BroadcastRead
    <3>2. OnlyWakes(t) /\ thread'[t] = "out" /\ ReadSleeping' = {}
      BY <3>1 DEF LockTypeOK, ThreadStates, OnlyWakes, At, ReadSleeping
    <3>3. PICK u \in Threads : thread[u] \in {"read_sleeping", "read_woken"}
      <4>1. ReadWaiting # {}
        BY <1>0, <2>1, CountersMean
      <4> QED
        BY <4>1 DEF ReadWaiting, ReadSleeping, At
    <3>4. u \in Woken'
      BY <1>1, <3>1, <3>3 DEF Woken, At
    <3> QED
      BY <3>2, <3>4
  <2>2. CASE ~(r_wait > 0) /\ w_wait > 0
    <3>1. SignalWrite(t, "out")
      BY <2>2 DEF rwl_wrunlock
    <3>2. ReadSleeping = {}
      BY <1>0, <2>2, CountersMean DEF ReadWaiting
    <3> QED
      BY <1>1, <3>1, <3>2, Signal
  <2>3. CASE ~(r_wait > 0) /\ ~(w_wait > 0)
    <3>1. thread' = [thread EXCEPT ![t] = "out"]
      BY <2>3 DEF rwl_wrunlock, Moves
    <3>2. OnlyWakes(t) /\ thread'[t] = "out"
      BY <3>1 DEF LockTypeOK, ThreadStates, OnlyWakes
    <3>3. ReadSleeping' = ReadSleeping /\ WriteSleeping' = WriteSleeping
      BY <1>1, <3>1 DEF LockTypeOK, At, ReadSleeping, WriteSleeping
    <3>4. ReadSleeping = {} /\ WriteSleeping = {}
      BY <1>0, <2>3, CountersMean DEF ReadWaiting, WriteWaiting
    <3> QED
      BY <3>2, <3>3, <3>4
  <2> QED
    BY <2>1, <2>2, <2>3
<1>4. LockTypeOK'
  BY <1>0, <1>1, <1>2, <1>3, CountersFollow
<1>5. RW!UnlockWrite(t)
  <2>1. At("writing")' = At("writing") \ {t} /\ At("reading")' = At("reading")
    BY <1>1, <1>3 DEF OnlyWakes, At
  <2>2. t \in At("writing")
    BY <1>1 DEF At
  <2> QED
    BY <2>1, <2>2 DEF RW!UnlockWrite
<1>6. AbstractStep
  BY <1>5 DEF AbstractStep, RW!Next
<1>7. Exclusive'
  BY <1>1, <1>2 DEF Exclusive
<1>8. NoLostWakeup'
  BY <1>1, <1>2, <1>3 DEF NoLostWakeup
<1> QED
  BY <1>4, <1>6, <1>7, <1>8

(***************************************************************************)
(* A wait that returns without a signal does no harm.                      *)
(***************************************************************************)
LEMMA SpuriousWake ==
  ASSUME LockInv, NEW t \in Threads, Spurious(t)
  PROVE  LockInv' /\ AbstractStep
<1> USE DEF LockInv
<1>0. r_active \in Nat /\ w_active \in Nat /\ r_wait \in Nat /\ w_wait \in Nat
  BY CountersMean
<1>1. UNCHANGED <<r_active, w_active, r_wait, w_wait>>
  BY DEF Spurious
<1>2. /\ OnlyWakes(t)
      /\ \/ thread[t] = "read_sleeping" /\ thread'[t] = "read_woken"
         \/ thread[t] = "write_sleeping" /\ thread'[t] = "write_woken"
  BY DEF LockTypeOK, ThreadStates, Spurious, Moves, OnlyWakes
<1>3. LockTypeOK'
  BY <1>0, <1>1, <1>2, CountersFollow
<1>4. UNCHANGED <<At("reading"), At("writing")>>
  BY <1>2 DEF OnlyWakes, At
<1>5. ReadSleeping' \subseteq ReadSleeping /\ Woken' # {}
  BY <1>2 DEF OnlyWakes, At, ReadSleeping, Woken
<1> QED
  BY <1>1, <1>3, <1>4, <1>5 DEF Exclusive, NoLostWakeup, AbstractStep

-----------------------------------------------------------------------------
(* Theorems about the lock                                                 *)

(***************************************************************************)
(* Every operation of rwlock.c keeps the counters true and the lock        *)
(* exclusive, loses no wake-up, and is a step of the abstract lock or none *)
(* at all.                                                                 *)
(***************************************************************************)
LEMMA LockStep ==
  ASSUME LockInv, [LockNext]_lockVars
  PROVE  LockInv' /\ AbstractStep
<1>1. CASE LockNext
  <2>1. PICK t \in Threads :
          \/ rwl_rdlock(t) \/ ReadWakes(t) \/ rwl_rdunlock(t)
          \/ rwl_wrlock(t) \/ WriteWakes(t) \/ rwl_wrunlock(t)
          \/ Spurious(t)
    BY <1>1 DEF LockNext
  <2> QED
    BY <2>1, ReadLock, WriteLock, ReadUnlock, WriteUnlock, SpuriousWake
<1>2. CASE UNCHANGED lockVars
  BY <1>2 DEF lockVars, LockInv, LockTypeOK, Exclusive, NoLostWakeup, AbstractStep, At,
              ReadSleeping, WriteSleeping, Woken
<1> QED
  BY <1>1, <1>2

(***************************************************************************)
(* At the start nobody holds the lock or waits for it.                     *)
(***************************************************************************)
LEMMA LockStarts ==
  ASSUME LockInit
  PROVE  LockInv /\ RW!Init
<1>1. /\ At("reading") = {} /\ At("writing") = {} /\ ReadWaiting = {} /\ WriteWaiting = {}
      /\ ReadSleeping = {} /\ WriteSleeping = {}
  BY DEF LockInit, At, ReadWaiting, WriteWaiting, ReadSleeping, WriteSleeping
<1>2. LockTypeOK
  <2>1. thread \in [Threads -> ThreadStates]
    BY DEF LockInit, ThreadStates
  <2> QED
    BY <1>1, <2>1, FS_EmptySet
       DEF LockInit, LockTypeOK, ReadWaiting, WriteWaiting, ReadSleeping, WriteSleeping
<1> QED
  BY <1>1, <1>2 DEF LockInit, LockInv, Exclusive, NoLostWakeup, RW!Init

(***************************************************************************)
(* In all that the threads can do with the lock of rwlock.c, its counters  *)
(* are right, a writer is alone, and nobody sleeps whom no one is going to *)
(* wake.                                                                   *)
(***************************************************************************)
THEOREM LockInvariant == LockSpec => []LockInv
<1>1. LockInit => LockInv
  BY LockStarts
<1>2. LockInv /\ [LockNext]_lockVars => LockInv'
  BY LockStep
<1> QED
  BY <1>1, <1>2, PTL DEF LockSpec

(***************************************************************************)
(* The counters, the signals and the wake-ups of rwlock.c, spurious ones   *)
(* included, implement a read-write lock: the operations that give or take *)
(* the lock are the abstract ones, and all others are invisible.           *)
(***************************************************************************)
THEOREM LockRefinement == LockSpec => IsAReadWriteLock
<1>1. LockInit => RW!Init
  BY LockStarts
<1>2. LockInv /\ [LockNext]_lockVars => [RW!Next]_<<At("reading"), At("writing")>>
  BY LockStep DEF AbstractStep
<1> QED
  BY <1>1, <1>2, LockInvariant, PTL DEF LockSpec, IsAReadWriteLock, RW!Spec

(***************************************************************************)
(* hlog.c only ever uses the lock by its operations.                       *)
(***************************************************************************)
THEOREM LogUsesLock == Spec => LockSpec
<1>1. Init => LockInit
  BY DEF Init
<1>2. [Next]_vars => [LockNext]_lockVars
  <2>1. CASE Next
    <3>1. CASE close_log
      BY <3>1, LogAssumption DEF close_log, LockNext
    <3>2. ASSUME NEW t \in Threads,
                 \/ Step(t) \/ hlog(t) \/ reopen_log(t) \/ pthread_create(t) \/ ThreadEnds(t)
                 \/ Spurious(t)
          PROVE  LockNext \/ UNCHANGED lockVars
      BY <3>2 DEF Step, OpenedLine, LineLocks, WriteLine, LineUnlocks, open_log, CloseFile,
                  OpenFile, OpenFails, LogUnlocks, LockReturns, hlog, reopen_log,
                  pthread_create, ThreadEnds, LockNext
    <3> QED
      BY <2>1, <3>1, <3>2 DEF Next
  <2> QED
    BY <2>1 DEF vars
<1> QED
  BY <1>1, <1>2, PTL DEF Spec, LockSpec

(***************************************************************************)
(* So the threads that log, reopen and close the log meet a read-write     *)
(* lock.                                                                   *)
(***************************************************************************)
THEOREM LogLockRefinement == Spec => IsAReadWriteLock
  BY LogUsesLock, LockRefinement, PTL

-----------------------------------------------------------------------------
(* Lemmas about the log                                                    *)

(***************************************************************************)
(* Two threads do not both have the lock if one of them writes.            *)
(***************************************************************************)
LEMMA Excludes ==
  ASSUME LockInv, NEW t \in Threads, NEW u \in Threads, u # t, thread[t] = "writing"
  PROVE  thread[u] # "reading" /\ thread[u] # "writing"
<1> USE DEF LockInv
<1>1. t \in At("writing") /\ At("writing") \subseteq Threads
  BY DEF At
<1>2. IsFiniteSet(At("writing")) /\ IsFiniteSet(At("writing") \ {t})
  BY <1>1, RWLockAssumption, FS_Subset
<1>3. w_active = 1 /\ r_active = 0 /\ Cardinality(At("writing")) = 1
  BY <1>1, CountersMean DEF Exclusive, LockTypeOK
<1>4. Cardinality(At("writing") \ {t}) = 0
  BY <1>1, <1>2, <1>3, FS_RemoveElement
<1>5. At("writing") \ {t} = {}
  BY <1>2, <1>4, FS_EmptySet
<1>6. At("reading") = {}
  BY <1>3, CountersMean
<1> QED
  BY <1>5, <1>6 DEF At

(***************************************************************************)
(* An operation of the lock moves its caller, and others only in that it   *)
(* wakes them.                                                             *)
(***************************************************************************)
LEMMA LockMoves ==
  ASSUME LockInv, NEW t \in Threads
  PROVE  /\ rwl_rdlock(t) \/ ReadWakes(t) =>
              OnlyWakes(t) /\ thread'[t] \in {"read_sleeping", "reading"}
         /\ rwl_wrlock(t) \/ WriteWakes(t) =>
              OnlyWakes(t) /\ thread'[t] \in {"write_sleeping", "writing"}
         /\ rwl_rdunlock(t) \/ rwl_wrunlock(t) => OnlyWakes(t) /\ thread'[t] = "out"
         /\ Spurious(t) =>
              /\ OnlyWakes(t)
              /\ \/ thread[t] = "read_sleeping" /\ thread'[t] = "read_woken"
                 \/ thread[t] = "write_sleeping" /\ thread'[t] = "write_woken"
         /\ UNCHANGED lockVars => OnlyWakes(t) /\ thread' = thread
<1>1. thread \in [Threads -> ThreadStates]
  BY DEF LockInv, LockTypeOK
<1>2. ASSUME SignalWrite(t, "out"), thread[t] \in {"reading", "writing"}
      PROVE  OnlyWakes(t) /\ thread'[t] = "out"
  BY <1>2, Signal DEF LockInv
<1>3. Moves(t, "out") \/ BroadcastRead(t, "out") => OnlyWakes(t) /\ thread'[t] = "out"
  BY <1>1 DEF Moves, BroadcastRead, OnlyWakes, ThreadStates
<1>4. rwl_rdlock(t) \/ ReadWakes(t) =>
        OnlyWakes(t) /\ thread'[t] \in {"read_sleeping", "reading"}
  BY <1>1 DEF rwl_rdlock, ReadWakes, Moves, OnlyWakes, ThreadStates
<1>5. rwl_wrlock(t) \/ WriteWakes(t) =>
        OnlyWakes(t) /\ thread'[t] \in {"write_sleeping", "writing"}
  BY <1>1 DEF rwl_wrlock, WriteWakes, Moves, OnlyWakes, ThreadStates
<1>6. rwl_rdunlock(t) => OnlyWakes(t) /\ thread'[t] = "out"
  BY <1>2, <1>3 DEF rwl_rdunlock
<1>7. rwl_wrunlock(t) => OnlyWakes(t) /\ thread'[t] = "out"
  BY <1>2, <1>3 DEF rwl_wrunlock
<1>8. Spurious(t) =>
        /\ OnlyWakes(t)
        /\ \/ thread[t] = "read_sleeping" /\ thread'[t] = "read_woken"
           \/ thread[t] = "write_sleeping" /\ thread'[t] = "write_woken"
  BY <1>1 DEF Spurious, Moves, OnlyWakes, ThreadStates
<1>9. UNCHANGED lockVars => OnlyWakes(t) /\ thread' = thread
  BY <1>1 DEF lockVars, OnlyWakes
<1> QED
  BY <1>4, <1>5, <1>6, <1>7, <1>8, <1>9

\* What thread t may do: the disjuncts of Next.
ThreadStep(t) ==
  \/ Step(t) \/ hlog(t) \/ reopen_log(t) \/ pthread_create(t) \/ ThreadEnds(t)
  \/ Spurious(t) /\ UNCHANGED logVars
  \/ t = Main /\ close_log

(***************************************************************************)
(* A step of t in hlog.c leaves the other threads where they are in their  *)
(* calls, and the destination of the log as it is.                         *)
(***************************************************************************)
LEMMA Frame ==
  ASSUME LockInv, LogTypeOK, NEW t \in Threads, ThreadStep(t)
  PROVE  /\ OnlyWakes(t)
         /\ log_dest' = log_dest
         /\ call' = [call EXCEPT ![t] = call'[t]]
         /\ fd' = [fd EXCEPT ![t] = fd'[t]]
         /\ \A u \in Threads \ {t} : call'[u] = call[u] /\ fd'[u] = fd[u]
<1>1. call \in [Threads -> CallStates] /\ fd \in [Threads -> Int]
  BY DEF LogTypeOK
<1>2. OnlyWakes(t)
  BY LockMoves DEF ThreadStep, Step, OpenedLine, LineLocks, WriteLine, LineUnlocks, open_log,
       CloseFile, OpenFile, OpenFails, LogUnlocks, LockReturns, hlog, reopen_log, close_log,
       pthread_create, ThreadEnds
<1>3. log_dest' = log_dest
  BY DEF ThreadStep, Step, OpenedLine, LineLocks, WriteLine, LineUnlocks, open_log,
       CloseFile, OpenFile, OpenFails, LogUnlocks, LockReturns, hlog, reopen_log, close_log,
       pthread_create, ThreadEnds, logVars
<1>4. (\E s : Goes(t, s)) \/ UNCHANGED call
  BY DEF ThreadStep, Step, OpenedLine, LineLocks, WriteLine, LineUnlocks, open_log,
       CloseFile, OpenFile, OpenFails, LogUnlocks, LockReturns, hlog, reopen_log, close_log,
       pthread_create, ThreadEnds, logVars
<1>5. (\E s : fd' = [fd EXCEPT ![t] = s]) \/ UNCHANGED fd
  BY DEF ThreadStep, Step, OpenedLine, LineLocks, WriteLine, LineUnlocks, open_log,
       CloseFile, OpenFile, OpenFails, LogUnlocks, LockReturns, hlog, reopen_log, close_log,
       pthread_create, ThreadEnds, logVars
<1>6. call' = [call EXCEPT ![t] = call'[t]]
  BY <1>1, <1>4 DEF Goes
<1>7. fd' = [fd EXCEPT ![t] = fd'[t]]
  BY <1>1, <1>5
<1> QED
  BY <1>1, <1>2, <1>3, <1>6, <1>7

(***************************************************************************)
(* While a thread goes from place to place in hlog.c, what it does with    *)
(* the lock goes with it.                                                  *)
(***************************************************************************)
LEMMA LogTypes ==
  ASSUME LockInv, LogTypeOK, NEW t \in Threads, ThreadStep(t)
  PROVE  LogTypeOK'
<1>1. call \in [Threads -> CallStates] /\ fd \in [Threads -> Int] /\ log_file \in Int
      /\ opened \in Nat /\ thread[t] \in LockStates[call[t]]
  BY DEF LogTypeOK
<1>2. thread[t] \in ThreadStates
  BY DEF LockInv, LockTypeOK
<1>3. fd' \in [Threads -> Int]
  BY <1>1 DEF ThreadStep, Step, OpenedLine, LineLocks, WriteLine, LineUnlocks, open_log,
       CloseFile, OpenFile, OpenFails, LogUnlocks, LockReturns, hlog, reopen_log, close_log,
       pthread_create, ThreadEnds, logVars, Closed
<1>4. log_file' \in Int /\ opened' \in Nat
  BY <1>1 DEF ThreadStep, Step, OpenedLine, LineLocks, WriteLine, LineUnlocks, open_log,
       CloseFile, OpenFile, OpenFails, LogUnlocks, LockReturns, hlog, reopen_log, close_log,
       pthread_create, ThreadEnds, logVars, Closed
<1>5. call'[t] \in CallStates /\ thread'[t] \in LockStates[call'[t]]
  <2>1. CASE hlog(t) \/ OpenedLine(t)
    BY <1>1, <2>1, LockMoves DEF hlog, OpenedLine, Goes, Checked, CallStates, LockStates
  <2>2. CASE LineLocks(t)
    BY <1>1, <2>2, LockMoves DEF LineLocks, Goes, CallStates, LockStates
  <2>3. CASE WriteLine(t)
    BY <1>1, <2>3, LockMoves DEF WriteLine, Goes, CallStates, LockStates
  <2>4. CASE LineUnlocks(t)
    BY <1>1, <2>4, LockMoves DEF LineUnlocks, Goes, CallStates, LockStates
  <2>5. CASE open_log(t) \/ reopen_log(t) \/ (t = Main /\ close_log)
    BY <1>1, <2>5, LockMoves DEF open_log, reopen_log, close_log, Goes, CallStates, LockStates
  <2>6. CASE CloseFile(t)
    BY <1>1, <2>6, LockMoves DEF CloseFile, Goes, CallStates, LockStates
  <2>7. CASE OpenFile(t)
    BY <1>1, <2>7, LockMoves DEF OpenFile, Goes, CallStates, LockStates
  <2>8. CASE OpenFails(t)
    BY <1>1, <2>8, LockMoves DEF OpenFails
  <2>9. CASE LogUnlocks(t)
    BY <1>1, <2>9, LockMoves DEF LogUnlocks, Goes, CallStates, LockStates
  <2>10. CASE pthread_create(t) \/ ThreadEnds(t)
    BY <1>1, <2>10, LockMoves DEF pthread_create, ThreadEnds, Goes, CallStates, LockStates
  <2>11. CASE LockReturns(t)
    <3>1. call'[t] = call[t]
      BY <2>11 DEF LockReturns, logVars
    <3>2. CASE ReadWakes(t)
      <4>1. thread[t] = "read_woken" /\ thread'[t] \in {"read_sleeping", "reading"}
        BY <3>2, LockMoves DEF ReadWakes
      <4> QED
        BY <1>1, <3>1, <4>1 DEF CallStates, LockStates
    <3>3. CASE WriteWakes(t)
      <4>1. thread[t] = "write_woken" /\ thread'[t] \in {"write_sleeping", "writing"}
        BY <3>3, LockMoves DEF WriteWakes
      <4> QED
        BY <1>1, <3>1, <4>1 DEF CallStates, LockStates
    <3> QED
      BY <2>11, <3>2, <3>3 DEF LockReturns
  <2>12. CASE Spurious(t) /\ UNCHANGED logVars
    BY <1>1, <2>12, LockMoves DEF logVars, CallStates, LockStates
  <2> QED
    BY <2>1, <2>2, <2>3, <2>4, <2>5, <2>6, <2>7, <2>8, <2>9, <2>10, <2>11, <2>12
       DEF ThreadStep, Step
<1>6. call' \in [Threads -> CallStates]
  BY <1>1, <1>5, Frame
<1>7. ASSUME NEW u \in Threads \ {t} PROVE thread'[u] \in LockStates[call'[u]]
  <2>1. call'[u] = call[u] /\ call[u] \in CallStates /\ thread[u] \in LockStates[call[u]]
    BY Frame DEF LogTypeOK
  <2>2. \/ thread'[u] = thread[u]
        \/ thread[u] = "read_sleeping" /\ thread'[u] = "read_woken"
        \/ thread[u] = "write_sleeping" /\ thread'[u] = "write_woken"
    BY Frame DEF OnlyWakes
  <2> QED
    BY <2>1, <2>2 DEF LockStates, CallStates
<1> QED
  BY <1>3, <1>4, <1>5, <1>6, <1>7 DEF LogTypeOK

(***************************************************************************)
(* The log is closed for good by the main thread, when it is alone.        *)
(***************************************************************************)
LEMMA AloneStays ==
  ASSUME LockInv, LogTypeOK, Alone, NEW t \in Threads, ThreadStep(t)
  PROVE  Alone'
<1>1. call \in [Threads -> CallStates]
  BY DEF LogTypeOK
<1>2. call[t] # "ended" \/ call'[t] = "ended"
  <2> SUFFICES ASSUME call[t] = "ended" PROVE call'[t] = "ended"
    OBVIOUS
  <2> QED
    BY <1>1 DEF ThreadStep, Step, OpenedLine, LineLocks, WriteLine, LineUnlocks, open_log,
       CloseFile, OpenFile, OpenFails, LogUnlocks, LockReturns, hlog, reopen_log, close_log,
       pthread_create, ThreadEnds, logVars
<1>3. ASSUME call'[t] \in {"closing", "closed"}
      PROVE  call[t] \in {"closing", "closed"} \/ (t = Main /\ close_log)
  BY <1>1, <1>3 DEF ThreadStep, Step, OpenedLine, LineLocks, WriteLine, LineUnlocks, open_log,
       CloseFile, OpenFile, OpenFails, LogUnlocks, LockReturns, hlog, reopen_log, Goes, Checked,
       pthread_create, ThreadEnds, logVars
<1>4. SUFFICES ASSUME NEW v \in Threads, call'[v] \in {"closing", "closed"}
               PROVE  v = Main /\ \A u \in Others : call'[u] = "ended"
  BY DEF Alone
<1>5. v = Main /\ \A u \in Others : call[u] = "ended"
  BY <1>3, <1>4, Frame DEF Alone, close_log
<1> QED
  BY <1>2, <1>5, Frame DEF Others

(***************************************************************************)
(* The file is opened and closed under the write lock only, and the thread *)
(* that closes it to reopen it has the lock until it is open again.        *)
(***************************************************************************)
LEMMA FileStays ==
  ASSUME LockInv, LogInv, NEW t \in Threads, ThreadStep(t)
  PROVE  FileIsOpen'
<1> USE DEF LogInv
<1>1. call \in [Threads -> CallStates] /\ opened \in Nat
  BY DEF LogTypeOK
<1>2. SUFFICES ASSUME log_dest = "file" PROVE FileIsOpen'
  BY Frame DEF FileIsOpen
<1>3. CASE CloseFile(t)
  <2>1. /\ call[t] \in {"closing", "reclosing"} /\ thread[t] = "writing" /\ thread' = thread
        /\ call'[t] = IF call[t] = "reclosing" THEN "opening" ELSE "closed"
    BY <1>1, <1>3 DEF CloseFile, Goes, lockVars
  <2>2. \A u \in Threads : call'[u] # "opened"
    <3>1. ASSUME NEW u \in Threads \ {t} PROVE call[u] # "opened"
      <4>1. thread[u] # "writing"
        BY <2>1, Excludes
      <4> QED
        BY <4>1 DEF LogTypeOK, LockStates, CallStates
    <3> QED
      BY <2>1, <3>1, Frame
  <2>3. CASE call[t] = "reclosing"
    BY <2>1, <2>2, <2>3 DEF FileIsOpen
  <2>4. CASE call[t] = "closing"
    <3>1. t = Main /\ \A u \in Others : call[u] = "ended"
      BY <2>4 DEF Alone
    <3>2. \A u \in Threads : call'[u] \in {"closed", "ended"}
      BY <2>1, <2>4, <3>1, Frame DEF Others
    <3> QED
      BY <3>2 DEF FileIsOpen, Using
  <2> QED
    BY <2>1, <2>3, <2>4
<1>4. CASE OpenFile(t)
  <2>1. log_file' = opened + 1
    BY <1>2, <1>4 DEF OpenFile
  <2>2. log_file' # Closed
    BY <1>1, <2>1 DEF Closed
  <2> QED
    BY <2>2 DEF FileIsOpen
<1>5. ASSUME ~CloseFile(t), ~OpenFile(t) PROVE log_file' = log_file
  BY <1>5 DEF ThreadStep, Step, OpenedLine, LineLocks, WriteLine, LineUnlocks, open_log,
       CloseFile, OpenFile, OpenFails, LogUnlocks, LockReturns, hlog, reopen_log, close_log,
       pthread_create, ThreadEnds, logVars
<1>6. ASSUME ~OpenFile(t), call'[t] = "opened" PROVE call[t] = "opened"
  BY <1>1, <1>6 DEF Goes, Checked, ThreadStep, Step, OpenedLine, LineLocks, WriteLine, LineUnlocks, open_log,
       CloseFile, OpenFile, OpenFails, LogUnlocks, LockReturns, hlog, reopen_log, close_log,
       pthread_create, ThreadEnds, logVars
<1>7. ASSUME ~CloseFile(t), ~OpenFile(t),
             NEW u \in Threads, call[u] = "opening", thread[u] = "writing"
      PROVE  call'[u] = "opening" /\ thread'[u] = "writing"
  <2>1. CASE u # t
    BY <1>7, <2>1, Frame DEF OnlyWakes
  <2>2. CASE u = t
    BY <1>1, <1>7, <2>2, LockMoves DEF ReadWakes, WriteWakes, ThreadStep, Step, OpenedLine, LineLocks, WriteLine, LineUnlocks, open_log,
       CloseFile, OpenFile, OpenFails, LogUnlocks, LockReturns, hlog, reopen_log, close_log,
       pthread_create, ThreadEnds, logVars
  <2> QED
    BY <2>1, <2>2
<1>8. ASSUME ~CloseFile(t), ~OpenFile(t), call'[t] \in Using
      PROVE  log_file # Closed \/ \E v \in Threads : call[v] \in Using
  <2>1. CASE LogUnlocks(t)
    <3>1. call[t] = "opened"
      BY <1>1, <1>8, <2>1 DEF LogUnlocks, Goes, Using
    <3> QED
      BY <1>2, <3>1 DEF FileIsOpen
  <2>2. CASE pthread_create(t)
    BY <2>2, LogAssumption DEF pthread_create, Using
  <2>3. CASE ~LogUnlocks(t) /\ ~pthread_create(t)
    BY <1>1, <1>8, <2>3 DEF Goes, Checked, Using, ThreadStep, Step, OpenedLine, LineLocks, WriteLine, LineUnlocks, open_log,
       CloseFile, OpenFile, OpenFails, LogUnlocks, LockReturns, hlog, reopen_log, close_log,
       pthread_create, ThreadEnds, logVars
  <2> QED
    BY <2>1, <2>2, <2>3
<1>9. CASE ~CloseFile(t) /\ ~OpenFile(t)
  <2>1. log_file' = log_file
    BY <1>5, <1>9
  <2>2. ASSUME NEW u \in Threads, call'[u] = "opened" PROVE log_file' # Closed
    BY <1>2, <1>6, <1>9, <2>1, <2>2, Frame DEF FileIsOpen
  <2>3. ASSUME NEW u \in Threads, call'[u] \in Using
        PROVE  log_file # Closed \/ \E v \in Threads : call[v] \in Using
    BY <1>8, <1>9, <2>3, Frame
  <2>4. ASSUME NEW u \in Threads, call'[u] \in Using
        PROVE  \/ log_file' # Closed
               \/ \E v \in Threads : call'[v] = "opening" /\ thread'[v] = "writing"
    BY <1>2, <1>7, <1>9, <2>1, <2>3, <2>4 DEF FileIsOpen
  <2> QED
    BY <2>2, <2>4 DEF FileIsOpen
<1> QED
  BY <1>3, <1>4, <1>9

(***************************************************************************)
(* Whoever writes a line has the lock, and got it when the file was open.  *)
(***************************************************************************)
LEMMA LineStays ==
  ASSUME LockInv, LogInv, NEW t \in Threads, ThreadStep(t)
  PROVE  LineGoesToOpenFile'
<1> USE DEF LogInv
<1>1. call \in [Threads -> CallStates] /\ fd \in [Threads -> Int]
  BY DEF LogTypeOK
<1>2. SUFFICES ASSUME NEW u \in Threads, log_dest = "file", call'[u] = "writing"
               PROVE  fd'[u] = log_file' /\ log_file' # Closed
  BY Frame DEF LineGoesToOpenFile
<1>3. CASE WriteLine(t) /\ u = t
  <2>1. /\ fd'[t] = log_file /\ log_file' = log_file
        /\ call[t] = "line_locked" /\ thread[t] = "reading"
    BY <1>1, <1>3 DEF WriteLine
  <2>2. \A v \in Threads : thread[v] # "writing"
    BY <2>1, Excludes
  <2>3. log_file # Closed
    BY <1>2, <2>1, <2>2 DEF FileIsOpen, Using
  <2> QED
    BY <1>3, <2>1, <2>3
<1>4. CASE ~WriteLine(t) \/ u # t
  <2>1. call[u] = "writing" /\ fd'[u] = fd[u]
    <3>1. CASE u # t
      BY <1>2, <3>1, Frame
    <3>2. CASE u = t
      BY <1>1, <1>2, <1>4, <3>2 DEF Goes, Checked, ThreadStep, Step, OpenedLine, LineLocks, WriteLine, LineUnlocks, open_log,
       CloseFile, OpenFile, OpenFails, LogUnlocks, LockReturns, hlog, reopen_log, close_log,
       pthread_create, ThreadEnds, logVars
    <3> QED
      BY <3>1, <3>2
  <2>2. thread[u] = "reading"
    BY <2>1 DEF LogTypeOK, LockStates, CallStates
  <2>3. ~CloseFile(t) /\ ~OpenFile(t)
    <3>1. CloseFile(t) \/ OpenFile(t) => thread[t] = "writing"
      BY DEF CloseFile, OpenFile
    <3> QED
      BY <2>2, <3>1, Excludes
  <2>4. log_file' = log_file
    BY <2>3 DEF ThreadStep, Step, OpenedLine, LineLocks, WriteLine, LineUnlocks, open_log,
       CloseFile, OpenFile, OpenFails, LogUnlocks, LockReturns, hlog, reopen_log, close_log,
       pthread_create, ThreadEnds, logVars
  <2> QED
    BY <1>2, <2>1, <2>4 DEF LineGoesToOpenFile
<1> QED
  BY <1>3, <1>4

-----------------------------------------------------------------------------
(* Theorems about the log                                                  *)

(***************************************************************************)
(* LogInv is an invariant of hlog.c, given that of the lock.               *)
(***************************************************************************)
THEOREM LogInvariant == Spec => []LogInv
<1>1. Init => LogInv
  <2> SUFFICES ASSUME Init PROVE LogInv
    OBVIOUS
  <2>1. LogTypeOK
    BY LogAssumption DEF Init, LockInit, LogTypeOK, CallStates, LockStates, Closed
  <2> QED
    BY <2>1 DEF Init, LogInv, Alone, FileIsOpen, LineGoesToOpenFile, Using
<1>2. LockInv /\ LogInv /\ [Next]_vars => LogInv'
  <2> SUFFICES ASSUME LockInv, LogInv, [Next]_vars PROVE LogInv'
    OBVIOUS
  <2>1. CASE Next
    <3>1. PICK t \in Threads : ThreadStep(t)
      BY <2>1, LogAssumption DEF Next, ThreadStep
    <3> QED
      BY <3>1, LogTypes, AloneStays, FileStays, LineStays DEF LogInv
  <2>2. CASE UNCHANGED vars
    BY <2>2 DEF vars, lockVars, logVars, LogInv, LogTypeOK, Alone, FileIsOpen,
                LineGoesToOpenFile
  <2> QED
    BY <2>1, <2>2
<1> QED
  BY <1>1, <1>2, LogUsesLock, LockInvariant, PTL DEF Spec

(***************************************************************************)
(* No write() of hlog() runs on a closed descriptor or on an old one,      *)
(* however many threads log and reopen.                                    *)
(***************************************************************************)
THEOREM LinesReachFile == Spec => []LineGoesToOpenFile
<1>1. LogInv => LineGoesToOpenFile
  BY DEF LogInv
<1> QED
  BY <1>1, LogInvariant, PTL
=============================================================================
