--------------------------- MODULE ReadWriteLock ----------------------------
(***************************************************************************)
(* What a read-write lock promises: many readers or one writer.            *)
(***************************************************************************)
CONSTANT Threads

VARIABLES
  readers,    \* the threads that hold the lock for reading
  writers     \* the threads that hold it for writing

Init == readers = {} /\ writers = {}

LockRead(t)    == writers = {} /\ readers' = readers \cup {t} /\ UNCHANGED writers
LockWrite(t)   == writers = {} /\ readers = {} /\ writers' = {t} /\ UNCHANGED readers
UnlockRead(t)  == t \in readers /\ readers' = readers \ {t} /\ UNCHANGED writers
UnlockWrite(t) == t \in writers /\ writers' = writers \ {t} /\ UNCHANGED readers

Next ==
  \E t \in Threads : LockRead(t) \/ LockWrite(t) \/ UnlockRead(t) \/ UnlockWrite(t)

Spec == Init /\ [][Next]_<<readers, writers>>
=============================================================================
