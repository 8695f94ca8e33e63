------------------------------- MODULE Filter -------------------------------
(***************************************************************************)
(* The FIR filter of src/src/filter.c: a buffer that is written forward    *)
(* and whose tail is copied to its front when it is full, so that the mac  *)
(* always reads one contiguous piece.  One step is one pass of the loop of *)
(* filter_run_buf().  The sum of products is abstracted to its operands:   *)
(* out is the piece of the buffer that is multiplied with the taps.        *)
(***************************************************************************)
EXTENDS Integers

CONSTANTS
  BufferLen,      \* 1024
  FilterLength,   \* f->length, 36
  Samples,        \* the values of a sample
  Silence         \* what memset() fills the buffer with

ASSUME FilterAssumption ==
  /\ BufferLen \in Nat /\ FilterLength \in Nat \ {0}
  /\ BufferLen >= 2 * FilterLength      \* memcpy(): the pieces do not overlap
  /\ Silence \in Samples

VARIABLES
  buffer,         \* f->buffer
  pointer,        \* f->pointer, where the next sample goes
  out             \* the operands of the last filter_mac()

vars == <<buffer, pointer, out>>

Window == 0 .. FilterLength - 1

filter_init ==
  /\ buffer = [j \in 0 .. BufferLen - 1 |-> Silence]
  /\ pointer = FilterLength
  /\ out = [i \in Window |-> Silence]

\* What filter_mac(&buffer[p - f->length], f->taps, f->length) reads.
Operands(buf, p) == [i \in Window |-> buf[p - FilterLength + i]]

\* Mutant: the copy starts one sample early.
TailToFrontEarly(buf) ==
  [j \in 0 .. BufferLen - 1 |->
     IF j < FilterLength THEN buf[BufferLen - FilterLength - 1 + j] ELSE buf[j]]

\* memcpy(buffer, buffer + BufferLen - f->length, f->length)
TailToFront(buf) ==
  [j \in 0 .. BufferLen - 1 |->
     IF j < FilterLength THEN buf[BufferLen - FilterLength + j] ELSE buf[j]]

\* Mutant: the pointer goes back one sample too far.
AdvanceFarBack(written) ==
  IF pointer + 1 = BufferLen
    THEN pointer' = FilterLength - 1 /\ buffer' = TailToFront(written)
    ELSE pointer' = pointer + 1 /\ buffer' = written

Advance(written) ==
  IF pointer + 1 = BufferLen
    THEN pointer' = FilterLength /\ buffer' = TailToFront(written)
    ELSE pointer' = pointer + 1 /\ buffer' = written

filter_run(in) ==
  LET written == [buffer EXCEPT ![pointer] = in]
  IN  /\ out' = Operands(written, pointer)
      /\ Advance(written)

Next == \E in \in Samples : filter_run(in)

Spec == filter_init /\ [][Next]_vars

-----------------------------------------------------------------------------

\* The pointer is an index of the buffer.
TypeOK ==
  /\ buffer \in [0 .. BufferLen - 1 -> Samples]
  /\ pointer \in 0 .. BufferLen - 1
  /\ out \in [Window -> Samples]

(***************************************************************************)
(* The next sample and the FilterLength samples before it lie inside       *)
(* f->buffer: neither the write nor the mac leaves it, on any side.        *)
(***************************************************************************)
WindowInBuffer == FilterLength <= pointer /\ pointer < BufferLen

(***************************************************************************)
(* The buffer, seen through the pointer, is a sliding window: no sample is *)
(* lost, repeated or reordered where the buffer wraps.                     *)
(***************************************************************************)
SW == INSTANCE SlidingWindow WITH window <- Operands(buffer, pointer)

SlidesLikeAWindow == SW!Spec
=============================================================================
