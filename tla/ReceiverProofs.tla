--------------------------- MODULE ReceiverProofs ---------------------------
(***************************************************************************)
(* A receiver, from the sound card to the bits.                            *)
(*                                                                         *)
(* The bit clock with the constants of src/src/receiver.c, for every       *)
(* signal.  SliceSpacing is not inductive: the invariant bounds the phase  *)
(* by the number of samples since the slice, the lower bounds with every   *)
(* pull against and the upper ones with every pull forward that the half   *)
(* of the bit allows.                                                      *)
(*                                                                         *)
(* OneBitPerSymbol, on a signal of symbols, is: the phase is a linear      *)
(* function of the phase at the beginning of the symbol, the samples heard *)
(* and the slices taken, and after an edge it stays away from the ends of  *)
(* its range by more than the rounding of pllinc can eat up in the symbols *)
(* without an edge.                                                        *)
(*                                                                         *)
(* The filter's buffer implements the sliding window, for every buffer     *)
(* length and every set of samples; and from the sound card to the filter, *)
(* for every schedule of reads, failures and settings of the clock, the    *)
(* receiver filters its own channel, aborts on periods that are too long   *)
(* only, and reports a signal that is too loud.                            *)
(***************************************************************************)
EXTENDS SymbolClock, Sound, SequenceTheorems, TLAPS

-----------------------------------------------------------------------------
(* The bit clock                                                           *)

\* What init_receiver() and receiver_run() fix.
CodeConstants == Full = 65536 /\ SamplesPerBit = 5 /\ INC = 16

PhaseBounds ==
  /\ since = 0 =>     0 <= pll /\ pll <= 13106
  /\ since = 1 => 13107 <= pll /\ pll <= 27032
  /\ since = 2 => 26214 <= pll /\ pll <= 40958
  /\ since = 3 => 39321 <= pll /\ pll <= 54065
  /\ since = 4 => 51609 <= pll /\ pll <= 65535
  /\ since = 5 => 63897 <= pll /\ pll <= 65535

ClockInv == RxTypeOK /\ PhaseBounds

\* The phase at the beginning of the symbol, pulled if there was an edge.
Base == pll - 13107 * pos + 65536 * got

SymbolInv ==
  /\ equal \in Nat /\ pos \in 0 .. 5 /\ got \in Nat
  /\ edged => equal > 0
  /\ equal > 0 => equal <= MaxEqual /\ pos \in 1 .. 5 /\ prev = sym
  /\ equal > 0 /\ got > 0 => lastbit = sym
  /\ edged => 820 - equal <= Base /\ Base <= 64717 - equal

-----------------------------------------------------------------------------

(***************************************************************************)
(* The integer divisions of init_receiver() and receiver_run().            *)
(***************************************************************************)
LEMMA Constants == CodeConstants => pllinc = 13107 /\ Pull = 819 /\ Full \div 2 = 32768
  BY DEF CodeConstants, pllinc, Pull

(***************************************************************************)
(* A phase of at most 0xffff, stated without a large interval, is a phase. *)
(***************************************************************************)
LEMMA CodeFull ==
  ASSUME CodeConstants, NEW p \in Int, 0 <= p, p <= 65535 PROVE p \in 0 .. Full - 1
<1>1. Full \in Int /\ p < Full
  BY DEF CodeConstants
<1> HIDE DEF CodeConstants
<1> QED
  BY <1>1

(***************************************************************************)
(* The slowest bit clock the pulls allow takes six samples.                *)
(***************************************************************************)
LEMMA LatestIs == CodeConstants => Latest = 6
  BY DEF CodeConstants, Latest

(***************************************************************************)
(* One sample: the invariant is kept, and a slice comes after four to six  *)
(* samples.                                                                *)
(***************************************************************************)
LEMMA SampleStep ==
  ASSUME CodeConstants, ClockInv, NEW curr \in Level, RxSample(curr)
  PROVE  ClockInv' /\ (fed' # None => since + 1 \in Earliest .. Latest)
<1> DEFINE p == EdgePulled(curr) + pllinc
<1>1. /\ pll \in Int /\ 0 <= pll /\ pll < 65536 /\ since \in 0 .. 5
      /\ prev \in Level /\ lastbit \in Level
      /\ Earliest = 4 /\ Latest = 6 /\ Full = 65536
  <2>1. Earliest = 4 /\ Latest = 6 /\ Full = 65536
    BY DEF Earliest, Latest, CodeConstants
  <2>2. /\ pll \in 0 .. Full - 1 /\ since \in 0 .. Latest - 1
        /\ prev \in Level /\ lastbit \in Level
    BY DEF ClockInv, RxTypeOK
  <2>3. pll \in Int /\ 0 <= pll /\ pll <= Full - 1
    BY <2>1, <2>2
  <2>4. pll < 65536
    BY <2>1, <2>3
  <2>5. since \in 0 .. 5
    BY <2>1, <2>2
  <2> QED
    BY <2>1, <2>2, <2>3, <2>4, <2>5
<1>2. \/ curr = prev /\ p = pll + 13107
      \/ pll < 32768 /\ p = pll + 13926
      \/ ~(pll < 32768) /\ p = pll + 12288
  BY <1>1, Constants DEF EdgePulled
<1>3. CASE p > Full - 1
  <2>1. /\ fed' = IF curr = lastbit THEN 1 ELSE 0
        /\ lastbit' = curr /\ prev' = curr /\ since' = 0 /\ pll' = p % Full
    BY <1>3 DEF RxSample, Slice
  <2>2. p \in Int /\ 65536 <= p /\ p <= 78642
    BY <1>1, <1>2, <1>3
  <2>3. pll' \in Int /\ 0 <= pll' /\ pll' <= 13106
    BY <1>1, <2>1, <2>2
  <2>4. since \in 3 .. 5
    BY <1>1, <1>2, <2>2 DEF ClockInv, PhaseBounds
  <2>5. RxTypeOK'
    <3>1. pll' \in 0 .. Full - 1
      BY <2>3, CodeFull
    <3>2. since' \in 0 .. Latest - 1 /\ fed' \in Level \cup {None}
      BY <2>1, LatestIs DEF Level
    <3> QED
      BY <2>1, <3>1, <3>2 DEF RxTypeOK
  <2> QED
    BY <1>1, <2>1, <2>3, <2>4, <2>5 DEF ClockInv, PhaseBounds
<1>4. CASE ~(p > Full - 1)
  <2>1. pll' = p /\ since' = since + 1 /\ fed' = None /\ prev' = curr /\ lastbit' = lastbit
    BY <1>4 DEF RxSample
  <2>2. p \in Int /\ 0 <= p /\ p <= 65535
    BY <1>1, <1>2, <1>4
  <2>3. since \in 0 .. 4 /\ PhaseBounds'
    BY <1>1, <1>2, <2>1, <2>2 DEF ClockInv, PhaseBounds
  <2>4. RxTypeOK'
    <3>1. pll' \in 0 .. Full - 1
      BY <2>1, <2>2, CodeFull
    <3>2. since' \in 0 .. Latest - 1
      BY <2>1, <2>3, LatestIs
    <3>3. lastbit' \in Level /\ fed' \in Level \cup {None}
      BY <1>1, <2>1
    <3> QED
      BY <2>1, <3>1, <3>2, <3>3 DEF RxTypeOK
  <2> QED
    BY <2>1, <2>3, <2>4 DEF ClockInv
<1> QED
  BY <1>3, <1>4, SMTT(30)

(***************************************************************************)
(* init_receiver() starts the clock inside the invariant.                  *)
(***************************************************************************)
LEMMA ClockInitInv == CodeConstants /\ RxInit => ClockInv
  BY DEF CodeConstants, RxInit, ClockInv, RxTypeOK, PhaseBounds, Level, Latest

(***************************************************************************)
(* Every reachable state of the bit clock satisfies the invariant.         *)
(***************************************************************************)
THEOREM ClockInductive == ASSUME CodeConstants PROVE RxSpec => []ClockInv
<1>1. RxInit => ClockInv
  BY ClockInitInv
<1>2. ClockInv /\ [RxNext]_rxVars => ClockInv'
  <2>1. ClockInv /\ RxNext => ClockInv'
    BY SampleStep DEF RxNext
  <2>2. ClockInv /\ UNCHANGED rxVars => ClockInv'
    BY DEF rxVars, ClockInv, RxTypeOK, PhaseBounds
  <2> QED
    BY <2>1, <2>2
<1> QED
  BY <1>1, <1>2, PTL DEF RxSpec

(***************************************************************************)
(* The phase of the bit clock stays within 0 .. 0xffff for every signal.   *)
(***************************************************************************)
THEOREM PhaseStaysPhase == ASSUME CodeConstants PROVE RxSpec => []RxTypeOK
<1>1. RxSpec => []ClockInv
  BY ClockInductive
<1>2. ClockInv => RxTypeOK
  BY DEF ClockInv
<1> QED
  BY <1>1, <1>2, PTL

(***************************************************************************)
(* Every signal is sliced every four to six samples: receiver_run()        *)
(* neither starves protodec_decode() nor feeds it two bits for one.        *)
(***************************************************************************)
THEOREM ClockKeepsPace == ASSUME CodeConstants PROVE RxSpec => SliceSpacing
<1>1. RxSpec => []ClockInv
  BY ClockInductive
<1>2. ClockInv /\ [RxNext]_rxVars => [fed' # None => since + 1 \in Earliest .. Latest]_rxVars
  BY SampleStep DEF RxNext
<1> QED
  BY <1>1, <1>2, PTL DEF RxSpec, SliceSpacing

-----------------------------------------------------------------------------
(* A signal of symbols                                                     *)

(***************************************************************************)
(* One sample in numbers: the phase advances by a fifth of its range, a    *)
(* pull is a sixteenth of that, and an overflow is a slice.                *)
(***************************************************************************)
LEMMA SampleNumbers ==
  ASSUME CodeConstants, ClockInv, NEW curr \in Level, RxSample(curr)
  PROVE  /\ pll \in Int /\ 0 <= pll /\ pll <= 65535
         /\ EdgePulled(curr) \in Int
         /\ Sliced \in {0, 1}
         /\ pll' = EdgePulled(curr) + 13107 - 65536 * Sliced
         /\ prev' = curr
         /\ Sliced = 1 => lastbit' = curr
         /\ Sliced = 0 => lastbit' = lastbit
         /\ curr = prev => EdgePulled(curr) = pll
         /\ curr # prev => 819 <= EdgePulled(curr) /\ EdgePulled(curr) <= 64716
<1> DEFINE e == EdgePulled(curr)
<1>1. pll \in Int /\ 0 <= pll /\ pll <= 65535 /\ Full = 65536
  <2>1. pll \in Int /\ 0 <= pll /\ pll < Full
    BY ReceiverAssumption DEF ClockInv, RxTypeOK
  <2>2. Full = 65536
    BY DEF CodeConstants
  <2> QED
    BY <2>1, <2>2
<1>2. \/ curr = prev /\ e = pll
      \/ curr # prev /\ pll < 32768 /\ e = pll + 819
      \/ curr # prev /\ ~(pll < 32768) /\ e = pll - 819
  BY <1>1, Constants DEF EdgePulled
<1>3. e \in Int /\ 0 <= e /\ e <= 65535 /\ (curr # prev => 819 <= e /\ e <= 64716) /\ (curr = prev => e = pll)
  BY <1>1, <1>2
<1>4. pllinc = 13107
  BY Constants
<1>5. CASE e + pllinc > Full - 1
  <2>1. fed' \in {0, 1} /\ lastbit' = curr /\ pll' = (e + 13107) % 65536 /\ prev' = curr
    BY <1>1, <1>4, <1>5 DEF RxSample, Slice
  <2>2. Sliced = 1
    BY <2>1, ReceiverAssumption DEF Sliced
  <2> HIDE DEF e
  <2>3. pll' = e + 13107 - 65536
    BY <1>1, <1>3, <1>4, <1>5, <2>1
  <2> QED
    BY <1>1, <1>3, <2>1, <2>2, <2>3 DEF e
<1>6. CASE ~(e + pllinc > Full - 1)
  <2>1. fed' = None /\ lastbit' = lastbit /\ pll' = e + 13107 /\ prev' = curr
    BY <1>4, <1>6 DEF RxSample
  <2>2. Sliced = 0
    BY <2>1 DEF Sliced
  <2> HIDE DEF e
  <2> QED
    BY <1>1, <1>3, <2>1, <2>2 DEF e
<1> QED
  BY <1>5, <1>6

(***************************************************************************)
(* At the end of a symbol after an edge, exactly one slice was taken, and  *)
(* the next symbol begins one step of the phase earlier than this one.     *)
(***************************************************************************)
LEMMA SymbolEnd ==
  ASSUME CodeConstants, MaxEqual <= 819, MaxEqual \in Nat, ClockInv, SymbolInv, edged, pos = 5
  PROVE  got = 1 /\ lastbit = sym /\ 819 - equal <= pll /\ pll <= 64716 - equal
<1>1. pll \in Int /\ 0 <= pll /\ pll <= 65535
  <2>1. pll \in Int /\ 0 <= pll /\ pll < Full
    BY ReceiverAssumption DEF ClockInv, RxTypeOK
  <2>2. Full = 65536
    BY DEF CodeConstants
  <2> QED
    BY <2>1, <2>2
<1>2. /\ equal \in Nat /\ equal > 0 /\ equal <= 819 /\ got \in Nat
      /\ 820 - equal <= Base /\ Base <= 64717 - equal
  BY DEF SymbolInv
<1>3. Base \in Int /\ pll = Base + 65535 - 65536 * got
  BY <1>1, <1>2 DEF Base
<1>4. 1 <= Base /\ Base <= 64716
  BY <1>2, <1>3
<1>5. got = 1
  BY <1>1, <1>2, <1>3, <1>4
<1>6. pll = Base - 1
  BY <1>3, <1>5
<1>7. lastbit = sym
  BY <1>2, <1>5 DEF SymbolInv
<1> QED
  BY <1>2, <1>3, <1>5, <1>6, <1>7

(***************************************************************************)
(* The step from one symbol to the next, with or without an edge.          *)
(***************************************************************************)
LEMMA BeginStep ==
  ASSUME CodeConstants, MaxEqual <= 819, MaxEqual \in Nat \ {0}, ClockInv, SymbolInv, SymbolBegins
  PROVE  ClockInv' /\ SymbolInv'
<1>1. PICK s \in Level :
        /\ equal > 0 /\ s = sym => equal < MaxEqual
        /\ RxSample(s) /\ sym' = s
        /\ equal' = IF equal > 0 /\ s = sym THEN equal + 1 ELSE 1
        /\ edged' = (edged \/ (equal > 0 /\ s # sym))
  BY DEF SymbolBegins
<1>2. ClockInv'
  BY <1>1, SampleStep
<1>3. pos' = 1 /\ got' = Sliced /\ (equal = 0 \/ pos = 5)
  BY DEF SymbolBegins, CodeConstants
<1>4. equal \in Nat /\ (equal > 0 => prev = sym) /\ (edged => equal > 0)
  BY DEF SymbolInv
<1>5. /\ pll' = EdgePulled(s) + 13107 - 65536 * Sliced /\ EdgePulled(s) \in Int
      /\ Sliced \in {0, 1} /\ prev' = s /\ (Sliced = 1 => lastbit' = s)
  BY <1>1, SampleNumbers
<1>6. Base' = EdgePulled(s)
  BY <1>3, <1>5 DEF Base
<1>7. equal' \in Nat /\ equal' > 0 /\ equal' <= MaxEqual
  BY <1>1, <1>4
<1>8. ASSUME edged' PROVE 820 - equal' <= Base' /\ Base' <= 64717 - equal'
  <2>1. CASE equal > 0 /\ s = sym
    <3>0. edged
      BY <1>1, <1>8, <2>1, Zenon
    <3>1. edged /\ pos = 5 /\ equal' = equal + 1
      BY <1>1, <1>3, <1>4, <2>1, <3>0
    <3>2. 819 - equal <= pll /\ pll <= 64716 - equal
      BY <3>1, SymbolEnd
    <3>3. EdgePulled(s) = pll
      BY <1>1, <1>4, <2>1, SampleNumbers
    <3> QED
      BY <1>4, <1>6, <3>1, <3>2, <3>3
  <2>2. CASE ~(equal > 0 /\ s = sym)
    <3>1. equal' = 1 /\ s # prev
      BY <1>1, <1>4, <1>8, <2>2
    <3>2. 819 <= EdgePulled(s) /\ EdgePulled(s) <= 64716
      BY <1>1, <3>1, SampleNumbers
    <3> QED
      BY <1>6, <3>1, <3>2
  <2> QED
    BY <2>1, <2>2
<1>9. SymbolInv'
  BY <1>1, <1>3, <1>5, <1>7, <1>8 DEF SymbolInv
<1> QED
  BY <1>2, <1>9

(***************************************************************************)
(* A sample inside a symbol has no edge.                                   *)
(***************************************************************************)
LEMMA GoesOnStep ==
  ASSUME CodeConstants, ClockInv, SymbolInv, SymbolGoesOn
  PROVE  ClockInv' /\ SymbolInv'
<1>1. /\ equal > 0 /\ pos < 5 /\ RxSample(sym) /\ pos' = pos + 1 /\ got' = got + Sliced
      /\ UNCHANGED <<sym, equal, edged>>
  BY DEF SymbolGoesOn, CodeConstants
<1>2. /\ equal \in Nat /\ pos \in 1 .. 5 /\ got \in Nat /\ prev = sym /\ equal <= MaxEqual
      /\ (got > 0 => lastbit = sym) /\ (edged => 820 - equal <= Base /\ Base <= 64717 - equal)
  BY <1>1 DEF SymbolInv
<1>3. sym \in Level
  BY <1>2 DEF ClockInv, RxTypeOK
<1>4. ClockInv'
  BY <1>1, <1>3, SampleStep
<1>5. /\ pll \in Int /\ pll' = pll + 13107 - 65536 * Sliced /\ Sliced \in {0, 1} /\ prev' = sym
      /\ Sliced = 1 => lastbit' = sym
      /\ Sliced = 0 => lastbit' = lastbit
  BY <1>1, <1>2, <1>3, SampleNumbers
<1>6. Base' = Base
  BY <1>1, <1>2, <1>5 DEF Base
<1>7. pos' \in 1 .. 5 /\ got' \in Nat /\ (got' > 0 => lastbit' = sym)
  BY <1>1, <1>2, <1>5
<1>8. SymbolInv'
  BY <1>1, <1>2, <1>5, <1>6, <1>7 DEF SymbolInv
<1> QED
  BY <1>4, <1>8

(***************************************************************************)
(* The clock of receiver_run() slices every symbol after the first edge    *)
(* exactly once, with its level, for every signal with at most 819 symbols *)
(* in a row without an edge: many more than the 7 that HDLC allows.        *)
(***************************************************************************)
THEOREM SymbolsSlicedOnce ==
  ASSUME CodeConstants, MaxEqual \in Nat \ {0}, MaxEqual <= 819
  PROVE  ClockSpec => []OneBitPerSymbol
<1>1. ClockInit => ClockInv /\ SymbolInv
  <2> SUFFICES ASSUME ClockInit PROVE ClockInv /\ SymbolInv
    OBVIOUS
  <2>1. ClockInv
    BY ClockInitInv DEF ClockInit
  <2>2. SymbolInv
    BY DEF ClockInit, SymbolInv
  <2> QED
    BY <2>1, <2>2
<1>2. ClockInv /\ SymbolInv /\ [ClockNext]_<<rxVars, clockVars>> => ClockInv' /\ SymbolInv'
  <2> SUFFICES ASSUME ClockInv, SymbolInv, [ClockNext]_<<rxVars, clockVars>>
               PROVE  ClockInv' /\ SymbolInv'
    OBVIOUS
  <2>1. CASE NoiseSample
    <3>1. ClockInv'
      BY <2>1, SampleStep DEF NoiseSample, RxNext
    <3>2. SymbolInv'
      BY <2>1 DEF NoiseSample, clockVars, SymbolInv
    <3> QED
      BY <3>1, <3>2
  <2>2. CASE SymbolBegins
    BY <2>2, BeginStep
  <2>3. CASE SymbolGoesOn
    BY <2>3, GoesOnStep
  <2>4. CASE UNCHANGED <<rxVars, clockVars>>
    BY <2>4 DEF rxVars, clockVars, ClockInv, RxTypeOK, PhaseBounds, SymbolInv, Base
  <2> QED
    BY <2>1, <2>2, <2>3, <2>4 DEF ClockNext
<1>3. ClockInv /\ SymbolInv => OneBitPerSymbol
  BY SymbolEnd DEF OneBitPerSymbol, CodeConstants
<1> QED
  BY <1>1, <1>2, <1>3, PTL DEF ClockSpec

-----------------------------------------------------------------------------
(* The filter by itself                                                    *)

IInv == TypeOK /\ WindowInBuffer

(***************************************************************************)
(* filter_init() places the pointer behind one window of silence.          *)
(***************************************************************************)
LEMMA InitIInv == filter_init => IInv
  BY FilterAssumption DEF filter_init, IInv, TypeOK, WindowInBuffer, Window

(***************************************************************************)
(* One sample: the pointer stays in bounds, and the window seen through it *)
(* moves by one sample whether or not the buffer wraps.                    *)
(***************************************************************************)
LEMMA Slides ==
  ASSUME IInv, NEW in \in Samples, filter_run(in)
  PROVE  IInv' /\ SW!Shift(in)
<1> DEFINE written == [buffer EXCEPT ![pointer] = in]
<1> USE FilterAssumption
<1>1. /\ pointer \in Int /\ FilterLength <= pointer /\ pointer < BufferLen
      /\ buffer \in [0 .. BufferLen - 1 -> Samples]
  BY DEF IInv, TypeOK, WindowInBuffer
<1>2. /\ written \in [0 .. BufferLen - 1 -> Samples]
      /\ written[pointer] = in
      /\ \A j \in 0 .. BufferLen - 1 : j # pointer => written[j] = buffer[j]
  BY <1>1
<1>3. out' = Operands(written, pointer) /\ Advance(written)
  BY DEF filter_run
<1>4. out' = Operands(buffer, pointer)
  BY <1>1, <1>2, <1>3 DEF Operands, Window
<1>5. out' \in [Window -> Samples]
  BY <1>1, <1>4 DEF Operands, Window
<1> DEFINE moved == [i \in 0 .. FilterLength - 1 |->
                       IF i = FilterLength - 1 THEN in
                       ELSE Operands(buffer, pointer)[i + 1]]
<1>6. CASE pointer + 1 = BufferLen
  <2>1. pointer' = FilterLength /\ buffer' = TailToFront(written)
    BY <1>3, <1>6 DEF Advance
  <2>2. buffer' \in [0 .. BufferLen - 1 -> Samples]
    BY <1>1, <1>2, <2>1 DEF TailToFront
  <2>3. ASSUME NEW i \in Window
        PROVE  buffer'[pointer' - FilterLength + i] = moved[i]
    <3>1. buffer'[pointer' - FilterLength + i] = written[BufferLen - FilterLength + i]
      BY <1>1, <2>1 DEF TailToFront, Window
    <3> QED
      BY <3>1, <1>1, <1>2, <1>6 DEF Operands, Window
  <2>4. Operands(buffer', pointer') = moved
    BY <2>3 DEF Operands, Window
  <2>5. FilterLength \in Int /\ FilterLength < BufferLen
    OBVIOUS
  <2>6. TypeOK' /\ WindowInBuffer'
    <3>1. pointer' \in Int /\ FilterLength <= pointer' /\ pointer' < BufferLen
      BY <2>1, <2>5
    <3> QED
      BY <1>5, <2>2, <3>1 DEF TypeOK, WindowInBuffer
  <2>7. SW!Shift(in)
    BY <1>4, <2>4 DEF SW!Shift, Operands
  <2> QED
    BY <2>6, <2>7 DEF IInv
<1>7. CASE pointer + 1 # BufferLen
  <2>1. pointer' = pointer + 1 /\ buffer' = written
    BY <1>3, <1>7 DEF Advance
  <2>2. ASSUME NEW i \in Window
        PROVE  buffer'[pointer' - FilterLength + i] = moved[i]
    BY <2>1, <1>1, <1>2 DEF Operands, Window
  <2>3. Operands(buffer', pointer') = moved
    BY <2>2 DEF Operands, Window
  <2> QED
    BY <1>1, <1>2, <1>4, <1>5, <1>7, <2>1, <2>3, SMTT(30)
    DEF IInv, TypeOK, WindowInBuffer, SW!Shift, Operands
<1> QED
  BY <1>6, <1>7

(***************************************************************************)
(* Every reachable state keeps the pointer and the window in the buffer.   *)
(***************************************************************************)
THEOREM Inductive == Spec => []IInv
<1>1. IInv /\ [Next]_vars => IInv'
  <2>1. IInv /\ Next => IInv'
    BY Slides DEF Next
  <2>2. IInv /\ UNCHANGED vars => IInv'
    BY DEF vars, IInv, TypeOK, WindowInBuffer
  <2> QED
    BY <2>1, <2>2
<1> QED
  BY InitIInv, <1>1, PTL DEF Spec

(***************************************************************************)
(* filter_run_buf() never writes or reads outside f->buffer.               *)
(***************************************************************************)
THEOREM MacInBounds == Spec => []WindowInBuffer
<1>1. IInv => WindowInBuffer
  BY DEF IInv
<1> QED
  BY <1>1, Inductive, PTL

(***************************************************************************)
(* The wrapping buffer of filter_run_buf() implements the sliding window.  *)
(***************************************************************************)
THEOREM Refinement == Spec => SlidesLikeAWindow
<1>1. filter_init => SW!Init
  BY FilterAssumption DEF filter_init, SW!Init, Operands, Window
<1>2. IInv /\ [Next]_vars => [SW!Next]_<<Operands(buffer, pointer), out>>
  <2>1. IInv /\ Next => SW!Next
    BY Slides DEF Next, SW!Next
  <2>2. UNCHANGED vars => UNCHANGED <<Operands(buffer, pointer), out>>
    BY DEF vars, Operands
  <2> QED
    BY <2>1, <2>2
<1> QED
  BY <1>1, <1>2, Inductive, PTL DEF Spec, SlidesLikeAWindow, SW!Spec

-----------------------------------------------------------------------------
(* The filter in the sound loop                                            *)

\* The sound buffer has whole frames, of which od have been filtered.
WholeFrames ==
  \E n \in Nat : buf \in [1 .. n * num_ch -> Samples] /\ od \in 0 .. n

SettingsOK ==
  /\ num_ch \in {1, 2} /\ ch_ofs \in 0 .. num_ch - 1
  /\ buffer_l \in Nat \ {0}
  /\ source = "alsa" \/ buffer_l = BlockLen

\* The distance that the program sees falls behind the time that has passed by as
\* much as the clock was set back since the last level line.
ClockLag ==
  /\ level_distance \in Int /\ elapsed \in Int /\ sound_levellog \in Nat
  /\ level_distance >= elapsed - MaxBack

SoundInv ==
  /\ IInv /\ SettingsOK /\ WholeFrames /\ ClockLag
  /\ HearsItsChannel /\ AbortsOnLongPeriodsOnly

(***************************************************************************)
(* The sample that filter_run_buf() steps to is the receiver's own one of  *)
(* the frame.                                                              *)
(***************************************************************************)
LEMMA SampleOfFrame ==
  ASSUME SettingsOK, WholeFrames, od * num_ch < Len(buf)
  PROVE  /\ Sample(od) \in Samples
         /\ Sample(od) = Frame(od)[ch_ofs + 1]
         /\ \E n \in Nat : buf \in [1 .. n * num_ch -> Samples] /\ od + 1 \in 0 .. n
<1>1. PICK n \in Nat : buf \in [1 .. n * num_ch -> Samples] /\ od \in 0 .. n
  BY DEF WholeFrames
<1>2. num_ch \in {1, 2} /\ ch_ofs \in 0 .. num_ch - 1
  BY DEF SettingsOK
<1>3. n * num_ch \in Nat /\ Len(buf) = n * num_ch
  BY <1>1, <1>2
<1>4. od < n
  <2>1. CASE num_ch = 1
    BY <1>1, <1>3, <2>1
  <2>2. CASE num_ch = 2
    BY <1>1, <1>3, <2>2
  <2> QED
    BY <1>2, <2>1, <2>2
<1>5. /\ od * num_ch + 1 \in 1 .. n * num_ch /\ (od + 1) * num_ch \in 1 .. n * num_ch
      /\ ch_ofs + od * num_ch + 1 \in 1 .. n * num_ch
      /\ ch_ofs + 1 \in 1 .. (od + 1) * num_ch - (od * num_ch + 1) + 1
  <2>1. CASE num_ch = 1
    BY <1>1, <1>2, <1>4, <2>1
  <2>2. CASE num_ch = 2
    BY <1>1, <1>2, <1>4, <2>2
  <2> QED
    BY <1>2, <2>1, <2>2
<1>6. Sample(od) \in Samples
  BY <1>1, <1>5 DEF Sample
<1>7. Sample(od) = Frame(od)[ch_ofs + 1]
  <2> DEFINE a == od * num_ch + 1
             b == (od + 1) * num_ch
  <2>1. a \in Int /\ b \in Int /\ \A i \in a .. b : buf[i] \in Samples
    BY <1>1, <1>3, <1>5, SMTT(30)
  <2>2. \A i \in 1 .. b - a + 1 : SubSeq(buf, a, b)[i] = buf[a + i - 1]
    <3> HIDE DEF a, b
    <3> QED
      BY <2>1, SubSeqProperties
  <2>3. Frame(od)[ch_ofs + 1] = buf[a + (ch_ofs + 1) - 1]
    BY <1>5, <2>2 DEF Frame
  <2>4. a + (ch_ofs + 1) - 1 = ch_ofs + od * num_ch + 1
    BY <1>1, <1>2, <2>1
  <2> QED
    BY <2>3, <2>4 DEF Sample
<1> QED
  BY <1>1, <1>4, <1>6, <1>7

(***************************************************************************)
(* At the start the filter and the history are silent, and no level was    *)
(* ever logged.                                                            *)
(***************************************************************************)
LEMMA SoundStarts ==
  ASSUME SoundInit
  PROVE  SoundInv
<1>1. IInv
  BY InitIInv DEF SoundInit
<1>2. SettingsOK
  <2>1. num_ch \in {1, 2} /\ ch_ofs \in 0 .. num_ch - 1
    BY DEF SoundInit
  <2>2. BlockLen \in Nat \ {0} /\ Periods \subseteq Nat \ {0}
    BY SoundAssumption
  <2>3. buffer_l \in Nat \ {0} /\ (source = "alsa" \/ buffer_l = BlockLen)
    BY <2>2 DEF SoundInit
  <2> QED
    BY <2>1, <2>3 DEF SettingsOK
<1>3. WholeFrames
  <2>1. buf \in [1 .. 0 -> Samples] /\ od \in 0 .. 0 /\ 0 * num_ch = 0
    BY DEF SoundInit
  <2> QED
    BY <2>1 DEF WholeFrames
<1>4. ClockLag
  BY SoundAssumption DEF SoundInit, ClockLag, LongGap
<1>5. HearsItsChannel
  BY FilterAssumption DEF SoundInit, filter_init, HearsItsChannel, Operands, Window
<1>6. AbortsOnLongPeriodsOnly
  BY DEF SoundInit, AbortsOnLongPeriodsOnly
<1> QED
  BY <1>1, <1>2, <1>3, <1>4, <1>5, <1>6 DEF SoundInv

(***************************************************************************)
(* What filter_run_buf() is given next enters the window and the history   *)
(* alike.                                                                  *)
(***************************************************************************)
LEMMA FilterStep ==
  ASSUME SoundInv, FilterSample
  PROVE  SoundInv' /\ SW!Shift(Sample(od)) /\ Sample(od) \in Samples
<1>1. IInv /\ SettingsOK /\ WholeFrames /\ ClockLag /\ HearsItsChannel
  BY DEF SoundInv
<1>2. /\ Sample(od) \in Samples
      /\ Sample(od) = Frame(od)[ch_ofs + 1]
      /\ \E n \in Nat : buf \in [1 .. n * num_ch -> Samples] /\ od + 1 \in 0 .. n
  BY <1>1, SampleOfFrame DEF FilterSample
<1>3. IInv' /\ SW!Shift(Sample(od))
  BY <1>1, <1>2, Slides DEF FilterSample
<1>4. HearsItsChannel'
  BY <1>1, <1>2, <1>3 DEF FilterSample, HearsItsChannel, SW!Shift, Window
<1>5. UNCHANGED <<source, num_ch, ch_ofs, buffer_l, loop, buf, level_distance, elapsed, sound_levellog>> /\ od' = od + 1
  BY DEF FilterSample, settings, timeVars
<1>6. SettingsOK' /\ ClockLag' /\ AbortsOnLongPeriodsOnly'
  BY <1>1, <1>5 DEF SoundInv, SettingsOK, ClockLag, AbortsOnLongPeriodsOnly
<1>7. WholeFrames'
  BY <1>2, <1>5 DEF WholeFrames
<1> QED
  BY <1>2, <1>3, <1>4, <1>6, <1>7 DEF SoundInv

(***************************************************************************)
(* A read fills the buffer with whole frames.  More than FILTERED_LEN of   *)
(* them can only come from a sound card.                                   *)
(***************************************************************************)
LEMMA ReadStep ==
  ASSUME SoundInv, NEW n \in 1 .. buffer_l, ReadFrames(n)
  PROVE  SettingsOK' /\ WholeFrames' /\ AbortsOnLongPeriodsOnly'
<1>1. SettingsOK
  BY DEF SoundInv
<1>2. UNCHANGED <<source, num_ch, ch_ofs, buffer_l>>
  BY DEF ReadFrames, settings
<1>3. n \in Nat /\ n <= buffer_l
  BY <1>1 DEF SettingsOK
<1>4. WholeFrames'
  BY <1>2, <1>3 DEF ReadFrames, Received, WholeFrames
<1>5. AbortsOnLongPeriodsOnly'
  <2> SUFFICES ASSUME loop' = "aborted" PROVE source' = "alsa" /\ buffer_l' > FILTERED_LEN
    BY DEF AbortsOnLongPeriodsOnly
  <2>1. n > FILTERED_LEN
    BY DEF ReadFrames
  <2>2. buffer_l > FILTERED_LEN
    BY <1>1, <1>3, <2>1, SoundAssumption DEF SettingsOK
  <2> QED
    BY <1>1, <1>2, <2>2, SoundAssumption DEF SettingsOK
<1> QED
  BY <1>1, <1>2, <1>4, <1>5 DEF SettingsOK

(***************************************************************************)
(* Seconds pass, and the clock may be set back: the distance seen stays    *)
(* behind the time that passed by no more than MaxBack.                    *)
(***************************************************************************)
LEMMA ClockStep ==
  ASSUME ClockLag, Tick \/ ClockBack
  PROVE  ClockLag'
<1>1. CASE Tick
  <2>1. MaxBack \in Nat /\ LongGap \in Nat
    BY SoundAssumption DEF ClockLag, LongGap
  <2> QED
    BY <1>1, <2>1 DEF Tick, ClockLag, Least, settings
<1>2. CASE ClockBack
  <2>1. PICK b \in 1 .. MaxBack :
          elapsed - (level_distance - b) <= MaxBack /\ level_distance' = level_distance - b
    BY <1>2 DEF ClockBack
  <2>2. UNCHANGED <<elapsed, sound_levellog>>
    BY <1>2 DEF ClockBack, settings
  <2> QED
    BY <2>1, <2>2, SoundAssumption DEF ClockLag
<1> QED
  BY <1>1, <1>2

(***************************************************************************)
(* The invariant holds, and everything that is not a pass of the filter's  *)
(* loop leaves the filter alone.                                           *)
(***************************************************************************)
LEMMA SoundStep ==
  ASSUME SoundInv, [SoundNext]_soundVars
  PROVE  SoundInv' /\ (FilterSample \/ UNCHANGED vars)
<1>1. CASE FilterSample
  BY <1>1, FilterStep
<1>2. ASSUME UNCHANGED <<vars, heard>>
      PROVE  IInv' /\ HearsItsChannel'
  BY <1>2 DEF SoundInv, vars, IInv, TypeOK, WindowInBuffer, HearsItsChannel, Operands
<1>3. ASSUME NEW n \in 1 .. buffer_l, ReadFrames(n)
      PROVE  SoundInv' /\ UNCHANGED vars
  <2>1. UNCHANGED <<vars, heard, level_distance, elapsed, sound_levellog>>
    BY <1>3 DEF ReadFrames, timeVars, settings
  <2> QED
    BY <1>2, <1>3, <2>1, ReadStep DEF SoundInv, ClockLag
<1>4. ASSUME UNCHANGED <<source, num_ch, ch_ofs, buffer_l>>, loop' # "aborted" \/ loop' = loop
      PROVE  SettingsOK' /\ AbortsOnLongPeriodsOnly'
  BY <1>4 DEF SoundInv, SettingsOK, AbortsOnLongPeriodsOnly
<1>5. CASE ReadNothing \/ FilterDone \/ Leave \/ closedown
  <2>1. /\ UNCHANGED <<vars, heard, buf, od, level_distance, elapsed, sound_levellog, source, num_ch, ch_ofs, buffer_l>>
        /\ loop' # "aborted" \/ loop' = loop
    BY <1>5 DEF ReadNothing, FilterDone, Leave, closedown, settings, timeVars
  <2> QED
    BY <1>2, <1>4, <2>1 DEF SoundInv, WholeFrames, ClockLag
<1>6. CASE LogLevel
  <2>1. /\ UNCHANGED <<vars, heard, buf, od, sound_levellog, source, num_ch, ch_ofs, buffer_l>> /\ loop' = "stats"
        /\ \/ level_distance' = 0 /\ elapsed' = 0
           \/ UNCHANGED <<level_distance, elapsed>>
    BY <1>6 DEF LogLevel, settings
  <2>2. ClockLag'
    BY <2>1, SoundAssumption DEF SoundInv, ClockLag
  <2> QED
    BY <1>2, <1>4, <2>1, <2>2 DEF SoundInv, WholeFrames
<1>7. CASE LogStats
  <2>1. /\ UNCHANGED <<vars, heard, level_distance, elapsed, sound_levellog, source, num_ch, ch_ofs, buffer_l>>
        /\ loop' = "read" /\ buf' = <<>> /\ od' = 0
    BY <1>7 DEF LogStats, settings
  <2>2. WholeFrames'
    <3>1. buf' \in [1 .. 0 * num_ch' -> Samples] /\ od' \in 0 .. 0
      BY <2>1 DEF SoundInv, SettingsOK
    <3> QED
      BY <3>1 DEF WholeFrames
  <2> QED
    BY <1>2, <1>4, <2>1, <2>2 DEF SoundInv, ClockLag
<1>8. CASE Tick \/ ClockBack
  <2>1. UNCHANGED <<vars, heard, buf, od, source, num_ch, ch_ofs, buffer_l, loop>>
    BY <1>8 DEF Tick, ClockBack, settings
  <2> QED
    BY <1>2, <1>4, <1>8, <2>1, ClockStep DEF SoundInv, WholeFrames
<1>9. CASE UNCHANGED soundVars
  <2>1. UNCHANGED <<vars, heard, buf, od, level_distance, elapsed, sound_levellog, source, num_ch, ch_ofs, buffer_l, loop>>
    BY <1>9 DEF soundVars, settings, timeVars
  <2> QED
    BY <1>2, <1>4, <2>1 DEF SoundInv, WholeFrames, ClockLag
<1> QED
  BY <1>1, <1>3, <1>5, <1>6, <1>7, <1>8, <1>9 DEF SoundNext

(***************************************************************************)
(* The invariant of the sound input.                                       *)
(***************************************************************************)
THEOREM SoundInductive == SoundSpec => []SoundInv
<1>1. SoundInit => SoundInv
  BY SoundStarts
<1>2. SoundInv /\ [SoundNext]_soundVars => SoundInv'
  BY SoundStep
<1> QED
  BY <1>1, <1>2, PTL DEF SoundSpec

(***************************************************************************)
(* Each receiver's filter has the last samples of its own channel, over    *)
(* reads of any length, errors, and the wraps of the filter's buffer.      *)
(***************************************************************************)
THEOREM ChannelHeard == SoundSpec => []HearsItsChannel
<1>1. SoundInv => HearsItsChannel
  BY DEF SoundInv
<1> QED
  BY <1>1, SoundInductive, PTL

(***************************************************************************)
(* receiver_run() aborts for periods of a sound card that are longer than  *)
(* FILTERED_LEN, and for nothing else.                                     *)
(***************************************************************************)
THEOREM AbortExplained == SoundSpec => []AbortsOnLongPeriodsOnly
<1>1. SoundInv => AbortsOnLongPeriodsOnly
  BY DEF SoundInv
<1> QED
  BY <1>1, SoundInductive, PTL

(***************************************************************************)
(* The main loop drives the filter as a sliding window.                    *)
(***************************************************************************)
THEOREM SoundRefinement == SoundSpec => SlidesLikeAWindow
<1>1. SoundInit => SW!Init
  BY FilterAssumption DEF SoundInit, filter_init, SW!Init, Operands, Window
<1>2. SoundInv /\ [SoundNext]_soundVars => [SW!Next]_<<Operands(buffer, pointer), out>>
  <2> SUFFICES ASSUME SoundInv, [SoundNext]_soundVars
               PROVE  [SW!Next]_<<Operands(buffer, pointer), out>>
    OBVIOUS
  <2>1. CASE FilterSample
    BY <2>1, FilterStep DEF SW!Next
  <2>2. CASE UNCHANGED vars
    BY <2>2 DEF vars, Operands
  <2> QED
    BY <2>1, <2>2, SoundStep
<1> QED
  BY <1>1, <1>2, SoundInductive, PTL DEF SoundSpec, SlidesLikeAWindow, SW!Spec

(***************************************************************************)
(* The level line of receiver_run() cannot be put off for good by setting  *)
(* the clock back: after WarnGap seconds, and as many as it was set back,  *)
(* a loud buffer is reported, and after sound_levellog seconds every one.  *)
(***************************************************************************)
THEOREM LevelReported == SoundSpec => LevelIsReported
<1>1. SoundInv /\ [SoundNext]_soundVars =>
        [/\ loop = "level" /\ loop' = "stats"
         /\ \/ Loud /\ elapsed >= WarnGap + MaxBack
            \/ sound_levellog # 0 /\ elapsed >= sound_levellog + MaxBack
         => elapsed' = 0]_soundVars
  <2> SUFFICES ASSUME SoundInv, SoundNext, loop = "level", loop' = "stats",
                      \/ Loud /\ elapsed >= WarnGap + MaxBack
                      \/ sound_levellog # 0 /\ elapsed >= sound_levellog + MaxBack
               PROVE  elapsed' = 0
    OBVIOUS
  <2>1. LogLevel
    BY DEF SoundNext, ReadFrames, ReadNothing, FilterSample, FilterDone, LogStats, Leave,
           closedown, Tick, ClockBack
  <2>2. LevelLine
    <3>1. CASE Loud /\ elapsed >= WarnGap + MaxBack
      <4>1. level_distance >= WarnGap
        BY <3>1, SoundAssumption DEF SoundInv, ClockLag
      <4> QED
        BY <3>1, <4>1 DEF LevelLine
    <3>2. CASE sound_levellog # 0 /\ elapsed >= sound_levellog + MaxBack
      <4>1. level_distance >= sound_levellog
        BY <3>2, SoundAssumption DEF SoundInv, ClockLag
      <4> QED
        BY <3>2, <4>1 DEF LevelLine
    <3> QED
      BY <3>1, <3>2
  <2> QED
    BY <2>1, <2>2 DEF LogLevel
<1> QED
  BY <1>1, SoundInductive, PTL DEF SoundSpec, LevelIsReported
=============================================================================
