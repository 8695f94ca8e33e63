------------------------------- MODULE Sound --------------------------------
(***************************************************************************)
(* From the sound card to the filter: the loop of main() in src/src/ais.c, *)
(* the readers of src/src/input.c and src/src/pulseaudio.c, and            *)
(* receiver_run() of src/src/receiver.c around the bit clock, which is the *)
(* module Receiver.                                                        *)
(*                                                                         *)
(* A read gives up to buffer_l frames, interleaved when there are two      *)
(* channels; each receiver takes its channel out of them, filters it, and  *)
(* logs the peak level.  The model follows one receiver: the other one, if *)
(* there is one, only reads the same sound buffer.  A sample is Silence or *)
(* a value above 95 % of full scale.  Times are kept as the distance       *)
(* between the clock and the time remembered; the clock may be set back.   *)
(***************************************************************************)
EXTENDS Filter, Sequences

CONSTANTS
  FILTERED_LEN,    \* 4096
  BlockLen,        \* 1020: frames in a buffer for a file or PulseAudio
  Periods,         \* period sizes a sound card may choose, near 4096
  WarnGap,         \* 30 seconds
  LevelLogs,       \* values of sound_levellog
  StatsInterval,   \* stats_interval
  MaxBack          \* bound of the model: how far the clock is set back

ASSUME SoundAssumption ==
  /\ {FILTERED_LEN, BlockLen, WarnGap, StatsInterval} \subseteq Nat \ {0}
  /\ Periods \subseteq Nat \ {0} /\ LevelLogs \subseteq Nat /\ MaxBack \in Nat
  /\ BlockLen <= FILTERED_LEN

VARIABLES
  source,          \* "file", "pulse" or "alsa"
  num_ch, ch_ofs,  \* rx->num_ch, rx->ch_ofs
  sound_levellog,
  buffer_l,        \* length of the sound buffer, in frames
  loop,            \* "read", "filter", "level", "stats", "left", "aborted"
  done,
  buf,             \* the samples read, interleaved
  od,              \* frames filtered so far
  level_distance,  \* time(NULL) - rx->last_levellog, LongGap standing for more
  stats_distance,  \* now - last_stats, StatsInterval standing for more
  elapsed,         \* history: seconds since the last level line, capped
  heard            \* history: the last samples on the receiver's channel

settings  == <<source, num_ch, ch_ofs, sound_levellog, buffer_l>>
timeVars  == <<level_distance, stats_distance, elapsed>>
soundVars == <<vars, settings, loop, done, buf, od, timeVars, heard>>

Least(a, b) == IF a < b THEN a ELSE b

\* The longest distance that receiver_run() compares level_distance with.
LongGap == IF sound_levellog > WarnGap THEN sound_levellog ELSE WarnGap

\* input_initialize() takes the period that the card offers; last_levellog is
\* 0, so that the first distance is a long one.
SoundInit ==
  /\ filter_init
  /\ source \in {"file", "pulse", "alsa"}
  /\ \/ num_ch = 1 /\ ch_ofs = 0
     \/ num_ch = 2 /\ ch_ofs \in {0, 1}
  /\ sound_levellog \in LevelLogs
  /\ IF source = "alsa" THEN buffer_l \in Periods ELSE buffer_l = BlockLen
  /\ loop = "read" /\ done = FALSE
  /\ buf = <<>> /\ od = 0
  /\ level_distance = LongGap /\ stats_distance = 0 /\ elapsed = LongGap + MaxBack
  /\ heard = [i \in Window |-> Silence]

-----------------------------------------------------------------------------

\* A buffer of n frames, as fread(), pa_simple_read() or snd_pcm_readi() fills it.
Received(n) == buf' \in [1 .. n * num_ch -> Samples]

\* Mutant: a buffer of exactly FILTERED_LEN frames is refused.
ReadFramesStrict(n) ==
  /\ loop = "read" /\ ~done
  /\ n <= buffer_l /\ (source = "pulse" => n = buffer_l)
  /\ Received(n) /\ od' = 0
  /\ loop' = IF n >= FILTERED_LEN THEN "aborted" ELSE "filter"
  /\ UNCHANGED <<vars, settings, done, timeVars, heard>>

\* A short read is the end of a file, and possible with ALSA; PulseAudio gives
\* the whole buffer.
ReadFrames(n) ==
  /\ loop = "read" /\ ~done
  /\ n <= buffer_l /\ (source = "pulse" => n = buffer_l)
  /\ Received(n) /\ od' = 0
  /\ loop' = IF n > FILTERED_LEN THEN "aborted" ELSE "filter"
  /\ UNCHANGED <<vars, settings, done, timeVars, heard>>

\* An overrun or another error: the loop goes on.  The end of the file ends it.
ReadNothing ==
  /\ loop = "read" /\ ~done
  /\ done' = (source = "file")
  /\ UNCHANGED <<vars, settings, loop, buf, od, timeVars, heard>>

\* Mutant: the receiver takes the samples one after the other.
SampleFlat(k) == buf[ch_ofs + k + 1]

\* buf += rx->ch_ofs, then in[id] with id += step for every frame.
Sample(k) == buf[ch_ofs + k * num_ch + 1]

\* The k-th frame of the buffer: what was on each channel.
Frame(k) == SubSeq(buf, k * num_ch + 1, (k + 1) * num_ch)

\* A pass of the loop of filter_run_buf().
FilterSample ==
  /\ loop = "filter" /\ od * num_ch < Len(buf)
  /\ filter_run(Sample(od))
  /\ od' = od + 1
  /\ heard' = [i \in Window |-> IF i = FilterLength - 1 THEN Frame(od)[ch_ofs + 1]
                                                        ELSE heard[i + 1]]
  /\ UNCHANGED <<settings, loop, done, buf, timeVars>>

\* The bits are sliced (module Receiver), then the level is looked at.
FilterDone ==
  /\ loop = "filter" /\ od * num_ch = Len(buf)
  /\ loop' = "level"
  /\ UNCHANGED <<vars, settings, done, buf, od, timeVars, heard>>

\* maxval of filter_run_buf() is above 95 %.
Loud == \E k \in 0 .. od - 1 : Sample(k) # Silence

LevelLine ==
  \/ Loud /\ (level_distance >= WarnGap \/ level_distance >= sound_levellog)
  \/ sound_levellog # 0 /\ level_distance >= sound_levellog

\* Mutant: the time is remembered although nothing was logged.
LogLevelForgets ==
  /\ loop = "level"
  /\ level_distance' = 0
  /\ elapsed' = IF LevelLine THEN 0 ELSE elapsed
  /\ loop' = "stats"
  /\ UNCHANGED <<vars, settings, done, buf, od, stats_distance, heard>>

\* The end of receiver_run().
LogLevel ==
  /\ loop = "level"
  /\ IF LevelLine THEN level_distance' = 0 /\ elapsed' = 0
                  ELSE UNCHANGED <<level_distance, elapsed>>
  /\ loop' = "stats"
  /\ UNCHANGED <<vars, settings, done, buf, od, stats_distance, heard>>

NextStats ==
  IF stats_distance < 0 \/ stats_distance >= StatsInterval THEN 0 ELSE stats_distance

\* The end of the loop of main(): log_range(), or the clock has jumped.
LogStats ==
  /\ loop = "stats"
  /\ stats_distance' = NextStats
  /\ buf' = <<>> /\ od' = 0
  /\ loop' = "read"
  /\ UNCHANGED <<vars, settings, done, level_distance, elapsed, heard>>

Leave ==
  /\ loop = "read" /\ done
  /\ loop' = "left"
  /\ UNCHANGED <<vars, settings, done, buf, od, timeVars, heard>>

-----------------------------------------------------------------------------
(* The signal, and the clock, of which time passes while a read waits.     *)

\* The loop looks at done between buffers: the one being read is still decoded.
closedown ==
  /\ loop \notin {"left", "aborted"} /\ ~done
  /\ done' = TRUE
  /\ UNCHANGED <<vars, settings, loop, buf, od, timeVars, heard>>

Tick ==
  /\ loop = "read"
  /\ level_distance' = Least(level_distance + 1, LongGap)
  /\ stats_distance' = Least(stats_distance + 1, StatsInterval)
  /\ elapsed' = Least(elapsed + 1, LongGap + MaxBack)
  /\ UNCHANGED <<vars, settings, loop, done, buf, od, heard>>

\* The clock is set back, by no more than MaxBack between two level lines.
ClockBack ==
  /\ loop = "read"
  /\ \E b \in 1 .. MaxBack :
       /\ elapsed - (level_distance - b) <= MaxBack
       /\ level_distance' = level_distance - b
       /\ stats_distance' = stats_distance - b
       /\ stats_distance - b >= -MaxBack
  /\ UNCHANGED <<vars, settings, loop, done, buf, od, elapsed, heard>>

SoundNext ==
  \/ \E n \in 1 .. buffer_l : ReadFrames(n)
  \/ ReadNothing \/ FilterSample \/ FilterDone \/ LogLevel \/ LogStats \/ Leave
  \/ closedown \/ Tick \/ ClockBack

SoundSpec == SoundInit /\ [][SoundNext]_soundVars

-----------------------------------------------------------------------------
(* Properties                                                              *)

(***************************************************************************)
(* The filter has the last samples of the receiver's own channel, each     *)
(* once and in order: over reads of any length, failed reads, interleaved  *)
(* channels and the copy at the end of the filter's buffer.                *)
(***************************************************************************)
HearsItsChannel == Operands(buffer, pointer) = heard

(***************************************************************************)
(* receiver_run() calls abort() for buffers of more than FILTERED_LEN      *)
(* frames.  Only a sound card that insists on a longer period than it was  *)
(* asked for gets there, files and PulseAudio never do.                    *)
(***************************************************************************)
AbortsOnLongPeriodsOnly ==
  loop = "aborted" => source = "alsa" /\ buffer_l > FILTERED_LEN

(***************************************************************************)
(* The level is reported in time: if the buffer peaks and no level line    *)
(* was written for WarnGap seconds, or none for sound_levellog seconds if  *)
(* that is set, and for as long as the clock was set back in between, then *)
(* a line is written now.                                                  *)
(***************************************************************************)
LevelIsReported ==
  [][/\ loop = "level" /\ loop' = "stats"
     /\ \/ Loud /\ elapsed >= WarnGap + MaxBack
        \/ sound_levellog # 0 /\ elapsed >= sound_levellog + MaxBack
     => elapsed' = 0]_soundVars
=============================================================================
