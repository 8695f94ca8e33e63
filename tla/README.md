# A TLA+ specification of gnuais

gnuais receives AIS, the radio messages by which ships report who and where they
are.  A daemon demodulates the sound of a VHF receiver, takes HDLC frames out of
the bits, decodes them, and passes them on: as NMEA sentences to a serial line, a
local socket and a database, and as JSON documents to uplinks.  A GUI reads the
socket and draws the ships on a map.

This directory models the daemon's and the GUI's own logic in TLA+.  TLC checks it on
small instances, TLAPS proves all but three of the safety properties for all instances.
`PROJECT.json` lists components, runs, mutants, theorems, hazards, and the source lines
of each definition.

    tlc -config MCAisLink.cfg MCAisLink        # a run: cfg and module as in PROJECT.json
    tlapm ProtodecProofs.tla                   # proofs: the modules *Proofs

## 1. Inventory

| Component | State | Operations | Hard part | Correct when |
|---|---|---|---|---|
| FIR filter (`filter.c`) | linear sample buffer, pointer | `filter_init`, `filter_run`, `filter_run_buf` | the copy at the buffer's end | it always sees the last `length` samples |
| receiver (`receiver.c`) | 16 bit phase, previous level, last sliced level | `receiver_run`, per sample | rounding and drift without edges | one bit per symbol |
| deframer (`protodec.c`) | five-state machine, counters, bit buffer | `protodec_decode`, `protodec_reset`, per bit | noise, broken flags, stuffed bits, the full buffer | frames begin and end at flags; only what was sent comes out |
| message decoder (`protodec.c`) | sequence number | `protodec_getdata`, `protodec_generate_nmea`, `protodec_<type>` | sentence boundaries, offsets kept by hand | a reader of the sentences gets the payload |
| ship cache (`cache.c`) | tree of entries, mutex | `cache_position` ..., `cache_rotate`, `cache_deinit` | shared by two threads | no entry is used after it is freed; nothing is lost silently |
| splay tree (`splay.c`) | nodes with three links, free list | `sp_lookup`, `sp_install`, `sp_delete`, walk | pointer surgery; free list without a lock | it is an ordered set |
| JSON export (`out_json.c`) | tree taken, document, death flag | thread: sleep, rotate, walk, post | runs against the decoder and the shutdown | newest facts, in order, once; it ends when told |
| IPC server (`ipc.c`) | list of clients, mutex | listener thread, `ipc_write`, `gnuais_ipc_deinit` | accept against write against shutdown; writes that block | a client gets every sentence from its joining on |
| database (`out_mysql.c`) | connection, counter | `myout_*`, `myout_reconnect`, deletion of old rows | the server or the connection goes at any statement, and its errors differ | rows say the newest; a broken connection costs two calls at most |
| GUI reader (`gui.c`) | line being put together, static buffer, last ship, list of ships | `threaden`, `aisdecode`, `updateship` | a stream without message boundaries | it shows what ships reported |
| main program (`ais.c`) | `done`, what has been started | start-up, loop, SIGINT, shutdown | failure at every step of the start, a signal or a kill at any moment, order of the shutdown | every thread is joined before its state is freed; a stop request is obeyed; the next start works |
| configuration (`cfg.c`, `cfgfile.c`) | variables, the file in the home directory | command line, search, copy of a template, directives, checks | the user and the daemon write the same file; copies that break off; abbreviated and repeated directives | the daemon runs with what the file says and never overwrites it |
| sound input (`input.c`, `pulseaudio.c`), level log (`receiver.c`) | sound buffer, time of the last line | read, de-interleave, filter, log the peak | short and failed reads, two channels, long periods, a clock set back | each receiver hears every sample of its own channel |
| read-write lock (`rwlock.c`) | counters, two condition variables | lock and unlock for reading and writing | lost and spurious wake-ups, overtaking | mutual exclusion; a waiter is woken |
| log (`hlog.c`) | destination, file, lock | `hlog`, `open_log`, `close_log` | the file is looked at outside of the lock | no line to a closed file; calls return |
| serial line, range statistics, malloc wrappers, map widget | | | no protocol of their own | |

Data flow: sound driver -> `receiver_run` (one receiver per channel, both in the
main thread) -> filter -> slicer -> `protodec_decode` -> `protodec_getdata` -> cache,
database, socket, serial line.  Threads: the main thread decodes and calls every
output; the export thread shares the cache with it (`cache_spt_mut`) and, without a
lock, the free list of the splay tree; the listener thread shares the list of
clients (`ipc_mut`); all three log under `log_file_lock`.  The GUI is another process,
and so is the user's editor.

## 2. Modules

| Module | Models | Extends / uses |
|---|---|---|
| `Protodec` | deframer of one channel, one action per branch of `switch (d->state)` | |
| `SdlcCrc` | the frame check sequence, bit by bit | |
| `AisLink`, `MCAisLink` | a sender, the air and the deframer together | `Protodec`, `SdlcCrc` |
| `Receiver` | PLL, slicer, NRZI, one action per sample | |
| `SymbolClock` | a transmitter's symbols and the receiver | `Receiver` |
| `Filter`, `SlidingWindow` | the filter's buffer, and what it implements | `Filter` refines `SlidingWindow` |
| `Nmea` | payload to sentences | |
| `Messages`, `MCMessages` | `protodec_getdata` as a whole, and the GUI's decoder | `Nmea` |
| `CacheExport` | cache, export thread and their shutdown | |
| `Splay`, `KeySet` | the tree, and the set it implements | `Splay` refines `KeySet` |
| `SpFreeList` | the free list, assignment by assignment, in two threads | |
| `Sound` | sound source, buffer, channels, level and statistics log | `Filter` |
| `RWLock`, `ReadWriteLock` | the lock, and what it implements | `RWLock` refines `ReadWriteLock` |
| `Log` | `hlog.c` in several threads | `RWLock` |
| `Config` | command line, configuration file, directives | |
| `Ipc` | the socket: opening, listener, writes, clients, closing | |
| `Daemon`, `MCDaemon` | `main()` from start to end and again | `Ipc`, `Config` |
| `Gui`, `MCGui` | the GUI's reader on a stream | |
| `Mysql` | statements, reconnection, deletion, server and clock | |
| `LogProofs`, `MysqlProofs`, `CacheExportProofs`, `DaemonProofs`, `GuiProofs` | theorems | the module named, `TLAPS` |
| `ProtodecProofs` | theorems about `Protodec` and `AisLink` | `AisLink`, `TLAPS` |
| `MessagesProofs` | theorems about `Nmea` and `Messages` | `Messages`, `TLAPS` |
| `ReceiverProofs` | theorems about `Receiver`, `SymbolClock`, `Filter` and `Sound` | `SymbolClock`, `Sound`, `TLAPS` |

How state and actions correspond to the code:

* **Protodec.**  `buffer` is `d->buffer[0 .. d->bufferpos - 1]`; the other variables
  keep the names of `struct demod_state_t`.  Each bit is one step: the branch of the
  switch, then `Consume`, the assignment to `d->last` after it.  The order in
  `ST_STARTSIGN` (reset, then `nstartsign++`) is kept.  `run`, the ones on the air,
  and `out`, what was handed to `protodec_getdata`, are history variables.
* **Receiver.**  `pll`, `prev` and `lastbit` are those of `struct receiver`; `fed` is
  the bit given to the deframer in this step, or `None`; `since` counts samples.
* **Filter.**  `out` is not the sum but the operands that `filter_mac` reads.
* **Messages.**  A step is one frame.  `sent` are the sentences it makes, as records
  of their fields, `fields` the bit ranges it is read from.  Bits beyond the frame
  read as zero, since `rbuffer` is cleared.
* **CacheExport.**  A value is the serial number of the message it came in.  A cache
  call takes two steps, `cache_get` (lock, look up, install) and `cache_store`
  (assign, unlock), with the export thread between them.  The walk is one step per
  entry.
* **Splay.**  A node is its key; `q` holds the links `l`, `r`, `u` and the root.
  Each operation is a step, since a tree is used by one thread at a time.
  `WalkStep` is the body of the deleting loop.
* **SpFreeList.**  Every read and write of `sp_free_list` is a step.
* **Sound.**  `buf` is the interleaved sound buffer, `od` the index of the loop in
  `filter_run_buf()`.  One of the receivers is followed; the settings are chosen at the
  start.  Times are kept as their distance from the clock, cut off where nothing
  depends on them any more: for the level at `LongGap`, the longer of the 30 seconds
  and `sound_levellog`, which are what it is compared with.  `heard`, the last frames as they were on the receiver's
  channel, and `elapsed` are history variables.
* **RWLock.**  A step is what happens between taking the mutex and giving it back or
  waiting.  A woken thread has to get the mutex first and looks at the counters once
  more; others may overtake it.  This lock is compiled only where the system has no
  `PTHREAD_RWLOCK_INITIALIZER`; elsewhere `ReadWriteLock` is the contract that `hlog.c`
  relies on.
* **Log.**  `log_file` is `Closed` or the number of the opening, so that a line to an
  older file would show.  `main()` never reopens its log; the model lets any thread do
  it, since `close_log(1)` is there for that.
* **Config.**  A file is a sequence of lines, a line a directive and arguments.  The
  words of the directives are split where their beginnings part, so that every
  abbreviation that matters exists; the table is in the order of the code.  `cpfile()`
  writes a line at a time and may fail or be killed after each.  The user saves by
  renaming, so that a copy in progress goes on in a file without a name.
* **Ipc.**  `path` says whose socket is at `/tmp/gnuais.socket`: nobody's, this
  process's, or a dead one's, on which `bind()` fails.  Each `write()` of the loop is a
  step that needs room in the client's socket.  `address_length` is uninitialised, so
  the first `accept()` may fail.  Clients are numbered in the order in which they
  connect, and one that has left does not come back.
* **Daemon.**  `phase` is where `main()` is.  `ProcessEnds` and `Down` are what the
  end of a process leaves: the configuration file and the socket's name.  `done` is
  looked at between buffers (`ReadBuffer`, `LoopEnds`), so that the sentences of the
  buffer in hand are written, and may have to wait, after SIGINT.  The joining
  of a thread that was never created is undefined: it returns an error or ends the
  process.  The export thread is there as what it uses and when it ends; `CacheExport`
  has the rest.  The user writes the file while it is looked for, where it matters;
  what only `read_config()` needs is forgotten after it.
* **Gui.**  The stream is made of headers, letters and trailers; a `read` takes up to
  `ReadLen` of them.  `shipd` starts with an arbitrary type.
* **Mysql.**  A call is a statement or two, each a step; before each the server may go
  and come back, or the connection break while the server stays.  A statement that
  meets a broken connection fails with `CR_SERVER_GONE_ERROR`, on which the code
  reconnects (`FailsGone`), or with `CR_SERVER_LOST`, on which it does not (`FailsLost`);
  in both cases the library closes the connection and the next statement gets
  `CR_SERVER_GONE_ERROR`.  A statement may have been executed although its answer is
  lost (`AnswerLost`), and one may be refused over an open connection
  (`FailsRefused`).  Any of the four DELETEs may fail; none of them reconnects.  Time
  does not pass within a call.

Definitions marked as mutants are plausible bugs in the definition that follows them.
No specification uses them; each breaks one property (`PROJECT.json`, "mutants").

## 3. Runs

| Run | Checks | Bounds, and why they are enough |
|---|---|---|
| `ais_link` | frames begin (`StartsAtFlag`) and end (`EndsAtFlag`) at flags, `BufferInBounds`, `FramesAccounted`; an undamaged burst is delivered (`CleanBurstDelivered`), a damaged one becomes no other message (`NothingInvented`) | two bursts of one or two bytes chosen to stuff bits at and across byte edges; one inverted bit at any place of each; any noise that does not itself contain a preamble and a flag. The buffer takes 40 bits instead of 449, so that it fills up when a closing flag is missed. |
| `ais_link_stale` | violation, finding 1 | the real buffer |
| `symbol_clock` | `SliceSpacing`, `OneBitPerSymbol` | the code's own constants; at most 7 symbols without an edge, which bit stuffing guarantees; all noise before the symbols |
| `sound` | `WindowInBuffer` and refinement `SlidesLikeAWindow` of the filter, `HearsItsChannel`, `AbortsOnLongPeriodsOnly`, `LevelIsReported` | buffer 5, filter 2, two sample values, periods up to one frame more than the 2 that `receiver_run()` accepts, one and two channels, the clock set back by 1 second against a warning gap of 2 and a `sound_levellog` of 0, 1 and 3, that is off, below and above the gap: buffers straddle the copy at the end of the filter at every offset |
| `messages` | `ReaderGetsPayload`, `FieldsAreDisjoint`, `GuiReadsTheSame` | frames of every type, part and application, the real sentence length, and payloads at and around one and two sentences up to the longest possible |
| `cache_export` | `NoUseAfterFree`, `NoFactVanishes`, `SentInOrder`, `ExportIsCurrent`, `PositionExported`, `ShutdownCompletes` | one vessel, three messages of any kind, one uplink: enough to store before, during and after an export |
| `sp_free_list` | violation, finding 2 | four nodes in batches of two |
| `splay` | `WalkIsComplete`, refinement `IsAKeySet` | five keys: every rotation case of `_splay`, `_sp_enq`, `_sp_deq` occurs |
| `gui` | `ShowsOnlyReports`, `ShowsLatest` | two ships, two positions, room for two on the map, four messages, reads shorter than what the socket holds; symmetric in ships and positions |
| `daemon` | `ConfigIsWhatFileSays`, `UserConfigKept`, `HalfCopyNotRead`, `SocketComesUp`, `StreamIsComplete`, `ConnectedIsServed`, `FreedAfterUse`, `ShutdownCompletes` | two starts, so that one finds what the other left; three clients for a limit of two, sockets of one sentence, two sentences; command lines and files with and without each source of sound, an uplink, abbreviations, repeated and bad lines |
| `log` | refinement `IsAReadWriteLock`, `LineGoesToOpenFile`, `CallsReturn` | three threads, as the daemon has, with three lines and two reopenings between them |
| `mysql` | `DatabaseIsCurrent`, `ReconnectsAtTheSecond`, `RecentRowsKept` | one ship, two values, three messages, so that three calls can fail in a row, four seconds, deletion at every second position |

Runs whose cfg says `CHECK_DEADLOCK FALSE` stop when a bound is used up, or when the
program has ended.

### Fairness

`CacheExport`: weak fairness of every step of both threads, none of the arrival of
messages or of the stop request.  `curl_easy_perform()` is taken to return.  The lock
needs no strong fairness here because messages are rare compared with the time it is
held, which the bound on their number stands for.  `Log`: weak fairness of
every step of a call that has begun, none of new calls or of spurious wake-ups.  With
lines without end, readers could keep a writer out for good, since `rwl_rdlock()` does
not look at `w_wait`; the program's writer is the main thread when it is alone.

`Daemon`: weak fairness of the main thread from the end of the configuration on, of the
writes to clients, of `accept()`, of the export thread once it is told to end, and of a
client's reading; strong fairness of the listener's taking of the lock, which the
decoder holds for one sentence at a time, and of the end of a buffer (`BufferDone`):
reads return, and a buffer has finitely many sentences, whichever client they have to
wait for.  No fairness of starts, signals, kills, the
user, or new sentences.  A client that neither reads nor leaves blocks `write()`, and
with it decoding and shutdown, for good.  This is assumed away by the liveness
properties of that run, not refuted.

## 4. What is proved

For every value of the constants that the modules' assumptions allow, for every input
and every interleaving.  A run's bounds (messages, starts, lines) are constants too, so
that a theorem holds however large they are.  The assumptions say that counts are
natural numbers and that a value standing for "none" is none of the others; the set of
threads of a lock is finite (`RWLockAssumption`); a filter's buffer is at least twice
its length (`FilterAssumption`, from the `memcpy()`); a block of samples fits the
receiver's buffer (`SoundAssumption`); a payload on the air is whole bytes, fits the
deframer's buffer with its checksum, and is checked by the polynomial it was sent with
(`LinkAssumption`); a payload has at most nine sentences, whose length fits the buffers
of `protodec_generate_nmea()` (`NmeaAssumption`; the deframer's buffer takes fewer
bits); a configuration file is a sequence of lines that have a word
(`ConfigAssumption`, since `cmdparse()` skips blank ones).  Hypotheses beyond them are
named below.  Each inductive invariant was checked by TLC on the bounds of section 3.

* **`ProtodecProofs`**: `TypeCorrect`, `MemorySafe`, `Transparent`, `OpensAtFlag`,
  `Accounted`.  None of these is inductive: they speak of the ones on the air, which
  the decoder does not count.  The invariant `IInv` says how its counters relate to
  them: `nstartsign - 1` in the start flag (`StartCount`), `antallenner` plus the last
  bit in the data (`OnesCount`), and that a hunt that has seen enough alternations
  ends in a 1 (`Hunt`).  It has one lemma per state of the switch.  The frame check is
  an arbitrary operator here.

  The link, with the real frame check: `LinkInductive`, `DeliversCleanBursts`,
  `LinkIsADecoder`.  `LinkInv` says that while a burst arrives undamaged, the decoder is
  where the sender is (`Following`): it hunts during the training, counts the bits of
  the flag, has stored in the content what was sent with the stuffed bits taken out,
  with the same run of ones, and ends in the closing flag.  That the run of the
  sender's stuffing and `antallenner` agree after every bit is induction over the
  content, and so is `FcsChecks`: the register of `sdlc_crc()` over content and
  checksum ends in the constant the decoder compares with.  `LinkIsADecoder` gives the
  link the theorems about the deframer.
* **`MessagesProofs`**: `PayloadReadBack`: a reader who joins the letters of the
  sentences and takes six bits of each has the payload, followed by its fill bits if
  there is one sentence only, for every length of a sentence and every payload.  The
  letters of all sentences are those of the padded payload (induction over the
  sentences), and six bits come back from their letter, on both sides of the gap in the
  alphabet.  `SentencesInBuffers`: no sentence overruns
  its buffer.  `FieldsInvariant`, `NoBitReadTwice`, `GuiAgrees`: what is read of a frame
  is read from the ranges of its type, which are apart, and which the GUI reads alike.
* **`ReceiverProofs`**: `PhaseStaysPhase`, `ClockKeepsPace`, from the code's constants
  (`CodeConstants`, a hypothesis).  `ClockInv` bounds the phase for each number of samples
  since the last slice.  `SymbolsSlicedOnce` is `OneBitPerSymbol` for runs of up to 819
  symbols without an edge, where the run has 7.  The phase at the beginning of a symbol
  (`Base`) is linear in the samples heard and the slices taken.  An edge pulls it at
  least 819 away from the ends of its range, and a symbol without an edge takes back
  one unit, the rounding of `pllinc`.

  The filter: `MacInBounds`, and `Refinement`, that the buffer implements
  `SlidingWindow`: the window the next call will read moves by one sample, over the copy
  at the end of the buffer too.  The sound loop: `ChannelHeard`,
  `AbortExplained`, `SoundRefinement` and `LevelReported`.  `SoundInv` adds that the
  buffer has whole frames, of which `od` are filtered, and that the distance the
  program sees lags behind the time passed by at most what the clock was set back.
* **`LogProofs`**: `LockInvariant`, `LockRefinement`, `LogLockRefinement` and
  `LinesReachFile`, for any number of threads.  `LockInv` has the counters equal to the
  numbers of threads in each state, exclusion, and `NoLostWakeup`: a reader sleeps only
  while there is a writer, and while a writer sleeps the lock is held or somebody is
  woken who will take it.  This last part is what `CallsReturn` rests on.  `LogInv` says
  which state of the lock goes with each place of `hlog.c`, and that a closed file is
  about to be opened by the thread that has the lock.
* **`MysqlProofs`**: `Reconnects`, `YoungRowsKept`, `Current`.  `ConnectionInv`: a
  connection that broke unnoticed has cost no call yet, one that is closed has cost one
  at most, and the next call opens it if the server is up.  `CurrentInv` names the
  row that has the last value of each cell: it was not overwritten, and deleted only
  when it was too old.
* **`CacheExportProofs`**: `TreesSafe`, `UplinksInOrder`, `DocumentsCurrent`,
  `FactsKept`.  `TreesInv` says who has which tree: the mutex keeps the exporter from
  rotating while the decoder points into the live tree, the join keeps `cache_deinit()`
  from freeing while the exporter runs.  `FactsInv` orders the facts by age: what the
  live tree has is newer than the last rotation, the exported tree and the document
  have what was newest at the rotation, and what uplinks have got is older.
* **`DaemonProofs`**: `UserFileKept`, `CopyComplete`, `RunsAsConfigured`, `SocketUp`,
  `UsedThenFreed`, `StreamsComplete`.  `UserInv`: the file being copied is not one the user wrote.
  `CopyInv`: a partial copy of this run exists only while it is made, and nothing has
  been read by then.  `FileInv`: every file there is to read is a sequence of lines, and
  after the last one the variables are what the lines say (`Says`, induction over the
  lines).  It rests on the table of directives: no word of it begins with another one
  (`NoShadow`), so that a directive written in full is never taken for an earlier entry,
  though `cmdparse()` takes the first one that fits.  `ThreadsInv`: the phases of `main()`, the socket, the listener and
  the export thread go together.  `StreamInv`: the clients added are those in the array,
  each once, and during a write those up to `i` have one sentence more than the others.
* **`GuiProofs`**: `OnlyReportsShown`, `LatestShown`.  `GuiInv`: the stream is whole
  sentences, apart from what was cut; a line that can be continued is the whole of a
  first sentence, so that a second sentence put behind the wrong one changes nothing
  that is decoded; `shipd`, which is shown again by sentences that decode nothing, was
  reported.  `UpToDate`: the last report of a ship is the last one of it on the way,
  or on the map if there is room; second sentences follow the first ones of static
  data; `shipd` is not out of date.

What the proofs found: `NoFactVanishes` was false for MMSI 0, of which the export
leaves out position and static data (`out_json.c:250`, `278`).  No run had a vessel of that
number.  The property now names this exception (`NoMmsi`).

Recursive functions, folds written as such, and loops are proved about with the
least-number principle (`LeastNat`): the least index at which a claim fails is looked at.
The library's induction theorems, which take an operator, are not needed.

Only model-checked:

* the liveness properties (`CallsReturn`, `PositionExported`, `ShutdownCompletes`,
  `ConnectedIsServed`), which are out of the prover's reach, as is `ENABLED`;
* the refinement `IsAKeySet` and `WalkIsComplete` of `Splay`: its loops are RECURSIVE
  operators on a heap of links, which the provers do not take;
* `NothingInvented` of `AisLink`, which is no theorem: with enough inverted bits the
  checksum of another message can be right.  It holds for the payloads of the run.

## 5. Findings

1. `ais_link_stale`: after a broken start flag the deframer hunts with `nstartsign` 1,
   and loses the next burst (`protodec.c:1092`).
2. `sp_free_list`: the export thread and the decoder share the free list of the splay
   tree without a lock (`splay.c:68`, `out_json.c:327-329`).

Other disagreements between code and text.  Where a definition is named, TLC refutes it
when it is put in place of a run's properties:

* `protodec.c:922-923` says the sequence number is "rolling 1-9", it rolls 0 to 9.
* `WeatherFieldsAreDisjoint` (`messages`): in `protodec_msg_11()` the commented out
  reads no longer advance `msg_start`, so that the wind is read from the longitude's
  bits, and the wave height and the water temperature from those of the water level.
* `GuiDecodesSouth` (`messages`): `type4()` of the GUI (`gui.c:137`) does not extend
  the sign of the latitude; ChangeLog 0.0.7 says "gnuais can decode positions south of
  equator".
* `EveryFactSentOut` (`cache_export`): static data of a vessel without a name is freed
  unsent (`out_json.c:278`); `cache.c:7-9` speaks of "storing the most current
  up-to-date information for each MMSI, so that it can be sent out".

* `out_mysql.c:151-152`, `ais.c:203` ("Updating database rows only."): in that mode a
  repeated message of the same second makes a second row, since
  `mysql_affected_rows()` does not count a row that stays as it is.
* ChangeLog:67-68 promises the level "every 30 seconds when the level is higher than
  98%": the threshold is 95 (`receiver.c:141`), and without `SoundLevelLog` a distance
  of 0 is enough, so that every buffer that is too loud gets a line.
* The "automatic reconnection to MySQL if the connection goes away" of ChangeLog:84
  comes a call late after `CR_SERVER_LOST` (`out_mysql.c:146`, `164`, `293`).
* `cfg.c:328` lets the command line decide on the log directory; for the sound files
  the file overrides `-l` and `-s`.
* `NOCALLDEFINED`, the callsign for those who give none, has 13 letters and would not
  pass `valid_aprsis_call()`.

What the model shows without a text that says otherwise: after SIGINT the rest of the
buffer in hand is decoded and written, and a client that neither reads nor leaves
holds up the shutdown there; a template that was copied in
part is taken for the configuration by the next run (`HalfCopyNotRead` is about the run
that made it); if the user saves a file between the look for it and the copy, the
daemon runs with its defaults; an uplink line without a URL, or a `HOME` that is not
set, ends the process in the middle of `read_config()`; a second daemon removes the
name of the first one's socket (`ipc.c:93`; one daemon at a time in the model); a read
error other than an overrun is repeated without a pause (`input.c:117`); lines logged
during a reopening are dropped, and `log_name` is read outside of the lock.

## 6. Not modelled, and the plan

Left out for good: the map widget (GTK drawing and event code), `filter-i386.h` and the
range statistics (floating point), `hmalloc.c`, `crc32.c`, `spsymbol.c` (wrappers and
tables without a protocol), the serial line (one `write()`), the negotiation of sound
parameters with the driver.  Within modelled components: text conversion, printing and
formatting, the splitting of configuration lines into words, the NMEA checksum, the
values of fields, the access log, and the functions of `splay.c`, `rwlock.c` and
`hlog.c` that the program does not call.

Done in this order: deframer and link; receiver and filter; cache, export and splay
tree; sentences and messages; IPC, database and GUI; lock and log; sound; configuration
and the main program.

Proved, in this order: deframer; receiver; filter and sound loop; lock and log;
database; cache and export; socket and main program; GUI; link and frame check;
sentences and fields; configuration.

Next: the splay tree, with its loops as recursive functions over a well-founded order of
the nodes: first that one rotation keeps the order of the keys, then the splay.
