------------------------------- MODULE Daemon -------------------------------
(***************************************************************************)
(* The main program, main() of src/src/ais.c: start-up, the loop that      *)
(* receives, shutdown; with the configuration (Config) and the socket to   *)
(* the GUI (Ipc) in full.  The export thread of out_json.c is here as a    *)
(* thread that uses the configuration, the cache and the log and ends when *)
(* it is told to; the modules CacheExport, Sound and Log have the details  *)
(* of what happens in between.                                             *)
(*                                                                         *)
(* The process may be killed at any moment, or give up while it starts,    *)
(* with threads running; whatever the way it ended, it may be started once *)
(* more.  What stays is the configuration file and the socket's name.      *)
(***************************************************************************)
EXTENDS Ipc, Config

CONSTANT MaxStarts  \* bound of the model: starts of the program

ASSUME DaemonAssumption == MaxStarts \in Nat

VARIABLES
  starts,  \* history: starts so far
  done,    \* set by closedown(), the handler of SIGINT, and at the end of a file
  log,     \* "open" between open_log() and close_log()
  cache,   \* "none", "ready", "freed": cache_spt
  json     \* the export thread: "none", "run", "told" to end, "ended"

mainVars == <<starts, done, log, cache, json>>
vars     == <<ipcVars, configVars, mainVars>>

Init ==
  /\ IpcInit /\ ConfigInit
  /\ starts = 0 /\ done = FALSE /\ log = "closed" /\ cache = "none" /\ json = "none"

Goes(p) == phase' = p /\ UNCHANGED <<args, fileVars, text, cfg, inherited>>

\* The phase goes on and what only read_config() needed is forgotten.
GoesConfigured(p) ==
  /\ phase' = p
  /\ args' = Null /\ from' = Null /\ text' = <<>> /\ inherited' = FALSE
  /\ UNCHANGED <<home, ours, userText, partial, cfg>>

\* Nothing of the process is left.
Down ==
  /\ ProcessEnds
  /\ phase' = "down" /\ args' = Null /\ from' = Null /\ ours' = FALSE
  /\ text' = <<>> /\ cfg' = <<>> /\ inherited' = FALSE
  /\ UNCHANGED <<home, userText, partial>>
  /\ done' = FALSE /\ log' = "closed" /\ cache' = "none" /\ json' = "none"
  /\ UNCHANGED starts

-----------------------------------------------------------------------------
(* Start-up                                                                *)

\* parse_cmdline(), open_log().
Start ==
  /\ starts < MaxStarts
  /\ \E a \in CommandLines : parse_cmdline(a)
  /\ starts' = starts + 1 /\ log' = "open"
  /\ UNCHANGED <<ipcVars, done, cache, json>>

ReadConfig == read_config /\ UNCHANGED <<ipcVars, mainVars>>

\* fork(), of which the parent ends; writepid(); then the signals.
Daemonize ==
  /\ phase = "configured"
  /\ GoesConfigured("signals")
  /\ UNCHANGED <<ipcVars, mainVars>>

\* cache_init() and jsonout_init(), if there is an uplink; serial_init().
StartExport ==
  /\ phase = "signals"
  /\ IF cfg.uplink_config # <<>> THEN cache' = "ready" /\ json' = "run"
                                 ELSE UNCHANGED <<cache, json>>
  /\ Goes("ipc")
  /\ UNCHANGED <<ipcVars, starts, done, log>>

gnuais_ipc_init ==
  /\ phase = "ipc"
  /\ UnlinkSocket \/ BindSocket \/ InitFails
  /\ IF main' = "run" THEN Goes("sound") ELSE UNCHANGED configVars
  /\ UNCHANGED mainVars

\* The receivers, the sound device or file, the recording and the database.
OpenSound ==
  /\ phase = "sound"
  /\ cfg.sound_device # Null \/ cfg.sound_in_file # Null
  /\ Goes("loop")
  /\ UNCHANGED <<ipcVars, mainVars>>

\* read_config() has failed or crashed, or one of these fails: fork(), writepid(),
\* pthread_create(), the sound, its files, the database.  exit() or return, with
\* threads running, and nothing is undone.
GivesUp ==
  /\ phase \in {"exit", "crash", "configured", "signals", "sound"}
  /\ Down

-----------------------------------------------------------------------------
(* The loop                                                                *)

\* The loop looks at done here, and only here.
ReadBuffer ==
  /\ phase = "loop" /\ ~done
  /\ Goes("buffer")
  /\ UNCHANGED <<ipcVars, mainVars>>

\* Sentences are written while a buffer is decoded, told to stop or not.
Receive ==
  /\ phase = "buffer"
  /\ ipc_write \/ WriteClient \/ WriteDone
  /\ UNCHANGED <<configVars, mainVars>>

\* The buffer has been decoded, or the read failed.
BufferDone ==
  /\ phase = "buffer" /\ main = "run"
  /\ Goes("loop")
  /\ UNCHANGED <<ipcVars, mainVars>>

\* SIGINT, any time after signal().
closedown ==
  /\ phase \in {"ipc", "sound", "loop", "buffer"} /\ ~done
  /\ done' = TRUE
  /\ UNCHANGED <<ipcVars, configVars, starts, log, cache, json>>

EndOfFile ==
  /\ phase = "loop" /\ ~done /\ cfg.sound_in_file # Null
  /\ done' = TRUE
  /\ UNCHANGED <<ipcVars, configVars, starts, log, cache, json>>

LoopEnds ==
  /\ phase = "loop" /\ done
  /\ Goes("closing")
  /\ UNCHANGED <<ipcVars, mainVars>>

-----------------------------------------------------------------------------
(* Shutdown                                                                *)

\* The sound first, then gnuais_ipc_deinit(), whether the socket was opened or not.
StopIpc ==
  /\ phase = "closing"
  /\ gnuais_ipc_deinit \/ IpcFree \/ JoinNothing
  /\ UNCHANGED <<configVars, mainVars>>

\* pthread_join() of a thread that does not exist is undefined: it may crash.
JoinCrashes ==
  /\ phase = "closing" /\ main = "join" /\ listener = "none"
  /\ Down

\* serial_close(), jsonout_deinit().
jsonout_deinit ==
  /\ phase = "closing" /\ main = "exit" /\ cfg.uplink_config # <<>>
  /\ json = "run"
  /\ json' = "told"
  /\ UNCHANGED <<ipcVars, configVars, starts, done, log, cache>>

\* The export thread looks at jsonout_die once a second, between exports.
JsonEnds ==
  /\ json = "told"
  /\ json' = "ended"
  /\ UNCHANGED <<ipcVars, configVars, starts, done, log, cache>>

\* Mutant: the export thread is not waited for.
FreeCacheEarly ==
  /\ phase = "closing" /\ main = "exit"
  /\ json \in {"none", "told", "ended"}
  /\ cache' = IF cache = "ready" THEN "freed" ELSE cache
  /\ Goes("free")
  /\ UNCHANGED <<ipcVars, starts, done, log, json>>

\* pthread_join() has returned; cache_deinit(), free_receiver().
FreeCache ==
  /\ phase = "closing" /\ main = "exit"
  /\ json \in {"none", "ended"}
  /\ cache' = IF cache = "ready" THEN "freed" ELSE cache
  /\ Goes("free")
  /\ UNCHANGED <<ipcVars, starts, done, log, json>>

free_config ==
  /\ phase = "free"
  /\ phase' = "log" /\ cfg' = <<>>
  /\ UNCHANGED <<args, fileVars, text, inherited, ipcVars, mainVars>>

close_log ==
  /\ phase = "log"
  /\ log' = "closed"
  /\ Goes("return")
  /\ UNCHANGED <<ipcVars, starts, done, cache, json>>

Returns == phase = "return" /\ Down

-----------------------------------------------------------------------------

\* SIGTERM, SIGKILL, a power cut, or abort() in receiver_run().
Killed == phase # "down" /\ Down

Listen ==
  /\ (\E c \in Clients : Accept(c)) \/ AcceptFails \/ AddClient
  /\ UNCHANGED <<configVars, mainVars>>

ClientStep ==
  /\ \E c \in Clients : Connect(c) \/ Read(c) \/ Leave(c)
  /\ UNCHANGED <<configVars, mainVars>>

\* The file matters while it is looked for: the model lets the user write then.
User ==
  /\ phase \in {"home", "template", "create", "copy", "reopen", "exit"}
  /\ \E t \in UserTexts : UserWrites(t)
  /\ UNCHANGED <<ipcVars, mainVars>>

MainStep ==
  \/ Daemonize \/ StartExport \/ gnuais_ipc_init \/ OpenSound
  \/ LoopEnds \/ StopIpc \/ jsonout_deinit \/ FreeCache \/ free_config \/ close_log
  \/ Returns

Next ==
  \/ Start \/ ReadConfig \/ MainStep \/ GivesUp \/ ReadBuffer \/ Receive \/ BufferDone
  \/ closedown \/ EndOfFile \/ JoinCrashes \/ JsonEnds \/ Killed \/ Listen \/ ClientStep \/ User

Spec == Init /\ [][Next]_vars

(***************************************************************************)
(* Every thread goes on when it can (the main thread from the end of the   *)
(* configuration on), the kernel gives waiting clients to accept(), and a  *)
(* client reads what it is sent or goes away: gnuaisgui does nothing else. *)
(* The lock is taken for one sentence at a time.  A read returns and a     *)
(* buffer has finitely many sentences, so that its end is reached however  *)
(* often a sentence is written before: this is strong fairness.            *)
(***************************************************************************)
Fairness ==
  /\ WF_vars(MainStep) /\ WF_vars(JsonEnds) /\ SF_vars(BufferDone)
  /\ WF_vars((WriteClient \/ WriteDone) /\ UNCHANGED <<configVars, mainVars>>)
  /\ WF_vars(((\E c \in Clients : Accept(c)) \/ AcceptFails) /\ UNCHANGED <<configVars, mainVars>>)
  /\ SF_vars(AddClient /\ UNCHANGED <<configVars, mainVars>>)
  /\ \A c \in Clients : WF_vars(Read(c) /\ UNCHANGED <<configVars, mainVars>>)

FairSpec == Spec /\ Fairness

-----------------------------------------------------------------------------
(* Properties                                                              *)

(***************************************************************************)
(* What a thread uses is there as long as the thread is: shutdown frees    *)
(* the state of the socket, the cache and the configuration, and closes    *)
(* the log, only after the threads that use them have ended.               *)
(***************************************************************************)
FreedAfterUse ==
  /\ main = "exit" => listener \in {"none", "done"}
  /\ json \in {"run", "told"} => cfg # <<>> /\ cache = "ready" /\ log = "open"
  /\ listener \in {"accept", "accepted"} => log = "open"

(***************************************************************************)
(* A daemon that is told to stop, by SIGINT or by the end of its file,     *)
(* stops: also if that happens while it starts or with sentences still to  *)
(* be written, and whatever the listener, the export thread and the        *)
(* clients are doing.  A crash in the join of a listener that was never    *)
(* created (JoinCrashes) counts as a stop.                                 *)
(***************************************************************************)
ShutdownCompletes == done ~> phase = "down"
=============================================================================
