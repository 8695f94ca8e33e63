-------------------------------- MODULE Log ---------------------------------
(***************************************************************************)
(* The log of src/src/hlog.c: a thread writes a line under the read lock,  *)
(* and opens, reopens or closes the log under the write lock.  hlog()      *)
(* looks at log_file before it takes the lock; a reopening sets it to -1   *)
(* in between.  Formatting and levels are left out, and so is the access   *)
(* log, which nothing in the program uses.                                 *)
(*                                                                         *)
(* The main thread opens the log before it starts the others and closes it *)
(* when they have ended, as main() of src/src/ais.c does.  Nothing there   *)
(* calls close_log(1), to reopen; here any thread may, at any time.        *)
(***************************************************************************)
EXTENDS RWLock

CONSTANTS
  Main,          \* the main thread, one of Threads
  MaxLines,      \* bound of the model: calls of hlog() by the program
  MaxReopens     \* bound of the model: reopenings

ASSUME LogAssumption == Main \in Threads /\ MaxLines \in Nat /\ MaxReopens \in Nat

VARIABLES
  log_dest,      \* "file", or "other": standard error and syslog
  log_file,      \* Closed, or the number of times the file has been opened
  opened,        \* history: how often that is so far
  call,          \* where each thread is in its call of hlog.c
  fd,            \* the file a thread in write() was given
  lines,         \* history: calls of hlog()
  exited         \* the process has ended

logVars == <<log_dest, log_file, opened, call, fd, lines, exited>>
vars    == <<lockVars, logVars>>

Closed == -1
Others == Threads \ {Main}

Goes(t, s) == call' = [call EXCEPT ![t] = s]

Init ==
  /\ LockInit
  /\ log_dest \in {"file", "other"}
  /\ log_file = Closed /\ opened = 0
  /\ call = [t \in Threads |-> IF t = Main THEN "open" ELSE "unborn"]
  /\ fd = [t \in Threads |-> Closed]
  /\ lines = 0 /\ exited = FALSE

-----------------------------------------------------------------------------
(* hlog()                                                                  *)

\* Where hlog() goes after it has looked at the destination: to the lock, or
\* back to the caller without a word.
Checked == IF log_dest = "file" /\ log_file = Closed THEN "idle" ELSE "line"

hlog(t) ==
  /\ call[t] = "idle" /\ lines < MaxLines
  /\ lines' = lines + 1
  /\ Goes(t, Checked)
  /\ UNCHANGED <<lockVars, log_dest, log_file, opened, fd, exited>>

\* The hlog() at the end of open_log().
OpenedLine(t) ==
  /\ call[t] = "report"
  /\ Goes(t, Checked)
  /\ UNCHANGED <<lockVars, log_dest, log_file, opened, fd, lines, exited>>

LineLocks(t) ==
  /\ call[t] = "line"
  /\ rwl_rdlock(t)
  /\ Goes(t, "line_locked")
  /\ UNCHANGED <<log_dest, log_file, opened, fd, lines, exited>>

\* The lock has been got: write(log_file, ...) begins.
WriteLine(t) ==
  /\ call[t] = "line_locked" /\ thread[t] = "reading"
  /\ fd' = [fd EXCEPT ![t] = log_file]
  /\ Goes(t, "writing")
  /\ UNCHANGED <<lockVars, log_dest, log_file, opened, lines, exited>>

LineUnlocks(t) ==
  /\ call[t] = "writing"
  /\ rwl_rdunlock(t)
  /\ fd' = [fd EXCEPT ![t] = Closed]
  /\ Goes(t, "idle")
  /\ UNCHANGED <<log_dest, log_file, opened, lines, exited>>

-----------------------------------------------------------------------------
(* open_log() and close_log()                                              *)

open_log(t) ==
  /\ call[t] = "open"
  /\ rwl_wrlock(t)
  /\ Goes(t, "opening")
  /\ UNCHANGED <<log_dest, log_file, opened, fd, lines, exited>>

\* close_log(0)
close_log ==
  /\ call[Main] = "idle" /\ \A t \in Others : call[t] = "ended"
  /\ rwl_wrlock(Main)
  /\ Goes(Main, "closing")
  /\ UNCHANGED <<log_dest, log_file, opened, fd, lines, exited>>

\* close_log(1)
reopen_log(t) ==
  /\ call[t] = "idle"
  /\ opened + Cardinality({u \in Threads : call[u] \in {"reclosing", "opening"}}) <= MaxReopens
  /\ rwl_wrlock(t)
  /\ Goes(t, "reclosing")
  /\ UNCHANGED <<log_dest, log_file, opened, fd, lines, exited>>

\* Mutant: a reopening gives the lock back before it opens the file.
CloseFileUnlocks(t) ==
  /\ call[t] \in {"closing", "reclosing"} /\ thread[t] = "writing"
  /\ log_file' = Closed
  /\ IF call[t] = "reclosing"
       THEN rwl_wrunlock(t) /\ Goes(t, "open")
       ELSE Goes(t, "closed") /\ UNCHANGED lockVars
  /\ UNCHANGED <<log_dest, opened, fd, lines, exited>>

CloseFile(t) ==
  /\ call[t] \in {"closing", "reclosing"} /\ thread[t] = "writing"
  /\ log_file' = Closed
  /\ Goes(t, IF call[t] = "reclosing" THEN "opening" ELSE "closed")
  /\ UNCHANGED <<lockVars, log_dest, opened, fd, lines, exited>>

OpenFile(t) ==
  /\ call[t] = "opening" /\ thread[t] = "writing"
  /\ opened' = opened + 1
  /\ log_file' = IF log_dest = "file" THEN opened' ELSE Closed
  /\ Goes(t, "opened")
  /\ UNCHANGED <<lockVars, log_dest, fd, lines, exited>>

\* open() fails, exit(1)
OpenFails(t) ==
  /\ call[t] = "opening" /\ thread[t] = "writing" /\ log_dest = "file"
  /\ exited' = TRUE
  /\ UNCHANGED <<lockVars, log_dest, log_file, opened, call, fd, lines>>

\* rwl_wrunlock(); a file that was opened then gets a line about it.
LogUnlocks(t) ==
  /\ call[t] \in {"opened", "closed"}
  /\ rwl_wrunlock(t)
  /\ Goes(t, IF call[t] = "closed" THEN "ended"
             ELSE IF log_dest = "file" THEN "report" ELSE "idle")
  /\ UNCHANGED <<log_dest, log_file, opened, fd, lines, exited>>

-----------------------------------------------------------------------------
(* The other threads start and end while the main thread runs.             *)

pthread_create(t) ==
  /\ t \in Others /\ call[t] = "unborn" /\ call[Main] = "idle"
  /\ Goes(t, "idle")
  /\ UNCHANGED <<lockVars, log_dest, log_file, opened, fd, lines, exited>>

ThreadEnds(t) ==
  /\ t \in Others /\ call[t] = "idle"
  /\ Goes(t, "ended")
  /\ UNCHANGED <<lockVars, log_dest, log_file, opened, fd, lines, exited>>

LockReturns(t) == (ReadWakes(t) \/ WriteWakes(t)) /\ UNCHANGED logVars

Step(t) ==
  \/ OpenedLine(t) \/ LineLocks(t) \/ WriteLine(t) \/ LineUnlocks(t)
  \/ open_log(t) \/ CloseFile(t) \/ OpenFile(t) \/ OpenFails(t) \/ LogUnlocks(t)
  \/ LockReturns(t)

Next ==
  /\ ~exited
  /\ \/ \E t \in Threads :
          \/ Step(t)
          \/ hlog(t) \/ reopen_log(t) \/ pthread_create(t) \/ ThreadEnds(t)
          \/ Spurious(t) /\ UNCHANGED logVars
     \/ close_log

Spec == Init /\ [][Next]_vars

(***************************************************************************)
(* Every thread that can go on does so; nobody has to log, to reopen or to *)
(* wake up without a signal.                                               *)
(***************************************************************************)
Fairness == \A t \in Threads : WF_vars(~exited /\ Step(t))

FairSpec == Spec /\ Fairness

-----------------------------------------------------------------------------
(* Properties                                                              *)

(***************************************************************************)
(* A line goes to an open file, and to the present one: however often the  *)
(* log is reopened, no write() runs on a descriptor that is closed, though *)
(* log_file is looked at outside of the lock.                              *)
(***************************************************************************)
LineGoesToOpenFile ==
  \A t \in Threads :
    log_dest = "file" /\ call[t] = "writing" => fd[t] = log_file /\ log_file # Closed

(***************************************************************************)
(* Every call of hlog(), open_log() and close_log() returns, unless the    *)
(* log cannot be opened, which ends the process: no thread sleeps on a     *)
(* condition variable that nobody will signal.                             *)
(***************************************************************************)
CallsReturn ==
  \A t \in Threads :
    call[t] \notin {"unborn", "idle", "ended"} ~> exited \/ call[t] \in {"idle", "ended"}
=============================================================================
