---------------------------- MODULE DaemonProofs ----------------------------
(***************************************************************************)
(* The main program with the configuration and the socket to the GUI, for  *)
(* any files, command lines, clients and number of starts: what the user   *)
(* wrote is kept, a copy that was not completed is not read, the daemon    *)
(* runs with what its file says, the socket comes up, a client gets a      *)
(* complete stream, and shutdown frees nothing that a thread still uses.   *)
(***************************************************************************)
EXTENDS Daemon, SequenceTheorems, FiniteSetTheorems, WellFoundedInduction, TLAPS

\* The phases in which the configuration is looked for, and those after it.
Searching == {"search", "home", "template", "create", "copy", "reopen"}
Reading   == {"parse", "check", "configured", "exit", "crash", "signals"}

(***************************************************************************)
(* cpfile() writes to a file that the user has not written.                *)
(***************************************************************************)
UserInv == UserConfigKept /\ (ours => userText = Null)

(***************************************************************************)
(* A copy that this run of the daemon began is not completed only while it *)
(* is being made; nothing has been read before it is.                      *)
(***************************************************************************)
CopyInv ==
  /\ phase \in Searching \cup {"down"} => text = <<>>
  /\ phase \in Searching \ {"copy"} => (partial => inherited)
  /\ phase = "copy" => (partial => ours)
  /\ HalfCopyNotRead

(***************************************************************************)
(* The main thread and its parts go through their states together.         *)
(***************************************************************************)
PhaseInv ==
  /\ phase \in {"down", "ipc", "sound", "loop", "buffer", "closing", "free", "log", "return"}
       \cup Searching \cup Reading
  /\ phase \in {"down"} \cup Searching \cup Reading => main = "off"
  /\ phase = "ipc" => main \in {"off", "bind"}
  /\ phase \in {"sound", "loop"} => main = "run"
  /\ phase = "buffer" => main \in {"run", "write"}
  /\ phase = "closing" => main \in {"run", "join", "exit"}
  /\ phase \in {"free", "log", "return"} => main = "exit"

\* The listener runs from the end of gnuais_ipc_init() to gnuais_ipc_deinit(), and
\* the name is free when it is bound.
SocketInv ==
  /\ listener \in {"none", "accept", "accepted", "done"}
  /\ main \in {"off", "bind"} => listener = "none"
  /\ main = "bind" => path = None
  /\ main \in {"run", "write"} /\ listener = "none" => sysfail
  /\ main = "exit" => listener \in {"none", "done"}

\* What the threads use.
UseInv ==
  /\ phase \notin {"down", "return"} => log = "open"
  /\ phase \notin {"down", "log", "return"} => DOMAIN cfg = Dests
  /\ json \in {"run", "told"} =>
       phase \in {"ipc", "sound", "loop", "buffer", "closing"} /\ cache = "ready"

ThreadsInv == PhaseInv /\ SocketInv /\ UseInv

\* The clients that were added are those in the array, each of them once; what a
\* client was sent begins when it was added.
ClientsInv ==
  /\ n \in Nat
  /\ client \in [Clients -> {"idle", "connecting", "connected", "gone"}]
  /\ sock \in [Clients -> Seq(Nat)] /\ got \in [Clients -> Seq(Nat)]
  /\ joined \in [Clients -> Nat \cup {None}]
  /\ clientsocket \in Seq(Clients)
  /\ \A k \in 1 .. Len(clientsocket) : joined[clientsocket[k]] # None
  /\ \A j, k \in 1 .. Len(clientsocket) : clientsocket[j] = clientsocket[k] => j = k
  /\ \A c \in Clients : joined[c] # None => \E k \in 1 .. Len(clientsocket) : clientsocket[k] = c
  /\ \A c \in Clients : joined[c] # None => client[c] \in {"connected", "gone"} /\ joined[c] <= n
  /\ \A c \in Clients : joined[c] = None => sock[c] = <<>> /\ got[c] = <<>>
  /\ listener = "accepted" =>
       /\ connection_fd \in Clients /\ joined[connection_fd] = None
       /\ client[connection_fd] \in {"connected", "gone"}

\* A sentence is written under the lock, to the clients up to the i-th.
WriteInv ==
  /\ main = "write" <=> mutex = "main"
  /\ main = "write" =>
       /\ i \in 1 .. Len(clientsocket) + 1
       /\ \A c \in Clients : joined[c] # None => joined[c] < n

StreamInv == ClientsInv /\ WriteInv /\ StreamIsComplete

-----------------------------------------------------------------------------
(* The configuration file                                                  *)

\* The phases that start-up and shutdown go on to.
Later == {"ipc", "sound", "loop", "buffer", "closing", "free", "log", "return"}

\* A step as the configuration sees it.
ConfigStep ==
  \/ \E a \in CommandLines : parse_cmdline(a)
  \/ read_config
  \/ phase' \in Later /\ UNCHANGED <<fileVars, text, inherited>>
  \/ GoesConfigured("signals")
  \/ /\ phase' = "down" /\ ours' = FALSE /\ text' = <<>> /\ inherited' = FALSE
     /\ UNCHANGED <<home, userText, partial>>
  \/ \E t \in UserTexts : UserWrites(t)
  \/ UNCHANGED configVars

(***************************************************************************)
(* The other parts of the daemon touch no file.                            *)
(***************************************************************************)
LEMMA ConfigSteps == [Next]_vars => ConfigStep
<1> SUFFICES ASSUME [Next]_vars PROVE ConfigStep
  OBVIOUS
<1>1. CASE Start \/ ReadConfig \/ User
  BY <1>1 DEF Start, ReadConfig, User, ConfigStep
<1>2. CASE Daemonize
  BY <1>2 DEF Daemonize, ConfigStep
<1>3. CASE \/ StartExport \/ OpenSound \/ ReadBuffer \/ BufferDone \/ LoopEnds
           \/ FreeCache \/ free_config \/ close_log
  BY <1>3 DEF StartExport, OpenSound, ReadBuffer, BufferDone, LoopEnds, FreeCache, free_config,
              close_log, Goes, ConfigStep, Later
<1>4. CASE gnuais_ipc_init
  BY <1>4 DEF gnuais_ipc_init, Goes, ConfigStep, Later
<1>5. CASE \/ GivesUp \/ JoinCrashes \/ Returns \/ Killed
  BY <1>5 DEF GivesUp, JoinCrashes, Returns, Killed, Down, ConfigStep
<1>6. CASE \/ StopIpc \/ jsonout_deinit \/ Receive \/ closedown \/ EndOfFile \/ JsonEnds
           \/ Listen \/ ClientStep \/ UNCHANGED vars
  BY <1>6 DEF StopIpc, jsonout_deinit, Receive, closedown, EndOfFile, JsonEnds, Listen,
              ClientStep, vars, ConfigStep
<1> QED
  BY <1>1, <1>2, <1>3, <1>4, <1>5, <1>6 DEF Next, MainStep

(***************************************************************************)
(* No step overwrites what the user wrote: cpfile() makes a file only      *)
(* where there is none.                                                    *)
(***************************************************************************)
LEMMA UserStay == UserInv /\ ConfigStep => UserInv'
<1> SUFFICES ASSUME UserInv, ConfigStep PROVE UserInv'
  OBVIOUS
<1> USE DEF UserInv, UserConfigKept
<1>1. CASE \E a \in CommandLines : parse_cmdline(a)
  BY <1>1 DEF parse_cmdline, fileVars
<1>2. CASE read_config
  <2>1. CASE OpenGiven \/ OpenHome \/ Reopen \/ ParseFile \/ CheckConfig
    BY <2>1 DEF OpenGiven, OpenHome, Reopen, ParseFile, CheckConfig, fileVars
  <2>2. CASE FindTemplate \/ CopyEnds \/ CopyFails
    <3>1. UNCHANGED <<home, userText>>
      BY <2>2 DEF FindTemplate, CopyEnds, CopyFails
    <3>2. CASE FindTemplate
      BY <3>1, <3>2 DEF FindTemplate
    <3>3. CASE CopyEnds \/ CopyFails
      BY <3>1, <3>3 DEF CopyEnds, CopyFails
    <3> QED
      BY <2>2, <3>2, <3>3
  <2>3. CASE CreateHome
    BY <2>3 DEF CreateHome
  <2>4. CASE CopyBlock
    BY <2>4 DEF CopyBlock
  <2> QED
    BY <1>2, <2>1, <2>2, <2>3, <2>4 DEF read_config, read_cfgfile
<1>3. CASE \/ phase' \in Later /\ UNCHANGED <<fileVars, text, inherited>>
           \/ UNCHANGED configVars
  BY <1>3 DEF fileVars, configVars
<1>4. CASE GoesConfigured("signals")
  BY <1>4 DEF GoesConfigured
<1>5. CASE /\ phase' = "down" /\ ours' = FALSE /\ text' = <<>> /\ inherited' = FALSE
           /\ UNCHANGED <<home, userText, partial>>
  BY <1>5
<1>6. CASE \E t \in UserTexts : UserWrites(t)
  BY <1>6 DEF UserWrites
<1> QED
  BY <1>1, <1>2, <1>3, <1>4, <1>5, <1>6 DEF ConfigStep

(***************************************************************************)
(* What the user saved as ~/.config/gnuais/config is what is there,        *)
(* whenever it was saved and however often the daemon starts, fails or is  *)
(* killed.                                                                 *)
(***************************************************************************)
THEOREM UserFileKept == Spec => []UserConfigKept
<1>1. Init => UserInv
  BY DEF Init, ConfigInit, UserInv, UserConfigKept
<1>2. UserInv => UserConfigKept
  BY DEF UserInv
<1> QED
  BY <1>1, <1>2, UserStay, ConfigSteps, PTL DEF Spec

(***************************************************************************)
(* No step lets a copy that this run began and did not complete be read.   *)
(***************************************************************************)
LEMMA CopyStay == CopyInv /\ ConfigStep => CopyInv'
<1> SUFFICES ASSUME CopyInv, ConfigStep PROVE CopyInv'
  OBVIOUS
<1> USE DEF CopyInv, HalfCopyNotRead, Searching
<1>1. CASE \E a \in CommandLines : parse_cmdline(a)
  BY <1>1 DEF parse_cmdline, fileVars
<1>2. CASE read_config
  <2>1. CASE OpenGiven
    BY <2>1 DEF OpenGiven, fileVars
  <2>2. CASE OpenHome
    BY <2>2 DEF OpenHome, fileVars
  <2>3. CASE FindTemplate
    BY <2>3 DEF FindTemplate
  <2>4. CASE CreateHome
    BY <2>4 DEF CreateHome
  <2>5. CASE CopyBlock
    BY <2>5 DEF CopyBlock
  <2>6. CASE CopyEnds \/ CopyFails
    BY <2>6 DEF CopyEnds, CopyFails
  <2>7. CASE Reopen
    BY <2>7 DEF Reopen, fileVars
  <2>8. CASE ParseFile
    <3>1. phase = "parse" /\ UNCHANGED fileVars /\ UNCHANGED <<text, inherited>>
      BY <2>8 DEF ParseFile
    <3>2. phase' \in {"check", "exit", "crash"}
      BY <2>8 DEF ParseFile
    <3> QED
      BY <3>1, <3>2 DEF fileVars
  <2>9. CASE CheckConfig
    BY <2>9 DEF CheckConfig, fileVars
  <2> QED
    BY <1>2, <2>1, <2>2, <2>3, <2>4, <2>5, <2>6, <2>7, <2>8, <2>9 DEF read_config, read_cfgfile
<1>3. CASE phase' \in Later /\ UNCHANGED <<fileVars, text, inherited>>
  BY <1>3 DEF Later
<1>4. CASE UNCHANGED configVars
  BY <1>4 DEF configVars, fileVars
<1>5. CASE GoesConfigured("signals")
  BY <1>5 DEF GoesConfigured
<1>6. CASE /\ phase' = "down" /\ ours' = FALSE /\ text' = <<>> /\ inherited' = FALSE
           /\ UNCHANGED <<home, userText, partial>>
  BY <1>6
<1>7. CASE \E t \in UserTexts : UserWrites(t)
  BY <1>7 DEF UserWrites
<1> QED
  BY <1>1, <1>2, <1>3, <1>4, <1>5, <1>6, <1>7 DEF ConfigStep

(***************************************************************************)
(* read_cfgfile() reads no copy that cpfile() of the same run left         *)
(* incomplete.                                                             *)
(***************************************************************************)
THEOREM CopyComplete == Spec => []HalfCopyNotRead
<1>1. Init => CopyInv
  BY DEF Init, ConfigInit, CopyInv, HalfCopyNotRead, Searching
<1>2. CopyInv => HalfCopyNotRead
  BY DEF CopyInv
<1> QED
  BY <1>1, <1>2, CopyStay, ConfigSteps, PTL DEF Spec

-----------------------------------------------------------------------------
(* The directives                                                          *)

(***************************************************************************)
(* The table of directives, entry by entry.                                *)
(***************************************************************************)
LEMMA Table ==
  /\ DOMAIN cfg_cmds = 1 .. 22
  /\ cfg_cmds[1] = Cmd(<<"l", "o", "gdir">>, "string", "logdir")
  /\ cfg_cmds[2] = Cmd(<<"my", "call">>, "string", "mycall")
  /\ cfg_cmds[3] = Cmd(<<"my", "email">>, "string", "myemail")
  /\ cfg_cmds[4] = Cmd(<<"l", "atitude">>, "float", "mylat")
  /\ cfg_cmds[5] = Cmd(<<"l", "o", "ngitude">>, "float", "mylng")
  /\ cfg_cmds[6] = Cmd(<<"s", "tatsinterval">>, "interval", "stats_interval")
  /\ cfg_cmds[7] = Cmd(<<"expiryinterval">>, "interval", "expiry_interval")
  /\ cfg_cmds[8] = Cmd(<<"uplink">>, "uplink", "uplink_config")
  /\ cfg_cmds[9] = Cmd(<<"my", "sql_", "host">>, "string", "mysql_host")
  /\ cfg_cmds[10] = Cmd(<<"my", "sql_", "db">>, "string", "mysql_db")
  /\ cfg_cmds[11] = Cmd(<<"my", "sql_", "user">>, "string", "mysql_user")
  /\ cfg_cmds[12] = Cmd(<<"my", "sql_", "password">>, "string", "mysql_password")
  /\ cfg_cmds[13] = Cmd(<<"my", "sql_", "keepsmall">>, "toggle", "mysql_keepsmall")
  /\ cfg_cmds[14] = Cmd(<<"my", "sql_", "oldlimit">>, "int", "mysql_oldlimit")
  /\ cfg_cmds[15] = Cmd(<<"s", "ound", "device">>, "string", "sound_device")
  /\ cfg_cmds[16] = Cmd(<<"s", "ound", "infile">>, "string", "sound_in_file")
  /\ cfg_cmds[17] = Cmd(<<"s", "ound", "outfile">>, "string", "sound_out_file")
  /\ cfg_cmds[18] = Cmd(<<"s", "ound", "channels">>, "sound_ch", "sound_channels")
  /\ cfg_cmds[19] = Cmd(<<"s", "ound", "levellog">>, "int", "sound_levellog")
  /\ cfg_cmds[20] = Cmd(<<"s", "erial", "port">>, "string", "serial_port")
  /\ cfg_cmds[21] = Cmd(<<"s", "erial", "_port">>, "string", "serial_port")
  /\ cfg_cmds[22] = Cmd(<<"s", "kip_type">>, "skip_type", "skip_type")
BY DEF cfg_cmds, Cmd

(***************************************************************************)
(* Its size.                                                               *)
(***************************************************************************)
LEMMA TableDomain == DOMAIN cfg_cmds = 1 .. 22
BY Table

(***************************************************************************)
(* Its words.                                                              *)
(***************************************************************************)
LEMMA TableNames ==
  /\ cfg_cmds[1].name = <<"l", "o", "gdir">>
  /\ cfg_cmds[2].name = <<"my", "call">>
  /\ cfg_cmds[3].name = <<"my", "email">>
  /\ cfg_cmds[4].name = <<"l", "atitude">>
  /\ cfg_cmds[5].name = <<"l", "o", "ngitude">>
  /\ cfg_cmds[6].name = <<"s", "tatsinterval">>
  /\ cfg_cmds[7].name = <<"expiryinterval">>
  /\ cfg_cmds[8].name = <<"uplink">>
  /\ cfg_cmds[9].name = <<"my", "sql_", "host">>
  /\ cfg_cmds[10].name = <<"my", "sql_", "db">>
  /\ cfg_cmds[11].name = <<"my", "sql_", "user">>
  /\ cfg_cmds[12].name = <<"my", "sql_", "password">>
  /\ cfg_cmds[13].name = <<"my", "sql_", "keepsmall">>
  /\ cfg_cmds[14].name = <<"my", "sql_", "oldlimit">>
  /\ cfg_cmds[15].name = <<"s", "ound", "device">>
  /\ cfg_cmds[16].name = <<"s", "ound", "infile">>
  /\ cfg_cmds[17].name = <<"s", "ound", "outfile">>
  /\ cfg_cmds[18].name = <<"s", "ound", "channels">>
  /\ cfg_cmds[19].name = <<"s", "ound", "levellog">>
  /\ cfg_cmds[20].name = <<"s", "erial", "port">>
  /\ cfg_cmds[21].name = <<"s", "erial", "_port">>
  /\ cfg_cmds[22].name = <<"s", "kip_type">>
BY Table DEF Cmd

(***************************************************************************)
(* Its variables, and how they are set.                                    *)
(***************************************************************************)
LEMMA TableDests ==
  /\ cfg_cmds[1].function = "string" /\ cfg_cmds[1].dest = "logdir"
  /\ cfg_cmds[2].function = "string" /\ cfg_cmds[2].dest = "mycall"
  /\ cfg_cmds[3].function = "string" /\ cfg_cmds[3].dest = "myemail"
  /\ cfg_cmds[4].function = "float" /\ cfg_cmds[4].dest = "mylat"
  /\ cfg_cmds[5].function = "float" /\ cfg_cmds[5].dest = "mylng"
  /\ cfg_cmds[6].function = "interval" /\ cfg_cmds[6].dest = "stats_interval"
  /\ cfg_cmds[7].function = "interval" /\ cfg_cmds[7].dest = "expiry_interval"
  /\ cfg_cmds[8].function = "uplink" /\ cfg_cmds[8].dest = "uplink_config"
  /\ cfg_cmds[9].function = "string" /\ cfg_cmds[9].dest = "mysql_host"
  /\ cfg_cmds[10].function = "string" /\ cfg_cmds[10].dest = "mysql_db"
  /\ cfg_cmds[11].function = "string" /\ cfg_cmds[11].dest = "mysql_user"
  /\ cfg_cmds[12].function = "string" /\ cfg_cmds[12].dest = "mysql_password"
  /\ cfg_cmds[13].function = "toggle" /\ cfg_cmds[13].dest = "mysql_keepsmall"
  /\ cfg_cmds[14].function = "int" /\ cfg_cmds[14].dest = "mysql_oldlimit"
  /\ cfg_cmds[15].function = "string" /\ cfg_cmds[15].dest = "sound_device"
  /\ cfg_cmds[16].function = "string" /\ cfg_cmds[16].dest = "sound_in_file"
  /\ cfg_cmds[17].function = "string" /\ cfg_cmds[17].dest = "sound_out_file"
  /\ cfg_cmds[18].function = "sound_ch" /\ cfg_cmds[18].dest = "sound_channels"
  /\ cfg_cmds[19].function = "int" /\ cfg_cmds[19].dest = "sound_levellog"
  /\ cfg_cmds[20].function = "string" /\ cfg_cmds[20].dest = "serial_port"
  /\ cfg_cmds[21].function = "string" /\ cfg_cmds[21].dest = "serial_port"
  /\ cfg_cmds[22].function = "skip_type" /\ cfg_cmds[22].dest = "skip_type"
BY Table DEF Cmd

\* The parts of the words of the table.
Parts ==
  {"l", "o", "gdir", "my", "call", "email", "atitude", "ngitude", "s",
   "tatsinterval", "expiryinterval", "uplink", "sql_", "host", "db", "user",
   "password", "keepsmall", "oldlimit", "ound", "device", "infile",
   "outfile", "channels", "levellog", "erial", "port", "_port", "kip_type"}

(***************************************************************************)
(* Short sequences, spelt out for the provers.                             *)
(***************************************************************************)
LEMMA Tuples ==
  ASSUME NEW S, NEW a \in S, NEW b \in S, NEW c \in S
  PROVE  /\ <<a>> \in Seq(S) /\ Len(<<a>>) = 1
         /\ <<a, b>> \in Seq(S) /\ Len(<<a, b>>) = 2
         /\ <<a, b, c>> \in Seq(S) /\ Len(<<a, b, c>>) = 3
OBVIOUS

(***************************************************************************)
(* The words of the table are sequences of parts.                          *)
(***************************************************************************)
LEMMA Names ==
  \A k \in DOMAIN cfg_cmds : cfg_cmds[k].name \in Seq(Parts) /\ Len(cfg_cmds[k].name) >= 1
<1>1. PICK P : P = Parts
  OBVIOUS
<1>2. \A x \in Parts : x \in P
  BY <1>1
<1>3. ASSUME NEW k \in 1 .. 22
      PROVE  cfg_cmds[k].name \in Seq(P) /\ Len(cfg_cmds[k].name) >= 1
  <2>1. cfg_cmds[1].name \in Seq(P) /\ Len(cfg_cmds[1].name) >= 1
    <3>1. "l" \in P /\ "o" \in P /\ "gdir" \in P
      BY <1>1 DEF Parts
    <3> QED
      BY <3>1, Tuples, TableNames
  <2>2. cfg_cmds[2].name \in Seq(P) /\ Len(cfg_cmds[2].name) >= 1
    <3>1. "my" \in P /\ "call" \in P
      BY <1>1 DEF Parts
    <3> QED
      BY <3>1, Tuples, TableNames
  <2>3. cfg_cmds[3].name \in Seq(P) /\ Len(cfg_cmds[3].name) >= 1
    <3>1. "my" \in P /\ "email" \in P
      BY <1>1 DEF Parts
    <3> QED
      BY <3>1, Tuples, TableNames
  <2>4. cfg_cmds[4].name \in Seq(P) /\ Len(cfg_cmds[4].name) >= 1
    <3>1. "l" \in P /\ "atitude" \in P
      BY <1>1 DEF Parts
    <3> QED
      BY <3>1, Tuples, TableNames
  <2>5. cfg_cmds[5].name \in Seq(P) /\ Len(cfg_cmds[5].name) >= 1
    <3>1. "l" \in P /\ "o" \in P /\ "ngitude" \in P
      BY <1>1 DEF Parts
    <3> QED
      BY <3>1, Tuples, TableNames
  <2>6. cfg_cmds[6].name \in Seq(P) /\ Len(cfg_cmds[6].name) >= 1
    <3>1. "s" \in P /\ "tatsinterval" \in P
      BY <1>1 DEF Parts
    <3> QED
      BY <3>1, Tuples, TableNames
  <2>7. cfg_cmds[7].name \in Seq(P) /\ Len(cfg_cmds[7].name) >= 1
    <3>1. "expiryinterval" \in P
      BY <1>1 DEF Parts
    <3> QED
      BY <3>1, Tuples, TableNames
  <2>8. cfg_cmds[8].name \in Seq(P) /\ Len(cfg_cmds[8].name) >= 1
    <3>1. "uplink" \in P
      BY <1>1 DEF Parts
    <3> QED
      BY <3>1, Tuples, TableNames
  <2>9. cfg_cmds[9].name \in Seq(P) /\ Len(cfg_cmds[9].name) >= 1
    <3>1. "my" \in P /\ "sql_" \in P /\ "host" \in P
      BY <1>1 DEF Parts
    <3> QED
      BY <3>1, Tuples, TableNames
  <2>10. cfg_cmds[10].name \in Seq(P) /\ Len(cfg_cmds[10].name) >= 1
    <3>1. "my" \in P /\ "sql_" \in P /\ "db" \in P
      BY <1>1 DEF Parts
    <3> QED
      BY <3>1, Tuples, TableNames
  <2>11. cfg_cmds[11].name \in Seq(P) /\ Len(cfg_cmds[11].name) >= 1
    <3>1. "my" \in P /\ "sql_" \in P /\ "user" \in P
      BY <1>1 DEF Parts
    <3> QED
      BY <3>1, Tuples, TableNames
  <2>12. cfg_cmds[12].name \in Seq(P) /\ Len(cfg_cmds[12].name) >= 1
    <3>1. "my" \in P /\ "sql_" \in P /\ "password" \in P
      BY <1>1 DEF Parts
    <3> QED
      BY <3>1, Tuples, TableNames
  <2>13. cfg_cmds[13].name \in Seq(P) /\ Len(cfg_cmds[13].name) >= 1
    <3>1. "my" \in P /\ "sql_" \in P /\ "keepsmall" \in P
      BY <1>1 DEF Parts
    <3> QED
      BY <3>1, Tuples, TableNames
  <2>14. cfg_cmds[14].name \in Seq(P) /\ Len(cfg_cmds[14].name) >= 1
    <3>1. "my" \in P /\ "sql_" \in P /\ "oldlimit" \in P
      BY <1>1 DEF Parts
    <3> QED
      BY <3>1, Tuples, TableNames
  <2>15. cfg_cmds[15].name \in Seq(P) /\ Len(cfg_cmds[15].name) >= 1
    <3>1. "s" \in P /\ "ound" \in P /\ "device" \in P
      BY <1>1 DEF Parts
    <3> QED
      BY <3>1, Tuples, TableNames
  <2>16. cfg_cmds[16].name \in Seq(P) /\ Len(cfg_cmds[16].name) >= 1
    <3>1. "s" \in P /\ "ound" \in P /\ "infile" \in P
      BY <1>1 DEF Parts
    <3> QED
      BY <3>1, Tuples, TableNames
  <2>17. cfg_cmds[17].name \in Seq(P) /\ Len(cfg_cmds[17].name) >= 1
    <3>1. "s" \in P /\ "ound" \in P /\ "outfile" \in P
      BY <1>1 DEF Parts
    <3> QED
      BY <3>1, Tuples, TableNames
  <2>18. cfg_cmds[18].name \in Seq(P) /\ Len(cfg_cmds[18].name) >= 1
    <3>1. "s" \in P /\ "ound" \in P /\ "channels" \in P
      BY <1>1 DEF Parts
    <3> QED
      BY <3>1, Tuples, TableNames
  <2>19. cfg_cmds[19].name \in Seq(P) /\ Len(cfg_cmds[19].name) >= 1
    <3>1. "s" \in P /\ "ound" \in P /\ "levellog" \in P
      BY <1>1 DEF Parts
    <3> QED
      BY <3>1, Tuples, TableNames
  <2>20. cfg_cmds[20].name \in Seq(P) /\ Len(cfg_cmds[20].name) >= 1
    <3>1. "s" \in P /\ "erial" \in P /\ "port" \in P
      BY <1>1 DEF Parts
    <3> QED
      BY <3>1, Tuples, TableNames
  <2>21. cfg_cmds[21].name \in Seq(P) /\ Len(cfg_cmds[21].name) >= 1
    <3>1. "s" \in P /\ "erial" \in P /\ "_port" \in P
      BY <1>1 DEF Parts
    <3> QED
      BY <3>1, Tuples, TableNames
  <2>22. cfg_cmds[22].name \in Seq(P) /\ Len(cfg_cmds[22].name) >= 1
    <3>1. "s" \in P /\ "kip_type" \in P
      BY <1>1 DEF Parts
    <3> QED
      BY <3>1, Tuples, TableNames
  <2>23. k \in {1, 2, 3, 4, 5, 6, 7, 8, 9, 10, 11, 12, 13, 14, 15, 16, 17, 18, 19, 20, 21, 22}
    OBVIOUS
  <2> QED
    BY <2>1, <2>2, <2>3, <2>4, <2>5, <2>6, <2>7, <2>8, <2>9, <2>10, <2>11, <2>12,
       <2>13, <2>14, <2>15, <2>16, <2>17, <2>18, <2>19, <2>20, <2>21, <2>22, <2>23
<1> QED
  BY <1>1, <1>3, TableDomain

\* The table once more, in the form the provers can search: the k-th word has n1
\* parts, a, b and c as far as there are so many.
Spelt(k, n1, a, b, c) ==
  \/ k = 1 /\ n1 = 3 /\ a = "l" /\ b = "o" /\ c = "gdir"
  \/ k = 2 /\ n1 = 2 /\ a = "my" /\ b = "call"
  \/ k = 3 /\ n1 = 2 /\ a = "my" /\ b = "email"
  \/ k = 4 /\ n1 = 2 /\ a = "l" /\ b = "atitude"
  \/ k = 5 /\ n1 = 3 /\ a = "l" /\ b = "o" /\ c = "ngitude"
  \/ k = 6 /\ n1 = 2 /\ a = "s" /\ b = "tatsinterval"
  \/ k = 7 /\ n1 = 1 /\ a = "expiryinterval"
  \/ k = 8 /\ n1 = 1 /\ a = "uplink"
  \/ k = 9 /\ n1 = 3 /\ a = "my" /\ b = "sql_" /\ c = "host"
  \/ k = 10 /\ n1 = 3 /\ a = "my" /\ b = "sql_" /\ c = "db"
  \/ k = 11 /\ n1 = 3 /\ a = "my" /\ b = "sql_" /\ c = "user"
  \/ k = 12 /\ n1 = 3 /\ a = "my" /\ b = "sql_" /\ c = "password"
  \/ k = 13 /\ n1 = 3 /\ a = "my" /\ b = "sql_" /\ c = "keepsmall"
  \/ k = 14 /\ n1 = 3 /\ a = "my" /\ b = "sql_" /\ c = "oldlimit"
  \/ k = 15 /\ n1 = 3 /\ a = "s" /\ b = "ound" /\ c = "device"
  \/ k = 16 /\ n1 = 3 /\ a = "s" /\ b = "ound" /\ c = "infile"
  \/ k = 17 /\ n1 = 3 /\ a = "s" /\ b = "ound" /\ c = "outfile"
  \/ k = 18 /\ n1 = 3 /\ a = "s" /\ b = "ound" /\ c = "channels"
  \/ k = 19 /\ n1 = 3 /\ a = "s" /\ b = "ound" /\ c = "levellog"
  \/ k = 20 /\ n1 = 3 /\ a = "s" /\ b = "erial" /\ c = "port"
  \/ k = 21 /\ n1 = 3 /\ a = "s" /\ b = "erial" /\ c = "_port"
  \/ k = 22 /\ n1 = 2 /\ a = "s" /\ b = "kip_type"

(***************************************************************************)
(* The spelling of the words.                                              *)
(***************************************************************************)
LEMMA Spelling ==
  ASSUME NEW k \in DOMAIN cfg_cmds, NEW w, w = cfg_cmds[k].name
  PROVE  Spelt(k, Len(w), w[1], w[2], w[3])
<1>1. CASE k = 1
  BY <1>1, TableNames DEF Spelt
<1>2. CASE k = 2
  BY <1>2, TableNames DEF Spelt
<1>3. CASE k = 3
  BY <1>3, TableNames DEF Spelt
<1>4. CASE k = 4
  BY <1>4, TableNames DEF Spelt
<1>5. CASE k = 5
  BY <1>5, TableNames DEF Spelt
<1>6. CASE k = 6
  BY <1>6, TableNames DEF Spelt
<1>7. CASE k = 7
  BY <1>7, TableNames DEF Spelt
<1>8. CASE k = 8
  BY <1>8, TableNames DEF Spelt
<1>9. CASE k = 9
  BY <1>9, TableNames DEF Spelt
<1>10. CASE k = 10
  BY <1>10, TableNames DEF Spelt
<1>11. CASE k = 11
  BY <1>11, TableNames DEF Spelt
<1>12. CASE k = 12
  BY <1>12, TableNames DEF Spelt
<1>13. CASE k = 13
  BY <1>13, TableNames DEF Spelt
<1>14. CASE k = 14
  BY <1>14, TableNames DEF Spelt
<1>15. CASE k = 15
  BY <1>15, TableNames DEF Spelt
<1>16. CASE k = 16
  BY <1>16, TableNames DEF Spelt
<1>17. CASE k = 17
  BY <1>17, TableNames DEF Spelt
<1>18. CASE k = 18
  BY <1>18, TableNames DEF Spelt
<1>19. CASE k = 19
  BY <1>19, TableNames DEF Spelt
<1>20. CASE k = 20
  BY <1>20, TableNames DEF Spelt
<1>21. CASE k = 21
  BY <1>21, TableNames DEF Spelt
<1>22. CASE k = 22
  BY <1>22, TableNames DEF Spelt
<1> QED
  BY TableDomain, <1>1, <1>2, <1>3, <1>4, <1>5, <1>6, <1>7, <1>8, <1>9, <1>10, <1>11,
     <1>12, <1>13, <1>14, <1>15, <1>16, <1>17, <1>18, <1>19, <1>20, <1>21, <1>22

\* A word of a line.
IsWord(w) == w \in Seq(Range(w)) /\ w # <<>>

(***************************************************************************)
(* An abbreviation, part by part, and as the beginning that it is.         *)
(***************************************************************************)
LEMMA Abbreviation ==
  ASSUME NEW w, IsWord(w), NEW v \in Seq(Parts)
  PROVE  /\ IsPrefix(w, v) => Len(w) <= Len(v) /\ \A e \in 1 .. Len(w) : w[e] = v[e]
         /\ IsPrefix(w, v) <=> w \in {SubSeq(v, 1, m) : m \in DOMAIN v}
<1>1. PICK A : A = Range(w)
  OBVIOUS
<1>2. w \in Seq(A) /\ w # <<>>
  BY <1>1 DEF IsWord
<1>3. PICK m : m = Len(w)
  OBVIOUS
<1>4. m \in Nat /\ m >= 1 /\ SubSeq(w, 1, m) = w
  BY <1>2, <1>3
<1>5. IsPrefix(w, v) <=> m <= Len(v) /\ w = SubSeq(v, 1, m)
  BY <1>3, <1>4 DEF IsPrefix
<1>6. ASSUME IsPrefix(w, v)
      PROVE  Len(w) <= Len(v) /\ \A e \in 1 .. Len(w) : w[e] = v[e]
  <2>1. m <= Len(v) /\ w = SubSeq(v, 1, m)
    BY <1>5, <1>6
  <2>2. ASSUME NEW e \in 1 .. m PROVE SubSeq(v, 1, m)[e] = v[e]
    BY <1>4, <2>1
  <2> QED
    BY <1>3, <2>1, <2>2
<1>7. ASSUME IsPrefix(w, v) PROVE w \in {SubSeq(v, 1, j) : j \in DOMAIN v}
  <2>1. m <= Len(v) /\ w = SubSeq(v, 1, m)
    BY <1>5, <1>7
  <2>2. m \in DOMAIN v
    BY <1>4, <2>1
  <2> QED
    BY <2>1, <2>2
<1>8. ASSUME NEW j \in DOMAIN v, w = SubSeq(v, 1, j) PROVE IsPrefix(w, v)
  <2>1. j \in 1 .. Len(v) /\ Len(SubSeq(v, 1, j)) = j
    OBVIOUS
  <2>2. m = j
    BY <1>3, <1>8, <2>1
  <2> QED
    BY <1>5, <1>8, <2>1, <2>2
<1> QED
  BY <1>6, <1>7, <1>8

(***************************************************************************)
(* No word of the table begins with another one: a directive that is       *)
(* written in full is found, wherever it is in the table.                  *)
(***************************************************************************)
LEMMA NoShadow ==
  ASSUME NEW j \in DOMAIN cfg_cmds, NEW k \in DOMAIN cfg_cmds,
         IsPrefix(cfg_cmds[j].name, cfg_cmds[k].name)
  PROVE  j = k
<1>1. PICK u : u = cfg_cmds[j].name
  OBVIOUS
<1>2. PICK v : v = cfg_cmds[k].name
  OBVIOUS
<1>3. u \in Seq(Parts) /\ v \in Seq(Parts) /\ Len(u) >= 1
  BY <1>1, <1>2, Names
<1>4. Len(u) <= Len(v) /\ SubSeq(u, 1, Len(u)) = SubSeq(v, 1, Len(u))
  BY <1>1, <1>2 DEF IsPrefix
<1>5. ASSUME NEW e \in 1 .. Len(u) PROVE u[e] = v[e]
  <2>1. SubSeq(u, 1, Len(u))[e] = u[e]
    BY <1>3
  <2>2. SubSeq(v, 1, Len(u))[e] = v[e]
    BY <1>3, <1>4
  <2> QED
    BY <2>1, <2>2, <1>4
<1>6. PICK m : m = Len(u)
  OBVIOUS
<1>7. PICK q : q = Len(v)
  OBVIOUS
<1>8. m \in Int /\ q \in Int /\ m <= q /\ m >= 1
  BY <1>3, <1>4, <1>6, <1>7
<1>9. u[1] = v[1] /\ (m >= 2 => u[2] = v[2]) /\ (m >= 3 => u[3] = v[3])
  BY <1>5, <1>6, <1>8
<1>10. Spelt(j, m, u[1], u[2], u[3]) /\ Spelt(k, q, v[1], v[2], v[3])
  <2>1. Spelt(j, Len(u), u[1], u[2], u[3])
    BY <1>1, Spelling
  <2>2. Spelt(k, Len(v), v[1], v[2], v[3])
    BY <1>2, Spelling
  <2> QED
    BY <1>6, <1>7, <2>1, <2>2
<1>11. PICK a, b, c : a = u[1] /\ b = u[2] /\ c = u[3]
  OBVIOUS
<1>12. PICK d, e, f : d = v[1] /\ e = v[2] /\ f = v[3]
  OBVIOUS
<1>13. /\ Spelt(j, m, a, b, c) /\ Spelt(k, q, d, e, f)
       /\ a = d /\ (m >= 2 => b = e) /\ (m >= 3 => c = f)
  BY <1>9, <1>10, <1>11, <1>12
<1> QED
  BY <1>8, <1>13 DEF Spelt

\* The directive w sets the variable d.
SetsDest(w, d) == Matching(w) # {} /\ cfg_cmds[Min(Matching(w))].dest = d

(***************************************************************************)
(* The first entry that a word abbreviates is the one that it names, if it *)
(* names one.                                                              *)
(***************************************************************************)
LEMMA LastLineMeans ==
  ASSUME NEW t, NEW d, \A k \in DOMAIN t : IsWord(t[k].word)
  PROVE  LastLine(t, d) = Max({0} \cup {k \in DOMAIN t : SetsDest(t[k].word, d)})
<1> DEFINE Full(w) == {k \in DOMAIN cfg_cmds : cfg_cmds[k].name = w}
           Abbreviated(w) == {k \in DOMAIN cfg_cmds :
                           w \in {SubSeq(cfg_cmds[k].name, 1, m) : m \in DOMAIN cfg_cmds[k].name}}
           Meant(w) == IF Full(w) # {} THEN Full(w) ELSE Abbreviated(w)
<1>1. ASSUME NEW w, IsWord(w) PROVE Meant(w) = Matching(w)
  <2>1. ASSUME NEW k \in DOMAIN cfg_cmds PROVE k \in Abbreviated(w) <=> k \in Matching(w)
    <3>1. PICK v : v = cfg_cmds[k].name
      OBVIOUS
    <3>2. v \in Seq(Parts)
      BY <3>1, Names
    <3>3. IsPrefix(w, v) <=> w \in {SubSeq(v, 1, m) : m \in DOMAIN v}
      BY <1>1, <3>2, Abbreviation
    <3> QED
      BY <3>1, <3>3 DEF Matching
  <2>2. Abbreviated(w) = Matching(w)
    BY <2>1 DEF Matching
  <2>3. ASSUME NEW j \in Full(w) PROVE Full(w) = Matching(w)
    <3>1. j \in DOMAIN cfg_cmds /\ cfg_cmds[j].name = w
      OBVIOUS
    <3>2. ASSUME NEW k \in Matching(w) PROVE k = j
      BY <3>1, NoShadow DEF Matching
    <3>3. ASSUME NEW k \in Full(w) PROVE k \in Matching(w)
      <4>1. cfg_cmds[k].name = w /\ k \in DOMAIN cfg_cmds
        OBVIOUS
      <4>2. IsPrefix(w, w)
        BY DEF IsPrefix
      <4> QED
        BY <4>1, <4>2 DEF Matching
    <3> QED
      BY <3>1, <3>2, <3>3
  <2> QED
    BY <2>2, <2>3
<1>2. \A k \in DOMAIN t : Meant(t[k].word) = Matching(t[k].word)
  BY <1>1
<1>3. {k \in DOMAIN t : Meant(t[k].word) # {} /\ cfg_cmds[Min(Meant(t[k].word))].dest = d}
        = {k \in DOMAIN t : SetsDest(t[k].word, d)}
  <2> HIDE DEF Meant
  <2> QED
    BY <1>2 DEF SetsDest
<1>4. LastLine(t, d)
        = Max({0} \cup {k \in DOMAIN t : Meant(t[k].word) # {} /\ cfg_cmds[Min(Meant(t[k].word))].dest = d})
  BY DEF LastLine
<1> QED
  BY <1>3, <1>4

(***************************************************************************)
(* A set of natural numbers that is not empty has a least element.         *)
(***************************************************************************)
LEMMA LeastNat ==
  ASSUME NEW T \in SUBSET Nat, T # {}
  PROVE  \E x \in T : \A y \in T : x <= y
<1>1. PICK R : R = {ss \in Nat \X Nat : ss[1] < ss[2]}
  OBVIOUS
<1>2. IsWellFoundedOn(R, Nat)
  BY <1>1, NatLessThanWellFounded DEF OpToRel
<1>3. PICK x \in T : \A y \in T : ~(<<y, x>> \in R)
  BY <1>2, WFMin
<1>4. ASSUME NEW y \in T PROVE x <= y
  <2>1. ~(<<y, x>> \in R) /\ x \in Nat /\ y \in Nat
    BY <1>3
  <2> QED
    BY <2>1, <1>1
<1> QED
  BY <1>4

(***************************************************************************)
(* A word that matches is the abbreviation of an entry.                    *)
(***************************************************************************)
LEMMA Found ==
  ASSUME NEW w, Matching(w) # {}
  PROVE  Min(Matching(w)) \in DOMAIN cfg_cmds /\ IsPrefix(w, cfg_cmds[Min(Matching(w))].name)
<1>1. PICK M : M = Matching(w)
  OBVIOUS
<1>2. M \in SUBSET Nat /\ M # {}
  BY <1>1, TableDomain DEF Matching
<1>3. \E x \in M : \A y \in M : x <= y
  BY <1>2, LeastNat
<1>4. Min(M) \in M
  BY <1>3 DEF Min
<1> QED
  BY <1>1, <1>4 DEF Matching

\* The variables that ConfigIsWhatFileSays speaks of.
Strings == {"sound_in_file", "sound_device", "logdir", "mysql_db", "mycall"}

(***************************************************************************)
(* What an entry of the table sets, and how.                               *)
(***************************************************************************)
LEMMA Entries ==
  ASSUME NEW k \in DOMAIN cfg_cmds
  PROVE  /\ cfg_cmds[k].dest \in Dests
         /\ cfg_cmds[k].dest \in Strings => cfg_cmds[k].function = "string"
         /\ cfg_cmds[k].dest = "uplink_config" <=> k = 8
         /\ cfg_cmds[k].function = "uplink" <=> k = 8
<1>1. cfg_cmds[k].dest \in Dests
  BY DEF Dests
<1>2. PICK d, f : d = cfg_cmds[k].dest /\ f = cfg_cmds[k].function
  OBVIOUS
<1>3. \/ d \in Strings /\ f = "string" /\ k # 8
      \/ d = "uplink_config" /\ f = "uplink" /\ k = 8
      \/ d \notin Strings \cup {"uplink_config"} /\ f # "uplink" /\ k # 8
  BY <1>2, TableDomain, TableDests DEF Strings
<1> QED
  BY <1>1, <1>2, <1>3 DEF Strings

(***************************************************************************)
(* These variables are among those of the table.                           *)
(***************************************************************************)
LEMMA TheirDests == Strings \subseteq Dests /\ "uplink_config" \in Dests
<1>1. {2, 15, 16, 1, 10, 8} \subseteq DOMAIN cfg_cmds
  BY TableDomain
<1>2. \A j \in {2, 15, 16, 1, 10, 8} : cfg_cmds[j].dest \in Dests
  BY <1>1, Entries
<1> QED
  BY <1>2, TableDests DEF Strings

(***************************************************************************)
(* "uplink" has no abbreviation that counts, and "#" is none of anything.  *)
(***************************************************************************)
LEMMA UplinkWord ==
  ASSUME NEW w, IsWord(w)
  PROVE  /\ w = <<"#">> => Matching(w) = {}
         /\ Matching(w) # {} => (w = <<"uplink">> <=> Min(Matching(w)) = 8)
         /\ w = <<"uplink">> => Matching(w) # {}
<1>1. ASSUME NEW k \in DOMAIN cfg_cmds, IsPrefix(w, cfg_cmds[k].name)
      PROVE  w # <<"#">> /\ (w = <<"uplink">> <=> k = 8)
  <2>1. PICK v : v = cfg_cmds[k].name
    OBVIOUS
  <2>2. v \in Seq(Parts)
    BY <2>1, Names
  <2>3. Len(w) <= Len(v) /\ \A e \in 1 .. Len(w) : w[e] = v[e]
    BY <1>1, <2>1, <2>2, Abbreviation
  <2>4. Len(w) \in Nat /\ Len(w) >= 1
    BY DEF IsWord
  <2>5. w[1] = v[1]
    BY <2>3, <2>4
  <2>6. Spelt(k, Len(v), v[1], v[2], v[3])
    BY <2>1, Spelling
  <2>7. PICK q, a, b, c : q = Len(v) /\ a = v[1] /\ b = v[2] /\ c = v[3]
    OBVIOUS
  <2>8. Spelt(k, q, a, b, c)
    BY <2>6, <2>7
  <2>9. a # "#" /\ (a = "uplink" <=> k = 8) /\ (k = 8 => q = 1)
    BY <2>8 DEF Spelt
  <2>10. w[1] # "#" /\ (w[1] = "uplink" <=> k = 8)
    BY <2>5, <2>7, <2>9
  <2>11. w = <<"#">> => w[1] = "#"
    OBVIOUS
  <2>12. w = <<"uplink">> => w[1] = "uplink"
    OBVIOUS
  <2>13. ASSUME k = 8 PROVE w = <<"uplink">>
    <3>1. Len(v) = 1
      BY <2>7, <2>9, <2>13
    <3>2. Len(w) = 1
      <4>1. PICK m : m = Len(w)
        OBVIOUS
      <4>2. m <= 1 /\ m \in Nat /\ m >= 1
        BY <4>1, <2>3, <2>4, <3>1
      <4> QED
        BY <4>1, <4>2
    <3>3. w[1] = "uplink"
      BY <2>10, <2>13
    <3> QED
      BY <3>2, <3>3 DEF IsWord
  <2> QED
    BY <2>10, <2>11, <2>12, <2>13
<1>2. Matching(w) # {} => (w = <<"uplink">> <=> Min(Matching(w)) = 8)
  BY <1>1, Found
<1>3. w = <<"#">> => Matching(w) = {}
  BY <1>1 DEF Matching
<1>4. ASSUME w = <<"uplink">> PROVE Matching(w) # {}
  <2>1. cfg_cmds[8].name = w /\ 8 \in DOMAIN cfg_cmds
    BY <1>4, TableNames, TableDomain
  <2>2. IsPrefix(w, w)
    BY DEF IsPrefix
  <2> QED
    BY <2>1, <2>2 DEF Matching
<1> QED
  BY <1>2, <1>3, <1>4

-----------------------------------------------------------------------------
(* The lines                                                               *)

\* What an uplink line of the file t may add to the list.
Uplinks(t) == {[name |-> t[k].args[1], url |-> t[k].args[3]] : k \in DOMAIN t}

(***************************************************************************)
(* A line that is accepted sets the variable that it means, to its first   *)
(* argument, and no other; an uplink goes into the list.                   *)
(***************************************************************************)
LEMMA LineSets ==
  ASSUME NEW c, DOMAIN c = Dests, NEW line \in FileLines, NEW s,
         s = cmdparse([cfg |-> c, result |-> "ok"], line), s.result = "ok"
  PROVE  /\ s = [cfg |-> s.cfg, result |-> "ok"] /\ DOMAIN s.cfg = Dests
         /\ \A d \in Strings : IF SetsDest(line.word, d)
                                 THEN s.cfg[d] = line.args[1] /\ s.cfg[d] # Null
                                 ELSE s.cfg[d] = c[d]
         /\ s.cfg["uplink_config"] =
              IF line.word = <<"uplink">>
                THEN <<[name |-> line.args[1], url |-> line.args[3]]>> \o c["uplink_config"]
                ELSE c["uplink_config"]
<1>1. PICK w : w = line.word
  OBVIOUS
<1>2. IsWord(w) /\ (Len(line.args) >= 1 => line.args[1] # Null)
  BY <1>1, ConfigAssumption DEF IsWord
<1>3. PICK a : a = line.args
  OBVIOUS
<1>4. PICK M : M = Matching(w)
  OBVIOUS
<1>5. PICK k : k = Min(M)
  OBVIOUS
<1>6. PICK r : r = cfg_cmds[k]
  OBVIOUS
<1>7. s = IF "ok" # "ok" \/ w = <<"#">> THEN [cfg |-> c, result |-> "ok"]
          ELSE IF M = {} \/ ~Accepts(r.function, a) THEN [cfg |-> c, result |-> "error"]
          ELSE IF Crashes(r.function, a) THEN [cfg |-> c, result |-> "crash"]
          ELSE [cfg |-> [c EXCEPT ![r.dest] = Stored(r.function, @, a)], result |-> "ok"]
  BY <1>1, <1>3, <1>4, <1>5, <1>6 DEF cmdparse
<1>8. CASE w = <<"#">>
  <2>1. M = {} /\ w # <<"uplink">>
    BY <1>2, <1>4, <1>8, UplinkWord
  <2>2. \A d \in Strings : ~SetsDest(w, d)
    BY <2>1, <1>4 DEF SetsDest
  <2>3. s = [cfg |-> c, result |-> "ok"]
    BY <1>7, <1>8
  <2> QED
    BY <1>1, <2>1, <2>2, <2>3
<1>9. CASE w # <<"#">>
  <2>1. M # {} /\ Accepts(r.function, a)
    BY <1>7, <1>9
  <2>2. s = [cfg |-> [c EXCEPT ![r.dest] = Stored(r.function, @, a)], result |-> "ok"]
    BY <1>7, <1>9, <2>1
  <2>3. k \in DOMAIN cfg_cmds /\ (w = <<"uplink">> <=> k = 8)
    BY <1>2, <1>4, <1>5, <2>1, UplinkWord, Found
  <2>4. /\ r.dest \in Dests
        /\ r.dest \in Strings => r.function = "string"
        /\ r.dest = "uplink_config" <=> k = 8
        /\ r.function = "uplink" <=> k = 8
    BY <2>3, <1>6, Entries
  <2>5. \A d : SetsDest(w, d) <=> r.dest = d
    BY <2>1, <1>4, <1>5, <1>6 DEF SetsDest
  <2>6. PICK x : x = Stored(r.function, c[r.dest], a)
    OBVIOUS
  <2>7. s.cfg = [c EXCEPT ![r.dest] = x] /\ s = [cfg |-> s.cfg, result |-> "ok"]
    <3>1. PICK y : y = [c EXCEPT ![r.dest] = Stored(r.function, @, a)]
      OBVIOUS
    <3>2. s = [cfg |-> y, result |-> "ok"]
      BY <2>2, <3>1
    <3>3. y = [c EXCEPT ![r.dest] = x]
      BY <3>1, <2>6
    <3> HIDE <3>1
    <3>4. s.cfg = y
      BY <3>2
    <3>5. s = [cfg |-> s.cfg, result |-> "ok"]
      BY <3>2, <3>4, Zenon
    <3> QED
      BY <3>3, <3>4, <3>5, Zenon
  <2>8. DOMAIN s.cfg = Dests /\ s.cfg[r.dest] = x /\ \A d \in Dests : d # r.dest => s.cfg[d] = c[d]
    BY <2>7, <2>4
  <2>9. ASSUME r.dest \in Strings PROVE x = a[1] /\ x # Null
    <3>1. r.function = "string"
      BY <2>4, <2>9
    <3>2. Len(a) >= 1
      BY <2>1, <3>1 DEF Accepts
    <3>3. x = a[1]
      BY <2>6, <3>1 DEF Stored
    <3> QED
      BY <3>2, <3>3, <1>2, <1>3
  <2>10. Strings \subseteq Dests /\ "uplink_config" \in Dests
    BY TheirDests
  <2>11. ASSUME NEW d \in Strings
         PROVE  IF SetsDest(w, d) THEN s.cfg[d] = a[1] /\ s.cfg[d] # Null ELSE s.cfg[d] = c[d]
    BY <2>5, <2>8, <2>9, <2>10
  <2>12. CASE w = <<"uplink">>
    <3>1. r.function = "uplink" /\ r.dest = "uplink_config"
      BY <2>3, <2>4, <2>12
    <3>2. x = <<[name |-> a[1], url |-> a[3]]>> \o c["uplink_config"]
      BY <2>6, <3>1 DEF Stored
    <3> QED
      BY <2>7, <2>8, <2>11, <2>12, <3>1, <3>2, <1>1, <1>3
  <2>13. CASE w # <<"uplink">>
    <3>1. r.dest # "uplink_config"
      BY <2>3, <2>4, <2>13
    <3>2. s.cfg["uplink_config"] = c["uplink_config"]
      BY <3>1, <2>8, <2>10
    <3> QED
      BY <2>7, <2>8, <2>11, <2>13, <3>2, <1>1, <1>3
  <2> QED
    BY <2>12, <2>13
<1> QED
  BY <1>8, <1>9

(***************************************************************************)
(* After a bad line nothing is read.                                       *)
(***************************************************************************)
LEMMA BadLineStays ==
  ASSUME NEW s, NEW line, s.result # "ok"
  PROVE  cmdparse(s, line) = s
BY DEF cmdparse

\* The variables c after the first k lines of t, which were c0 before them.
Says(t, k, c0, c) ==
  /\ DOMAIN c = Dests
  /\ \A d \in Strings :
       \/ c[d] = c0[d] /\ \A j \in 1 .. k : ~SetsDest(t[j].word, d)
       \/ \E j \in 1 .. k : /\ SetsDest(t[j].word, d) /\ c[d] = t[j].args[1] /\ c[d] # Null
                            /\ \A e \in 1 .. k : SetsDest(t[e].word, d) => e <= j
  /\ c["uplink_config"] \in Seq(Uplinks(t))
  /\ Len(c["uplink_config"]) = Cardinality({j \in 1 .. k : t[j].word = <<"uplink">>})

(***************************************************************************)
(* Before the first line.                                                  *)
(***************************************************************************)
LEMMA SaysNothing ==
  ASSUME NEW t, NEW c0, DOMAIN c0 = Dests, c0["uplink_config"] = <<>>
  PROVE  Says(t, 0, c0, c0)
<1>1. {j \in 1 .. 0 : t[j].word = <<"uplink">>} = {}
  OBVIOUS
<1>2. Len(<<>>) = Cardinality({j \in 1 .. 0 : t[j].word = <<"uplink">>})
  BY <1>1, FS_EmptySet
<1>3. <<>> \in Seq(Uplinks(t))
  OBVIOUS
<1> QED
  BY <1>2, <1>3 DEF Says

(***************************************************************************)
(* One more line.                                                          *)
(***************************************************************************)
LEMMA SaysMore ==
  ASSUME NEW t \in Seq(FileLines), NEW k \in 1 .. Len(t), NEW c0, NEW c,
         Says(t, k - 1, c0, c),
         NEW s, s = cmdparse([cfg |-> c, result |-> "ok"], t[k]), s.result = "ok"
  PROVE  Says(t, k, c0, s.cfg) /\ s = [cfg |-> s.cfg, result |-> "ok"]
<1>1. PICK line : line = t[k]
  OBVIOUS
<1>2. line \in FileLines
  BY <1>1
<1>3. DOMAIN c = Dests /\ s = cmdparse([cfg |-> c, result |-> "ok"], line)
  BY <1>1 DEF Says
<1>4. /\ s = [cfg |-> s.cfg, result |-> "ok"] /\ DOMAIN s.cfg = Dests
      /\ \A d \in Strings : IF SetsDest(line.word, d)
                              THEN s.cfg[d] = line.args[1] /\ s.cfg[d] # Null
                              ELSE s.cfg[d] = c[d]
      /\ s.cfg["uplink_config"] =
           IF line.word = <<"uplink">>
             THEN <<[name |-> line.args[1], url |-> line.args[3]]>> \o c["uplink_config"]
             ELSE c["uplink_config"]
  BY <1>2, <1>3, LineSets
<1>5. PICK z : z = s.cfg
  OBVIOUS
<1>6. k \in Nat /\ k >= 1 /\ \A j : j \in 1 .. k <=> j \in 1 .. k - 1 \/ j = k
  OBVIOUS
<1>7. ASSUME NEW d \in Strings
      PROVE  \/ z[d] = c0[d] /\ \A j \in 1 .. k : ~SetsDest(t[j].word, d)
             \/ \E j \in 1 .. k : /\ SetsDest(t[j].word, d) /\ z[d] = t[j].args[1] /\ z[d] # Null
                                  /\ \A e \in 1 .. k : SetsDest(t[e].word, d) => e <= j
  <2>1. CASE SetsDest(line.word, d)
    <3>1. z[d] = t[k].args[1] /\ z[d] # Null /\ SetsDest(t[k].word, d)
      BY <1>1, <1>4, <1>5, <2>1
    <3> QED
      BY <3>1
  <2>2. CASE ~SetsDest(line.word, d)
    <3>1. z[d] = c[d] /\ ~SetsDest(t[k].word, d)
      BY <1>1, <1>4, <1>5, <2>2
    <3>2. \/ c[d] = c0[d] /\ \A j \in 1 .. k - 1 : ~SetsDest(t[j].word, d)
          \/ \E j \in 1 .. k - 1 : /\ SetsDest(t[j].word, d) /\ c[d] = t[j].args[1] /\ c[d] # Null
                                   /\ \A e \in 1 .. k - 1 : SetsDest(t[e].word, d) => e <= j
      BY DEF Says
    <3>3. CASE c[d] = c0[d] /\ \A j \in 1 .. k - 1 : ~SetsDest(t[j].word, d)
      BY <3>1, <3>3, <1>6
    <3>4. ASSUME NEW j \in 1 .. k - 1,
                 SetsDest(t[j].word, d) /\ c[d] = t[j].args[1] /\ c[d] # Null,
                 \A e \in 1 .. k - 1 : SetsDest(t[e].word, d) => e <= j
          PROVE  /\ j \in 1 .. k
                 /\ SetsDest(t[j].word, d) /\ z[d] = t[j].args[1] /\ z[d] # Null
                 /\ \A e \in 1 .. k : SetsDest(t[e].word, d) => e <= j
      BY <3>1, <3>4, <1>6
    <3> QED
      BY <3>2, <3>3, <3>4
  <2> QED
    BY <2>1, <2>2
<1> DEFINE Lines(m) == {j \in 1 .. m : t[j].word = <<"uplink">>}
<1>8. PICK old : old = c["uplink_config"]
  OBVIOUS
<1>9. old \in Seq(Uplinks(t)) /\ Len(old) = Cardinality(Lines(k - 1))
  BY <1>8 DEF Says
<1>10. IsFiniteSet(Lines(k - 1)) /\ k \notin Lines(k - 1)
  <2>1. IsFiniteSet(1 .. k - 1)
    BY FS_Interval
  <2>2. Lines(k - 1) \subseteq 1 .. k - 1
    OBVIOUS
  <2> QED
    BY <2>1, <2>2, FS_Subset
<1>11. z["uplink_config"] \in Seq(Uplinks(t)) /\ Len(z["uplink_config"]) = Cardinality(Lines(k))
  <2>1. CASE line.word = <<"uplink">>
    <3>1. PICK x : x = [name |-> line.args[1], url |-> line.args[3]]
      OBVIOUS
    <3>2. z["uplink_config"] = <<x>> \o old
      BY <1>4, <1>5, <1>8, <2>1, <3>1
    <3>3. x \in Uplinks(t)
      BY <3>1, <1>1 DEF Uplinks
    <3>4. <<x>> \o old \in Seq(Uplinks(t)) /\ Len(<<x>> \o old) = 1 + Len(old)
      <4>1. PICK U : U = Uplinks(t)
        OBVIOUS
      <4>2. x \in U /\ old \in Seq(U)
        BY <4>1, <3>3, <1>9
      <4> HIDE <4>1
      <4>3. <<x>> \o old \in Seq(U) /\ Len(<<x>> \o old) = 1 + Len(old)
        BY <4>2
      <4> QED
        BY <4>1, <4>3
    <3>5. Lines(k) = Lines(k - 1) \cup {k}
      BY <1>1, <1>6, <2>1
    <3>6. Cardinality(Lines(k)) = Cardinality(Lines(k - 1)) + 1
      <4> HIDE DEF Lines
      <4> QED
        BY <3>5, <1>10, FS_AddElement
    <3>7. Cardinality(Lines(k - 1)) \in Nat
      BY <1>10, FS_CardinalityType
    <3> HIDE DEF Lines
    <3> QED
      BY <3>2, <3>4, <3>6, <3>7, <1>9
  <2>2. CASE line.word # <<"uplink">>
    <3>1. Lines(k) = Lines(k - 1)
      BY <1>1, <1>6, <2>2
    <3>2. z["uplink_config"] = old
      BY <1>4, <1>5, <1>8, <2>2
    <3> HIDE DEF Lines
    <3> QED
      BY <3>1, <3>2, <1>9
  <2> QED
    BY <2>1, <2>2
<1>12. DOMAIN z = Dests
  BY <1>4, <1>5
<1>13. Says(t, k, c0, z)
  BY <1>7, <1>11, <1>12 DEF Says
<1> QED
  BY <1>4, <1>5, <1>13

\* The states of the loop.
IsParsed(f, t, c, m) ==
  f = [k \in 0 .. m |-> IF k = 0 THEN [cfg |-> c, result |-> "ok"] ELSE cmdparse(f[k - 1], t[k])]

(***************************************************************************)
(* The recursion over the lines has a solution.                            *)
(***************************************************************************)
LEMMA ParsedExists ==
  ASSUME NEW t, NEW c, NEW m \in Nat
  PROVE  \E f : IsParsed(f, t, c, m)
<1> DEFINE T == {j \in Nat : ~\E f : IsParsed(f, t, c, j)}
<1> SUFFICES ASSUME T # {} PROVE FALSE
  OBVIOUS
<1>1. PICK x \in T : \A y \in T : x <= y
  BY LeastNat
<1>2. CASE x = 0
  <2>1. PICK f : f = [k \in 0 .. 0 |-> [cfg |-> c, result |-> "ok"]]
    OBVIOUS
  <2>2. f = [k \in 0 .. 0 |-> IF k = 0 THEN [cfg |-> c, result |-> "ok"] ELSE cmdparse(f[k - 1], t[k])]
    BY <2>1
  <2> QED
    BY <1>2, <2>2 DEF IsParsed
<1>3. CASE x # 0
  <2>1. x \in Nat /\ x - 1 \in Nat /\ x - 1 \notin T
    BY <1>1, <1>3
  <2>2. PICK f : IsParsed(f, t, c, x - 1)
    BY <2>1
  <2>3. PICK g : g = [k \in 0 .. x |-> IF k = x THEN cmdparse(f[x - 1], t[x]) ELSE f[k]]
    OBVIOUS
  <2>4. \A k \in 0 .. x - 1 :
          f[k] = IF k = 0 THEN [cfg |-> c, result |-> "ok"] ELSE cmdparse(f[k - 1], t[k])
    BY <2>2, <2>1 DEF IsParsed
  <2>5. ASSUME NEW k \in 0 .. x
        PROVE  g[k] = IF k = 0 THEN [cfg |-> c, result |-> "ok"] ELSE cmdparse(g[k - 1], t[k])
    <3>1. CASE k = x
      <4>1. g[k] = cmdparse(f[x - 1], t[x]) /\ g[x - 1] = f[x - 1]
        BY <2>1, <2>3, <3>1
      <4> QED
        BY <4>1, <3>1, <1>3
    <3>2. CASE k # x
      <4>1. k \in 0 .. x - 1
        BY <2>1, <3>2
      <4>2. g[k] = f[k] /\ (k # 0 => g[k - 1] = f[k - 1])
        BY <4>1, <2>1, <2>3
      <4> QED
        BY <4>1, <4>2, <2>4
    <3> QED
      BY <3>1, <3>2
  <2>6. IsParsed(g, t, c, x)
    BY <2>3, <2>5 DEF IsParsed
  <2> QED
    BY <2>6, <1>1
<1> QED
  BY <1>2, <1>3

(***************************************************************************)
(* The loop over the lines, one line after the other.                      *)
(***************************************************************************)
LEMMA ParsedSteps ==
  ASSUME NEW t \in Seq(FileLines), NEW c
  PROVE  /\ Parsed(t, c)[0] = [cfg |-> c, result |-> "ok"]
         /\ \A k \in 1 .. Len(t) : Parsed(t, c)[k] = cmdparse(Parsed(t, c)[k - 1], t[k])
<1>1. PICK m : m = Len(t)
  OBVIOUS
<1>2. m \in Nat
  BY <1>1
<1>3. PICK f : f = CHOOSE g : IsParsed(g, t, c, m)
  OBVIOUS
<1>4. IsParsed(f, t, c, m)
  BY <1>2, <1>3, ParsedExists
<1>5. Parsed(t, c) = f
  BY <1>1, <1>3 DEF Parsed, IsParsed
<1>6. \A k \in 0 .. m : f[k] = IF k = 0 THEN [cfg |-> c, result |-> "ok"] ELSE cmdparse(f[k - 1], t[k])
  BY <1>4 DEF IsParsed
<1>7. f[0] = [cfg |-> c, result |-> "ok"]
  BY <1>6, <1>2
<1>8. ASSUME NEW k \in 1 .. m PROVE f[k] = cmdparse(f[k - 1], t[k])
  BY <1>6, <1>2
<1> QED
  BY <1>1, <1>5, <1>7, <1>8

(***************************************************************************)
(* If the whole file is accepted, the variables are what it says.          *)
(***************************************************************************)
LEMMA FileSays ==
  ASSUME NEW t \in Seq(FileLines), NEW c, DOMAIN c = Dests, c["uplink_config"] = <<>>,
         Parsed(t, c)[Len(t)].result = "ok"
  PROVE  Says(t, Len(t), c, Parsed(t, c)[Len(t)].cfg)
<1>1. PICK f : f = Parsed(t, c)
  OBVIOUS
<1>2. PICK m : m = Len(t)
  OBVIOUS
<1>3. m \in Nat
  BY <1>2
<1>4. f[0] = [cfg |-> c, result |-> "ok"] /\ \A k \in 1 .. m : f[k] = cmdparse(f[k - 1], t[k])
  BY <1>1, <1>2, ParsedSteps
<1> DEFINE Good(k) == f[k].result = "ok" =>
                        Says(t, k, c, f[k].cfg) /\ f[k] = [cfg |-> f[k].cfg, result |-> "ok"]
           T == {k \in Nat : k <= m /\ ~Good(k)}
<1>5. ASSUME T # {} PROVE FALSE
  <2>1. PICK x \in T : \A y \in T : x <= y
    BY <1>5, LeastNat
  <2>2. x \in Nat /\ x <= m /\ ~Good(x)
    OBVIOUS
  <2>3. CASE x = 0
    <3>1. f[0].cfg = c /\ f[0] = [cfg |-> f[0].cfg, result |-> "ok"]
      BY <1>4
    <3> QED
      BY <2>2, <2>3, <3>1, SaysNothing
  <2>4. CASE x # 0
    <3>1. x \in 1 .. m /\ x - 1 \in Nat /\ x - 1 <= m /\ ~(x <= x - 1)
      BY <2>2, <2>4, <1>3
    <3>2. Good(x - 1)
      BY <2>1, <3>1
    <3>3. f[x] = cmdparse(f[x - 1], t[x]) /\ f[x].result = "ok"
      BY <1>4, <2>2, <3>1
    <3>4. f[x - 1].result = "ok"
      BY <3>3, BadLineStays
    <3>5. PICK d : d = f[x - 1].cfg
      OBVIOUS
    <3>6. Says(t, x - 1, c, d) /\ f[x - 1] = [cfg |-> d, result |-> "ok"]
      BY <3>2, <3>4, <3>5
    <3>7. Says(t, x, c, f[x].cfg) /\ f[x] = [cfg |-> f[x].cfg, result |-> "ok"]
      <4>1. x \in 1 .. Len(t)
        BY <3>1, <1>2
      <4>2. PICK s : s = f[x]
        OBVIOUS
      <4>3. s = cmdparse([cfg |-> d, result |-> "ok"], t[x]) /\ s.result = "ok"
        BY <4>2, <3>3, <3>6
      <4> QED
        BY <4>1, <4>2, <4>3, <3>6, SaysMore
    <3> QED
      BY <3>7, <2>2
  <2> QED
    BY <2>3, <2>4
<1>6. Good(m)
  BY <1>5, <1>3
<1> QED
  BY <1>1, <1>2, <1>6

-----------------------------------------------------------------------------
(* The daemon runs with what the file says                                 *)

\* The variables after parse_cmdline().
Started(a) == [Unset EXCEPT !["sound_in_file"] = a.l, !["sound_out_file"] = a.s]

(***************************************************************************)
(* Files are sequences of lines.  Until the file has been read the         *)
(* variables are what the command line made of them; then they are what    *)
(* the file says of them.                                                  *)
(***************************************************************************)
FileInv ==
  /\ home # Null => home \in Seq(FileLines)
  /\ ours => home \in Seq(FileLines)
  /\ phase \in {"create", "copy"} => from \in DOMAIN Templates
  /\ phase \in Searching => args \in CommandLines
  /\ phase \in Searching \cup {"down"} => text = <<>>
  /\ text \in Seq(FileLines)
  /\ phase \in Searching \cup {"parse"} => cfg = Started(args)
  /\ phase = "check" => Says(text, Len(text), Started(args), cfg)
  /\ ConfigIsWhatFileSays

(***************************************************************************)
(* The variables before the file is read.                                  *)
(***************************************************************************)
LEMMA StartedMeans ==
  ASSUME NEW a
  PROVE  /\ DOMAIN Started(a) = Dests
         /\ Started(a)["uplink_config"] = <<>> /\ Started(a)["sound_in_file"] = a.l
         /\ Started(a)["sound_device"] = Null /\ Started(a)["logdir"] = Null
         /\ Started(a)["mysql_db"] = Null /\ Started(a)["mycall"] = Null
<1>1. {"uplink_config", "sound_in_file", "sound_device", "logdir", "mysql_db", "mycall"}
        \subseteq Dests
  BY TheirDests DEF Strings
<1>2. DOMAIN Unset = Dests
  BY DEF Unset
<1>3. /\ Unset["uplink_config"] = <<>> /\ Unset["sound_device"] = Null /\ Unset["logdir"] = Null
      /\ Unset["mysql_db"] = Null /\ Unset["mycall"] = Null
  BY <1>1 DEF Unset
<1> QED
  BY <1>1, <1>2, <1>3 DEF Started

(***************************************************************************)
(* The last line that sets d, if there is one, has the value.              *)
(***************************************************************************)
LEMMA SaidMeans ==
  ASSUME NEW t \in Seq(FileLines), NEW c0, NEW c, Says(t, Len(t), c0, c), NEW d \in Strings
  PROVE  \/ LastLine(t, d) = 0 /\ c[d] = c0[d]
         \/ LastLine(t, d) # 0 /\ c[d] = t[LastLine(t, d)].args[1] /\ c[d] # Null
<1>1. \A k \in DOMAIN t : IsWord(t[k].word)
  <2>1. ASSUME NEW k \in DOMAIN t PROVE t[k] \in FileLines
    OBVIOUS
  <2> QED
    BY <2>1, ConfigAssumption DEF IsWord
<1>2. LastLine(t, d) = Max({0} \cup {k \in DOMAIN t : SetsDest(t[k].word, d)})
  BY <1>1, LastLineMeans
<1>3. PICK m : m = Len(t)
  OBVIOUS
<1>4. m \in Nat /\ DOMAIN t = 1 .. m
  BY <1>3
<1>5. PICK S : S = {0} \cup {k \in DOMAIN t : SetsDest(t[k].word, d)}
  OBVIOUS
<1>6. S \subseteq Nat /\ LastLine(t, d) = Max(S)
  BY <1>2, <1>4, <1>5
<1>7. ASSUME NEW j \in S, \A e \in S : e <= j PROVE Max(S) = j
  <2>1. PICK x : x = Max(S)
    OBVIOUS
  <2>2. x \in S /\ \A e \in S : x >= e
    <3>1. \E y \in S : \A e \in S : y >= e
      BY <1>6, <1>7
    <3> QED
      BY <2>1, <3>1 DEF Max
  <2>3. x \in Nat /\ j \in Nat /\ x >= j /\ x <= j
    BY <2>2, <1>6, <1>7
  <2> QED
    BY <2>1, <2>3
<1>8. CASE c[d] = c0[d] /\ \A j \in 1 .. m : ~SetsDest(t[j].word, d)
  <2>1. S = {0}
    BY <1>4, <1>5, <1>8
  <2>2. Max(S) = 0
    BY <1>7, <2>1
  <2> QED
    BY <1>6, <1>8, <2>2
<1>9. ASSUME NEW j \in 1 .. m, SetsDest(t[j].word, d), c[d] = t[j].args[1], c[d] # Null,
             \A e \in 1 .. m : SetsDest(t[e].word, d) => e <= j
      PROVE  LastLine(t, d) # 0 /\ c[d] = t[LastLine(t, d)].args[1] /\ c[d] # Null
  <2>1. j \in S /\ \A e \in S : e <= j
    BY <1>4, <1>5, <1>9
  <2>2. Max(S) = j /\ j # 0
    BY <1>7, <2>1, <1>9
  <2> QED
    BY <1>6, <1>9, <2>2
<1> QED
  BY <1>3, <1>8, <1>9 DEF Says

(***************************************************************************)
(* The checks at the end of read_config() keep what the file says.         *)
(***************************************************************************)
LEMMA CheckKeepsWhatFileSays == FileInv /\ CheckConfig => ConfigIsWhatFileSays'
<1> SUFFICES ASSUME FileInv, CheckConfig, phase' = "configured" PROVE ConfigIsWhatFileSays'
  BY DEF ConfigIsWhatFileSays
<1>1. /\ phase = "check" /\ text \in Seq(FileLines)
      /\ Says(text, Len(text), Started(args), cfg)
  BY DEF FileInv, CheckConfig
<1>2. UNCHANGED <<args, text>>
  BY DEF CheckConfig
<1>3. PICK c0 : c0 = Started(args)
  OBVIOUS
<1>4. /\ c0["sound_in_file"] = args.l /\ c0["sound_device"] = Null /\ c0["logdir"] = Null
      /\ c0["mysql_db"] = Null /\ c0["mycall"] = Null
  BY <1>3, StartedMeans
<1>5. \A d \in Strings :
        \/ LastLine(text, d) = 0 /\ cfg[d] = c0[d]
        \/ LastLine(text, d) # 0 /\ cfg[d] = text[LastLine(text, d)].args[1] /\ cfg[d] # Null
  BY <1>1, <1>3, SaidMeans
<1>6. DOMAIN cfg = Dests
  BY <1>1 DEF Says
<1>7. {"uplink_config", "sound_in_file", "sound_device", "logdir", "mysql_db", "mycall"} \subseteq Dests
  BY TheirDests DEF Strings
<1>8. PICK dir : dir = IF args.r # Null THEN args.r ELSE OrElse(cfg["logdir"], ".")
  OBVIOUS
<1>9. /\ cfg'["sound_in_file"] = cfg["sound_in_file"] /\ cfg'["mysql_db"] = cfg["mysql_db"]
      /\ cfg'["uplink_config"] = cfg["uplink_config"]
      /\ cfg'["logdir"] = dir /\ cfg'["mycall"] = OrElse(cfg["mycall"], NOCALLDEFINED)
      /\ cfg'["sound_device"] = SoundDevice(cfg)
  BY <1>6, <1>7, <1>8 DEF CheckConfig
<1>10. ~(cfg["mycall"] # Null /\ ~valid_aprsis_call(cfg["mycall"]))
  BY DEF CheckConfig
<1>11. cfg'["sound_in_file"] = Said("sound_in_file", args.l)'
  BY <1>2, <1>4, <1>5, <1>9 DEF Said, Strings
<1>12. cfg'["sound_device"]
         = IF cfg'["sound_in_file"] # Null THEN Null ELSE Said("sound_device", "default")'
  BY <1>2, <1>4, <1>5, <1>9 DEF Said, Strings, SoundDevice, OrElse
<1>13. cfg'["logdir"] = IF args'.r # Null THEN args'.r ELSE Said("logdir", ".")'
  BY <1>2, <1>4, <1>5, <1>8, <1>9 DEF Said, Strings, OrElse
<1>14. cfg'["mysql_db"] = Said("mysql_db", Null)'
  BY <1>2, <1>4, <1>5, <1>9 DEF Said, Strings
<1>15. Len(cfg'["uplink_config"]) = Cardinality({k \in DOMAIN text' : text'[k].word = <<"uplink">>})
  <2>1. DOMAIN text = 1 .. Len(text)
    BY <1>1
  <2> QED
    BY <1>1, <1>2, <1>9, <2>1 DEF Says
<1>16. valid_aprsis_call(cfg'["mycall"]) \/ LastLine(text', "mycall") = 0
  BY <1>2, <1>4, <1>5, <1>9, <1>10 DEF Strings, OrElse
<1> QED
  BY <1>2, <1>11, <1>12, <1>13, <1>14, <1>15, <1>16 DEF ConfigIsWhatFileSays

(***************************************************************************)
(* The texts there are to read.                                            *)
(***************************************************************************)
LEMMA TextsAreLines ==
  /\ \A t \in UserTexts : t \in Seq(FileLines)
  /\ \A p \in DOMAIN Templates : Templates[p] \in Seq(FileLines)
  /\ Given # Null => Given \in Seq(FileLines)
BY ConfigAssumption DEF Texts, Range

(***************************************************************************)
(* The search for the file.                                                *)
(***************************************************************************)
LEMMA SearchKeepsFiles ==
  FileInv /\ (OpenGiven \/ OpenHome \/ FindTemplate \/ CreateHome \/ Reopen) => FileInv'
<1> SUFFICES ASSUME FileInv, OpenGiven \/ OpenHome \/ FindTemplate \/ CreateHome \/ Reopen
             PROVE  FileInv'
  OBVIOUS
<1> USE DEF FileInv, ConfigIsWhatFileSays, Searching
<1>1. Says(<<>>, Len(<<>>), Started(args), Started(args))
  BY StartedMeans, SaysNothing
<1>2. <<>> \in Seq(FileLines)
  OBVIOUS
<1>3. CASE OpenGiven
  BY <1>3, TextsAreLines DEF OpenGiven, fileVars
<1>4. CASE OpenHome
  BY <1>4 DEF OpenHome, fileVars
<1>5. CASE Reopen
  <2>1. CASE home # Null
    BY <1>5, <2>1 DEF Reopen, fileVars
  <2>2. CASE home = Null
    BY <1>1, <1>5, <2>2 DEF Reopen, fileVars
  <2> QED
    BY <2>1, <2>2
<1>6. CASE FindTemplate
  <2>1. PICK found : found = {k \in DOMAIN Places : Places[k] \in args.installed}
    OBVIOUS
  <2>2. CASE found = {}
    BY <1>6, <2>1, <2>2 DEF FindTemplate
  <2>3. CASE found # {}
    <3>1. found \in SUBSET Nat
      BY <2>1 DEF Places
    <3>2. Min(found) \in found
      <4>1. \E x \in found : \A y \in found : x <= y
        BY <2>3, <3>1, LeastNat
      <4> QED
        BY <4>1 DEF Min
    <3>3. phase = "template" /\ args \in CommandLines
      BY <1>6 DEF FindTemplate
    <3>4. Places[Min(found)] \in DOMAIN Templates
      BY <2>1, <3>2, <3>3, ConfigAssumption
    <3>5. phase' = "create" /\ from' = Places[Min(found)]
      BY <1>6, <2>1, <2>3 DEF FindTemplate
    <3> QED
      BY <1>6, <3>3, <3>4, <3>5 DEF FindTemplate
  <2> QED
    BY <2>2, <2>3
<1>7. CASE CreateHome
  <2>1. CASE home = Null
    BY <1>2, <1>7, <2>1 DEF CreateHome
  <2>2. CASE home # Null
    BY <1>1, <1>7, <2>2 DEF CreateHome
  <2> QED
    BY <2>1, <2>2
<1> QED
  BY <1>3, <1>4, <1>5, <1>6, <1>7

(***************************************************************************)
(* The copy of a template.                                                 *)
(***************************************************************************)
LEMMA CopyKeepsFiles == FileInv /\ (CopyBlock \/ CopyEnds \/ CopyFails) => FileInv'
<1> SUFFICES ASSUME FileInv, CopyBlock \/ CopyEnds \/ CopyFails PROVE FileInv'
  OBVIOUS
<1> USE DEF FileInv, ConfigIsWhatFileSays, Searching
<1>1. CASE CopyBlock
  <2>1. /\ home \in Seq(FileLines) /\ from \in DOMAIN Templates
        /\ Templates[from] \in Seq(FileLines) /\ Len(home) < Len(Templates[from])
    BY <1>1, TextsAreLines DEF CopyBlock
  <2>2. Templates[from][Len(home) + 1] \in FileLines
    BY <2>1
  <2>3. home' \in Seq(FileLines)
    BY <1>1, <2>1, <2>2 DEF CopyBlock
  <2> QED
    BY <1>1, <2>3 DEF CopyBlock
<1>2. CASE CopyEnds
  BY <1>2 DEF CopyEnds
<1>3. CASE CopyFails
  <2>1. Says(<<>>, Len(<<>>), Started(args), Started(args))
    BY StartedMeans, SaysNothing
  <2> QED
    BY <1>3, <2>1 DEF CopyFails
<1> QED
  BY <1>1, <1>2, <1>3

(***************************************************************************)
(* Reading the file.                                                       *)
(***************************************************************************)
LEMMA ParseKeepsFiles == FileInv /\ ParseFile => FileInv'
<1> SUFFICES ASSUME FileInv, ParseFile PROVE FileInv'
  OBVIOUS
<1>1. phase = "parse" /\ text \in Seq(FileLines) /\ cfg = Started(args)
  BY DEF FileInv, ParseFile
<1>2. PICK end : end = Parsed(text, cfg)[Len(text)]
  OBVIOUS
<1>3. /\ cfg' = [d \in Dests |-> end.cfg[d]]
      /\ phase' \in {"check", "exit", "crash"} /\ (phase' = "check" => end.result = "ok")
      /\ UNCHANGED <<args, fileVars, text, inherited>>
  BY <1>2 DEF ParseFile
<1>4. ASSUME phase' = "check" PROVE Says(text, Len(text), Started(args), cfg')
  <2>1. Says(text, Len(text), cfg, end.cfg)
    <3>1. DOMAIN cfg = Dests /\ cfg["uplink_config"] = <<>>
      BY <1>1, StartedMeans
    <3> QED
      BY <1>1, <1>2, <1>3, <1>4, <3>1, FileSays
  <2>2. DOMAIN cfg' = Dests /\ \A d \in Dests : cfg'[d] = end.cfg[d]
    BY <1>3
  <2>3. Strings \subseteq Dests /\ "uplink_config" \in Dests
    BY TheirDests
  <2>4. Says(text, Len(text), cfg, cfg')
    BY <2>1, <2>2, <2>3 DEF Says
  <2> QED
    BY <1>1, <2>4
<1> QED
  BY <1>3, <1>4 DEF FileInv, ConfigIsWhatFileSays, Searching, fileVars

(***************************************************************************)
(* No step lets the variables differ from what the file says.              *)
(***************************************************************************)
LEMMA FileStay == FileInv /\ ConfigStep => FileInv'
<1> SUFFICES ASSUME FileInv, ConfigStep PROVE FileInv'
  OBVIOUS
<1>1. CASE \E a \in CommandLines : parse_cmdline(a)
  <2>1. PICK a \in CommandLines : parse_cmdline(a)
    BY <1>1
  <2>2. phase' = "search" /\ args' = a /\ cfg' = Started(a) /\ text' = <<>>
    BY <2>1 DEF parse_cmdline, Started, FileInv
  <2> QED
    BY <2>1, <2>2 DEF parse_cmdline, fileVars, FileInv, ConfigIsWhatFileSays, Searching
<1>2. CASE read_config
  <2>1. CASE CheckConfig
    <3>1. /\ phase' \in {"exit", "configured"}
          /\ UNCHANGED <<args, fileVars, text>>
      BY <2>1 DEF CheckConfig
    <3>2. ConfigIsWhatFileSays'
      BY <2>1, CheckKeepsWhatFileSays
    <3> QED
      BY <3>1, <3>2 DEF FileInv, Searching, fileVars
  <2> QED
    BY <1>2, <2>1, SearchKeepsFiles, CopyKeepsFiles, ParseKeepsFiles DEF read_config, read_cfgfile
<1>3. CASE phase' \in Later /\ UNCHANGED <<fileVars, text, inherited>>
  BY <1>3 DEF Later, fileVars, FileInv, ConfigIsWhatFileSays, Searching
<1>4. CASE GoesConfigured("signals")
  BY <1>4 DEF GoesConfigured, FileInv, ConfigIsWhatFileSays, Searching
<1>5. CASE /\ phase' = "down" /\ ours' = FALSE /\ text' = <<>> /\ inherited' = FALSE
           /\ UNCHANGED <<home, userText, partial>>
  BY <1>5 DEF FileInv, ConfigIsWhatFileSays, Searching
<1>6. CASE \E t \in UserTexts : UserWrites(t)
  <2>1. home' \in Seq(FileLines) /\ ours' = FALSE /\ UNCHANGED <<phase, args, from, text, cfg>>
    BY <1>6, TextsAreLines DEF UserWrites
  <2> QED
    BY <2>1 DEF FileInv, ConfigIsWhatFileSays, Said
<1>7. CASE UNCHANGED configVars
  BY <1>7 DEF configVars, fileVars, FileInv, ConfigIsWhatFileSays, Said
<1> QED
  BY <1>1, <1>2, <1>3, <1>4, <1>5, <1>6, <1>7 DEF ConfigStep

(***************************************************************************)
(* A daemon that comes up runs with what its file says, for any files,     *)
(* with abbreviations, repetitions and comments, and any command lines;    *)
(* the template that it copied is such a file.                             *)
(***************************************************************************)
THEOREM RunsAsConfigured == Spec => []ConfigIsWhatFileSays
<1>1. Init => FileInv
  BY DEF Init, ConfigInit, FileInv, ConfigIsWhatFileSays, Searching
<1>2. FileInv => ConfigIsWhatFileSays
  BY DEF FileInv
<1> QED
  BY <1>1, <1>2, FileStay, ConfigSteps, PTL DEF Spec

-----------------------------------------------------------------------------
(* The threads                                                             *)

(***************************************************************************)
(* read_config() goes from one of its phases to another, and the variables *)
(* of cfg.c have values all the while.                                     *)
(***************************************************************************)
LEMMA ReadConfigPhases ==
  ASSUME read_config, DOMAIN cfg = Dests
  PROVE  /\ phase \in Searching \cup {"parse", "check"} /\ phase' \in Searching \cup Reading
         /\ DOMAIN cfg' = Dests
<1> USE DEF Searching, Reading
<1>1. CASE OpenGiven \/ OpenHome \/ Reopen
  BY <1>1 DEF OpenGiven, OpenHome, Reopen
<1>2. CASE FindTemplate
  <2>1. phase = "template" /\ phase' \in {"reopen", "create"} /\ cfg' = cfg
    BY <1>2 DEF FindTemplate
  <2> QED
    BY <2>1
<1>3. CASE CreateHome \/ CopyBlock \/ CopyEnds \/ CopyFails
  BY <1>3 DEF CreateHome, CopyBlock, CopyEnds, CopyFails
<1>4. CASE ParseFile
  <2>1. phase = "parse" /\ phase' \in {"check", "exit", "crash"}
    BY <1>4 DEF ParseFile
  <2>2. DOMAIN cfg' = Dests
    BY <1>4 DEF ParseFile
  <2> QED
    BY <2>1, <2>2
<1>5. CASE CheckConfig
  <2>1. phase = "check" /\ phase' \in {"exit", "configured"}
    BY <1>5 DEF CheckConfig
  <2>2. DOMAIN cfg' = DOMAIN cfg
    BY <1>5 DEF CheckConfig
  <2> QED
    BY <2>1, <2>2
<1> QED
  BY <1>1, <1>2, <1>3, <1>4, <1>5 DEF read_config, read_cfgfile

(***************************************************************************)
(* When the process is gone, nothing of it is left.                        *)
(***************************************************************************)
LEMMA DownThreads == Down => ThreadsInv'
<1> SUFFICES ASSUME Down PROVE ThreadsInv'
  OBVIOUS
<1>1. phase' = "down" /\ main' = "off" /\ listener' = "none" /\ json' = "none"
  BY DEF Down, ProcessEnds
<1> QED
  BY <1>1 DEF ThreadsInv, PhaseInv, SocketInv, UseInv, Searching, Reading

(***************************************************************************)
(* No step brings the phases of the main thread, the listener and the      *)
(* export thread apart.                                                    *)
(***************************************************************************)
LEMMA ThreadsStay == ThreadsInv /\ [Next]_vars => ThreadsInv'
<1> SUFFICES ASSUME ThreadsInv, [Next]_vars PROVE ThreadsInv'
  OBVIOUS
<1> USE DEF ThreadsInv, PhaseInv, SocketInv, UseInv, Searching, Reading
<1>1. CASE Start
  <2>1. phase = "down" /\ phase' = "search" /\ log' = "open"
    BY <1>1 DEF Start, parse_cmdline
  <2>2. DOMAIN cfg' = Dests
    BY <1>1 DEF Start, parse_cmdline, Unset
  <2>3. UNCHANGED <<listener, main, path, sysfail, cache, json>>
    BY <1>1 DEF Start, ipcVars, threadVars, callVars, nameVars
  <2> QED
    BY <2>1, <2>2, <2>3
<1>2. CASE ReadConfig
  <2>1. UNCHANGED <<listener, main, path, sysfail, cache, json, log>>
    BY <1>2 DEF ReadConfig, ipcVars, threadVars, callVars, nameVars, mainVars
  <2>2. read_config
    BY <1>2 DEF ReadConfig
  <2>3. phase \notin {"down", "log", "return"}
    BY <2>2 DEF read_config, read_cfgfile, OpenGiven, OpenHome, FindTemplate, CreateHome,
                CopyBlock, CopyEnds, CopyFails, Reopen, ParseFile, CheckConfig
  <2>4. /\ phase \in Searching \cup {"parse", "check"} /\ phase' \in Searching \cup Reading
        /\ DOMAIN cfg' = Dests
    BY <2>2, <2>3, ReadConfigPhases
  <2> QED
    BY <2>1, <2>4
<1>3. CASE Daemonize
  BY <1>3 DEF Daemonize, GoesConfigured, ipcVars, threadVars, callVars, nameVars, mainVars
<1>4. CASE StartExport
  BY <1>4 DEF StartExport, Goes, ipcVars, threadVars, callVars, nameVars
<1>5. CASE gnuais_ipc_init
  <2>1. CASE UnlinkSocket
    BY <1>5, <2>1 DEF gnuais_ipc_init, UnlinkSocket, threadVars, configVars, mainVars
  <2>2. CASE BindSocket
    BY <1>5, <2>2 DEF gnuais_ipc_init, BindSocket, Goes, mainVars
  <2>3. CASE InitFails
    BY <1>5, <2>3 DEF gnuais_ipc_init, InitFails, threadVars, Goes, mainVars
  <2> QED
    BY <1>5, <2>1, <2>2, <2>3 DEF gnuais_ipc_init
<1>6. CASE OpenSound \/ ReadBuffer \/ BufferDone \/ LoopEnds
  BY <1>6 DEF OpenSound, ReadBuffer, BufferDone, LoopEnds, Goes, ipcVars, threadVars, callVars,
              nameVars, mainVars
<1>7. CASE StopIpc
  BY <1>7 DEF StopIpc, gnuais_ipc_deinit, IpcFree, JoinNothing, threadVars, nameVars,
              configVars, mainVars
<1>8. CASE jsonout_deinit \/ JsonEnds \/ closedown \/ EndOfFile
  BY <1>8 DEF jsonout_deinit, JsonEnds, closedown, EndOfFile, ipcVars, threadVars, callVars,
              nameVars, configVars
<1>9. CASE FreeCache
  BY <1>9 DEF FreeCache, Goes, ipcVars, threadVars, callVars, nameVars
<1>10. CASE free_config
  BY <1>10 DEF free_config, ipcVars, threadVars, callVars, nameVars, mainVars
<1>11. CASE close_log
  BY <1>11 DEF close_log, Goes, ipcVars, threadVars, callVars, nameVars
<1>12. CASE GivesUp \/ JoinCrashes \/ Returns \/ Killed
  BY <1>12, DownThreads DEF GivesUp, JoinCrashes, Returns, Killed
<1>13. CASE Receive
  BY <1>13 DEF Receive, ipc_write, WriteClient, WriteDone, threadVars, nameVars,
               configVars, mainVars
<1>14. CASE Listen
  <2>1. /\ listener \in {"accept", "accepted"} /\ listener' \in {"accept", "accepted", "done"}
        /\ UNCHANGED <<main, path, sysfail, phase, cfg, log, cache, json>>
    BY <1>14 DEF Listen, Accept, AcceptFails, AddClient, callVars, nameVars, configVars, mainVars
  <2> QED
    BY <2>1
<1>15. CASE ClientStep
  <2>1. UNCHANGED <<listener, main, path, sysfail, phase, cfg, log, cache, json>>
    BY <1>15 DEF ClientStep, Connect, Read, Leave, daemonVars, threadVars, callVars, nameVars,
                 configVars, mainVars
  <2> QED
    BY <2>1
<1>16. CASE User
  <2>1. UNCHANGED <<listener, main, path, sysfail, phase, cfg, log, cache, json>>
    BY <1>16 DEF User, UserWrites, ipcVars, threadVars, callVars, nameVars, mainVars
  <2> QED
    BY <2>1
<1>17. CASE UNCHANGED vars
  BY <1>17 DEF vars, ipcVars, threadVars, callVars, nameVars, configVars, mainVars
<1> QED
  BY <1>1, <1>2, <1>3, <1>4, <1>5, <1>6, <1>7, <1>8, <1>9, <1>10, <1>11, <1>12, <1>13,
     <1>14, <1>15, <1>16, <1>17 DEF Next, MainStep

(***************************************************************************)
(* The phases of the threads, in every reachable state.                    *)
(***************************************************************************)
THEOREM ThreadsInvariant == Spec => []ThreadsInv
<1>1. Init => ThreadsInv
  BY DEF Init, IpcInit, ConfigInit, ThreadsInv, PhaseInv, SocketInv, UseInv, Searching, Reading
<1> QED
  BY <1>1, ThreadsStay, PTL DEF Spec

(***************************************************************************)
(* gnuais_ipc_init() gets the socket up if the system lets it, whatever a  *)
(* daemon that was killed left behind.                                     *)
(***************************************************************************)
THEOREM SocketUp == Spec => []SocketComesUp
<1>1. ThreadsInv => SocketComesUp
  BY DEF ThreadsInv, SocketInv, SocketComesUp
<1> QED
  BY <1>1, ThreadsInvariant, PTL

(***************************************************************************)
(* The shutdown of main() frees the state of the socket, the cache, the    *)
(* configuration and the log after the threads that use them have ended.   *)
(***************************************************************************)
THEOREM UsedThenFreed == Spec => []FreedAfterUse
<1>1. ThreadsInv => FreedAfterUse
  <2> SUFFICES ASSUME ThreadsInv PROVE FreedAfterUse
    OBVIOUS
  <2>1. main = "exit" => listener \in {"none", "done"}
    BY DEF ThreadsInv, SocketInv
  <2>2. ASSUME json \in {"run", "told"} PROVE cfg # <<>> /\ cache = "ready" /\ log = "open"
    <3>1. phase \in {"ipc", "sound", "loop", "buffer", "closing"} /\ cache = "ready"
      BY <2>2 DEF ThreadsInv, UseInv
    <3>2. log = "open" /\ DOMAIN cfg = Dests
      BY <3>1 DEF ThreadsInv, UseInv
    <3>3. "pidfile" \in Dests
      BY DEF Dests
    <3>4. DOMAIN <<>> = {}
      OBVIOUS
    <3> QED
      BY <3>1, <3>2, <3>3, <3>4
  <2>3. ASSUME listener \in {"accept", "accepted"} PROVE log = "open"
    <3>1. main \notin {"off", "bind", "exit"}
      BY <2>3 DEF ThreadsInv, SocketInv
    <3>2. phase \in {"sound", "loop", "buffer", "closing"}
      BY <3>1 DEF ThreadsInv, PhaseInv
    <3> QED
      BY <3>2 DEF ThreadsInv, UseInv
  <2> QED
    BY <2>1, <2>2, <2>3 DEF FreedAfterUse
<1> QED
  BY <1>1, ThreadsInvariant, PTL

-----------------------------------------------------------------------------
(* The streams of the clients                                              *)

\* The sentences from the one after a to b.
Run(a, b) == [k \in 1 .. b - a |-> a + k]

\* The sentence that is being written has been written to c; the last one c got.
Served(c) == main # "write" \/ \E k \in 1 .. i - 1 : clientsocket[k] = c
LastOf(c) == IF Served(c) THEN n ELSE n - 1

(***************************************************************************)
(* A run of sentences, as a sequence.                                      *)
(***************************************************************************)
LEMMA RunAppend ==
  ASSUME NEW a \in Nat, NEW b \in Nat, a < b
  PROVE  Append(Run(a, b - 1), b) = Run(a, b)
<1>1. Run(a, b - 1) \in Seq(Nat) /\ Len(Run(a, b - 1)) = b - 1 - a
  <2>1. b - 1 - a \in Nat
    OBVIOUS
  <2> QED
    BY <2>1 DEF Run
<1>2. Run(a, b) \in Seq(Nat) /\ Len(Run(a, b)) = b - a
  <2>1. b - a \in Nat
    OBVIOUS
  <2> QED
    BY <2>1 DEF Run
<1> DEFINE s == Append(Run(a, b - 1), b)
<1>3. s \in Seq(Nat) /\ Len(s) = b - a
  BY <1>1
<1>4. ASSUME NEW k \in 1 .. b - a PROVE s[k] = Run(a, b)[k]
  <2>1. CASE k \in 1 .. b - 1 - a
    <3>1. s[k] = Run(a, b - 1)[k]
      BY <1>1, <2>1
    <3> QED
      BY <2>1, <3>1 DEF Run
  <2>2. CASE k = b - a
    <3>1. s[k] = b
      BY <1>1, <2>2
    <3> QED
      BY <2>2, <3>1 DEF Run
  <2>3. k \in 1 .. b - 1 - a \/ k = b - a
    OBVIOUS
  <2> HIDE DEF s
  <2> QED
    BY <2>1, <2>2, <2>3
<1> HIDE DEF s
<1>5. s = Run(a, b)
  BY <1>2, <1>3, <1>4, SeqEqual
<1> QED
  BY <1>5 DEF s

LEMMA RunEmpty == \A a \in Nat : Run(a, a) = <<>>
<1> SUFFICES ASSUME NEW a \in Nat PROVE Run(a, a) = <<>>
  OBVIOUS
<1>1. Run(a, a) = [k \in 1 .. 0 |-> a + k]
  BY DEF Run
<1> QED
  BY <1>1

(***************************************************************************)
(* Writing to the end of the socket and reading from its front.            *)
(***************************************************************************)
LEMMA ConcatAppend ==
  ASSUME NEW s \in Seq(Nat), NEW t \in Seq(Nat), NEW e \in Nat
  PROVE  s \o Append(t, e) = Append(s \o t, e)
<1> DEFINE l == s \o Append(t, e)
           r == Append(s \o t, e)
<1>1. /\ l \in Seq(Nat) /\ Len(l) = Len(s) + Len(t) + 1
      /\ r \in Seq(Nat) /\ Len(r) = Len(s) + Len(t) + 1
      /\ Len(s) \in Nat /\ Len(t) \in Nat
  BY ConcatProperties, AppendProperties
<1>2. ASSUME NEW k \in 1 .. Len(s) + Len(t) + 1 PROVE l[k] = r[k]
  OBVIOUS
<1> HIDE DEF l, r
<1>3. l = r
  BY <1>1, <1>2, SeqEqual
<1> QED
  BY <1>3 DEF l, r

LEMMA ConcatShift ==
  ASSUME NEW s \in Seq(Nat), NEW t \in Seq(Nat), t # <<>>
  PROVE  Append(s, Head(t)) \o Tail(t) = s \o t
<1> DEFINE l == Append(s, Head(t)) \o Tail(t)
           r == s \o t
<1>0. Head(t) \in Nat /\ Tail(t) \in Seq(Nat) /\ Len(Tail(t)) = Len(t) - 1 /\ Len(t) \in Nat \ {0}
  BY HeadTailProperties, EmptySeq
<1>1. /\ l \in Seq(Nat) /\ Len(l) = Len(s) + Len(t)
      /\ r \in Seq(Nat) /\ Len(r) = Len(s) + Len(t)
      /\ Len(s) \in Nat
  BY <1>0, ConcatProperties, AppendProperties
<1>2. ASSUME NEW k \in 1 .. Len(s) + Len(t) PROVE l[k] = r[k]
  BY <1>0
<1> HIDE DEF l, r
<1>3. l = r
  BY <1>1, <1>2, SeqEqual
<1> QED
  BY <1>3 DEF l, r

(***************************************************************************)
(* StreamIsComplete, with names for its parts.                             *)
(***************************************************************************)
LEMMA StreamMeans ==
  StreamIsComplete <=>
    \A c \in Clients : joined[c] # None /\ client[c] = "connected" =>
                         got[c] \o sock[c] = Run(joined[c], LastOf(c))
  BY DEF StreamIsComplete, Run, LastOf, Served

LEMMA StreamMeansAfter ==
  StreamIsComplete' <=>
    \A c \in Clients : joined'[c] # None /\ client'[c] = "connected" =>
                         got'[c] \o sock'[c] = Run(joined'[c], LastOf(c)')
  BY DEF StreamIsComplete, Run, LastOf, Served

(***************************************************************************)
(* Steps of the socket that move no sentence and add no client.            *)
(***************************************************************************)
LEMMA QuietKeepsStreams ==
  ASSUME StreamInv, UNCHANGED <<connection_fd, clientsocket, mutex, i, n, client, sock, got, joined>>,
         main' = main \/ (main # "write" /\ main' # "write"),
         listener' = listener \/ listener' # "accepted"
  PROVE  StreamInv'
<1>1. ClientsInv'
  BY DEF StreamInv, ClientsInv
<1>2. WriteInv'
  BY DEF StreamInv, WriteInv
<1>3. StreamIsComplete'
  BY ZenonT(30) DEF StreamInv, StreamIsComplete
<1> QED
  BY <1>1, <1>2, <1>3 DEF StreamInv

(***************************************************************************)
(* A client that is accepted has got nothing yet.                          *)
(***************************************************************************)
LEMMA AcceptKeepsStreams ==
  ASSUME StreamInv, NEW c \in Clients, Accept(c)
  PROVE  StreamInv'
<1>1. /\ client[c] = "connecting" /\ client' = [client EXCEPT ![c] = "connected"]
      /\ connection_fd' = c
      /\ UNCHANGED <<clientsocket, mutex, main, i, n, sock, got, joined>>
  BY DEF Accept, callVars
<1>2. joined[c] = None
  BY <1>1 DEF StreamInv, ClientsInv
<1>3. ClientsInv'
  BY <1>1, <1>2 DEF StreamInv, ClientsInv
<1>4. WriteInv'
  BY <1>1 DEF StreamInv, WriteInv
<1>5. StreamIsComplete'
  <2>1. \A d \in Clients : joined[d] # None => client'[d] = client[d]
    BY <1>1, <1>2 DEF StreamInv, ClientsInv
  <2>2. \A d \in Clients : LastOf(d)' = LastOf(d)
    BY <1>1 DEF LastOf, Served
  <2> QED
    BY <1>1, <2>1, <2>2, StreamMeans, StreamMeansAfter DEF StreamInv
<1> QED
  BY <1>3, <1>4, <1>5 DEF StreamInv

(***************************************************************************)
(* The array grows between two sentences only; a client that is added gets *)
(* the next one.                                                           *)
(***************************************************************************)
LEMMA AddKeepsStreams == StreamInv /\ AddClient => StreamInv'
<1> SUFFICES ASSUME StreamInv, AddClient PROVE StreamInv'
  OBVIOUS
<1> DEFINE c == connection_fd
<1>1. /\ listener = "accepted" /\ mutex = None /\ listener' = "accept"
      /\ clientsocket' = Append(clientsocket, c) /\ joined' = [joined EXCEPT ![c] = n]
      /\ UNCHANGED <<connection_fd, mutex, main, i, n, client, sock, got>>
  BY DEF AddClient, callVars, clientVars
<1>2. /\ c \in Clients /\ joined[c] = None /\ client[c] \in {"connected", "gone"}
      /\ sock[c] = <<>> /\ got[c] = <<>>
  BY <1>1 DEF StreamInv, ClientsInv
<1>3. main # "write"
  BY <1>1, IpcAssumption DEF StreamInv, WriteInv
<1>4. n \in Nat /\ n # None /\ clientsocket \in Seq(Clients) /\ joined \in [Clients -> Nat \cup {None}]
  BY IpcAssumption DEF StreamInv, ClientsInv
<1>5. /\ clientsocket' \in Seq(Clients) /\ Len(clientsocket') = Len(clientsocket) + 1
      /\ Len(clientsocket) \in Nat
      /\ \A k \in 1 .. Len(clientsocket) : clientsocket'[k] = clientsocket[k]
      /\ clientsocket'[Len(clientsocket) + 1] = c
  BY <1>1, <1>2, <1>4
<1> HIDE DEF c
<1>6. joined' \in [Clients -> Nat \cup {None}] /\ joined'[c] = n /\ \A d \in Clients \ {c} : joined'[d] = joined[d]
  BY <1>1, <1>2, <1>4
<1>7. \A k \in 1 .. Len(clientsocket) : clientsocket[k] # c /\ clientsocket[k] \in Clients
  BY <1>2, <1>4, SMTT(30) DEF StreamInv, ClientsInv
<1>8. ClientsInv'
  <2>1. \A k \in 1 .. Len(clientsocket') : joined'[clientsocket'[k]] # None
    <3>1. \A k \in 1 .. Len(clientsocket) : joined[clientsocket[k]] # None
      BY DEF StreamInv, ClientsInv
    <3> QED
      BY <1>4, <1>5, <1>6, <1>7, <3>1
  <2>2. \A j, k \in 1 .. Len(clientsocket') : clientsocket'[j] = clientsocket'[k] => j = k
    <3>1. \A j, k \in 1 .. Len(clientsocket) : clientsocket[j] = clientsocket[k] => j = k
      BY DEF StreamInv, ClientsInv
    <3> QED
      BY <1>5, <1>7, <3>1
  <2>3. ASSUME NEW d \in Clients, joined'[d] # None
        PROVE  \E k \in 1 .. Len(clientsocket') : clientsocket'[k] = d
    <3>1. CASE d = c
      BY <1>5, <3>1
    <3>2. CASE d # c
      <4>1. PICK k \in 1 .. Len(clientsocket) : clientsocket[k] = d
        BY <1>6, <2>3, <3>2 DEF StreamInv, ClientsInv
      <4> QED
        BY <1>5, <4>1
    <3> QED
      BY <3>1, <3>2
  <2>4. \A d \in Clients : joined'[d] # None => client[d] \in {"connected", "gone"} /\ joined'[d] <= n
    BY <1>2, <1>4, <1>6 DEF StreamInv, ClientsInv
  <2>5. \A d \in Clients : joined'[d] = None => sock[d] = <<>> /\ got[d] = <<>>
    BY <1>4, <1>6 DEF StreamInv, ClientsInv
  <2> QED
    BY <1>1, <1>5, <1>6, <2>1, <2>2, <2>3, <2>4, <2>5, ZenonT(30) DEF StreamInv, ClientsInv
<1>9. WriteInv'
  BY <1>1, <1>3 DEF StreamInv, WriteInv
<1>10. StreamIsComplete'
  <2> SUFFICES ASSUME NEW d \in Clients, joined'[d] # None, client'[d] = "connected"
               PROVE  got'[d] \o sock'[d] = Run(joined'[d], LastOf(d)')
    BY StreamMeansAfter
  <2>1. LastOf(d) = n /\ LastOf(d)' = n
    BY <1>1, <1>3 DEF LastOf, Served
  <2>2. CASE d = c
    <3>1. got'[d] \o sock'[d] = <<>>
      BY <1>1, <1>2, <2>2
    <3> QED
      BY <1>4, <1>6, <2>1, <2>2, <3>1, RunEmpty
  <2>3. CASE d # c
    BY <1>1, <1>6, <2>1, <2>3, StreamMeans DEF StreamInv
  <2> QED
    BY <2>2, <2>3
<1> QED
  BY <1>8, <1>9, <1>10 DEF StreamInv

(***************************************************************************)
(* ipc_write() begins with a new sentence, which nobody has got.           *)
(***************************************************************************)
LEMMA BeginKeepsStreams == StreamInv /\ ipc_write => StreamInv'
<1> SUFFICES ASSUME StreamInv, ipc_write PROVE StreamInv'
  OBVIOUS
<1>1. /\ main = "run" /\ main' = "write" /\ mutex' = "main" /\ i' = 1 /\ n' = n + 1
      /\ UNCHANGED <<listener, connection_fd, clientsocket, client, sock, got, joined>>
  BY DEF ipc_write, threadVars, clientVars
<1>2. /\ n \in Nat /\ n' \in Nat /\ joined \in [Clients -> Nat \cup {None}]
      /\ clientsocket \in Seq(Clients) /\ Len(clientsocket) \in Nat
  BY <1>1 DEF StreamInv, ClientsInv
<1>3. \A c \in Clients : joined[c] # None => joined[c] \in Nat /\ joined[c] <= n /\ joined[c] < n' /\ joined[c] <= n'
  <2>1. \A c \in Clients : joined[c] # None => joined[c] \in Nat /\ joined[c] <= n
    BY <1>2 DEF StreamInv, ClientsInv
  <2> QED
    BY <1>1, <1>2, <2>1
<1>4. ClientsInv'
  BY <1>1, <1>2, <1>3 DEF StreamInv, ClientsInv
<1>5. WriteInv'
  BY <1>1, <1>2, <1>3 DEF WriteInv
<1>6. StreamIsComplete'
  <2>1. \A c \in Clients : LastOf(c) = n
    BY <1>1 DEF LastOf, Served
  <2>2. \A c \in Clients : ~Served(c)'
    BY <1>1 DEF Served
  <2>3. \A c \in Clients : LastOf(c)' = n
    BY <1>1, <1>2, <2>2 DEF LastOf
  <2> QED
    BY <1>1, <2>1, <2>3, StreamMeans, StreamMeansAfter DEF StreamInv
<1> QED
  BY <1>4, <1>5, <1>6 DEF StreamInv

(***************************************************************************)
(* One write() gives the i-th client the sentence that it lacks.           *)
(***************************************************************************)
LEMMA WriteKeepsStreams == StreamInv /\ WriteClient => StreamInv'
<1> SUFFICES ASSUME StreamInv, WriteClient PROVE StreamInv'
  OBVIOUS
<1>0. PICK c : c = clientsocket[i]
  OBVIOUS
<1>1. /\ main = "write" /\ i <= Len(clientsocket) /\ i' = i + 1
      /\ UNCHANGED <<listener, connection_fd, clientsocket, mutex, main, n, client, got, joined>>
      /\ \/ sock' = [sock EXCEPT ![c] = Append(sock[c], n)]
         \/ client[c] = "gone" /\ sock' = sock
  BY <1>0 DEF WriteClient, numclientsockets, threadVars
<1>2. /\ n \in Nat /\ joined \in [Clients -> Nat \cup {None}] /\ sock \in [Clients -> Seq(Nat)]
      /\ got \in [Clients -> Seq(Nat)] /\ clientsocket \in Seq(Clients) /\ Len(clientsocket) \in Nat
  BY DEF StreamInv, ClientsInv
<1>3. i \in 1 .. Len(clientsocket) /\ i' \in 1 .. Len(clientsocket) + 1
  BY <1>1, <1>2 DEF StreamInv, WriteInv
<1>4. c \in Clients /\ joined[c] # None /\ joined[c] < n /\ joined[c] \in Nat
  <2>1. c \in Clients /\ joined[c] # None
    BY <1>0, <1>2, <1>3 DEF StreamInv, ClientsInv
  <2> QED
    BY <1>1, <1>2, <2>1 DEF StreamInv, WriteInv
<1>5. /\ sock' \in [Clients -> Seq(Nat)]
      /\ \A d \in Clients \ {c} : sock'[d] = sock[d]
      /\ client[c] # "gone" => sock'[c] = Append(sock[c], n)
  <2>1. Append(sock[c], n) \in Seq(Nat)
    BY <1>2, <1>4
  <2>2. CASE sock' = [sock EXCEPT ![c] = Append(sock[c], n)]
    BY <1>2, <1>4, <2>1, <2>2
  <2>3. CASE client[c] = "gone" /\ sock' = sock
    BY <1>2, <2>3
  <2> QED
    BY <1>1, <2>2, <2>3
<1>6. ClientsInv'
  <2>1. \A d \in Clients : joined'[d] = None => sock'[d] = <<>> /\ got'[d] = <<>>
    BY <1>1, <1>4, <1>5 DEF StreamInv, ClientsInv
  <2> QED
    BY <1>1, <1>5, <2>1 DEF StreamInv, ClientsInv
<1>7. WriteInv'
  BY <1>1, <1>3 DEF StreamInv, WriteInv
<1>8. StreamIsComplete'
  <2> SUFFICES ASSUME NEW d \in Clients, joined'[d] # None, client'[d] = "connected"
               PROVE  got'[d] \o sock'[d] = Run(joined'[d], LastOf(d)')
    BY StreamMeansAfter
  <2>1. got[d] \o sock[d] = Run(joined[d], LastOf(d))
    BY <1>1, StreamMeans DEF StreamInv
  <2>2. CASE d = c
    <3>1. ~Served(c)
      <4>1. \A k \in 1 .. i - 1 : k \in 1 .. Len(clientsocket) /\ k # i
        BY <1>2, <1>3
      <4>2. \A k \in 1 .. i - 1 : clientsocket[k] # c
        BY <1>0, <1>3, <4>1 DEF StreamInv, ClientsInv
      <4> QED
        BY <1>1, <4>2 DEF Served
    <3>2. LastOf(c) = n - 1
      BY <3>1 DEF LastOf
    <3>3. LastOf(c)' = n
      <4>1. i \in 1 .. i' - 1 /\ clientsocket'[i] = c
        BY <1>0, <1>1, <1>3
      <4>2. Served(c)'
        BY <4>1 DEF Served
      <4> QED
        BY <1>1, <4>2 DEF LastOf
    <3>4. got'[c] \o sock'[c] = got[c] \o Append(sock[c], n)
      BY <1>1, <1>5, <2>2
    <3>5. got[c] \o Append(sock[c], n) = Append(got[c] \o sock[c], n)
      <4>1. got[c] \in Seq(Nat) /\ sock[c] \in Seq(Nat) /\ n \in Nat
        BY <1>2, <1>4
      <4> QED
        BY <4>1, ConcatAppend, Zenon
    <3>6. Append(Run(joined[c], n - 1), n) = Run(joined[c], n)
      BY <1>2, <1>4, RunAppend
    <3> QED
      BY <1>1, <2>1, <2>2, <3>2, <3>3, <3>4, <3>5, <3>6
  <2>3. CASE d # c
    <3>1. Served(d)' <=> Served(d)
      <4>1. \A k \in 1 .. i' - 1 : k \in 1 .. i - 1 \/ k = i
        BY <1>1, <1>3
      <4>2. \A k \in 1 .. i - 1 : k \in 1 .. i' - 1
        BY <1>1, <1>3
      <4> QED
        BY <1>0, <1>1, <2>3, <4>1, <4>2 DEF Served
    <3>2. LastOf(d)' = LastOf(d)
      BY <1>1, <3>1 DEF LastOf
    <3> QED
      BY <1>1, <1>5, <2>1, <2>3, <3>2
  <2> QED
    BY <2>2, <2>3
<1> QED
  BY <1>6, <1>7, <1>8 DEF StreamInv

(***************************************************************************)
(* At the end of the loop of ipc_write() every client has the sentence.    *)
(***************************************************************************)
LEMMA DoneKeepsStreams == StreamInv /\ WriteDone => StreamInv'
<1> SUFFICES ASSUME StreamInv, WriteDone PROVE StreamInv'
  OBVIOUS
<1>1. /\ main = "write" /\ main' = "run" /\ mutex' = None /\ i > Len(clientsocket)
      /\ UNCHANGED <<listener, connection_fd, clientsocket, n, client, sock, got, joined>>
  BY DEF WriteDone, numclientsockets, threadVars, clientVars
<1>2. ClientsInv'
  BY <1>1 DEF StreamInv, ClientsInv
<1>3. WriteInv'
  BY <1>1, IpcAssumption DEF WriteInv
<1>4. StreamIsComplete'
  <2>1. ASSUME NEW c \in Clients, joined[c] # None PROVE LastOf(c) = n /\ LastOf(c)' = n
    <3>1. PICK k \in 1 .. Len(clientsocket) : clientsocket[k] = c
      BY <2>1 DEF StreamInv, ClientsInv
    <3>2. i \in 1 .. Len(clientsocket) + 1 /\ Len(clientsocket) \in Nat
      BY <1>1 DEF StreamInv, WriteInv, ClientsInv
    <3>3. k \in 1 .. i - 1
      BY <1>1, <3>2
    <3>4. Served(c) /\ Served(c)'
      BY <1>1, <3>1, <3>3 DEF Served
    <3> QED
      BY <1>1, <3>4 DEF LastOf
  <2> QED
    BY <1>1, <2>1, StreamMeans, StreamMeansAfter DEF StreamInv
<1> QED
  BY <1>2, <1>3, <1>4 DEF StreamInv

(***************************************************************************)
(* A process that ends takes its clients and their streams with it.        *)
(***************************************************************************)
LEMMA EndKeepsStreams == StreamInv /\ ProcessEnds => StreamInv'
<1> SUFFICES ASSUME StreamInv, ProcessEnds PROVE StreamInv'
  OBVIOUS
<1>1. /\ listener' = "none" /\ clientsocket' = <<>> /\ mutex' = None /\ main' = "off" /\ n' = n
      /\ client' = [c \in Clients |-> IF client[c] = "idle" THEN "idle" ELSE "gone"]
      /\ sock' = [c \in Clients |-> <<>>] /\ got' = [c \in Clients |-> <<>>]
      /\ joined' = [c \in Clients |-> None]
  BY DEF ProcessEnds
<1>2. ClientsInv'
  <2>1. /\ client' \in [Clients -> {"idle", "connecting", "connected", "gone"}]
        /\ sock' \in [Clients -> Seq(Nat)] /\ got' \in [Clients -> Seq(Nat)]
        /\ joined' \in [Clients -> Nat \cup {None}]
    BY <1>1
  <2>2. clientsocket' \in Seq(Clients) /\ Len(clientsocket') = 0 /\ n' \in Nat
    BY <1>1 DEF StreamInv, ClientsInv
  <2>3. \A c \in Clients : joined'[c] = None /\ sock'[c] = <<>> /\ got'[c] = <<>>
    BY <1>1
  <2> QED
    BY <1>1, <2>1, <2>2, <2>3 DEF ClientsInv
<1>3. WriteInv'
  BY <1>1, IpcAssumption DEF WriteInv
<1>4. StreamIsComplete'
  BY <1>1, StreamMeansAfter
<1> QED
  BY <1>2, <1>3, <1>4 DEF StreamInv

(***************************************************************************)
(* What the clients do: connect, read, go away.                            *)
(***************************************************************************)
LEMMA ClientKeepsStreams ==
  ASSUME StreamInv, NEW c \in Clients, Connect(c) \/ Read(c) \/ Leave(c)
  PROVE  StreamInv'
<1>1. UNCHANGED <<listener, connection_fd, clientsocket, mutex, main, i, n, joined>>
  BY DEF Connect, Read, Leave, daemonVars, threadVars, callVars
<1>2. WriteInv'
  BY <1>1 DEF StreamInv, WriteInv
<1>3. \A d \in Clients : LastOf(d)' = LastOf(d)
  BY <1>1 DEF LastOf, Served
<1>4. CASE Connect(c)
  <2>1. client[c] = "idle" /\ client' = [client EXCEPT ![c] = "connecting"] /\ UNCHANGED <<sock, got>>
    BY <1>4 DEF Connect
  <2>2. ClientsInv'
    BY <1>1, <2>1 DEF StreamInv, ClientsInv
  <2>3. StreamIsComplete'
    <3>1. \A d \in Clients : client'[d] = "connected" => client[d] = "connected"
      BY <2>1 DEF StreamInv, ClientsInv
    <3> QED
      BY <1>1, <1>3, <2>1, <3>1, StreamMeans, StreamMeansAfter DEF StreamInv
  <2> QED
    BY <1>2, <2>2, <2>3 DEF StreamInv
<1>5. CASE Read(c)
  <2>1. /\ sock[c] # <<>> /\ client' = client
        /\ got' = [got EXCEPT ![c] = Append(got[c], Head(sock[c]))]
        /\ sock' = [sock EXCEPT ![c] = Tail(sock[c])]
    BY <1>5 DEF Read
  <2>2. sock \in [Clients -> Seq(Nat)] /\ got \in [Clients -> Seq(Nat)] /\ joined[c] # None
    BY <2>1 DEF StreamInv, ClientsInv
  <2>3. sock' \in [Clients -> Seq(Nat)] /\ got' \in [Clients -> Seq(Nat)]
    <3>1. Head(sock[c]) \in Nat /\ Tail(sock[c]) \in Seq(Nat)
      BY <2>1, <2>2, HeadTailProperties
    <3>2. Append(got[c], Head(sock[c])) \in Seq(Nat)
      BY <2>2, <3>1
    <3> QED
      BY <2>1, <2>2, <3>1, <3>2
  <2>4. \A d \in Clients \ {c} : sock'[d] = sock[d] /\ got'[d] = got[d]
    BY <2>1, <2>2
  <2>5. got'[c] \o sock'[c] = got[c] \o sock[c]
    <3>1. got'[c] = Append(got[c], Head(sock[c])) /\ sock'[c] = Tail(sock[c])
      BY <2>1, <2>2
    <3> QED
      BY <2>1, <2>2, <3>1, ConcatShift
  <2>6. ClientsInv'
    <3>1. \A d \in Clients : joined'[d] = None => sock'[d] = <<>> /\ got'[d] = <<>>
      BY <1>1, <2>2, <2>4 DEF StreamInv, ClientsInv
    <3> QED
      BY <1>1, <2>1, <2>3, <3>1, ZenonT(30) DEF StreamInv, ClientsInv
  <2>7. StreamIsComplete'
    <3>1. \A d \in Clients : got'[d] \o sock'[d] = got[d] \o sock[d]
      BY <2>4, <2>5
    <3> QED
      BY <1>1, <1>3, <2>1, <3>1, StreamMeans, StreamMeansAfter DEF StreamInv
  <2> QED
    BY <1>2, <2>6, <2>7 DEF StreamInv
<1>6. CASE Leave(c)
  <2>1. /\ client[c] = "connected" /\ client' = [client EXCEPT ![c] = "gone"]
        /\ sock' = [sock EXCEPT ![c] = <<>>] /\ got' = [got EXCEPT ![c] = <<>>]
    BY <1>6 DEF Leave
  <2>2. /\ sock \in [Clients -> Seq(Nat)] /\ got \in [Clients -> Seq(Nat)]
        /\ client \in [Clients -> {"idle", "connecting", "connected", "gone"}]
    BY DEF StreamInv, ClientsInv
  <2>3. /\ sock' \in [Clients -> Seq(Nat)] /\ got' \in [Clients -> Seq(Nat)]
        /\ client' \in [Clients -> {"idle", "connecting", "connected", "gone"}]
        /\ \A d \in Clients \ {c} : sock'[d] = sock[d] /\ got'[d] = got[d] /\ client'[d] = client[d]
        /\ sock'[c] = <<>> /\ got'[c] = <<>> /\ client'[c] = "gone"
    BY <2>1, <2>2
  <2>4. ClientsInv'
    BY <1>1, <2>3 DEF StreamInv, ClientsInv
  <2>5. StreamIsComplete'
    BY <1>1, <1>3, <2>3, StreamMeans, StreamMeansAfter DEF StreamInv
  <2> QED
    BY <1>2, <2>4, <2>5 DEF StreamInv
<1> QED
  BY <1>4, <1>5, <1>6

(***************************************************************************)
(* No step of the daemon, the listener or a client breaks a stream.        *)
(***************************************************************************)
LEMMA StreamStay == StreamInv /\ [Next]_vars => StreamInv'
<1> SUFFICES ASSUME StreamInv, [Next]_vars PROVE StreamInv'
  OBVIOUS
<1>1. CASE UNCHANGED ipcVars
  <2>1. UNCHANGED <<listener, connection_fd, clientsocket, mutex, main, i, n, client, sock, got, joined>>
    BY <1>1 DEF ipcVars, threadVars, callVars, clientVars
  <2> QED
    BY <2>1, QuietKeepsStreams
<1>2. CASE UnlinkSocket \/ BindSocket \/ InitFails
  <2>1. /\ UNCHANGED <<connection_fd, clientsocket, mutex, i, n, client, sock, got, joined>>
        /\ main # "write" /\ main' # "write"
        /\ listener' = listener \/ listener' # "accepted"
    BY <1>2 DEF UnlinkSocket, BindSocket, InitFails, threadVars, clientVars
  <2> QED
    BY <2>1, QuietKeepsStreams
<1>3. CASE gnuais_ipc_deinit \/ IpcFree \/ JoinNothing \/ AcceptFails
  <2>1. /\ UNCHANGED <<connection_fd, clientsocket, mutex, i, n, client, sock, got, joined>>
        /\ main' = main \/ (main # "write" /\ main' # "write")
        /\ listener' = listener \/ listener' # "accepted"
    BY <1>3 DEF gnuais_ipc_deinit, IpcFree, JoinNothing, AcceptFails, threadVars, callVars, clientVars
  <2> QED
    BY <2>1, QuietKeepsStreams
<1>4. CASE ProcessEnds
  BY <1>4, EndKeepsStreams
<1>5. CASE Receive
  BY <1>5, BeginKeepsStreams, WriteKeepsStreams, DoneKeepsStreams DEF Receive
<1>6. CASE Listen
  BY <1>3, <1>6, AcceptKeepsStreams, AddKeepsStreams DEF Listen
<1>7. CASE ClientStep
  BY <1>7, ClientKeepsStreams DEF ClientStep
<1>8. CASE gnuais_ipc_init \/ StopIpc
  BY <1>2, <1>3, <1>8 DEF gnuais_ipc_init, StopIpc
<1>9. CASE GivesUp \/ JoinCrashes \/ Returns \/ Killed
  BY <1>4, <1>9 DEF GivesUp, JoinCrashes, Returns, Killed, Down
<1>10. CASE \/ Start \/ ReadConfig \/ Daemonize \/ StartExport \/ OpenSound
            \/ ReadBuffer \/ BufferDone \/ LoopEnds
            \/ jsonout_deinit \/ FreeCache \/ free_config \/ close_log
            \/ closedown \/ EndOfFile \/ JsonEnds \/ User
  BY <1>1, <1>10 DEF Start, ReadConfig, Daemonize, StartExport, OpenSound, ReadBuffer,
       BufferDone, LoopEnds, jsonout_deinit, FreeCache, free_config, close_log, closedown, EndOfFile, JsonEnds, User
<1>11. CASE UNCHANGED vars
  BY <1>1, <1>11 DEF vars
<1> QED
  BY <1>5, <1>6, <1>7, <1>8, <1>9, <1>10, <1>11 DEF Next, MainStep

(***************************************************************************)
(* ipc_write() gives each client that the listener added every sentence    *)
(* from then on, once and in order, however clients come, read and go.     *)
(***************************************************************************)
THEOREM StreamsComplete == Spec => []StreamIsComplete
<1>1. Init => StreamInv
  <2> SUFFICES ASSUME Init PROVE StreamInv
    OBVIOUS
  <2>1. /\ listener = "none" /\ clientsocket = <<>> /\ mutex = None /\ main = "off" /\ n = 0
        /\ client = [c \in Clients |-> "idle"]
        /\ sock = [c \in Clients |-> <<>>] /\ got = [c \in Clients |-> <<>>]
        /\ joined = [c \in Clients |-> None]
    BY DEF Init, IpcInit
  <2>2. ClientsInv
    <3>1. /\ client \in [Clients -> {"idle", "connecting", "connected", "gone"}]
          /\ sock \in [Clients -> Seq(Nat)] /\ got \in [Clients -> Seq(Nat)]
          /\ joined \in [Clients -> Nat \cup {None}]
          /\ clientsocket \in Seq(Clients) /\ Len(clientsocket) = 0
      BY <2>1
    <3> QED
      BY <2>1, <3>1 DEF ClientsInv
  <2>3. WriteInv
    BY <2>1, IpcAssumption DEF WriteInv
  <2>4. StreamIsComplete
    BY <2>1, StreamMeans
  <2> QED
    BY <2>2, <2>3, <2>4 DEF StreamInv
<1>2. StreamInv => StreamIsComplete
  BY DEF StreamInv
<1> QED
  BY <1>1, <1>2, StreamStay, PTL DEF Spec
=============================================================================
