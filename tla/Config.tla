------------------------------- MODULE Config -------------------------------
(***************************************************************************)
(* The configuration: src/src/cfgfile.c and src/src/cfg.c.                 *)
(*                                                                         *)
(* The daemon takes the file it is told to, or ~/.config/gnuais/config; if *)
(* there is neither, it makes the latter, a copy of a template.  The user  *)
(* may write that file at any moment, and the daemon may be killed.        *)
(*                                                                         *)
(* A file is a sequence of lines, a line a directive with its arguments.   *)
(* The words of directives are split where their beginnings part, because  *)
(* a directive may be abbreviated.  An argument is what its reader makes   *)
(* of it: a callsign is its length, an interval a sequence of numbers with *)
(* their units, a coordinate a number of degrees.                          *)
(***************************************************************************)
EXTENDS Integers, Sequences, SequencesExt, FiniteSetsExt

CONSTANTS
  Templates,     \* the texts of the templates
  Given,         \* the file named on the command line or in the directory
  UserTexts,     \* what the user may write to ~/.config/gnuais/config
  CommandLines,  \* command lines, with HOME and the templates that are installed
  Null

Places == <<"etc", "local", "share">>  \* in the order in which they are tried

Texts     == UserTexts \cup Range(Templates) \cup ({Given} \ {Null})
FileLines == UNION {Range(t) : t \in Texts}

\* A file is a sequence of lines.  A line has a word, since blank ones are skipped,
\* and an argument that is there is not a missing one.
ASSUME ConfigAssumption ==
  /\ DOMAIN Templates \subseteq Range(Places)
  /\ \A a \in CommandLines : a.installed \subseteq DOMAIN Templates
  /\ \A t \in Texts : t \in Seq(FileLines)
  /\ \A l \in FileLines : /\ l.word \in Seq(Range(l.word)) \ {<<>>}
                          /\ Len(l.args) >= 1 => l.args[1] # Null

VARIABLES
  phase,      \* where main() is
  args,       \* the command line
  home,       \* ~/.config/gnuais/config, Null if there is none
  from,       \* the template that is copied
  ours,       \* the file that cpfile() has open is still the one of that name
  text,       \* the lines of the file that was opened
  cfg,        \* the variables of cfg.c, <<>> while they have no values
  userText,   \* history: what the user wrote last to that file
  partial,    \* history: the file is a copy that was not completed
  inherited   \* history: and an earlier run of the daemon left it so

fileVars   == <<home, from, ours, userText, partial>>
configVars == <<phase, args, fileVars, text, cfg, inherited>>

-----------------------------------------------------------------------------
(* Directives                                                              *)

Cmd(name, function, dest) == [name |-> name, function |-> function, dest |-> dest]

cfg_cmds == <<
  Cmd(<<"l", "o", "gdir">>,          "string",    "logdir"),
  Cmd(<<"my", "call">>,              "string",    "mycall"),
  Cmd(<<"my", "email">>,             "string",    "myemail"),
  Cmd(<<"l", "atitude">>,            "float",     "mylat"),
  Cmd(<<"l", "o", "ngitude">>,       "float",     "mylng"),
  Cmd(<<"s", "tatsinterval">>,       "interval",  "stats_interval"),
  Cmd(<<"expiryinterval">>,          "interval",  "expiry_interval"),
  Cmd(<<"uplink">>,                  "uplink",    "uplink_config"),
  Cmd(<<"my", "sql_", "host">>,      "string",    "mysql_host"),
  Cmd(<<"my", "sql_", "db">>,        "string",    "mysql_db"),
  Cmd(<<"my", "sql_", "user">>,      "string",    "mysql_user"),
  Cmd(<<"my", "sql_", "password">>,  "string",    "mysql_password"),
  Cmd(<<"my", "sql_", "keepsmall">>, "toggle",    "mysql_keepsmall"),
  Cmd(<<"my", "sql_", "oldlimit">>,  "int",       "mysql_oldlimit"),
  Cmd(<<"s", "ound", "device">>,             "string",    "sound_device"),
  Cmd(<<"s", "ound", "infile">>,             "string",    "sound_in_file"),
  Cmd(<<"s", "ound", "outfile">>,           "string",    "sound_out_file"),
  Cmd(<<"s", "ound", "channels">>,         "sound_ch",  "sound_channels"),
  Cmd(<<"s", "ound", "levellog">>,         "int",       "sound_levellog"),
  Cmd(<<"s", "erial", "port">>,      "string",    "serial_port"),
  Cmd(<<"s", "erial", "_port">>,     "string",    "serial_port"),
  Cmd(<<"s", "kip_type">>,           "skip_type", "skip_type") >>

Dests == {cfg_cmds[k].dest : k \in DOMAIN cfg_cmds} \cup {"pidfile", "have_my_loc"}

Unset ==
  [d \in Dests |->
     CASE d \in {"mylat", "mylng"} -> -200
       [] d \in {"stats_interval", "expiry_interval", "mysql_keepsmall",
                 "mysql_oldlimit", "sound_levellog"} -> 0
       [] d = "sound_channels" -> "mono"
       [] d = "skip_type" -> {}
       [] d = "uplink_config" -> <<>>
       [] d = "have_my_loc" -> FALSE
       [] OTHER -> Null]

MAX_AIS_PACKET_TYPE == 24

UnitSeconds ==
  [u \in {"s", "m", "h", "d", ""} |->
     CASE u = "m" -> 60 [] u = "h" -> 3600 [] u = "d" -> 86400 [] OTHER -> 1]

\* Each number counts in the unit that follows it; another letter: not at all.
parse_interval(s) ==
  FoldLeft(LAMBDA t, p : IF p[2] \in DOMAIN UnitSeconds THEN t + p[1] * UnitSeconds[p[2]] ELSE t,
           0, s)

\* The arguments a function of the table accepts.
Accepts(function, a) ==
  CASE function = "skip_type" -> Len(a) >= 1 /\ a[1] \in 1 .. MAX_AIS_PACKET_TYPE
    [] function = "sound_ch"  -> Len(a) >= 1 /\ a[1] \in {"mono", "both", "left", "right"}
    [] function = "uplink"    -> Len(a) >= 2 /\ a[2] = "json"
    [] OTHER                  -> Len(a) >= 1

\* do_uplink() looks for two arguments and copies the third.
Crashes(function, a) == function = "uplink" /\ Accepts(function, a) /\ Len(a) < 3

\* do_string(), do_int(), do_float(), do_toggle(), do_interval(), do_skip_type(),
\* do_sound_ch(), do_uplink(): the variable after an accepted directive.
Stored(function, old, a) ==
  CASE function = "toggle"    -> IF a[1] \in {"true", "on", "1", "enable", "enabled", "yes"} THEN 1 ELSE 0
    [] function = "interval"  -> parse_interval(a[1])
    [] function = "skip_type" -> old \cup {a[1]}
    [] function = "uplink"    -> <<[name |-> a[1], url |-> a[3]]>> \o old
    [] OTHER                  -> a[1]

\* strncasecmp() over the length of the word: an abbreviation will do.
Matching(word) == {k \in DOMAIN cfg_cmds : IsPrefix(word, cfg_cmds[k].name)}

\* The result of a line: the variables, and "ok", "error" or "crash".
cmdparse(state, line) ==
  LET c == cfg_cmds[Min(Matching(line.word))]
  IN  IF state.result # "ok" \/ line.word = <<"#">> THEN state
      ELSE IF Matching(line.word) = {} \/ ~Accepts(c.function, line.args)
        THEN [state EXCEPT !.result = "error"]
      ELSE IF Crashes(c.function, line.args) THEN [state EXCEPT !.result = "crash"]
      ELSE [state EXCEPT !.cfg[c.dest] = Stored(c.function, @, line.args)]

-----------------------------------------------------------------------------
(* read_cfgfile()                                                          *)

ConfigInit ==
  /\ phase = "down" /\ args = Null
  /\ home = Null /\ from = Null /\ ours = FALSE
  /\ text = <<>> /\ cfg = <<>>
  /\ userText = Null /\ partial = FALSE /\ inherited = FALSE

\* -l and -s set the variables that the file may set once more.  A command line
\* that is refused ends the process before anything is done.
parse_cmdline(a) ==
  /\ phase = "down"
  /\ phase' = "search" /\ args' = a
  /\ cfg' = [Unset EXCEPT !.sound_in_file = a.l, !.sound_out_file = a.s]
  /\ inherited' = partial
  /\ UNCHANGED <<fileVars, text>>

\* The file that was named; without it, the name of the one in the home directory
\* is made from HOME, which must be set.
OpenGiven ==
  /\ phase = "search"
  /\ IF Given # Null /\ args.c THEN phase' = "parse" /\ text' = Given
     ELSE phase' = (IF args.HOME THEN "home" ELSE "crash") /\ UNCHANGED text
  /\ UNCHANGED <<args, fileVars, cfg, inherited>>

OpenHome ==
  /\ phase = "home"
  /\ IF home # Null THEN phase' = "parse" /\ text' = home
     ELSE phase' = "template" /\ UNCHANGED text
  /\ UNCHANGED <<args, fileVars, cfg, inherited>>

FindTemplate ==
  /\ phase = "template"
  /\ LET found == {k \in DOMAIN Places : Places[k] \in args.installed}
     IN  IF found = {} THEN phase' = "reopen" /\ UNCHANGED from
         ELSE phase' = "create" /\ from' = Places[Min(found)]
  /\ UNCHANGED <<args, home, ours, userText, partial, text, cfg, inherited>>

\* Mutant: an existing file is truncated.
CreateHomeTruncates ==
  /\ phase = "create"
  /\ home' = <<>> /\ ours' = TRUE /\ partial' = TRUE /\ phase' = "copy"
  /\ UNCHANGED <<args, from, userText, text, cfg, inherited>>

\* cpfile(): O_CREAT | O_EXCL.
CreateHome ==
  /\ phase = "create"
  /\ IF home = Null THEN /\ home' = <<>> /\ ours' = TRUE /\ partial' = TRUE
                         /\ phase' = "copy"
     ELSE phase' = "check" /\ UNCHANGED <<home, ours, partial>>
  /\ UNCHANGED <<args, from, userText, text, cfg, inherited>>

\* A write() takes what it takes; if the user put another file in the place of
\* this one, it goes to a file that has no name any more.
CopyBlock ==
  /\ phase = "copy" /\ ours
  /\ Len(home) < Len(Templates[from])
  /\ home' = Append(home, Templates[from][Len(home) + 1])
  /\ UNCHANGED <<phase, args, from, ours, userText, partial, text, cfg, inherited>>

CopyEnds ==
  /\ phase = "copy"
  /\ ours => home = Templates[from]
  /\ partial' = IF ours THEN FALSE ELSE partial
  /\ ours' = FALSE /\ phase' = "reopen"
  /\ UNCHANGED <<args, home, from, userText, text, cfg, inherited>>

\* Mutant: the copy is read although it failed.
CopyFailsUnnoticed ==
  /\ phase = "copy"
  /\ ours' = FALSE /\ phase' = "reopen"
  /\ UNCHANGED <<args, home, from, userText, partial, text, cfg, inherited>>

\* The disk is full: what was written stays, and is not used in this run.
CopyFails ==
  /\ phase = "copy"
  /\ ours' = FALSE /\ phase' = "check"
  /\ UNCHANGED <<args, home, from, userText, partial, text, cfg, inherited>>

Reopen ==
  /\ phase = "reopen"
  /\ IF home # Null THEN phase' = "parse" /\ text' = home
     ELSE phase' = "check" /\ UNCHANGED text
  /\ UNCHANGED <<args, fileVars, cfg, inherited>>

\* The loop over the lines, from the variables c on: the state after each of them.
\* After a bad one it stays as it is.
Parsed(t, c) ==
  LET state[k \in 0 .. Len(t)] ==
        IF k = 0 THEN [cfg |-> c, result |-> "ok"] ELSE cmdparse(state[k - 1], t[k])
  IN  state

ParseFile ==
  /\ phase = "parse"
  /\ LET end == Parsed(text, cfg)[Len(text)]
     IN  /\ cfg' = [d \in Dests |-> end.cfg[d]]
         /\ phase' = CASE end.result = "ok"    -> "check"
                       [] end.result = "error" -> "exit"
                       [] OTHER                -> "crash"
  /\ UNCHANGED <<args, fileVars, text, inherited>>

-----------------------------------------------------------------------------
(* The rest of read_config()                                               *)

NOCALLDEFINED == 13  \* characters

valid_aprsis_call(len) == len <= 12 /\ len >= 3

Within(x, lo, hi) == x > lo /\ x < hi

OrElse(x, default) == IF x = Null THEN default ELSE x

\* Mutant: the device is kept beside the file.
SoundDeviceKept(c) == OrElse(c.sound_device, "default")

\* The default if nothing is given; the file is taken if both are.
SoundDevice(c) ==
  IF c.sound_in_file # Null THEN Null ELSE OrElse(c.sound_device, "default")

CheckConfig ==
  /\ phase = "check"
  /\ LET have == Within(cfg.mylat, -90, 90) /\ Within(cfg.mylng, -180, 180)
         Rad(x) == IF have THEN <<x, "degrees in radians">> ELSE x
         dir == IF args.r # Null THEN args.r ELSE OrElse(cfg.logdir, ".")
         failed == cfg.mycall # Null /\ ~valid_aprsis_call(cfg.mycall)
     IN  /\ cfg' = [cfg EXCEPT !.logdir = dir,
                               !.mycall = OrElse(@, NOCALLDEFINED),
                               !.myemail = OrElse(@, "notdefined@notdefined"),
                               !.sound_device = SoundDevice(cfg),
                               !.have_my_loc = have,
                               !.mylat = Rad(@), !.mylng = Rad(@),
                               !.pidfile = IF failed THEN @ ELSE dir]
         /\ phase' = IF failed THEN "exit" ELSE "configured"
  /\ UNCHANGED <<args, fileVars, text, inherited>>

-----------------------------------------------------------------------------

\* The user saves a file under that name, by renaming a new one.
UserWrites(t) ==
  /\ home' = t /\ userText' = t
  /\ ours' = FALSE /\ partial' = FALSE
  /\ UNCHANGED <<phase, args, from, text, cfg, inherited>>

read_cfgfile ==
  \/ OpenGiven \/ OpenHome \/ FindTemplate \/ CreateHome
  \/ CopyBlock \/ CopyEnds \/ CopyFails \/ Reopen \/ ParseFile

read_config == read_cfgfile \/ CheckConfig

-----------------------------------------------------------------------------
(* Properties                                                              *)

(***************************************************************************)
(* What the user wrote to the configuration file stays there: the daemon,  *)
(* which looks for the file first and makes one later, never overwrites    *)
(* it, even if the user saves it in between.                               *)
(***************************************************************************)
UserConfigKept == userText # Null => home = userText

\* The last line of t that sets d, by its full name or by the first entry of
\* the table that it abbreviates; 0 if there is none.
LastLine(t, d) ==
  LET Full(w) == {k \in DOMAIN cfg_cmds : cfg_cmds[k].name = w}
      Abbreviated(w) == {k \in DOMAIN cfg_cmds :
                           w \in {SubSeq(cfg_cmds[k].name, 1, m) : m \in DOMAIN cfg_cmds[k].name}}
      Meant(w) == IF Full(w) # {} THEN Full(w) ELSE Abbreviated(w)
      Sets(w) == Meant(w) # {} /\ cfg_cmds[Min(Meant(w))].dest = d
  IN  Max({0} \cup {k \in DOMAIN t : Sets(t[k].word)})

Said(d, default) == LET k == LastLine(text, d) IN IF k = 0 THEN default ELSE text[k].args[1]

(***************************************************************************)
(* The daemon runs with what the file says: the last line that gives a     *)
(* value counts, the command line decides on the log directory and the     *)
(* file on the sound file, one source of sound is left, every uplink of    *)
(* the file is in the list, and the callsign is a valid one.               *)
(***************************************************************************)
ConfigIsWhatFileSays ==
  phase = "configured" =>
    /\ cfg.sound_in_file = Said("sound_in_file", args.l)
    /\ cfg.sound_device = IF cfg.sound_in_file # Null THEN Null ELSE Said("sound_device", "default")
    /\ cfg.logdir = IF args.r # Null THEN args.r ELSE Said("logdir", ".")
    /\ cfg.mysql_db = Said("mysql_db", Null)
    /\ Len(cfg.uplink_config) = Cardinality({k \in DOMAIN text : text[k].word = <<"uplink">>})
    /\ valid_aprsis_call(cfg.mycall) \/ LastLine(text, "mycall") = 0

(***************************************************************************)
(* A copy that was not completed is not read in the run that made it; only *)
(* what an earlier run left behind is taken for a configuration.           *)
(***************************************************************************)
HalfCopyNotRead ==
  phase \in {"parse", "check", "configured"} /\ partial /\ ~inherited => text = <<>> \/ text = Given
=============================================================================
