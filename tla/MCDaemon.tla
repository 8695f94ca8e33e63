------------------------------ MODULE MCDaemon ------------------------------
\* An instance of Daemon: the files and command lines that are tried.
EXTENDS Daemon

Line(word, a) == [word |-> word, args |-> a]

MyCall    == Line(<<"my", "call">>, <<6>>)
Uplink(u) == Line(<<"uplink">>, <<u, "json", "url">>)

\* The example, and one an administrator has edited.
MCTemplates ==
  [etc   |-> <<MyCall, Uplink("a")>>,
   share |-> <<MyCall, Line(<<"s", "ound", "device">>, <<"default">>)>>]

MCGiven ==
  <<Line(<<"#">>, <<>>), Line(<<"my", "sql_", "db">>, <<"ais">>),
    Line(<<"s", "ound", "infile">>, <<"a.raw">>), Line(<<"s", "ound">>, <<"hw">>),
    Line(<<"s", "tatsinterval">>, <<<< <<1, "m">>, <<30, "s">> >>>>),
    Line(<<"s", "kip_type">>, <<5>>), Line(<<"l", "atitude">>, <<60>>),
    Line(<<"l", "o", "ngitude">>, <<25>>), Line(<<"my", "sql_", "keepsmall">>, <<"yes">>)>>

\* With abbreviations and repetitions, with a callsign that is too long, with an
\* uplink that lacks its address.
MCUserTexts ==
  {<<Line(<<"s", "ound", "infile">>, <<"a.raw">>), Uplink("a"), Uplink("b"),
     Line(<<"l">>, <<"logs">>), Line(<<"s", "ound", "infile">>, <<"b.raw">>)>>,
   <<Line(<<"my">>, <<13>>)>>,
   <<Line(<<"uplink">>, <<"a", "json">>)>>}

MCCommandLines ==
  LET Plain == [c |-> FALSE, l |-> Null, s |-> Null, r |-> Null, HOME |-> TRUE,
               installed |-> {"etc", "share"}]
  IN  {Plain, [Plain EXCEPT !.installed = {}], [Plain EXCEPT !.HOME = FALSE],
       [Plain EXCEPT !.c = TRUE, !.l = "c.raw", !.r = "/var/log"]}
=============================================================================
