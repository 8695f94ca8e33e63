------------------------------ MODULE Messages ------------------------------
(***************************************************************************)
(* protodec_getdata() of src/src/protodec.c, one step per frame: first the *)
(* sentences (Nmea), then what is read from a message of each type; and    *)
(* what aisdecode() of src/src/gui/gui.c reads from the same message.  A   *)
(* field is its name and the bits it is read from; its value is abstracted *)
(* but for those that choose what is read next.  appid, which is the bits  *)
(* of dac and fi once more, and the printing are left out; the calls to    *)
(* the outputs are in CacheExport, Mysql and Ipc.                          *)
(***************************************************************************)
EXTENDS Nmea

CONSTANTS
  SkipTypes,     \* types the configuration ignores
  Raw            \* raw values of a coordinate, for GuiDecodesSouth

VARIABLE
  fields         \* the fields read from the last frame

vars == <<nmeaVars, fields>>

F(name, from, size) == [name |-> name, from |-> from, size |-> size]

\* Fields that follow each other without a gap.
Run(from, sizes, names) ==
  LET start[i \in DOMAIN sizes] == IF i = 1 THEN from ELSE start[i - 1] + sizes[i - 1]
  IN  {F(names[i], start[i], sizes[i]) : i \in DOMAIN sizes}

-----------------------------------------------------------------------------
(* The fields of each type.                                                *)

protodec_pos ==
  { F("navstat", 38, 2), F("rateofturn", 40, 8), F("sog", 50, 10), F("longitude", 61, 28),
    F("latitude", 89, 27), F("course", 116, 12), F("heading", 128, 9) }

protodec_4 ==
  Run(40, <<12, 4, 5, 5, 6, 6>>, <<"year", "month", "day", "hour", "minute", "second">>)
    \cup { F("longitude", 79, 28), F("latitude", 107, 27) }

Dimensions(from) == Run(from, <<9, 9, 6, 6>>, <<"A", "B", "C", "D">>)

\* Mutant: the destination is looked for where the draught is.
protodec_5Early ==
  { F("imo", 40, 30), F("callsign", 70, 36), F("name", 112, 120), F("shiptype", 232, 8),
    F("draught", 294, 8), F("destination", 120 + 106 + 68, 120) } \cup Dimensions(240)

protodec_5 ==
  { F("imo", 40, 30), F("callsign", 70, 36), F("name", 112, 120), F("shiptype", 232, 8),
    F("draught", 294, 8), F("destination", 120 + 106 + 68 + 8, 120) } \cup Dimensions(240)

protodec_msg_40(start) == { F("people_on_board", start, 13) }

\* msg_start is advanced by the reads that are compiled only: those of
\* datetime, the currents, the waves and the swell are commented out.
protodec_msg_11(start) ==
  { F("latitude", start, 24), F("longitude", start + 24, 25) }
    \cup Run(start + 40, <<7, 7, 9, 9, 11, 7, 10, 9, 2, 8, 9>>,
             <<"wind_speed", "wind_gust", "wind_dir", "wind_gust_dir", "air_temp", "rel_humid",
               "dew_point", "air_press", "air_press_tend", "horiz_visib_nm", "water_level">>)
    \cup { F("wave_height_significant", start + 124, 8), F("water_temp", start + 128, 10) }

protodec_msg_bin(app, start) ==
  CASE app = "weather" -> protodec_msg_11(start)
    [] app = "persons" -> protodec_msg_40(start)
    [] OTHER           -> {}

protodec_6(app) ==
  { F("sequence", 38, 2), F("dst_mmsi", 40, 30), F("retransmitted", 70, 1), F("dac", 72, 10),
    F("fi", 82, 6) } \cup protodec_msg_bin(app, 88)

protodec_8(app) ==
  { F("dac", 40, 10), F("fi", 50, 6) } \cup protodec_msg_bin(app, 56)

\* At most four acknowledgements, of those that the length leaves room for.
protodec_7_13(len) == {F("ack", 40 + 32 * i, 32) : i \in {j \in 0 .. 3 : 72 + 32 * j <= len}}

protodec_18 ==
  { F("sog", 46, 10), F("longitude", 57, 28), F("latitude", 85, 27), F("course", 112, 12),
    F("heading", 124, 9) }

protodec_19 == { F("name", 143, 120), F("shiptype", 263, 8) } \cup Dimensions(271)

protodec_20(len) == {F("reserve", 40 + 30 * i, 30) : i \in {j \in 0 .. 3 : 70 + 30 * j < len}}

protodec_24(part) ==
  { F("partnr", 38, 2) } \cup
  CASE part = 0 -> { F("name", 40, 120) }
    [] part = 1 -> { F("shiptype", 40, 8), F("callsign", 90, 36) } \cup Dimensions(132)
    [] OTHER    -> {}

FieldsOf(m) ==
  CASE m.type \in 1 .. 3   -> protodec_pos
    [] m.type = 4          -> protodec_4
    [] m.type = 5          -> protodec_5
    [] m.type = 6          -> protodec_6(m.app)
    [] m.type \in {7, 13}  -> protodec_7_13(m.len)
    [] m.type = 8          -> protodec_8(m.app)
    [] m.type = 18         -> protodec_18
    [] m.type = 19         -> protodec_19
    [] m.type = 20         -> protodec_20(m.len)
    [] m.type = 24         -> protodec_24(m.part)
    [] OTHER               -> {}

App(dac, fi) ==
  IF dac # 1 THEN "other" ELSE IF fi = 11 THEN "weather" ELSE IF fi = 40 THEN "persons" ELSE "other"

\* What chooses the fields that are read: type, part of a type 24,
\* application of a 6 or 8, length with the fill bits.
MessageOf(bits) ==
  [type |-> Type(bits),
   part |-> Field(38, 2, bits),
   app  |-> IF Type(bits) = 6 THEN App(Field(72, 10, bits), Field(82, 6, bits))
            ELSE IF Type(bits) = 8 THEN App(Field(40, 10, bits), Field(50, 6, bits))
            ELSE "other",
   len  |-> Len(Padded(bits))]

Init == NmeaInit /\ fields = {}

\* An unsupported type is dropped before anything is written.
Unsupported(bits) ==
  /\ ~Supported(bits)
  /\ frame' = bits
  /\ sent' = <<>>
  /\ fields' = {F("type", 0, 6)}
  /\ UNCHANGED seqnr

\* A type that is skipped by configuration is sent on, but not looked into.
protodec_getdata(bits) ==
  /\ Supported(bits)
  /\ NmeaOut(bits)
  /\ fields' = {F("type", 0, 6), F("mmsi", 8, 30)} \cup
               (IF Type(bits) \in SkipTypes THEN {} ELSE FieldsOf(MessageOf(bits)))

Next == \E bits \in Frames : Unsupported(bits) \/ protodec_getdata(bits)

Spec == Init /\ [][Next]_vars

-----------------------------------------------------------------------------
(* gnuaisgui.                                                              *)

\* Mutant: the heading is taken from where class B sends it.
type1Heading ==
  { F("rateofturn", 40, 8), F("sog", 50, 10), F("longitude", 61, 28), F("latitude", 89, 27),
    F("course", 116, 12), F("heading", 124, 9) }

type1 ==
  { F("rateofturn", 40, 8), F("sog", 50, 10), F("longitude", 61, 28), F("latitude", 89, 27),
    F("course", 116, 12), F("heading", 128, 9) }

type4 == { F("longitude", 79, 28), F("latitude", 107, 27) }

type5 == { F("name", 112, 120), F("destination", 302, 120), F("draught", 294, 8) } \cup Dimensions(240)

aisdecode(t) ==
  CASE t \in 1 .. 3 -> type1
    [] t = 4        -> type4
    [] t = 5        -> type5
    [] OTHER        -> {}

\* A coordinate of so many bits as the daemon reads it: the sign is extended.
Signed(raw, size) == IF raw >= 2 ^ (size - 1) THEN raw - 2 ^ size ELSE raw

\* The latitude the GUI shows of a message: type4() does not extend the sign.
GuiLatitude(t, raw) == IF t = 4 THEN raw ELSE Signed(raw, 27)

-----------------------------------------------------------------------------
(* Properties                                                              *)

Overlap(f, g) == f.from < g.from + g.size /\ g.from < f.from + f.size

Disjoint(fs) == \A f, g \in fs : f # g => ~Overlap(f, g)

(***************************************************************************)
(* No bit is read as part of two fields, in any type, part or application  *)
(* but the weather report: an offset that is off by one field, or by one   *)
(* bit, makes two fields meet somewhere.                                   *)
(***************************************************************************)
FieldsAreDisjoint == MessageOf(frame).app # "weather" => Disjoint(fields)

(***************************************************************************)
(* The lines of protodec_msg_11() that are commented out, "int datetime =  *)
(* protodec_henten(msg_start += 25, 16, buffer)", say where the fields are *)
(* that are read: one after the other, no two from the same bits.          *)
(***************************************************************************)
WeatherFieldsAreDisjoint == MessageOf(frame).app = "weather" => Disjoint(fields)

(***************************************************************************)
(* The daemon and the GUI decode a message separately; a field that both   *)
(* know is read from the same bits.                                        *)
(***************************************************************************)
GuiReadsTheSame ==
  \A f \in fields, g \in aisdecode(Type(frame)) : f.name = g.name => f = g

(***************************************************************************)
(* ChangeLog, 0.0.7: "gnuais can decode positions south of equator".       *)
(***************************************************************************)
GuiDecodesSouth ==
  Type(frame) \in 1 .. 4 => \A raw \in Raw : GuiLatitude(Type(frame), raw) = Signed(raw, 27)
=============================================================================
