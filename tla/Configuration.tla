--------------------------- MODULE Configuration ----------------------------
(***************************************************************************)
(* base::configuration: the options of the engine, in sections, read from  *)
(* an XML file when the program starts and written when it ends.  An       *)
(* option has a value (a text), a type, a comment, and, by its type, a     *)
(* range or a list of choices.  Options that are asked for and missing are *)
(* added with the default the caller gives.                                *)
(*                                                                         *)
(* A section exists while it has an option.  The XML parser may report the *)
(* text of an element in several pieces (at an entity such as &amp;), and  *)
(* does not report an empty text at all.                                   *)
(***************************************************************************)
EXTENDS Integers, Sequences, SequencesExt, FiniteSetsExt

CONSTANTS
    Keys,           \* <<section, option>>, in the order they are written
    Values,         \* the texts values are made of
    Given,          \* the texts callers and users give
    Number,         \* text -> the number strtol reads, or NaN
    NaN,            \* what Number gives for a text that is no number
    Pieces,         \* text -> the pieces the parser reports it in
    Text,           \* number -> its text
    Ranges,         \* <<min, max>> given to set_range
    Labels,         \* label -> value, the choices that are offered
    Comments,       \* comments of options; NoText is none
    FirstFiles      \* configuration files there may be in the beginning

NoText == ""
Key == {Keys[i] : i \in 1..Len(Keys)}

(* What an entry of a file holds, and where ranges may end. *)
Entry == [key : Key, value : Values, comment : Comments]
Bounds == {0} \cup UNION {{r[1], r[2]} : r \in Ranges}

(* A number is read as it was written. *)
ConfigurationAssumption ==
    /\ Keys \in Seq(Key) /\ Given \subseteq Values /\ NoText \in Comments
    /\ Number \in [Values -> Int] /\ Ranges \subseteq Int \X Int
    /\ \A n \in Bounds : Text[n] \in Values /\ Number[Text[n]] = n /\ n # NaN
    /\ \A v \in Values : Pieces[v] \in Seq(Values)
    /\ \A l \in DOMAIN Labels : Labels[l] \in Values
    /\ \A f \in FirstFiles : f.entries \in Seq(Entry)

VARIABLES
    options,        \* key -> option, or NoOption
    file,           \* the file: key -> value and comment, and how far it goes
    phase,          \* "start", "running" or "over"
    ranged,         \* history: the keys whose range was set
    session         \* history: what the file held when it was read

cfgVars == <<options, file, phase, ranged, session>>

Types == {"UNDEF", "BOOL", "FREE", "RANGE", "CHOICE"}
NoOption ==
    [value |-> NoText, type |-> "none", comment |-> NoText, min |-> 0, max |-> 0, selection |-> NoText]

(* cfg_option, cfg_range and cfg_choice as they are constructed. *)
cfg_option(value, type) == [NoOption EXCEPT !.value = value, !.type = type]

Is(o) == o.type # "none"
Present == {k \in Key : Is(options[k])}

(* get_sections and get_options: only options with a type, if asked so. *)
get_sections(undef) == {k[1] : k \in {p \in Present : undef \/ options[p].type # "UNDEF"}}
get_options(section, undef) ==
    {k \in Present : k[1] = section /\ (undef \/ options[k].type # "UNDEF")}

(* cfg_range::validate: the number in the range next to the value. *)
validate(o) ==
    LET n == Number[o.value]
    IN  IF n # NaN /\ n >= o.min /\ n <= o.max THEN o
        ELSE IF n # NaN /\ n > o.max THEN [o EXCEPT !.value = Text[o.max]]
        ELSE [o EXCEPT !.value = Text[o.min]]

Smaller(a, b) == IF a < b THEN a ELSE b
Larger(a, b) == IF a < b THEN b ELSE a

set_range(o, a, b) == validate([o EXCEPT !.min = Smaller(a, b), !.max = Larger(a, b)])

Assigned(o, v) == [o EXCEPT !.value = v]
set_value(o, v) == IF o.type = "RANGE" THEN validate(Assigned(o, v)) ELSE Assigned(o, v)

(* cfg_choice: the label of a value, and the value of a label. *)
add_choices(o) ==
    LET fits == {l \in DOMAIN Labels : Labels[l] = o.value}
    IN  [o EXCEPT !.selection = IF fits = {} THEN @ ELSE CHOOSE l \in fits : TRUE]

select(o, label) == [o EXCEPT !.value = Labels[label], !.selection = label]

(* configuration::option: an option of another type is made anew from the  *)
(* value alone.                                                            *)
option(o, type) ==
    IF type = "UNDEF" \/ o.type = type THEN o ELSE cfg_option(o.value, type)

Set(k, o) == options' = [options EXCEPT ![k] = o]
add_option(k, o) == Set(k, o)

-----------------------------------------------------------------------------
NoFile == [there |-> FALSE, entries |-> <<>>, whole |-> FALSE]

Init ==
    /\ options = [k \in Key |-> NoOption]
    /\ file \in {NoFile} \cup FirstFiles
    /\ phase = "start"
    /\ ranged = {}
    /\ session = <<>>

(* config_io::write: an entry for each option, a comment before it. *)
Entries ==
    FoldLeft(LAMBDA written, k :
                 IF k[1] \in get_sections(TRUE) /\ k \in get_options(k[1], TRUE)
                 THEN Append(written, [key |-> k, value |-> options[k].value, comment |-> options[k].comment])
                 ELSE written,
             <<>>, Keys)

(* The handlers of the parser.  `c' is cfg_sax_context: the options read   *)
(* and the comment seen last.                                              *)
Context(read) == [read |-> read, comment |-> NoText]
cfg_parse_comment(c, text) == IF text = NoText THEN c ELSE [c EXCEPT !.comment = text]

cfg_read_characters(c, k, text) ==
    [c EXCEPT !.read[k] = [cfg_option(text, "UNDEF") EXCEPT !.comment = c.comment]]

cfg_end_element(c) == [c EXCEPT !.comment = NoText]

ReadEntry(c, e) ==
    cfg_end_element(
        FoldLeft(LAMBDA d, text : cfg_read_characters(d, e.key, text),
                 cfg_parse_comment(c, e.comment), Pieces[e.value]))

(* config_io::read, from a file that may break off. *)
Read ==
    /\ phase = "start"
    /\ options' = FoldLeft(ReadEntry, Context(options), file.entries).read
    /\ session' = file.entries
    /\ phase' = "running"
    /\ UNCHANGED <<file, ranged>>

Running == phase = "running"

(* get_int, get_double: a value that is no number is replaced too. *)
get_int(k, default) ==
    /\ Running
    /\ IF Is(options[k]) /\ Number[options[k].value] # NaN
       THEN UNCHANGED options
       ELSE add_option(k, cfg_option(Text[default], "UNDEF"))
    /\ UNCHANGED <<file, phase, ranged, session>>

get_string(k, default) ==
    /\ Running
    /\ IF Is(options[k]) THEN UNCHANGED options ELSE add_option(k, cfg_option(default, "UNDEF"))
    /\ UNCHANGED <<file, phase, ranged, session>>

(* The caller sets the type, and the range or the choices, of an option.   *)
Typed(k, type) ==
    /\ Running
    /\ Is(options[k])
    /\ Set(k, option(options[k], type))
    /\ ranged' = IF option(options[k], type) = options[k] THEN ranged ELSE ranged \ {k}
    /\ UNCHANGED <<file, phase, session>>

SetRange(k, a, b) ==
    /\ Running
    /\ options[k].type = "RANGE"
    /\ Set(k, set_range(options[k], a, b))
    /\ ranged' = ranged \cup {k}
    /\ UNCHANGED <<file, phase, session>>

AddChoices(k) ==
    /\ Running
    /\ options[k].type = "CHOICE"
    /\ Set(k, add_choices(options[k]))
    /\ UNCHANGED <<file, phase, ranged, session>>

(* The user changes a setting. *)
Select(k, label) ==
    /\ Running
    /\ options[k].type = "CHOICE"
    /\ Set(k, select(options[k], label))
    /\ UNCHANGED <<file, phase, ranged, session>>

SetValue(k, v) ==
    /\ Running
    /\ Is(options[k]) /\ options[k].type # "CHOICE"
    /\ Set(k, set_value(options[k], v))
    /\ UNCHANGED <<file, phase, ranged, session>>

RemoveOption(k) ==
    /\ Running
    /\ Set(k, NoOption)
    /\ ranged' = ranged \ {k}
    /\ UNCHANGED <<file, phase, session>>

(* configuration::write, at the end: not without a section.  The program   *)
(* can be killed while it writes, and what is written then breaks off.     *)
Empty == get_sections(TRUE) = {}
(* Whole, as far as the program gets; also the mutation of write that has *)
(* no look at the sections.                                               *)
WriteAlways == [there |-> TRUE, entries |-> Entries, whole |-> TRUE]
write == IF Empty THEN file ELSE WriteAlways

Over ==
    /\ options' = [k \in Key |-> NoOption]
    /\ phase' = "over"
    /\ ranged' = {} /\ session' = <<>>

(* cleanup, which also follows a start that failed before the reading. *)
Quit ==
    /\ phase \in {"start", "running"}
    /\ file' = write
    /\ Over

KilledWriting ==
    /\ Running
    /\ ~Empty
    /\ \E n \in 0..(Len(Entries) - 1) :
         file' = [there |-> TRUE, entries |-> SubSeq(Entries, 1, n), whole |-> FALSE]
    /\ Over

Restart ==
    /\ phase = "over"
    /\ phase' = "start"
    /\ UNCHANGED <<options, file, ranged, session>>

Next ==
    \/ Read
    \/ \E k \in Key, r \in Ranges : get_int(k, r[1])
    \/ \E k \in Key, v \in Given : get_string(k, v)
    \/ \E k \in Key, t \in Types \ {"UNDEF"} : Typed(k, t)
    \/ \E k \in Key, r \in Ranges : SetRange(k, r[1], r[2])
    \/ \E k \in Key : AddChoices(k)
    \/ \E k \in Key, l \in DOMAIN Labels : Select(k, l)
    \/ \E k \in Key, v \in Given : SetValue(k, v)
    \/ \E k \in Key : RemoveOption(k)
    \/ Quit
    \/ KilledWriting
    \/ Restart

Spec == Init /\ [][Next]_cfgVars

-----------------------------------------------------------------------------
(* Once the range of an option is set, its value is a number in the range, *)
(* whatever was read from the file and whatever is set later; and a label  *)
(* that was selected stands for the value.                                 *)
SettingsValid ==
    \A k \in Key :
        /\ k \in ranged =>
              LET n == Number[options[k].value]
              IN  n # NaN /\ n \in options[k].min..options[k].max
        /\ options[k].type = "CHOICE" /\ options[k].selection # NoText =>
              Labels[options[k].selection] = options[k].value

(* A comment read from the file belongs to the option it stands before: it *)
(* is never given to another, be the option's own text empty or in pieces. *)
CommentsInPlace ==
    \A k \in Key :
        options[k].comment # NoText =>
            \E i \in 1..Len(session) :
                session[i].key = k /\ session[i].comment = options[k].comment

(* A start that fails before the file is read leaves the file as it is     *)
(* (the comment in configuration::write).                                  *)
NotOverridden == [][phase = "start" => UNCHANGED file]_cfgVars
=============================================================================
