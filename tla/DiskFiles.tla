----------------------------- MODULE DiskFiles ------------------------------
(***************************************************************************)
(* base::diskio: a flat that can be written to a file and read back, in    *)
(* one of two formats.  A compressed file holds the byte order, the size,  *)
(* the buffer and a checksum; an XML file holds the fields.  Loading and   *)
(* saving code makes a diskio, fills and writes it, or reads it and takes  *)
(* its fields out in the order they were put, and throws it away.          *)
(*                                                                         *)
(* The program can be killed while it writes a file, which then breaks off *)
(* somewhere; files can come from a machine with another byte order.       *)
(***************************************************************************)
EXTENDS Flat

-----------------------------------------------------------------------------
(***************************************************************************)
(* base::disk_writer_xml: flats written as XML documents, and documents    *)
(* read back by the callbacks of a SAX parser.  A document is the sequence *)
(* of the calls the parser makes for it.  The parser's contexts are kept   *)
(* on a stack that is shared by all reads of the program: a document that  *)
(* breaks off leaves the contexts of its open lists on the stack.          *)
(***************************************************************************)
Modulus(type) == IF Bytes(type) = 2 THEN 65536 ELSE 256

(* value_to_xmlChar: a number is written in decimal, with its sign. *)
value_to_xmlChar(type, bits) ==
    IF Signed(type) /\ bits >= Modulus(type) \div 2 THEN bits - Modulus(type) ELSE bits

(* string_to_sint and string_to_uint: values out of range are cut off. *)
string_to_sint(value, min, max) ==
    IF value < min THEN min ELSE IF value > max THEN max ELSE value

string_to_uint(value, max) ==
    LET v == value % 65536 IN IF v > max THEN max ELSE v

(* param_to_value: the bits of the value that is put into the record. *)
param_to_value(type, text) ==
    CASE type = "bool"   -> IF string_to_sint(text, 0, 1) = 1 THEN 1 ELSE 0
      [] type \in Texts  -> text
      [] Signed(type)    -> string_to_sint(text, -(Modulus(type) \div 2), (Modulus(type) \div 2) - 1)
                                % Modulus(type)
      [] OTHER           -> string_to_uint(text, Modulus(type) - 1) % Modulus(type)

(* The text of an empty element: 0 stands for the empty text. *)
NoText == 0

Start(type, id) == [call |-> "start", type |-> type, id |-> id, text |-> NoText]
Chars(text) == [call |-> "chars", type |-> "", id |-> "", text |-> text]
End(type) == [call |-> "end", type |-> type, id |-> "", text |-> NoText]

(* record_to_xml: one element for each field, with the elements of a list  *)
(* inside.  The parser does not report the text of an empty element.       *)
RECURSIVE record_to_xml(_)
record_to_xml(f) ==
    LET fields == Rest(first(f))
        Element(d) ==
            IF d.type = "list" THEN record_to_xml(get_flat(d))
            ELSE IF d.type \in Texts /\ d.bits = NoText THEN <<>>
            ELSE <<Chars(value_to_xmlChar(d.type, d.bits))>>
    IN  FlattenSeq([i \in 1..Len(fields) |->
            <<Start(fields[i].type, fields[i].name)>> \o Element(fields[i]) \o <<End(fields[i].type)>>])

Document(f) == <<Start("Data", "")>> \o record_to_xml(f) \o <<End("Data")>>

(* data_sax_context: the record being filled, the parameter or list that   *)
(* was begun last, and the state.                                          *)
data_sax_context(record) ==
    [State |-> "UNDEF", Type |-> "unknown", Id |-> "Root", Value |-> NoText, Record |-> record]

Top(stack) == stack[Len(stack)]
SetTop(stack, context) == [stack EXCEPT ![Len(stack)] = context]

data_start_element(stack, type, id) ==
    LET c == Top(stack)
        named == [c EXCEPT !.Id = id, !.Type = type]
    IN  CASE c.State = "UNDEF" ->
                 IF type = "Data" THEN SetTop(stack, [c EXCEPT !.State = "DATA"]) ELSE stack
          [] c.State \in {"DATA", "LIST"} /\ type \notin data_type ->
                 SetTop(stack, named)
          [] c.State \in {"DATA", "LIST"} /\ type = "list" ->
                 Append(SetTop(stack, named), [data_sax_context(NewFlat) EXCEPT !.State = "LIST"])
          [] c.State \in {"DATA", "LIST"} /\ type \in data_type \ {"list"} ->
                 SetTop(stack, [named EXCEPT !.Value = NoText, !.State = "PARAM"])
          [] OTHER -> stack

data_read_characters(stack, text) ==
    LET c == Top(stack)
    IN  IF c.State = "PARAM" THEN SetTop(stack, [c EXCEPT !.Value = text]) ELSE stack

(* The end of a list puts it into the record of the context below. *)
Below(stack) == Len(stack) - 1
(* Mutation: every list goes into the outermost record. *)
Bottom(stack) == 1
Parent(stack) == Below(stack)

data_end_element(stack, type) ==
    LET c == Top(stack)
        field == IF c.Type \in Texts THEN put_string(c.Record, c.Id, param_to_value(c.Type, c.Value))
                 ELSE put_number(c.Record, c.Id, c.Type, param_to_value(c.Type, c.Value))
        parent == stack[Parent(stack)]
    IN  CASE c.State = "PARAM" -> SetTop(stack, [c EXCEPT !.Record = field, !.State = "LIST"])
          [] c.State = "LIST" /\ type # "Data" ->
                 SubSeq([stack EXCEPT ![Parent(stack)] =
                            [parent EXCEPT !.Record = put_flat(parent.Record, parent.Id, c.Record)]],
                        1, Len(stack) - 1)
          [] c.State = "DATA" -> SetTop(stack, [c EXCEPT !.State = "UNDEF"])
          [] OTHER -> stack

Handle(stack, e) ==
    CASE e.call = "start" -> data_start_element(stack, e.type, e.id)
      [] e.call = "chars" -> data_read_characters(stack, e.text)
      [] OTHER            -> data_end_element(stack, e.type)

(* get_state: the contexts after the parser went through the document.     *)
(* The context of the document is pushed first; its record is the result.  *)
Parsed(stack, document, data) ==
    FoldLeft(Handle, Append(stack, data_sax_context(clear(data))), document)

Result(stack, document, data) == Parsed(stack, document, data)[Len(stack) + 1].Record

(* Its destructor takes the last context off the stack. *)
Unwound(stack, document, data) ==
    LET s == Parsed(stack, document, data) IN SubSeq(s, 1, Len(s) - 1)

-----------------------------------------------------------------------------
(* Files. *)

CONSTANTS
    Files,          \* file names
    Fields,         \* <<name, type, bits>> of the fields that are put
    Lists,          \* <<name, fields>> of the flats that are put
    Optional,       \* names of optional fields that are in no file
    Foreign,        \* flats (see Flat) that foreign machines have written
    MaxFields,      \* bound on the fields of a flat
    MaxStack,       \* bound on the contexts left on the stack
    MaxTorn         \* bound on the writes that are cut short

VARIABLES
    record,         \* the flat of the diskio
    Writer,         \* its writer, "none" while not chosen
    phase,          \* "none", "put" or "get": what the caller uses it for
    Stack,          \* data_sax_context::Stack
    disk,           \* file -> what is in it
    result,         \* what the last get_record returned, and for which file
    torn,           \* number of writes that were cut short
    written,        \* history: file -> the fields of its last complete write
    asked,          \* history: the fields (their places) the caller asked for
    got             \* history: the fields it got

diskVars == <<record, Writer, phase, Stack, disk, result, torn, written, asked, got>>

NoFile == [form |-> "none", order |-> Native, block |-> <<>>, document |-> <<>>, intact |-> 0]
GzFile(f) == [form |-> "gz", order |-> f.order, block |-> f.buffer, document |-> <<>>, intact |-> 4]
XmlFile(f) == [form |-> "xml", order |-> Native, block |-> <<>>, document |-> Document(f),
               intact |-> Len(Document(f))]
Size(file) == IF file.form = "gz" THEN 4 ELSE Len(file.document)
Whole(file) == file.intact = Size(file)
NoResult == [value |-> "none", file |-> "none"]

Init ==
    /\ record = NewFlat /\ Writer = "none" /\ phase = "none" /\ Stack = <<>>
    /\ \E f \in {[x \in Files |-> NoFile]} \cup
                [Files -> {NoFile} \cup {GzFile(b) : b \in Foreign}] :
            /\ disk = f
            /\ written = [x \in Files |-> Meaning(f[x].order, f[x].block)]
    /\ result = NoResult /\ torn = 0 /\ asked = <<>> /\ got = <<>>

(* The diskio is made: with a format, or with one that is found out later. *)
diskio(writer, use) ==
    /\ phase = "none"
    /\ use = "get" => Len(Stack) < MaxStack
    /\ record' = NewFlat
    /\ Writer' = writer
    /\ phase' = use
    /\ result' = NoResult
    /\ UNCHANGED <<Stack, disk, torn, written, asked, got>>

Filling == phase = "put" /\ Len(record.buffer) < MaxFields

PutField(f, d) ==
    IF d[2] = "string" THEN put_string(f, d[1], d[3]) ELSE put_number(f, d[1], d[2], d[3])

Put ==
    /\ Filling
    /\ \E d \in Fields : record' = PutField(record, d)
    /\ UNCHANGED <<Writer, phase, Stack, disk, result, torn, written, asked, got>>

(* An object inside the object: its fields in a flat of their own. *)
PutFlat ==
    /\ Filling
    /\ \E d \in Lists : record' = put_flat(record, d[1], FoldLeft(PutField, NewFlat, d[2]))
    /\ UNCHANGED <<Writer, phase, Stack, disk, result, torn, written, asked, got>>

(* get_writer_for_extension: any file of this model may have either. *)
WritersFor == IF Writer = "none" THEN {"gz", "xml"} ELSE {Writer}

FileOf(writer) == IF writer = "gz" THEN GzFile(record) ELSE XmlFile(record)

Discarded == record' = NewFlat /\ Writer' = "none" /\ phase' = "none"

(* put_record, after which the callers throw the diskio away. *)
put_record(f) ==
    /\ phase = "put"
    /\ \E w \in WritersFor : disk' = [disk EXCEPT ![f] = FileOf(w)]
    /\ written' = [written EXCEPT ![f] = Meaning(record.order, record.buffer)]
    /\ Discarded
    /\ UNCHANGED <<Stack, result, torn, asked, got>>

(* The program is killed while it writes, and started again. *)
KilledWriting(f) ==
    /\ phase = "put"
    /\ torn < MaxTorn
    /\ \E w \in WritersFor :
         \E k \in 0..(Size(FileOf(w)) - 1) :
            disk' = [disk EXCEPT ![f] = [FileOf(w) EXCEPT !.intact = k]]
    /\ torn' = torn + 1
    /\ Discarded
    /\ Stack' = <<>>
    /\ result' = NoResult
    /\ UNCHANGED <<written, asked, got>>

(* get_writer_for_filemagic: a file that does not begin with the magic     *)
(* number is taken for XML, an empty one too.                              *)
ReaderFor(f) ==
    IF Writer # "none" THEN Writer
    ELSE IF disk[f].form = "gz" /\ disk[f].intact > 0 THEN "gz" ELSE "xml"

Refused == result' = NoResult
Answer(f, value) == result' = [value |-> value, file |-> f]

(* get_record, first part: a file that is not found in the search path is  *)
(* answered with a pointer to an empty string, which is true; an absolute  *)
(* name is not searched for, and reading it fails.                         *)
NotFound == "true"

get_record_missing(f, absolute) ==
    /\ phase = "get"
    /\ disk[f].form = "none"
    /\ IF absolute THEN Refused ELSE Answer(f, NotFound)
    /\ Discarded
    /\ UNCHANGED <<Stack, disk, torn, written, asked, got>>

(* disk_writer_gz::get_state: the checksum is right only if the whole file *)
(* is there; an XML file has no valid byte order.                          *)
ChecksumRight(f) == disk[f].form = "gz" /\ Whole(disk[f])

get_record_gz(f) ==
    /\ phase = "get"
    /\ disk[f].form # "none"
    /\ ReaderFor(f) = "gz"
    /\ IF ChecksumRight(f)
       THEN /\ Answer(f, "true")
            /\ record' = setBuffer(record, disk[f].order, disk[f].block)
            /\ Writer' = "gz"
            /\ phase' = "open"
       ELSE Refused /\ Discarded
    /\ UNCHANGED <<Stack, disk, torn, written, asked, got>>

(* disk_writer_xml::get_state: the parser fails on a document that breaks  *)
(* off, and on one that is no XML at all.                                  *)
get_record_xml(f) ==
    LET document == IF disk[f].form = "xml" THEN SubSeq(disk[f].document, 1, disk[f].intact)
                    ELSE <<>>
    IN  /\ phase = "get"
        /\ disk[f].form # "none"
        /\ ReaderFor(f) = "xml"
        /\ Stack' = Unwound(Stack, document, record)
        /\ IF disk[f].form = "xml" /\ Whole(disk[f])
           THEN /\ Answer(f, "true")
                /\ record' = Result(Stack, document, record)
                /\ Writer' = "xml"
                /\ phase' = "open"
           ELSE Refused /\ Discarded
        /\ UNCHANGED <<disk, torn, written, asked, got>>

InFile == IF result.file \in Files THEN written[result.file] ELSE <<>>
Asked == IF asked = <<>> THEN 0 ELSE asked[Len(asked)]

(* The caller takes out the next field; it passes over the fields between, *)
(* but never over one of the same name.                                    *)
Get(i) ==
    /\ phase = "open"
    /\ i \in (Asked + 1)..Len(InFile)
    /\ \A j \in (Asked + 1)..(i - 1) : InFile[j].name # InFile[i].name
    /\ asked' = Append(asked, i)
    /\ got' = Append(got, found(record, InFile[i].name))
    /\ record' = get(record, InFile[i].name, FALSE)
    /\ UNCHANGED <<Writer, phase, Stack, disk, result, torn, written>>

(* It asks for an optional field the file does not have. *)
GetOptional(name) ==
    /\ phase = "open"
    /\ record' = get(record, name, TRUE)
    /\ UNCHANGED <<Writer, phase, Stack, disk, result, torn, written, asked, got>>

Close ==
    /\ phase = "open"
    /\ Discarded
    /\ asked' = <<>> /\ got' = <<>>
    /\ result' = NoResult
    /\ UNCHANGED <<Stack, disk, torn, written>>

Next ==
    \/ \E w \in {"none", "gz", "xml"}, use \in {"put", "get"} : diskio(w, use)
    \/ Put
    \/ PutFlat
    \/ \E f \in Files : put_record(f)
    \/ \E f \in Files : KilledWriting(f)
    \/ \E f \in Files, absolute \in BOOLEAN : get_record_missing(f, absolute)
    \/ \E f \in Files : get_record_gz(f)
    \/ \E f \in Files : get_record_xml(f)
    \/ \E i \in 1..Len(InFile) : Get(i)
    \/ \E name \in Optional : GetOptional(name)
    \/ Close

Spec == Init /\ [][Next]_diskVars

-----------------------------------------------------------------------------
(* Whatever the format, the machine a file comes from, and the reads that  *)
(* failed before: a file that was read has the fields, in their order and  *)
(* with their values, of the last write of that file that was completed.   *)
ReadAsWritten ==
    phase = "open" /\ asked = <<>> =>
        Meaning(record.order, record.buffer) = written[result.file]

(* A file that breaks off is never reported as read: neither the checksum  *)
(* nor the parser lets it pass.                                            *)
TornIsRefused ==
    result.value = "true" /\ disk[result.file].form # "none" => Whole(disk[result.file])

(* Fields taken out in the order they were put are the right ones, though  *)
(* names repeat, fields are passed over and optional ones are missing.     *)
TakenInOrder ==
    phase = "open" =>
        /\ \A k \in 1..Len(asked) :
              got[k] # <<>> /\ Meaning(Native, got[k])[1] = InFile[asked[k]]
        /\ record.Success

(* "true on successful loading, false otherwise" (diskio.h).               *)
MissingIsRefused ==
    result.value = "true" => disk[result.file].form # "none"
=============================================================================
