-------------------------------- MODULE Flat --------------------------------
(***************************************************************************)
(* base::flat: the record every object of the game is saved to and loaded  *)
(* from.  A flat is a buffer of fields in the order they were put, each    *)
(* with a name (which need not be unique, and may be empty), a type and    *)
(* its data.  The first read parses the buffer into a list of fields, that *)
(* is kept; reads search that list from the field after the one read last, *)
(* and start again at its front when they reach its end.                   *)
(*                                                                         *)
(* The buffer of bytes is abstracted to the sequence of fields.  The data  *)
(* of a field is `bits' (a number of as many bits as its type has, or the  *)
(* number of a text) and, for a list, the flat inside it.  The numbers of  *)
(* 16 bits keep the order of their bytes: a flat that comes from a machine *)
(* with another byte order is swapped when it is parsed.                   *)
(***************************************************************************)
EXTENDS Integers, Sequences, SequencesExt

Native == "L"                    \* DATA_BYTE_ORDER of this machine
NotParsed == <<[name |-> "NULL", type |-> "unknown", bits |-> 0, order |-> Native, list |-> <<>>]>>

Numbers == {"bool", "u_int8", "s_int8", "u_int16", "s_int16"}
Texts == {"string"}
data_type == Numbers \cup Texts \cup {"list"}

Bytes(type) == IF type \in {"u_int16", "s_int16"} THEN 2 ELSE 1
Signed(type) == type \in {"s_int8", "s_int16"}

(* A piece of data in the buffer. *)
Field(name, type, bits, order, list) ==
    [name |-> name, type |-> type, bits |-> bits, order |-> order, list |-> list]

(* A flat: the byte order and the fields of its buffer, the parsed list    *)
(* (Data), the position in it (Decoded; one past its end stands for NULL)  *)
(* and whether every required field was found (Success).                   *)
NewFlat == [order |-> Native, buffer |-> <<>>, Data |-> NotParsed,
            Decoded |-> 1, Success |-> TRUE]

(* Another buffer takes the place of the flat's own. *)
setBuffer(f, order, buffer) ==
    [f EXCEPT !.order = order, !.buffer = buffer, !.Data = NotParsed, !.Success = TRUE]

clear(f) == setBuffer(f, f.order, <<>>)

put(f, field) == [f EXCEPT !.buffer = Append(@, field)]

(* The values written by put_bool .. put_sint32, put_string and put_flat;  *)
(* a list keeps the byte order of the flat it is made from.                *)
put_number(f, name, type, bits) == put(f, Field(name, type, bits, Native, <<>>))
put_string(f, name, text) == put(f, Field(name, "string", text, Native, <<>>))
put_flat(f, name, out) == put(f, Field(name, "list", 0, out.order, out.buffer))

Swap16(n) == (n % 256) * 256 + (n \div 256)

ParseAll(order, buffer) ==
    [i \in 1..Len(buffer) |->
        IF order # Native /\ Bytes(buffer[i].type) = 2
        THEN [buffer[i] EXCEPT !.bits = Swap16(@)]
        ELSE buffer[i]]

(* Only a flat that has not been parsed yet, and is not empty, is parsed:  *)
(* what is put into it afterwards is not in the list.                      *)
parse(f) ==
    IF f.Data # NotParsed THEN f
    ELSE LET fields == ParseAll(f.order, f.buffer)
         IN  IF fields = <<>> THEN [f EXCEPT !.Decoded = 1]
             ELSE [f EXCEPT !.Data = fields, !.buffer = fields, !.order = Native, !.Decoded = 1]

List(f) == IF f.Data = NotParsed THEN <<>> ELSE f.Data

(* The places at which a field of that name is looked for, in that order:  *)
(* from the current position to the end, then from the front.              *)
Cyclic(f) ==
    LET n == Len(List(f))
    IN  [k \in 1..n |-> IF f.Decoded + k - 1 <= n THEN f.Decoded + k - 1 ELSE f.Decoded + k - 1 - n]

Hits(f, name) == SelectSeq(Cyclic(f), LAMBDA i : List(f)[i].name = name)

(* What get returns, and the flat after it: the position is behind the     *)
(* field that was found, and is not moved by a search that finds nothing.  *)
found(f, name) ==
    LET p == parse(f)
        h == Hits(p, name)
    IN  IF h = <<>> THEN <<>> ELSE <<List(p)[h[1]]>>

get(f, name, optional) ==
    LET p == parse(f)
        h == Hits(p, name)
    IN  IF h # <<>> THEN [p EXCEPT !.Decoded = h[1] + 1]
        ELSE IF optional THEN p
        ELSE [p EXCEPT !.Success = FALSE]

first(f) == [f EXCEPT !.Decoded = 1]

(* next: the list from the current position on. *)
Rest(f) == LET p == parse(f) IN SubSeq(List(p), p.Decoded, Len(List(p)))

(* The flat made of a list that was read with get_flat: the buffer is      *)
(* copied with its byte order.                                             *)
get_flat(field) == setBuffer(NewFlat, field.order, field.list)

(* What the fields mean, whatever machine their bytes come from. *)
RECURSIVE Meaning(_, _)
Meaning(order, buffer) ==
    LET fields == ParseAll(order, buffer)
    IN  [i \in 1..Len(fields) |->
            [name |-> fields[i].name, type |-> fields[i].type, bits |-> fields[i].bits,
             list |-> Meaning(fields[i].order, fields[i].list)]]
=============================================================================
