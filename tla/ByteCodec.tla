------------------------------ MODULE ByteCodec ------------------------------
(***************************************************************************)
(* byteWriter and byteReader (src/networking/byteCodec.hpp), and records   *)
(* put and got field by field.                                             *)
(*                                                                         *)
(* A scalar of more than one byte takes two here, the least that can be    *)
(* cut in the middle.  A layout is the list of the fields of a record in   *)
(* their order; some are only there when another field, which is read      *)
(* before them, has one of some values.                                    *)
(***************************************************************************)
EXTENDS Integers, Sequences, SequencesExt

Base == 256

\* Forms of a field; those of a number are its size.
Byte    == 1
Wide    == 2
Bool    == 3
Counted == 4   \* a run of bytes with its length in front

Always == "Always"

Field(name, form)           == [name |-> name, form |-> form, of |-> Always, in |-> {}]
FieldIf(of, in, name, form) == [name |-> name, form |-> form, of |-> of, in |-> in]

There(rec, f) == f.of = Always \/ rec[f.of] \in f.in

-----------------------------------------------------------------------------
PutScalar(value, size) ==
    IF size = Byte THEN <<value % Base>> ELSE <<value % Base, (value \div Base) % Base>>

PutBytes(data) == PutScalar(Len(data), Wide) \o data

PutField(value, form) ==
    CASE form = Counted -> PutBytes(value)
      [] form = Bool    -> PutScalar(IF value THEN 1 ELSE 0, Byte)
      [] OTHER          -> PutScalar(value, form)

PutFields(rec, layout) ==
    FlattenSeq([i \in DOMAIN layout |->
                   IF There(rec, layout[i]) THEN PutField(rec[layout[i].name], layout[i].form)
                   ELSE <<>>])

\* A u32 count, then the elements.
PutList(list, layout) ==
    PutScalar(Len(list), Wide) \o FlattenSeq([i \in DOMAIN list |-> PutFields(list[i], layout)])

-----------------------------------------------------------------------------
\* A reader, and the record with the fields it has got so far; the others have a default.
Reader(bytes, defaults) == [in |-> bytes, pos |-> 0, ok |-> TRUE, got |-> defaults]

Fits(r, size) == r.ok /\ Len(r.in) - r.pos >= size

Fail(r) == [r EXCEPT !.ok = FALSE]

\* The number in one or two bytes, the lower one first.
Number(bytes) == bytes[1] + (IF Len(bytes) = Wide THEN Base * bytes[2] ELSE 0)

Ahead(r, size) == SubSeq(r.in, r.pos + 1, r.pos + size)

Got(r, name, size, value) == [r EXCEPT !.pos = @ + size, !.got[name] = value]

GetScalar(r, name, size) ==
    IF Fits(r, size) THEN Got(r, name, size, Number(Ahead(r, size))) ELSE Fail(r)

\* Slip: a run that is longer than what is left is cut short.
GetBytes_CutsShort(r, name) ==
    LET size == Number(Ahead(r, Wide))
        run  == SubSeq(r.in, r.pos + Wide + 1, Min({r.pos + Wide + size, Len(r.in)}))
    IN  IF Fits(r, Wide) THEN Got(r, name, Wide + Len(run), run) ELSE Fail(r)

GetBytes(r, name) ==
    LET size == Number(Ahead(r, Wide))
        run  == SubSeq(r.in, r.pos + Wide + 1, r.pos + Wide + size)
    IN  IF Fits(r, Wide) /\ Fits(r, Wide + size) THEN Got(r, name, Wide + size, run)
        ELSE Fail(r)

\* op(r), where TLC evaluates r once.
Once(op(_), r) == CHOOSE result \in {op(value) : value \in {r}} : TRUE

GetField(r, name, form) ==
    CASE form = Counted -> GetBytes(r, name)
      [] form = Bool    -> IF Fits(r, Byte) THEN Got(r, name, Byte, Ahead(r, Byte) # <<0>>)
                           ELSE Fail(r)
      [] OTHER          -> GetScalar(r, name, form)

GetNext(r, f) == IF There(r.got, f) THEN GetField(r, f.name, f.form) ELSE r

GetFields(reader, layout) ==
    LET after[i \in 0 .. Len(layout)] ==
            IF i = 0 THEN reader ELSE Once(LAMBDA r : GetNext(r, layout[i]), after[i - 1])
    IN  after[Len(layout)]

\* An element, added to those that were got before it.
GetElement(reader, layout, defaults) ==
    LET r == GetFields([reader EXCEPT !.got = defaults], layout)
    IN  [r EXCEPT !.got = Append(reader.got, @)]

GetElements(reader, count, layout, defaults) ==
    LET after[i \in 0..count] ==
            IF i = 0 THEN [reader EXCEPT !.got = <<>>]
            ELSE Once(LAMBDA r : GetElement(r, layout, defaults), after[i - 1])
    IN  after[count]

\* The loop over the elements ends with the first that is not there.  An element has a byte at
\* least: a count the input cannot have fails at its end, and the reader with it.
GetCounted(r, name, count, layout, defaults) ==
    IF Fits(r, Wide) /\ Fits(r, Wide + count)
    THEN Once(LAMBDA all : [all EXCEPT !.got = [r.got EXCEPT ![name] = all.got]],
              GetElements([r EXCEPT !.pos = @ + Wide], count, layout, defaults))
    ELSE Fail(r)

GetList(reader, name, layout, defaults) ==
    Once(LAMBDA r : GetCounted(r, name, Number(Ahead(r, Wide)), layout, defaults), reader)

\* ok() && atEnd()
Whole(r) == r.ok /\ r.pos = Len(r.in)
=============================================================================
