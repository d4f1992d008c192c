-------------------------------- MODULE Messages --------------------------------
(***************************************************************************)
(* The messages of define.proto as the generated code writes and reads     *)
(* them (src/src/define.pb.cc), byte by byte: they are what the hardware   *)
(* file holds and what an event carries.                                   *)
(*                                                                         *)
(* A behaviour is about one case, doc: the message doc.msg of doc.type is  *)
(* measured, written, handed over whole or cut, and read into doc.into, by *)
(* a program that knows the first doc.known of its fields; doc.file says   *)
(* that it went through the hardware file.                                 *)
(*                                                                         *)
(* A type is the sequence of the kinds of its fields, by field number, and *)
(* a message the sequence of their values: a number, a sequence of bytes,  *)
(* or a sequence for a repeated field, or for a message, which may be      *)
(* absent.  Messages nest only once, and their fields then are numbers and *)
(* texts.  Numbers are not negative and of 31 bits, the bytes read are     *)
(* those of messages: a tag is one byte, with wire type 0 or 2.  What is   *)
(* skipped as unknown is kept by the library, and not by the model.        *)
(***************************************************************************)
EXTENDS Naturals, Sequences

CONSTANTS Utf8,   \* the texts that are UTF-8
          Slop    \* how many zeros the library may put behind a text that is cut

VARIABLES doc,
          stage,  \* "size", "write", "read", and then "parsed" or "failed"
          item,   \* the field the writer is at, and which of its values
          sums,   \* the sizes before each item added up: [item, at]
          bytes, kept, input,   \* written, how many were kept, handed over
          ptr,    \* how far the reader is in input
          sub,    \* the field in whose message the reader is, or 0
          limit,  \* the end of that message
          got     \* the message that is read into

Num == [kind |-> "int", flag |-> FALSE]
Flag == [kind |-> "int", flag |-> TRUE]   \* bool: 0 or 1
Text == [kind |-> "text"]
Texts == [kind |-> "texts"]
Msg(type) == [kind |-> "msg", type |-> type]
Msgs(type) == [kind |-> "msgs", type |-> type]

Obj == <<Text, Text>>
HardwareOther == <<Text, Text, Text>>
HardwareInfo == <<Num, Text, Text, Text, Msgs(Obj), Msgs(Obj), Msgs(Obj),
                  Msgs(Obj), Msgs(Obj), Msgs(Obj), Msg(HardwareOther)>>
PostDomain == <<Text, Num>>
PostInterface == <<Msgs(PostDomain)>> \o [i \in 1..12 |-> Text]
SysCfg == <<Flag, Flag, Num>>
RsaKey == <<Text, Text>>
PostSimpleData == <<Num, Text, Text, Texts>>
RcvData == <<Text, Text>>
ResponseRcv == <<Num, Text, Msg(RcvData)>>
RcvUni == <<Text>>
AppEntry == <<Num, Num, Text, Text, Text>>
OsTime == <<Num, Num>>

Single == {"int", "text"}
Nested == {"msg", "msgs"}

Default(field) == IF field.kind = "int" THEN 0 ELSE <<>>

Clear(type) == [f \in DOMAIN type |-> Default(type[f])]

\* add_x(), and mutable_x(), which creates a message that is absent
add(m, f, v) == [m EXCEPT ![f] = Append(@, v)]
mutable(type, m, f) ==
    IF m[f] = <<>> THEN [m EXCEPT ![f] = <<Clear(type[f].type)>>] ELSE m

------------------------------------------------------------------------------
(* The cases that are looked at *)

Number31 == {n \in Nat : n <= 2147483647}

Byte == 0..255

String == {t \in Seq(Byte) : Len(t) < 134217728}

Scalar(field) ==
    IF field.kind = "text" THEN String
    ELSE IF field.flag THEN {0, 1} ELSE Number31

Element(type) ==
    IF Len(type) = 2 THEN Scalar(type[1]) \X Scalar(type[2])
    ELSE Scalar(type[1]) \X Scalar(type[2]) \X Scalar(type[3])

Values(field) ==
    IF field.kind \in Single THEN Scalar(field)
    ELSE IF field.kind = "texts" THEN Seq(String)
    ELSE {s \in Seq(Element(field.type)) : field.kind = "msg" => Len(s) <= 1}

IsType(type, kinds, sizes) ==
    /\ type \in Seq({type[f] : f \in DOMAIN type}) /\ Len(type) \in sizes
    /\ \A f \in DOMAIN type :
           /\ type[f].kind \in kinds
           /\ type[f].kind = "int" => type[f].flag \in BOOLEAN

IsMessage(type, m) ==
    m = [f \in DOMAIN type |-> m[f]] /\ \A f \in DOMAIN type : m[f] \in Values(type[f])

\* Only a HardwareInfo is stored in a file, and read from it after a Clear().
WellFormed(d) ==
    /\ IsType(d.type, Single \cup Nested \cup {"texts"}, 1..15)
    /\ \A f \in DOMAIN d.type :
           d.type[f].kind \in Nested => IsType(d.type[f].type, Single, {2, 3})
    /\ IsMessage(d.type, d.msg) /\ IsMessage(d.type, d.into)
    /\ d.known \in 0..Len(d.type) /\ d.file \in BOOLEAN
    /\ d.file => d.type = HardwareInfo /\ d.known = 11 /\ d.into = Clear(d.type)

------------------------------------------------------------------------------
(* Numbers: seven bits in a byte, the low ones first *)

VarSize(n) ==
    IF n < 128 THEN 1 ELSE IF n < 16384 THEN 2 ELSE IF n < 2097152 THEN 3
    ELSE IF n < 268435456 THEN 4 ELSE 5

Bits(n, k) ==
    (n \div (IF k = 1 THEN 1 ELSE IF k = 2 THEN 128 ELSE IF k = 3 THEN 16384
             ELSE IF k = 4 THEN 2097152 ELSE 268435456)) % 128

Varint(n) ==
    [k \in 1..VarSize(n) |-> Bits(n, k) + (IF k < VarSize(n) THEN 128 ELSE 0)]

Least(S) == CHOOSE x \in S : \A y \in S : x <= y

\* The number behind position p, and how many bytes it takes: 0 if it is cut.
ReadNumber(s, p, end) ==
    LET lasts == {k \in 1..5 : p + k <= end /\ s[p + k] < 128}
        size == IF lasts = {} THEN 0 ELSE Least(lasts)
        bits(k) == IF p + k <= end /\ (lasts = {} \/ k <= size) THEN s[p + k] % 128 ELSE 0
    IN [size |-> size,
        value |-> bits(1) + 128 * (bits(2) + 128 * (bits(3) + 128 * (bits(4) + 128 * bits(5))))]

------------------------------------------------------------------------------
(* What is written of a field, and how much ByteSizeLong says it is *)

Wire(field) == IF field.kind = "int" THEN 0 ELSE 2

\* the tag of a field, its number, and the bytes of a length-delimited one
Written(f, wire, n, body) == <<8 * f + wire>> \o Varint(n) \o body

number(field, v) == IF field.kind = "int" THEN v ELSE Len(v)
text(field, v) == IF field.kind = "int" THEN <<>> ELSE v

\* A default is not written.
PutScalar(f, field, v) ==
    IF v = Default(field) THEN <<>>
    ELSE Written(f, Wire(field), number(field, v), text(field, v))

ScalarSize(field, v) ==
    IF v = Default(field) THEN 0
    ELSE 1 + VarSize(number(field, v)) + (IF field.kind = "int" THEN 0 ELSE Len(v))

Body(type, v) ==
    PutScalar(1, type[1], v[1]) \o PutScalar(2, type[2], v[2])
        \o (IF Len(type) = 3 THEN PutScalar(3, type[3], v[3]) ELSE <<>>)

ElementSize(type, v) ==
    ScalarSize(type[1], v[1]) + ScalarSize(type[2], v[2])
        + (IF Len(type) = 3 THEN ScalarSize(type[3], v[3]) ELSE 0)

Number(field, v) ==
    IF field.kind \in Nested THEN ElementSize(field.type, v) ELSE number(field, v)

Content(field, v) ==
    IF field.kind \in Nested THEN Body(field.type, v) ELSE text(field, v)

\* An item <<f, i>>: the i-th of the values of field f that are written.
Count(d, f) ==
    IF d.type[f].kind \in Single THEN IF d.msg[f] = Default(d.type[f]) THEN 0 ELSE 1
    ELSE Len(d.msg[f])

Value(d, c) ==
    IF d.type[c[1]].kind \in Single THEN d.msg[c[1]] ELSE d.msg[c[1]][c[2]]

Put(d, c) ==
    LET field == d.type[c[1]] IN
    Written(c[1], Wire(field), Number(field, Value(d, c)), Content(field, Value(d, c)))

Size(d, c) ==
    LET field == d.type[c[1]]
        n == Number(field, Value(d, c)) IN
    1 + VarSize(n) + (IF field.kind = "int" THEN 0 ELSE n)

\* The items are gone through by field number, the empty fields passed over.
AtEnd(d, c) == c[1] > Len(d.type)

Following(d, f) ==
    <<Least({g \in f..(Len(d.type) + 1) : g > Len(d.type) \/ Count(d, g) > 0}), 1>>

After(d, c) ==
    IF c[2] < Count(d, c[1]) THEN <<c[1], c[2] + 1>> ELSE Following(d, c[1] + 1)

------------------------------------------------------------------------------
(* Merging *)

MergeScalar(field, to, from) == IF from = Default(field) THEN to ELSE from

MergeElement(type, to, from) ==
    [k \in DOMAIN type |-> MergeScalar(type[k], to[k], from[k])]

\* Fault: an absent message of from clears the one of to.
FaultMerge(field, to, from) ==
    IF field.kind \in Single THEN MergeScalar(field, to, from)
    ELSE IF field.kind \in {"texts", "msgs"} THEN to \o from
    ELSE from

MergeField(field, to, from) ==
    IF field.kind \in Single THEN MergeScalar(field, to, from)
    ELSE IF field.kind \in {"texts", "msgs"} THEN to \o from
    ELSE IF from = <<>> THEN to
    ELSE IF to = <<>> THEN from
    ELSE <<MergeElement(field.type, to[1], from[1])>>

MergeFrom(type, to, from) ==
    [f \in DOMAIN type |-> MergeField(type[f], to[f], from[f])]

------------------------------------------------------------------------------
(* The word FileUtils::load_from_file reads of a file *)

Space == {9, 10, 11, 12, 13, 32}

\* Fault: the line is read, not the word.
FaultWord(s) ==
    LET ends == {j \in DOMAIN s : s[j] = 10} IN
    IF ends = {} THEN s ELSE SubSeq(s, 1, Least(ends) - 1)

Word(s) ==
    LET plain == {j \in DOMAIN s : s[j] \notin Space}
        first == Least(plain)
        blanks == {j \in DOMAIN s : j > first /\ s[j] \in Space} IN
    IF plain = {} THEN <<>>
    ELSE SubSeq(s, first, IF blanks = {} THEN Len(s) ELSE Least(blanks) - 1)

------------------------------------------------------------------------------
(* Measuring and writing *)

Start == /\ stage = "size" /\ item = Following(doc, 1)
         /\ sums = <<[item |-> Following(doc, 1), at |-> 0]>>

Empty == /\ bytes = <<>> /\ kept = 0 /\ input = <<>>
         /\ ptr = 0 /\ sub = 0 /\ limit = 0 /\ got = <<>>

Rests == stage = "none" /\ item = <<>> /\ sums = <<>> /\ Empty

Init == Start /\ Empty

\* The sizes of all items are added up, here by field number.
ByteSizeLong ==
    /\ stage = "size" /\ ~ AtEnd(doc, item)
    /\ item' = After(doc, item)
    /\ sums' = Append(sums, [item |-> After(doc, item),
                             at |-> sums[Len(sums)].at + Size(doc, item)])
    /\ UNCHANGED <<stage, bytes, kept, input, ptr, sub, limit, got>>

Sized ==
    /\ stage = "size" /\ AtEnd(doc, item)
    /\ stage' = "write" /\ item' = Following(doc, 1)
    /\ UNCHANGED <<sums, bytes, kept, input, ptr, sub, limit, got>>

Serialize ==
    /\ stage = "write" /\ ~ AtEnd(doc, item)
    /\ bytes' = bytes \o Put(doc, item) /\ item' = After(doc, item)
    /\ UNCHANGED <<stage, sums, kept, input, ptr, sub, limit, got>>

\* What the reader gets: the first k bytes, and of a file the word in them.
HandOver ==
    /\ stage = "write" /\ AtEnd(doc, item)
    /\ stage' = "read" /\ got' = doc.into
    /\ \E k \in 0..Len(bytes) :
           LET have == SubSeq(bytes, 1, k) IN
           kept' = k /\ input' = IF doc.file THEN Word(have) ELSE have
    /\ UNCHANGED <<item, sums, bytes, ptr, sub, limit>>

------------------------------------------------------------------------------
(* Reading: _InternalParse of the message, or of the one in its field sub *)

Type == IF sub = 0 THEN doc.type ELSE doc.type[sub].type
ReadEnd == IF sub # 0 /\ limit < Len(input) THEN limit ELSE Len(input)
Tag == input[ptr + 1]
Field == Tag \div 8
Read == ReadNumber(input, ptr + 1, ReadEnd)
From == ptr + 1 + Read.size
Whole == Read.size > 0 /\ From + Read.value <= ReadEnd

AtField == stage = "read" /\ ptr < ReadEnd

Known ==
    /\ Field \in DOMAIN Type /\ (sub = 0 => Field <= doc.known)
    /\ Tag % 8 = Wire(Type[Field])

Here == IF sub = 0 THEN got ELSE got[sub][Len(got[sub])]

Set(v) ==
    LET m == [Here EXCEPT ![Field] = v] IN
    got' = IF sub = 0 THEN m ELSE [got EXCEPT ![sub][Len(got[sub])] = m]

GoOn(ok, to) ==
    IF ok THEN ptr' = to /\ UNCHANGED stage ELSE stage' = "failed" /\ UNCHANGED ptr

VerifyUTF8(t) == t \in Utf8

\* what the library leaves of a text that is cut
Left(have) == {<<>>} \cup {have \o [j \in 1..z |-> 0] : z \in Slop}

ReadInt ==
    /\ AtField /\ Known /\ Type[Field].kind = "int"
    /\ Set(IF Type[Field].flag /\ Read.value > 0 THEN 1 ELSE Read.value)
    /\ GoOn(Read.size > 0, From)
    /\ UNCHANGED <<item, sums, bytes, kept, input, sub, limit>>

ReadText ==
    /\ AtField /\ Known /\ Type[Field].kind \in {"text", "texts"}
    /\ LET body == SubSeq(input, From + 1, From + Read.value)
           have == IF Read.size > 0 THEN SubSeq(input, From + 1, ReadEnd) ELSE <<>> IN
       /\ \E t \in (IF Whole THEN {body} ELSE Left(have)) :
              Set(IF Type[Field].kind = "text" THEN t ELSE Append(Here[Field], t))
       /\ GoOn(Whole /\ VerifyUTF8(body), From + Read.value)
    /\ UNCHANGED <<item, sums, bytes, kept, input, sub, limit>>

\* ParseMessage of the element that was added, or of the message there is.
Open ==
    /\ AtField /\ Known /\ Type[Field].kind \in Nested
    /\ got' = IF Type[Field].kind = "msg" THEN mutable(Type, got, Field)
              ELSE add(got, Field, Clear(Type[Field].type))
    /\ GoOn(Read.size > 0, From)
    /\ IF Read.size > 0 THEN sub' = Field /\ limit' = From + Read.value
       ELSE UNCHANGED <<sub, limit>>
    /\ UNCHANGED <<item, sums, bytes, kept, input>>

Close ==
    /\ stage = "read" /\ sub # 0 /\ ptr = limit
    /\ sub' = 0 /\ limit' = 0
    /\ UNCHANGED <<stage, item, sums, bytes, kept, input, ptr, got>>

\* UnknownFieldParse
Skip ==
    /\ AtField /\ ~ Known
    /\ IF Tag % 8 = 2 THEN GoOn(Whole, From + Read.value) ELSE GoOn(Read.size > 0, From)
    /\ UNCHANGED <<item, sums, bytes, kept, input, sub, limit, got>>

\* The input is at its end; a message in it may not be.
Done ==
    /\ stage = "read" /\ ptr = Len(input) /\ (sub = 0 \/ ptr # limit)
    /\ stage' = IF sub = 0 THEN "parsed" ELSE "failed"
    /\ UNCHANGED <<item, sums, bytes, kept, input, ptr, sub, limit, got>>

Next ==
    \/ ByteSizeLong \/ Sized \/ Serialize \/ HandOver
    \/ ReadInt \/ ReadText \/ Open \/ Close \/ Skip \/ Done

------------------------------------------------------------------------------
(* Properties *)

Over == stage \in {"parsed", "failed"}

\* the part of the message that lies before item c, as far as it is known
Upto(d, c) ==
    [f \in DOMAIN d.type |->
        IF f > d.known \/ f > c[1] THEN Default(d.type[f])
        ELSE IF f < c[1] THEN d.msg[f]
        ELSE IF d.type[f].kind \in Single
        THEN IF c[2] = 1 THEN Default(d.type[f]) ELSE d.msg[f]
        ELSE SubSeq(d.msg[f], 1, c[2] - 1)]

Readable(field, v) ==
    /\ field.kind \in {"text", "texts"} => VerifyUTF8(v)
    /\ field.kind \in Nested =>
           \A k \in DOMAIN field.type : field.type[k].kind = "text" => VerifyUTF8(v[k])

Valid(d) ==
    \A f \in DOMAIN d.type : f <= d.known =>
        \A i \in 1..Count(d, f) : Readable(d.type[f], Value(d, <<f, i>>))

(***************************************************************************)
(* As many bytes are written as ByteSizeLong says.  Reading them adds the  *)
(* message to the one that is read into, as MergeFrom does, unless a text  *)
(* in it is not UTF-8: such a message can be written, with an error in the *)
(* log, and not be read again.  A message that was cut is only read when   *)
(* it was cut between two items, and then the items before are got.        *)
(***************************************************************************)
ReadsBack ==
    Over =>
        LET all == sums[Len(sums)] IN
        /\ Len(bytes) = all.at
        /\ Len(input) = Len(bytes) => (stage = "parsed" <=> Valid(doc))
        /\ stage = "parsed" =>
               \E n \in DOMAIN sums :
                   /\ Len(input) = sums[n].at
                   /\ got = MergeFrom(doc.type, doc.into, Upto(doc, sums[n].item))
        /\ stage = "parsed" /\ Len(input) = Len(bytes) /\ doc.known = Len(doc.type) =>
               got = MergeFrom(doc.type, doc.into, doc.msg)

(***************************************************************************)
(* What load_from_file makes of a hardware message that was saved with the *)
(* id as its first field: the id is found if no byte of it, and none of    *)
(* its length, is a white-space byte and the file was not cut before its   *)
(* end; otherwise only its beginning is, which may have zeros behind it.   *)
(***************************************************************************)
IdSurvives ==
    Over /\ doc.file /\ (\A f \in 1..3 : Count(doc, f) = 0) =>
        LET id == doc.msg[4]
            written == PutScalar(4, Text, id)
            whole == Len(written) <= kept /\ \A j \in DOMAIN written : written[j] \notin Space
        IN IF whole THEN got[4] = id
           ELSE /\ \A j \in DOMAIN got[4] : got[4][j] = 0 \/ (j \in DOMAIN id /\ got[4][j] = id[j])
                /\ (\A j \in DOMAIN id : id[j] # 0) => got[4] # id
================================================================================
