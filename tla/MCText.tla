-------------------------------- MODULE MCText --------------------------------
(***************************************************************************)
(* Text for TLC: the patterns and the messages.                            *)
(***************************************************************************)
EXTENDS Text, SequencesExt

Chars == {"%", "d", "{", "}", "T", "x"}

ShortPatterns == UNION {[1..k -> Chars] : k \in 0..4}

------------------------------------------------------------------------------
(* The inputs *)

Types == [Obj |-> M!Obj, HardwareOther |-> M!HardwareOther,
          HardwareInfo |-> M!HardwareInfo, PostDomain |-> M!PostDomain,
          PostInterface |-> M!PostInterface, SysCfg |-> M!SysCfg,
          RsaKey |-> M!RsaKey, PostSimpleData |-> M!PostSimpleData,
          RcvData |-> M!RcvData, ResponseRcv |-> M!ResponseRcv,
          RcvUni |-> M!RcvUni, AppEntry |-> M!AppEntry, OsTime |-> M!OsTime]

\* of the texts that are looked at, those that are UTF-8
Ascii == Seq(0..127)

With(type, f, v) == [M!Clear(type) EXCEPT ![f] = v]

\* values for a field: a number of two bytes, a blank, a text that is no UTF-8
SomeValues(field) ==
    CASE field.kind = "int"   -> IF field.flag THEN {1} ELSE {1, 300}
      [] field.kind = "text"  -> {<<65>>, <<65, 32, 66>>, <<200>>}
      [] field.kind = "texts" -> {<<<<>>, <<65>>>>}
      [] OTHER -> {<<M!Clear(field.type)>>,
                   <<With(field.type, 1, <<66>>)>>, <<With(field.type, 2,
                      IF field.type[2].kind = "int" THEN 7 ELSE <<67>>)>>}

One(type) == UNION {{With(type, f, v) : v \in SomeValues(type[f])} : f \in DOMAIN type}

\* the first and the last field together with each other field
Two(type) ==
    UNION {{M!MergeFrom(type, m, With(type, f, v)) : v \in SomeValues(type[f])} :
               m \in One(type), f \in {1, Len(type)}}

Another(type) ==
    LET field == type[Len(type)] IN
    With(type, Len(type),
         CASE field.kind = "int"   -> IF field.flag THEN 1 ELSE 300
           [] field.kind = "text"  -> <<66>>
           [] field.kind = "texts" -> <<<<>>, <<66>>>>
           [] OTHER -> <<With(field.type, 2, <<66>>)>>)

Case(type, msg, into, known, file) ==
    [fn |-> "message", type |-> type, msg |-> msg, into |-> into,
     known |-> known, file |-> file]

Sent ==
    UNION {{Case(Types[t], m, n, Len(Types[t]) - u, FALSE) :
                m \in {M!Clear(Types[t])} \cup Two(Types[t]),
                n \in {M!Clear(Types[t]), Another(Types[t])}, u \in {0, 1}} :
               t \in DOMAIN Types}

\* ids of every length up to 14, one with a blank, one not UTF-8, and one of
\* which the second byte of the length is a blank
Ids == {[i \in 1..n |-> 65] : n \in 0..14 \cup {1152}} \cup {<<65, 32, 66>>, <<65, 200>>}

Saved ==
    {Case(M!HardwareInfo,
          [M!Clear(M!HardwareInfo) EXCEPT ![4] = id, ![5] = cpu],
          M!Clear(M!HardwareInfo), 11, TRUE) :
        id \in Ids, cpu \in {<<>>, <<With(M!Obj, 1, <<66>>)>>}}

SmallInputs == Sent \cup Saved
==============================================================================
