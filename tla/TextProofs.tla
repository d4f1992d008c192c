------------------------------ MODULE TextProofs ------------------------------
(***************************************************************************)
(* Proofs about the log: the parser of its patterns, for patterns of any   *)
(* length, and the appenders, for any threads; about the padding, for      *)
(* messages of any length; about the parameters of a url, for any calls;   *)
(* and about the messages, of any type and with any values, whole or cut   *)
(* anywhere.                                                               *)
(***************************************************************************)
EXTENDS Text, FiniteSetTheorems, SequenceTheorems, WellFoundedInduction, TLAPS

(* The parser *)

\* "H" is of the default format.
Items == [item : {"date", "field", "string"}, text : Seq(Char \cup {End, "H"})]

Bounds ==
    /\ log_pattern_ \in Seq(Char)
    /\ index \in Nat /\ index >= 1
    /\ reached \in Nat /\ reached <= Size + 1

LEMMA SizeIsNat == ASSUME log_pattern_ \in Seq(Char) PROVE Size \in Nat
BY DEF Size

LEMMA ReadInBounds ==
    ASSUME Bounds, NEW k \in Nat, k <= Size + 1, Read(k),
           log_pattern_' = log_pattern_, index' \in Nat, index' >= 1
    PROVE  Bounds'
<1>1. Size' = Size
      BY DEF Size
<1>2. reached' \in Nat /\ reached' <= Size + 1
      BY DEF Read, Bounds
<1>3. QED
      BY <1>1, <1>2 DEF Bounds

LEMMA NextBounds ==
    ASSUME Bounds, [Next]_vars PROVE Bounds'
<1>1. CASE UNCHANGED vars
      BY <1>1 DEF vars, Bounds, Size
<1>2. CASE Next
  <2>1. index <= Size /\ log_pattern_' = log_pattern_
        BY <1>2 DEF Next
  <2>2. Size \in Nat /\ index \in Nat /\ index >= 1
        BY SizeIsNat DEF Bounds
  <2>3. CASE Percent \/ Other
    <3>1. Read(index) /\ index' = index + 1
          BY <2>3 DEF Percent, Other
    <3>2. QED
          BY <2>1, <2>2, <3>1, ReadInBounds
  <2>4. CASE OpenDate
    <3>1. Read(Size) /\ index' = index + 1
          BY <2>4 DEF OpenDate
    <3>2. QED
          BY <2>1, <2>2, <3>1, ReadInBounds
  <2>5. CASE BareDate
    <3>1. Read(index + 1) /\ index' = Size + 1
          BY <2>5 DEF BareDate
    <3>2. index + 1 \in Nat /\ index + 1 <= Size + 1 /\ index' \in Nat /\ index' >= 1
          BY <2>1, <2>2, <3>1
    <3>3. QED
          BY <2>1, <3>1, <3>2, ReadInBounds, Zenon
  <2>6. CASE BracedDate
    <3>1. PICK k \in index+1..Size : index' = k + 2 /\ Read(k + 1)
          BY <2>6 DEF BracedDate
    <3>2. k + 1 \in Nat /\ k + 1 <= Size + 1 /\ index' \in Nat /\ index' >= 1
          BY <3>1, <2>2
    <3>3. QED
          BY <2>1, <3>1, <3>2, ReadInBounds, Zenon
  <2>7. QED
        BY <1>2, <2>3, <2>4, <2>5, <2>6 DEF Next
<1>3. QED
      BY <1>1, <1>2


\* What one character becomes.
LEMMA ItemType ==
    ASSUME NEW c \in Char \cup {End}
    PROVE  /\ Item(c) \in Items
           /\ Item(c).item = "string" => Item(c).text = <<c>>
           /\ Item("d").item = "date"
<1>1. <<c>> \in Seq(Char \cup {End, "H"}) /\ <<>> \in Seq(Char \cup {End, "H"})
      OBVIOUS
<1>2. Item("d") = Date(<<>>) /\ Date(<<>>).item = "date" /\ Date(<<>>) \in Items
      BY <1>1, CharAssumption DEF Item, Date, Items
<1>3. CASE c \in Letters
      BY <1>1, <1>2, <1>3, CharAssumption DEF Item, Items
<1>4. CASE c \notin Letters /\ c # "d"
      BY <1>1, <1>2, <1>4 DEF Item, Items
<1>5. QED
      BY <1>2, <1>3, <1>4

LEMMA DateType ==
    ASSUME NEW f \in Seq(Char)
    PROVE  Date(f) \in Items /\ Date(f).item = "date"
BY DEF Date, Items

LEMMA AtType ==
    ASSUME log_pattern_ \in Seq(Char), NEW i \in Nat, i >= 1
    PROVE  At(i) \in Char \cup {End} /\ (i <= Size => At(i) \in Char)
BY DEF At, Size

\* The items so far, and that a percent sign among them follows a date.
StrayInv == items_ \in Seq(Items) /\ StrayOnlyAfterDate

\* Appending an item that is no stray, or that follows a date.
LEMMA AppendItem ==
    ASSUME NEW s \in Seq(Items), NEW x \in Items,
           \A i \in DOMAIN s :
               s[i].text \in {<<"%">>, <<End>>} /\ s[i].item = "string" =>
                   i > 1 /\ s[i - 1].item = "date",
           x.text \in {<<"%">>, <<End>>} /\ x.item = "string" =>
               Len(s) > 0 /\ s[Len(s)].item = "date"
    PROVE  /\ Append(s, x) \in Seq(Items)
           /\ Append(s, x)[Len(Append(s, x))] = x /\ Len(Append(s, x)) > 0
           /\ \A i \in DOMAIN Append(s, x) :
                 Append(s, x)[i].text \in {<<"%">>, <<End>>} /\ Append(s, x)[i].item = "string" =>
                     i > 1 /\ Append(s, x)[i - 1].item = "date"
<1> DEFINE t == Append(s, x)
<1>1. t \in Seq(Items) /\ Len(t) = Len(s) + 1 /\ Len(s) \in Nat
      /\ t[Len(s) + 1] = x /\ \A i \in 1..Len(s) : t[i] = s[i]
      BY AppendProperties
<1>2. ASSUME NEW i \in DOMAIN t, t[i].text \in {<<"%">>, <<End>>} /\ t[i].item = "string"
      PROVE  i > 1 /\ t[i - 1].item = "date"
  <2> HIDE DEF t
  <2>1. i \in 1..Len(s) + 1
        BY <1>1
  <2>2. CASE i = Len(s) + 1
        BY <1>1, <1>2, <2>2
  <2>3. CASE i \in 1..Len(s)
    <3>1. i \in DOMAIN s /\ s[i] = t[i]
          BY <1>1, <2>3
    <3>2. i > 1 /\ s[i - 1].item = "date"
          BY <1>2, <3>1
    <3>3. QED
          BY <1>1, <2>3, <3>2
  <2>4. QED
        BY <2>1, <2>2, <2>3, <1>1
<1>3. QED
      BY <1>1, <1>2

LEMMA NextStrayInv ==
    ASSUME Bounds, StrayInv, [Next]_vars
    PROVE  StrayInv'
<1>1. CASE UNCHANGED vars
      BY <1>1 DEF vars, StrayInv, StrayOnlyAfterDate
<1>2. CASE Next
  <2>1. index <= Size /\ index \in Nat /\ index >= 1 /\ log_pattern_ \in Seq(Char)
        BY <1>2 DEF Next, Bounds
  <2>2. \A i \in DOMAIN items_ :
            items_[i].text \in {<<"%">>, <<End>>} /\ items_[i].item = "string" =>
                i > 1 /\ items_[i - 1].item = "date"
        BY DEF StrayInv, StrayOnlyAfterDate
  <2>3. ASSUME NEW x \in Items, items_' = Append(items_, x),
               x.item = "string" => x.text \notin {<<"%">>, <<End>>}
        PROVE  StrayInv'
    <3>1. Append(items_, x) \in Seq(Items)
          /\ \A i \in DOMAIN Append(items_, x) :
                 Append(items_, x)[i].text \in {<<"%">>, <<End>>} /\ Append(items_, x)[i].item = "string" =>
                     i > 1 /\ Append(items_, x)[i - 1].item = "date"
          BY <2>2, <2>3, AppendItem DEF StrayInv
    <3>2. QED
          BY <2>3, <3>1 DEF StrayInv, StrayOnlyAfterDate
  <2>4. CASE Percent
        BY <2>4 DEF Percent, StrayInv, StrayOnlyAfterDate
  <2>5. CASE BareDate
    <3>1. DefaultFormat \in Seq(Char \cup {End, "H"})
      <4>1. "%" \in Char
            BY CharAssumption
      <4>2. \A X : "%" \in X /\ "H" \in X => <<"%", "H">> \in Seq(X)
            OBVIOUS
      <4>3. QED
            BY <4>1, <4>2, Zenon DEF DefaultFormat
    <3>2. Date(DefaultFormat) \in Items /\ Date(DefaultFormat).item = "date"
          BY <3>1 DEF Date, Items
    <3>3. QED
          BY <2>3, <2>5, <3>2 DEF BareDate
  <2>6. CASE OpenDate
        BY <2>3, <2>6, ItemType, CharAssumption DEF OpenDate
  <2>7. CASE Other
    <3>1. At(index) \in Char /\ At(index) # "%"
          BY <2>1, <2>7, AtType DEF Other
    <3>2. Item(At(index)).item = "string" =>
              Item(At(index)).text \notin {<<"%">>, <<End>>}
      <4>1. <<At(index)>> \notin {<<"%">>, <<End>>}
            BY <3>1, CharAssumption
      <4>2. QED
            BY <3>1, <4>1, ItemType
    <3>3. QED
          BY <2>3, <2>7, <3>1, <3>2, ItemType DEF Other
  <2>8. CASE BracedDate
    <3>1. PICK n \in index+1..Size :
             items_' = items_ \o <<Date(SubSeq(log_pattern_, index + 2, n - 1)),
                                   Item(At(n + 1))>>
          BY <2>8 DEF BracedDate
    <3> DEFINE d == Date(SubSeq(log_pattern_, index + 2, n - 1))
               x == Item(At(n + 1))
               s == Append(items_, d)
    <3>2. Size \in Nat /\ n \in Nat /\ n >= 1
          BY <2>1, SizeIsNat
    <3>3. SubSeq(log_pattern_, index + 2, n - 1) \in Seq(Char)
          BY <2>1, <3>2, SubSeqProperties DEF Size
    <3>4. d \in Items /\ d.item = "date"
          BY <3>3, DateType
    <3>5. x \in Items
          BY <2>1, <3>2, AtType, ItemType
    <3> HIDE DEF d, x
    <3>6. /\ s \in Seq(Items) /\ s[Len(s)] = d /\ Len(s) > 0
          /\ \A i \in DOMAIN s :
                 s[i].text \in {<<"%">>, <<End>>} /\ s[i].item = "string" =>
                     i > 1 /\ s[i - 1].item = "date"
          BY <2>2, <3>4, AppendItem DEF StrayInv
    <3>7. items_' = Append(s, x)
      <4>1. items_ \o <<d, x>> = Append(Append(items_, d), x)
            BY <3>4, <3>5, ConcatProperties, AppendProperties DEF StrayInv
      <4>2. QED
            BY <3>1, <4>1 DEF d, x
    <3> HIDE DEF s
    <3>8. Append(s, x) \in Seq(Items)
          /\ \A i \in DOMAIN Append(s, x) :
                 Append(s, x)[i].text \in {<<"%">>, <<End>>} /\ Append(s, x)[i].item = "string" =>
                     i > 1 /\ Append(s, x)[i - 1].item = "date"
          BY <3>4, <3>5, <3>6, AppendItem
    <3>9. QED
          BY <3>7, <3>8 DEF StrayInv, StrayOnlyAfterDate
  <2>9. QED
        BY <1>2, <2>4, <2>5, <2>6, <2>7, <2>8 DEF Next
<1>3. QED
      BY <1>1, <1>2

\* How many items the letters before a position have become.
Before(n) == {j \in Plain : j < n}

LEMMA BeforeFinite ==
    ASSUME log_pattern_ \in Seq(Char), NEW n \in Nat
    PROVE  IsFiniteSet(Before(n)) /\ Cardinality(Before(n)) \in Nat
<1>1. Size \in Int /\ IsFiniteSet(1..Size)
      BY SizeIsNat, FS_Interval
<1>2. Before(n) \subseteq 1..Size
      BY DEF Before, Plain
<1>3. QED
      BY <1>1, <1>2, FS_Subset, FS_CardinalityType

LEMMA BeforeNext ==
    ASSUME log_pattern_ \in Seq(Char), NEW n \in Nat
    PROVE  Cardinality(Before(n + 1)) =
               IF n \in Plain THEN Cardinality(Before(n)) + 1 ELSE Cardinality(Before(n))
<1>1. CASE n \in Plain
  <2>1. Before(n + 1) = Before(n) \cup {n} /\ n \notin Before(n)
        BY <1>1, SizeIsNat DEF Before, Plain
  <2>2. QED
        BY <1>1, <2>1, BeforeFinite, FS_AddElement
<1>2. CASE n \notin Plain
  <2>1. Before(n + 1) = Before(n)
        BY <1>2, SizeIsNat DEF Before, Plain
  <2>2. QED
        BY <1>2, <2>1
<1>3. QED
      BY <1>1, <1>2

\* A letter's item is among those of the letters before any later position.
LEMMA RankInBefore ==
    ASSUME log_pattern_ \in Seq(Char), NEW n \in Nat, NEW i \in Plain, i < n
    PROVE  /\ Rank(i) = Cardinality(Before(i)) + 1
           /\ Rank(i) \in 1..Cardinality(Before(n))
<1>1. i \in Nat
      BY SizeIsNat DEF Plain
<1>2. Rank(i) = Cardinality(Before(i + 1))
  <2>1. {j \in Plain : j <= i} = Before(i + 1)
        BY <1>1, SizeIsNat DEF Before, Plain
  <2>2. QED
        BY <2>1 DEF Rank
<1>3. Before(i + 1) \in SUBSET Before(n)
      BY <1>1, SizeIsNat DEF Before, Plain
<1>4. Cardinality(Before(i + 1)) <= Cardinality(Before(n))
      BY <1>3, BeforeFinite, FS_Subset
<1>5. QED
      BY <1>1, <1>2, <1>4, BeforeNext, BeforeFinite

\* While no date has been met, an item for each letter so far.
RankInv ==
    (\A i \in 1..Size : At(i) # "d") =>
        /\ index <= Size + 1
        /\ Len(items_) = Cardinality(Before(index))
        /\ \A i \in Before(index) : items_[Rank(i)] = Item(At(i))

LEMMA NextRankInv ==
    ASSUME Bounds, StrayInv, RankInv, [Next]_vars
    PROVE  RankInv'
<1>1. CASE UNCHANGED vars
      BY <1>1 DEF vars, RankInv, Before, Plain, Rank, At, Size
<1>2. CASE Next
  <2>1. /\ index <= Size /\ index \in Nat /\ index >= 1
        /\ log_pattern_ \in Seq(Char) /\ log_pattern_' = log_pattern_
        /\ items_ \in Seq(Items) /\ Size \in Nat
        BY <1>2, SizeIsNat DEF Next, Bounds, StrayInv
  <2>2. /\ Size' = Size /\ Plain' = Plain
        /\ \A i : At(i)' = At(i) /\ Rank(i)' = Rank(i)
        BY <2>1 DEF Plain, Rank, At, Size
  <2> SUFFICES ASSUME \A i \in 1..Size : At(i) # "d"
               PROVE  /\ index' <= Size + 1
                      /\ Len(items_') = Cardinality(Before(index)')
                      /\ \A i \in Before(index)' : items_'[Rank(i)] = Item(At(i))
      BY <2>2 DEF RankInv
  <2>3. Percent \/ Other
    <3>1. At(index) # "d"
          BY <2>1
    <3>2. QED
          BY <1>2, <3>1 DEF Next, BareDate, BracedDate, OpenDate
  <2>4. /\ Len(items_) = Cardinality(Before(index))
        /\ \A i \in Before(index) : items_[Rank(i)] = Item(At(i))
        BY DEF RankInv
  <2>5. index' = index + 1 /\ Before(index)' = Before(index + 1)
    <3>1. index' = index + 1
          BY <2>3 DEF Percent, Other
    <3>2. QED
          BY <2>2, <3>1 DEF Before
  <2>6. CASE Percent
    <3>1. index \notin Plain /\ items_' = items_
          BY <2>6 DEF Percent, Plain
    <3>2. Before(index + 1) = Before(index)
          BY <2>1, <3>1 DEF Before, Plain
    <3>3. QED
          BY <2>1, <2>4, <2>5, <3>1, <3>2
  <2>7. CASE Other
    <3>1. index \in Plain /\ items_' = Append(items_, Item(At(index)))
          BY <2>1, <2>7 DEF Other, Plain
    <3>2. Cardinality(Before(index + 1)) = Cardinality(Before(index)) + 1
          BY <2>1, <3>1, BeforeNext
    <3>3. /\ Item(At(index)) \in Items
          /\ Len(items_') = Len(items_) + 1 /\ items_'[Len(items_) + 1] = Item(At(index))
          /\ \A k \in 1..Len(items_) : items_'[k] = items_[k]
          BY <2>1, <3>1, AtType, ItemType, AppendProperties
    <3>4. ASSUME NEW i \in Before(index + 1)
          PROVE  items_'[Rank(i)] = Item(At(i))
      <4>1. CASE i = index
        <5>1. Rank(i) = Len(items_) + 1
              BY <2>1, <2>4, <3>1, <4>1, RankInBefore
        <5>2. QED
              BY <3>3, <4>1, <5>1
      <4>2. CASE i # index
        <5>1. i \in Plain /\ i < index /\ i \in Before(index)
              BY <2>1, <3>4, <4>2 DEF Before, Plain
        <5>2. Rank(i) \in 1..Len(items_)
              BY <2>1, <2>4, <5>1, RankInBefore
        <5>3. QED
              BY <2>4, <3>3, <5>1, <5>2
      <4>3. QED
            BY <4>1, <4>2
    <3>5. QED
          BY <2>1, <2>4, <2>5, <3>2, <3>3, <3>4
  <2>8. QED
        BY <2>3, <2>6, <2>7
<1>3. QED
      BY <1>1, <1>2

PatternInv == Bounds /\ StrayInv /\ RankInv

LEMMA NextPatternInv == PatternInv /\ [Next]_vars => PatternInv'
BY NextBounds, NextStrayInv, NextRankInv DEF PatternInv

LEMMA InitPatternInv == Init \/ ParserRests => PatternInv
<1> SUFFICES ASSUME Init \/ ParserRests
             PROVE  PatternInv
    OBVIOUS
<1>1. log_pattern_ \in Seq(Char) /\ index = 1 /\ items_ = <<>> /\ reached = 0
  <2>1. CASE Init
        BY <2>1, CharAssumption DEF Init
  <2>2. CASE ParserRests
        BY <2>2 DEF ParserRests
  <2>3. QED
        BY <2>1, <2>2
<1>2. Size \in Nat
      BY <1>1, SizeIsNat
<1>3. Bounds /\ StrayInv
      BY <1>1, <1>2 DEF Bounds, StrayInv, StrayOnlyAfterDate
<1>4. Before(index) = {}
      BY <1>1, <1>2 DEF Before, Plain
<1>5. Len(items_) = Cardinality(Before(index)) /\ index <= Size + 1
  <2>1. Cardinality(Before(index)) = 0
        BY <1>4, FS_EmptySet, Zenon
  <2>2. Len(items_) = 0
        BY <1>1
  <2>3. QED
        BY <1>1, <1>2, <2>1, <2>2
<1>6. QED
      BY <1>3, <1>4, <1>5 DEF PatternInv, RankInv

LEMMA PatternInvHolds == TextSpec => []PatternInv
<1>1. TextInit => PatternInv
      BY InitPatternInv DEF TextInit
<1>2. [TextNext]_textVars => [Next]_vars
      BY DEF TextNext, textVars
<1>3. QED
      BY <1>1, <1>2, NextPatternInv, PTL DEF TextSpec

(***************************************************************************)
(* The parser never reads beyond the null character behind the pattern,    *)
(* whatever the pattern is: neither the look behind a `d' nor the one      *)
(* behind a closing brace.                                                 *)
(***************************************************************************)
THEOREM StaysInBounds == TextSpec => []InBounds
<1>1. PatternInv => InBounds
      BY DEF PatternInv, Bounds, InBounds
<1>2. QED
      BY <1>1, PatternInvHolds, PTL

(***************************************************************************)
(* For every pattern: without a date its items are its letters in their    *)
(* order, and whatever the dates in it, a percent sign or the null         *)
(* character gets among them only behind one.                              *)
(***************************************************************************)
THEOREM PatternIsParsed == TextSpec => []ItemsAreThePattern
<1>1. PatternInv => ItemsAreThePattern
  <2> SUFFICES ASSUME PatternInv, index > Size, \A i \in 1..Size : At(i) # "d"
               PROVE  /\ Len(items_) = Cardinality(Plain)
                      /\ \A i \in Plain : items_[Rank(i)] = Item(At(i))
      BY DEF PatternInv, StrayInv, ItemsAreThePattern, LettersInOrder
  <2>1. Before(index) = Plain
        BY SizeIsNat DEF PatternInv, Bounds, Before, Plain
  <2>2. QED
        BY <2>1 DEF PatternInv, RankInv
<1>2. QED
      BY <1>1, PatternInvHolds, PTL

------------------------------------------------------------------------------
(* The appenders *)

LogTypeOK ==
    /\ pc \in [Threads -> {"idle", "lock", "print"}]
    /\ at \in [Threads -> 1..3]
    /\ \A t \in Threads : pc[t] # "idle" => at[t] \in 1..2
    /\ level \in [Threads -> Nat]
    /\ events \in [Threads -> Seq(Nat)]
    /\ mutex_ \in [1..2 -> Threads \cup {NoThread}]
    /\ part \in [Threads -> Nat]
    /\ out \in [1..2 -> Seq(Threads \X Nat \X Nat)]

\* A thread prints to an appender only with the mutex of that appender.
PrintsLocked ==
    \A t \in Threads, a \in 1..2 : mutex_[a] = t <=> pc[t] = "print" /\ at[t] = a

\* In log() a thread is about its last event, and what it has begun to print
\* is the end of what the appender has put out.
AboutLast(t) ==
    /\ pc[t] # "idle" =>
          Len(events[t]) > 0 /\ level[t] = events[t][Len(events[t])]
    /\ pc[t] = "print" /\ part[t] > 0 =>
          /\ ~L!Ignored(t)
          /\ Len(out[at[t]]) > 0
          /\ out[at[t]][Len(out[at[t]])] = <<t, Len(events[t]), part[t]>>

InEvent == \A t \in Threads : AboutLast(t)

\* The last event of a thread is still to be printed by an appender.
Due(t, a) ==
    \/ pc[t] = "lock" /\ at[t] <= a
    \/ pc[t] = "print" /\ (at[t] < a \/ (at[t] = a /\ part[t] = 0))

\* An appender has put out the loud events of a thread but the one that is due.
PrintedSoFar ==
    \A t \in Threads, a \in 1..2 :
        L!Printed(t, a) = IF Due(t, a) THEN L!Loud(t) \ {Len(events[t])} ELSE L!Loud(t)

Ascending ==
    \A t \in Threads, a \in 1..2 : \A i, j \in L!First(t, a) :
        i < j => out[a][i][2] < out[a][j][2]

LogInv ==
    /\ LogTypeOK /\ PrintsLocked /\ InEvent
    /\ PrintedSoFar /\ Ascending /\ L!EventsWhole

LEMMA AppendersAre ==
    /\ DOMAIN L!appenders_ = 1..2 /\ Len(L!appenders_) = 2
    /\ \A a \in 1..2 : L!Pieces(a) \in 1..2
BY DEF L!appenders_, L!Pieces

LEMMA InitLogInv == L!Init => LogInv
<1> SUFFICES ASSUME L!Init
             PROVE  LogInv
    OBVIOUS
<1> USE AppendersAre DEF L!Init
<1>1. LogTypeOK
      BY DEF LogTypeOK
<1>2. PrintsLocked /\ InEvent
      BY LogAssumption DEF PrintsLocked, InEvent, AboutLast
<1>3. \A t, a : L!First(t, a) \subseteq DOMAIN out[a]
      BY DEF L!First
<1>4. \A a \in 1..2 : DOMAIN out[a] = {}
      OBVIOUS
<1>5. \A t, a : a \in 1..2 => L!First(t, a) = {}
      BY <1>3, <1>4
<1>6. \A t \in Threads : L!Loud(t) = {}
      BY DEF L!Loud
<1>7. PrintedSoFar
      BY <1>5, <1>6 DEF PrintedSoFar, L!Printed
<1>8. Ascending
      BY <1>5 DEF Ascending
<1>9. L!EventsWhole
      BY <1>4 DEF L!EventsWhole
<1>10. QED
       BY <1>1, <1>2, <1>7, <1>8, <1>9 DEF LogInv

LEMMA NextLogTypeOK == LogTypeOK /\ [L!Next]_logger => LogTypeOK'
<1> SUFFICES ASSUME LogTypeOK, [L!Next]_logger
             PROVE  LogTypeOK'
    OBVIOUS
<1> USE DEF LogTypeOK
<1>1. CASE UNCHANGED logger
      BY <1>1 DEF logger
<1>2. ASSUME NEW t \in Threads, NEW l \in Levels, L!Log(t, l)
      PROVE  LogTypeOK'
      BY <1>2, LogAssumption DEF L!Log
<1>3. ASSUME NEW t \in Threads, L!Lock(t)
      PROVE  LogTypeOK'
      BY <1>3 DEF L!Lock
<1>4. ASSUME NEW t \in Threads, L!PrintPiece(t)
      PROVE  LogTypeOK'
  <2>1. <<t, Len(events[t]), part[t] + 1>> \in Threads \X Nat \X Nat
        OBVIOUS
  <2>2. at[t] \in 1..2 /\ out[at[t]] \in Seq(Threads \X Nat \X Nat)
        BY <1>4 DEF L!PrintPiece
  <2>3. out' \in [1..2 -> Seq(Threads \X Nat \X Nat)]
        BY <1>4, <2>1, <2>2, AppendProperties DEF L!PrintPiece
  <2>4. QED
        BY <1>4, <2>3, SMTT(20) DEF L!PrintPiece
<1>5. ASSUME NEW t \in Threads, L!Unlock(t)
      PROVE  LogTypeOK'
  <2>1. at[t] \in 1..2 /\ at' = [at EXCEPT ![t] = @ + 1]
        /\ pc' = [pc EXCEPT ![t] = IF at[t] = 2 THEN "idle" ELSE "lock"]
        BY <1>5, AppendersAre DEF L!Unlock
  <2>2. /\ pc' \in [Threads -> {"idle", "lock", "print"}]
        /\ at' \in [Threads -> 1..3]
        /\ \A u \in Threads : pc'[u] # "idle" => at'[u] \in 1..2
        BY <2>1
  <2>3. mutex_' \in [1..2 -> Threads \cup {NoThread}]
        BY <1>5 DEF L!Unlock
  <2>4. QED
        BY <1>5, <2>2, <2>3 DEF L!Unlock
<1>6. QED
      BY <1>1, <1>2, <1>3, <1>4, <1>5 DEF L!Next, L!Go

LEMMA NextPrintsLocked ==
    LogTypeOK /\ PrintsLocked /\ [L!Next]_logger => PrintsLocked'
<1> SUFFICES ASSUME LogTypeOK, PrintsLocked, [L!Next]_logger
             PROVE  PrintsLocked'
    OBVIOUS
<1> USE LogAssumption, AppendersAre DEF LogTypeOK, PrintsLocked
<1>1. CASE UNCHANGED logger
      BY <1>1 DEF logger
<1>2. ASSUME NEW t \in Threads, NEW l \in Levels, L!Log(t, l)
      PROVE  PrintsLocked'
  <2>1. /\ pc[t] = "idle" /\ pc' = [pc EXCEPT ![t] = "lock"]
        /\ at' = [at EXCEPT ![t] = 1] /\ mutex_' = mutex_
        BY <1>2, Zenon DEF L!Log
  <2>2. DOMAIN pc = Threads /\ DOMAIN at = Threads
        OBVIOUS
  <2> HIDE DEF LogTypeOK
  <2>3. QED
        BY <2>1, <2>2
<1>3. ASSUME NEW t \in Threads, L!Lock(t)
      PROVE  PrintsLocked'
      BY <1>3 DEF L!Lock
<1>4. ASSUME NEW t \in Threads, L!PrintPiece(t)
      PROVE  PrintsLocked'
      BY <1>4 DEF L!PrintPiece
<1>5. ASSUME NEW t \in Threads, L!Unlock(t)
      PROVE  PrintsLocked'
      BY <1>5 DEF L!Unlock
<1>6. QED
      BY <1>1, <1>2, <1>3, <1>4, <1>5 DEF L!Next, L!Go

\* What a piece adds to the output of its appender, and to no other.
LEMMA PieceOut ==
    ASSUME LogTypeOK, NEW t \in Threads, L!PrintPiece(t)
    PROVE  LET a == at[t] IN
           /\ a \in 1..2 /\ Len(out[a]) \in Nat
           /\ DOMAIN out[a] = 1..Len(out[a])
           /\ DOMAIN out'[a] = 1..Len(out[a]) + 1 /\ Len(out'[a]) = Len(out[a]) + 1
           /\ \A i \in 1..Len(out[a]) : out'[a][i] = out[a][i]
           /\ out'[a][Len(out[a]) + 1] = <<t, Len(events[t]), part[t] + 1>>
           /\ \A b \in 1..2 : b # a => out'[b] = out[b]
<1> DEFINE a == at[t]
           p == <<t, Len(events[t]), part[t] + 1>>
<1>1. a \in 1..2 /\ out[a] \in Seq(Threads \X Nat \X Nat)
      BY DEF LogTypeOK, L!PrintPiece
<1>2. p \in Threads \X Nat \X Nat
      BY DEF LogTypeOK
<1>3. out'[a] = Append(out[a], p) /\ \A b \in 1..2 : b # a => out'[b] = out[b]
      BY <1>1 DEF LogTypeOK, L!PrintPiece
<1> HIDE DEF p
<1>4. /\ Append(out[a], p) \in Seq(Threads \X Nat \X Nat)
      /\ Len(Append(out[a], p)) = Len(out[a]) + 1
      /\ \A i \in 1..Len(out[a]) : Append(out[a], p)[i] = out[a][i]
      /\ Append(out[a], p)[Len(out[a]) + 1] = p
      BY <1>1, <1>2, AppendProperties
<1>5. QED
      BY <1>1, <1>3, <1>4 DEF p

LEMMA NextInEvent ==
    LogTypeOK /\ PrintsLocked /\ InEvent /\ [L!Next]_logger => InEvent'
<1> SUFFICES ASSUME LogTypeOK, PrintsLocked, InEvent, [L!Next]_logger,
                    NEW u \in Threads
             PROVE  AboutLast(u)'
    BY DEF InEvent
<1> USE DEF LogTypeOK, L!Ignored, AboutLast
<1>0. AboutLast(u)
      BY DEF InEvent
<1>1. CASE UNCHANGED logger
      BY <1>0, <1>1 DEF logger
<1>2. ASSUME NEW t \in Threads, NEW l \in Levels, L!Log(t, l)
      PROVE  AboutLast(u)'
  <2>1. l \in Nat /\ Append(events[t], l)[Len(Append(events[t], l))] = l
        /\ Len(Append(events[t], l)) > 0
        BY LogAssumption, AppendProperties
  <2>2. CASE u = t
        BY <1>2, <2>1, <2>2 DEF L!Log
  <2>3. CASE u # t
        BY <1>0, <1>2, <2>3 DEF L!Log
  <2>4. QED
        BY <2>2, <2>3
<1>3. ASSUME NEW t \in Threads, L!Lock(t)
      PROVE  AboutLast(u)'
  <2>1. CASE u = t
        BY <1>0, <1>3, <2>1 DEF L!Lock
  <2>2. CASE u # t
        BY <1>0, <1>3, <2>2 DEF L!Lock
  <2>3. QED
        BY <2>1, <2>2
<1>4. ASSUME NEW t \in Threads, L!PrintPiece(t)
      PROVE  AboutLast(u)'
  <2>1. UNCHANGED <<pc, at, level, events>>
        BY <1>4 DEF L!PrintPiece
  <2>2. CASE u = t
    <3>1. part'[u] = part[u] + 1 /\ ~L!Ignored(u)
          BY <1>4, <2>2 DEF L!PrintPiece
    <3>2. Len(out'[at[u]]) > 0
          /\ out'[at[u]][Len(out'[at[u]])] = <<u, Len(events[u]), part[u] + 1>>
      <4>1. Len(out'[at[t]]) = Len(out[at[t]]) + 1 /\ Len(out[at[t]]) \in Nat
            /\ out'[at[t]][Len(out[at[t]]) + 1] = <<t, Len(events[t]), part[t] + 1>>
            BY <1>4, PieceOut
      <4>2. QED
            BY <2>2, <4>1
    <3>3. QED
          BY <1>0, <2>1, <3>1, <3>2
  <2>3. CASE u # t
    <3>1. part'[u] = part[u]
          BY <1>4, <2>3 DEF L!PrintPiece
    <3>2. pc[u] = "print" => at[u] # at[t] /\ at[u] \in 1..2
          BY <1>4, <2>3 DEF PrintsLocked, L!PrintPiece
    <3>3. pc[u] = "print" => out'[at[u]] = out[at[u]]
          BY <1>4, <3>2, PieceOut
    <3>4. QED
          BY <1>0, <2>1, <3>1, <3>3
  <2>4. QED
        BY <2>2, <2>3
<1>5. ASSUME NEW t \in Threads, L!Unlock(t)
      PROVE  AboutLast(u)'
      BY <1>0, <1>5 DEF L!Unlock
<1>6. QED
      BY <1>1, <1>2, <1>3, <1>4, <1>5 DEF L!Next, L!Go

\* What a piece does to the events an appender has put out.
LEMMA PieceFirst ==
    ASSUME LogTypeOK, NEW t \in Threads, L!PrintPiece(t),
           NEW u \in Threads, NEW a \in 1..2
    PROVE  IF u = t /\ a = at[t] /\ part[t] = 0
           THEN /\ L!First(u, a)' = L!First(u, a) \cup {Len(out[a]) + 1}
                /\ L!Printed(u, a)' = L!Printed(u, a) \cup {Len(events[t])}
           ELSE /\ L!First(u, a)' = L!First(u, a)
                /\ L!Printed(u, a)' = L!Printed(u, a)
<1> USE DEF L!First, L!Printed
<1>1. CASE a # at[t]
  <2>1. out'[a] = out[a]
        BY <1>1, PieceOut
  <2>2. QED
        BY <1>1, <2>1
<1>2. CASE a = at[t]
  <2> DEFINE n == Len(out[a]) + 1
  <2>1. /\ n \in Nat /\ n >= 1 /\ DOMAIN out[a] = 1..n - 1 /\ DOMAIN out'[a] = 1..n
        /\ \A i \in 1..n - 1 : out'[a][i] = out[a][i]
        /\ out'[a][n] = <<t, Len(events[t]), part[t] + 1>>
        BY <1>2, PieceOut
  <2> HIDE DEF n
  <2>2. out'[a][n][1] = t /\ out'[a][n][2] = Len(events[t]) /\ out'[a][n][3] = part[t] + 1
        BY <2>1
  <2>3. part[t] \in Nat
        BY DEF LogTypeOK
  <2>4. DOMAIN out'[a] = DOMAIN out[a] \cup {n} /\ n \notin DOMAIN out[a]
        BY <2>1
  <2>5. CASE u = t /\ part[t] = 0
    <3>1. L!First(u, a)' = L!First(u, a) \cup {n}
      <4>1. \A i \in DOMAIN out[a] : out'[a][i] = out[a][i]
            BY <2>1
      <4>2. out'[a][n][1] = u /\ out'[a][n][3] = 1
            BY <2>2, <2>5
      <4>3. QED
            BY <2>4, <4>1, <4>2
    <3>2. L!Printed(u, a)' = L!Printed(u, a) \cup {Len(events[t])}
      <4>1. \A i \in L!First(u, a) : out'[a][i] = out[a][i]
            BY <2>1
      <4>2. QED
            BY <2>2, <3>1, <4>1
    <3>3. QED
          BY <1>2, <2>5, <3>1, <3>2 DEF n
  <2>6. CASE ~(u = t /\ part[t] = 0)
    <3>1. L!First(u, a)' = L!First(u, a)
      <4>1. \A i \in DOMAIN out[a] : out'[a][i] = out[a][i]
            BY <2>1
      <4>2. ~(out'[a][n][1] = u /\ out'[a][n][3] = 1)
            BY <2>2, <2>3, <2>6
      <4>3. QED
            BY <2>4, <4>1, <4>2
    <3>2. L!Printed(u, a)' = L!Printed(u, a)
      <4>1. \A i \in L!First(u, a) : out'[a][i] = out[a][i]
            BY <2>1
      <4>2. QED
            BY <3>1, <4>1
    <3>3. QED
          BY <1>2, <2>6, <3>1, <3>2
  <2>7. QED
        BY <2>5, <2>6
<1>3. QED
      BY <1>1, <1>2

\* A new event is loud or not; the earlier ones stay what they are.
LEMMA LoudAfterLog ==
    ASSUME LogTypeOK, NEW t \in Threads, NEW l \in Levels, L!Log(t, l)
    PROVE  /\ L!Loud(t)' \ {Len(events'[t])} = L!Loud(t)
           /\ \A u \in Threads \ {t} : L!Loud(u)' = L!Loud(u)
<1>1. events[t] \in Seq(Nat) /\ l \in Nat /\ events'[t] = Append(events[t], l)
      BY LogAssumption DEF L!Log, LogTypeOK
<1>2. /\ Len(events'[t]) = Len(events[t]) + 1 /\ Len(events[t]) \in Nat
      /\ DOMAIN events[t] = 1..Len(events[t]) /\ DOMAIN events'[t] = 1..Len(events[t]) + 1
      /\ \A i \in 1..Len(events[t]) : events'[t][i] = events[t][i]
      BY <1>1, AppendProperties
<1>3. L!Loud(t)' \ {Len(events'[t])} = L!Loud(t)
      BY <1>2 DEF L!Loud
<1>4. \A u \in Threads \ {t} : events'[u] = events[u]
      BY DEF L!Log, LogTypeOK
<1>5. QED
      BY <1>3, <1>4 DEF L!Loud

LEMMA NextPrintedSoFar ==
    LogTypeOK /\ InEvent /\ PrintedSoFar /\ [L!Next]_logger => PrintedSoFar'
<1> SUFFICES ASSUME LogTypeOK, InEvent, PrintedSoFar, [L!Next]_logger,
                    NEW u \in Threads, NEW a \in 1..2
             PROVE  L!Printed(u, a)' = IF Due(u, a)' THEN L!Loud(u)' \ {Len(events'[u])}
                                                    ELSE L!Loud(u)'
    BY DEF PrintedSoFar
<1>0. L!Printed(u, a) = IF Due(u, a) THEN L!Loud(u) \ {Len(events[u])} ELSE L!Loud(u)
      BY DEF PrintedSoFar
<1> DEFINE Goal == L!Printed(u, a)' = IF Due(u, a)' THEN L!Loud(u)' \ {Len(events'[u])}
                                                    ELSE L!Loud(u)'
<1>1. ASSUME UNCHANGED <<events, out>>, Due(u, a)' <=> Due(u, a)
      PROVE  Goal
      BY <1>0, <1>1 DEF L!Printed, L!First, L!Loud
<1>2. CASE UNCHANGED logger
      BY <1>1, <1>2 DEF logger, Due
<1>3. ASSUME NEW t \in Threads, NEW l \in Levels, L!Log(t, l)
      PROVE  Goal
  <2>1. L!Printed(u, a)' = L!Printed(u, a)
        BY <1>3 DEF L!Log, L!Printed, L!First
  <2>2. CASE u = t
    <3>1. ~Due(u, a) /\ Due(u, a)'
          BY <1>3, <2>2 DEF L!Log, LogTypeOK, Due
    <3>2. QED
          BY <1>0, <1>3, <2>1, <2>2, <3>1, LoudAfterLog
  <2>3. CASE u # t
    <3>1. Due(u, a)' <=> Due(u, a)
          BY <1>3, <2>3 DEF L!Log, LogTypeOK, Due
    <3>2. L!Loud(u)' = L!Loud(u) /\ events'[u] = events[u]
          BY <1>3, <2>3, LoudAfterLog DEF L!Log, LogTypeOK
    <3>3. QED
          BY <1>0, <2>1, <3>1, <3>2
  <2>4. QED
        BY <2>2, <2>3
<1>4. ASSUME NEW t \in Threads, L!Lock(t)
      PROVE  Goal
  <2>1. CASE u = t
        BY <1>1, <1>4, <2>1 DEF L!Lock, LogTypeOK, Due
  <2>2. CASE u # t
        BY <1>1, <1>4, <2>2 DEF L!Lock, LogTypeOK, Due
  <2>3. QED
        BY <2>1, <2>2
<1>5. ASSUME NEW t \in Threads, L!PrintPiece(t)
      PROVE  Goal
  <2>1. L!Loud(u)' = L!Loud(u) /\ events'[u] = events[u]
        BY <1>5 DEF L!PrintPiece, L!Loud
  <2>2. CASE u = t /\ a = at[t] /\ part[t] = 0
    <3>1. Due(u, a) /\ ~Due(u, a)'
          BY <1>5, <2>2 DEF L!PrintPiece, LogTypeOK, Due
    <3>2. Len(events[u]) \in L!Loud(u)
      <4>1. pc[u] = "print" /\ ~(level[u] > level_)
            BY <1>5, <2>2 DEF L!PrintPiece, L!Ignored
      <4>2. Len(events[u]) > 0 /\ level[u] = events[u][Len(events[u])]
            BY <4>1 DEF InEvent, AboutLast
      <4>3. events[u] \in Seq(Nat) /\ level[u] <= level_
            BY <4>1, LogAssumption DEF LogTypeOK
      <4>4. QED
            BY <4>2, <4>3 DEF L!Loud
    <3>3. L!Printed(u, a)' = L!Printed(u, a) \cup {Len(events[u])}
          BY <1>5, <2>2, PieceFirst
    <3>4. QED
          BY <1>0, <2>1, <3>1, <3>2, <3>3
  <2>3. CASE ~(u = t /\ a = at[t] /\ part[t] = 0)
    <3>1. L!Printed(u, a)' = L!Printed(u, a)
          BY <1>5, <2>3, PieceFirst
    <3>2. Due(u, a)' <=> Due(u, a)
      <4>1. CASE u = t
            BY <1>5, <2>3, <4>1 DEF L!PrintPiece, LogTypeOK, Due
      <4>2. CASE u # t
            BY <1>5, <4>2 DEF L!PrintPiece, LogTypeOK, Due
      <4>3. QED
            BY <4>1, <4>2
    <3>3. QED
          BY <1>0, <2>1, <3>1, <3>2
  <2>4. QED
        BY <2>2, <2>3
<1>6. ASSUME NEW t \in Threads, L!Unlock(t)
      PROVE  Goal
  <2>1. UNCHANGED <<events, out>>
        BY <1>6 DEF L!Unlock
  <2>2. CASE u = t /\ a = at[t] /\ part[t] = 0
    <3>1. Due(u, a) /\ ~Due(u, a)'
          BY <1>6, <2>2, AppendersAre DEF L!Unlock, LogTypeOK, Due
    <3>2. level[u] > level_ /\ Len(events[u]) > 0 /\ level[u] = events[u][Len(events[u])]
          BY <1>6, <2>2, AppendersAre, SMTT(20)
          DEF InEvent, AboutLast, L!Unlock, L!Ignored, LogTypeOK
    <3>3. Len(events[u]) \notin L!Loud(u)
          BY <3>2, LogAssumption DEF L!Loud, LogTypeOK
    <3>4. QED
          BY <1>0, <2>1, <3>1, <3>3 DEF L!Printed, L!First, L!Loud
  <2>3. CASE ~(u = t /\ a = at[t] /\ part[t] = 0)
    <3>1. Due(u, a)' <=> Due(u, a)
      <4>1. CASE u = t
            BY <1>6, <2>3, <4>1, AppendersAre DEF L!Unlock, LogTypeOK, Due
      <4>2. CASE u # t
            BY <1>6, <4>2, AppendersAre DEF L!Unlock, LogTypeOK, Due
      <4>3. QED
            BY <4>1, <4>2
    <3>2. QED
          BY <1>1, <2>1, <3>1
  <2>4. QED
        BY <2>2, <2>3
<1>7. QED
      BY <1>2, <1>3, <1>4, <1>5, <1>6 DEF L!Next, L!Go

LEMMA NextAscending ==
    LogTypeOK /\ PrintedSoFar /\ Ascending /\ [L!Next]_logger => Ascending'
<1> SUFFICES ASSUME LogTypeOK, PrintedSoFar, Ascending, [L!Next]_logger,
                    NEW u \in Threads, NEW a \in 1..2,
                    NEW i \in L!First(u, a)', NEW j \in L!First(u, a)', i < j
             PROVE  out'[a][i][2] < out'[a][j][2]
    BY DEF Ascending
<1>1. CASE UNCHANGED out
      BY <1>1 DEF Ascending, L!First
<1>2. ASSUME NEW t \in Threads, L!PrintPiece(t)
      PROVE  out'[a][i][2] < out'[a][j][2]
  <2>1. \A k \in L!First(u, a) : out'[a][k] = out[a][k] /\ k \in 1..Len(out[a])
    <3>1. L!First(u, a) \subseteq DOMAIN out[a]
          BY DEF L!First
    <3>2. CASE a = at[t]
          BY <1>2, <3>1, <3>2, PieceOut
    <3>3. CASE a # at[t]
      <4>1. out'[a] = out[a]
            BY <1>2, <3>3, PieceOut
      <4>2. DOMAIN out[a] = 1..Len(out[a])
            BY DEF LogTypeOK
      <4>3. QED
            BY <3>1, <4>1, <4>2
    <3>4. QED
          BY <3>2, <3>3
  <2>2. CASE i \in L!First(u, a) /\ j \in L!First(u, a)
        BY <2>1, <2>2 DEF Ascending
  <2>3. CASE ~(i \in L!First(u, a) /\ j \in L!First(u, a))
    <3>1. u = t /\ a = at[t] /\ part[t] = 0
          BY <1>2, <2>3, PieceFirst
    <3>2. L!First(u, a)' = L!First(u, a) \cup {Len(out[a]) + 1}
          BY <1>2, <3>1, PieceFirst
    <3>3. Len(out[a]) \in Nat /\ out'[a][Len(out[a]) + 1] = <<t, Len(events[t]), part[t] + 1>>
          BY <1>2, <3>1, PieceOut
    <3>4. i \in L!First(u, a) /\ j = Len(out[a]) + 1
          BY <2>1, <2>3, <3>2, <3>3
    <3>5. out'[a][j][2] = Len(events[u])
          BY <3>1, <3>3, <3>4
    <3>6. Due(u, a)
          BY <1>2, <3>1 DEF Due, L!PrintPiece
    <3>7. out[a][i][2] \in L!Loud(u) \ {Len(events[u])}
          BY <3>4, <3>6 DEF PrintedSoFar, L!Printed
    <3>8. events[u] \in Seq(Nat)
          BY DEF LogTypeOK
    <3>9. out[a][i][2] < Len(events[u])
          BY <3>7, <3>8 DEF L!Loud
    <3>10. QED
           BY <2>1, <3>4, <3>5, <3>9
  <2>4. QED
        BY <2>2, <2>3
<1>3. QED
      BY <1>1, <1>2 DEF L!Next, L!Go, L!Log, L!Lock, L!Unlock, logger

LEMMA NextEventsWhole ==
    LogTypeOK /\ InEvent /\ L!EventsWhole /\ [L!Next]_logger => L!EventsWhole'
<1> SUFFICES ASSUME LogTypeOK, InEvent, L!EventsWhole, [L!Next]_logger
             PROVE  L!EventsWhole'
    OBVIOUS
<1>0. DOMAIN out = 1..2 /\ DOMAIN out' = 1..2
      BY NextLogTypeOK DEF LogTypeOK
<1>1. CASE UNCHANGED out
      BY <1>1 DEF L!EventsWhole
<1>2. ASSUME NEW t \in Threads, L!PrintPiece(t)
      PROVE  L!EventsWhole'
  <2> SUFFICES ASSUME NEW a \in 1..2, NEW i \in DOMAIN out'[a], out'[a][i][3] > 1
               PROVE  i > 1 /\ out'[a][i - 1] =
                          <<out'[a][i][1], out'[a][i][2], out'[a][i][3] - 1>>
      BY <1>0 DEF L!EventsWhole
  <2>1. CASE a # at[t]
    <3>1. out'[a] = out[a]
          BY <1>2, <2>1, PieceOut
    <3>2. QED
          BY <1>0, <3>1 DEF L!EventsWhole
  <2>2. CASE a = at[t]
    <3>1. /\ Len(out[a]) \in Nat /\ DOMAIN out[a] = 1..Len(out[a])
          /\ DOMAIN out'[a] = 1..Len(out[a]) + 1
          /\ \A k \in 1..Len(out[a]) : out'[a][k] = out[a][k]
          /\ out'[a][Len(out[a]) + 1] = <<t, Len(events[t]), part[t] + 1>>
          BY <1>2, <2>2, PieceOut
    <3>2. CASE i \in 1..Len(out[a])
      <4>1. out'[a][i] = out[a][i] /\ i \in DOMAIN out[a]
            BY <3>1, <3>2
      <4>2. i > 1 /\ out[a][i - 1] = <<out[a][i][1], out[a][i][2], out[a][i][3] - 1>>
            BY <1>0, <4>1 DEF L!EventsWhole
      <4>3. out'[a][i - 1] = out[a][i - 1]
        <5>1. i - 1 \in 1..Len(out[a])
              BY <3>1, <3>2, <4>2
        <5>2. QED
              BY <3>1, <5>1
      <4>4. QED
            BY <4>1, <4>2, <4>3
    <3>3. CASE i = Len(out[a]) + 1
      <4>1. part[t] \in Nat /\ out'[a][i][1] = t /\ out'[a][i][2] = Len(events[t])
            /\ out'[a][i][3] = part[t] + 1
        <5>1. part[t] \in Nat
              BY DEF LogTypeOK
        <5>2. out'[a][i] = <<t, Len(events[t]), part[t] + 1>>
              BY <3>1, <3>3
        <5>3. QED
              BY <5>1, <5>2
      <4>2. part[t] > 0 /\ pc[t] = "print"
            BY <1>2, <4>1 DEF L!PrintPiece
      <4>3. Len(out[a]) > 0 /\ out[a][Len(out[a])] = <<t, Len(events[t]), part[t]>>
            BY <2>2, <4>2 DEF InEvent, AboutLast
      <4>4. i > 1 /\ i - 1 = Len(out[a]) /\ out'[a][i - 1] = out[a][i - 1]
            BY <3>1, <3>3, <4>3
      <4>5. out'[a][i][3] - 1 = part[t]
            BY <4>1
      <4>6. QED
            BY <4>1, <4>3, <4>4, <4>5
    <3>4. QED
          BY <3>1, <3>2, <3>3
  <2>3. QED
        BY <2>1, <2>2
<1>3. QED
      BY <1>1, <1>2 DEF L!Next, L!Go, L!Log, L!Lock, L!Unlock, logger

LEMMA NextLogInv == LogInv /\ [L!Next]_logger => LogInv'
BY NextLogTypeOK, NextPrintsLocked, NextInEvent, NextPrintedSoFar, NextAscending,
   NextEventsWhole DEF LogInv

(***************************************************************************)
(* For any threads, events and levels: the pieces of an event are together *)
(* in what an appender puts out, and each appender puts out the events of  *)
(* a thread that its level lets through, all of them, in order and once.   *)
(***************************************************************************)
THEOREM EventsAreWhole == TextSpec => []EventsInOrder
<1>1. TextInit => LogInv
      BY InitLogInv DEF TextInit
<1>2. [TextNext]_textVars => [L!Next]_logger
      BY DEF TextNext, textVars
<1>3. LogInv => EventsInOrder
  <2> SUFFICES ASSUME LogInv, NEW t \in Threads, NEW a \in DOMAIN out
               PROVE  /\ \A i, j \in L!First(t, a) : i < j => out[a][i][2] < out[a][j][2]
                      /\ pc[t] = "idle" => L!Printed(t, a) = L!Loud(t)
      BY DEF LogInv, EventsInOrder, L!LoggedOnce
  <2>1. a \in 1..2
        BY DEF LogInv, LogTypeOK
  <2>2. pc[t] = "idle" => ~Due(t, a)
        BY DEF Due
  <2>3. QED
        BY <2>1, <2>2 DEF LogInv, PrintedSoFar, Ascending
<1>4. QED
      BY <1>1, <1>2, <1>3, NextLogInv, PTL DEF TextSpec

------------------------------------------------------------------------------
(* The padding *)

C == INSTANCE CryptorUtils

\* The sizes of block whose padding has up to three digits.
Blocks == 1..999

\* The digits of a number of one, two and three digits.
LEMMA DigitsLength ==
    ASSUME NEW n \in Blocks
    PROVE  /\ C!Digits(n) \in Seq(Int)
           /\ Len(C!Digits(n)) = IF n < 10 THEN 1 ELSE IF n < 100 THEN 2 ELSE 3
<1> USE DEF Blocks
<1>1. 48 + (n \div 100) \in Int /\ 48 + ((n \div 10) % 10) \in Int /\ 48 + (n % 10) \in Int
      OBVIOUS
<1>2. \A x, y, z \in Int :
         /\ <<>> \o <<>> \o <<z>> \in Seq(Int) /\ Len(<<>> \o <<>> \o <<z>>) = 1
         /\ <<>> \o <<y>> \o <<z>> \in Seq(Int) /\ Len(<<>> \o <<y>> \o <<z>>) = 2
         /\ <<x>> \o <<y>> \o <<z>> \in Seq(Int) /\ Len(<<x>> \o <<y>> \o <<z>>) = 3
      OBVIOUS
<1>3. CASE n < 10
      BY <1>1, <1>2, <1>3 DEF C!Digits
<1>4. CASE n >= 10 /\ n < 100
      BY <1>1, <1>2, <1>4 DEF C!Digits
<1>5. CASE n >= 100
      BY <1>1, <1>2, <1>5 DEF C!Digits
<1>6. QED
      BY <1>3, <1>4, <1>5

\* The remainder of a division is the only one that fits.
LEMMA Remainder ==
    ASSUME NEW n \in Nat, NEW b \in Nat \ {0}, NEW q \in Nat, NEW r \in 0..b-1, n = b * q + r
    PROVE  n % b = r
<1> DEFINE p == n \div b
<1>1. n % b \in 0..b-1 /\ p \in Int /\ n = b * p + (n % b)
      OBVIOUS
<1> HIDE DEF p
<1>2. b * q + r = b * p + (n % b)
      BY <1>1
<1>3. b * (q - p) = (n % b) - r
      BY <1>1, <1>2
<1>4. q - p = 0
  <2> DEFINE d == q - p
  <2>1. d \in Int /\ b * d < b /\ b * d > 0 - b
        BY <1>1, <1>3
  <2> HIDE DEF d
  <2>2. d = 0
        BY <2>1
  <2>3. QED
        BY <2>2 DEF d
<1>5. q = p
      BY <1>1, <1>4
<1>6. n % b = r
      BY <1>1, <1>2, <1>5
<1>7. QED
      BY <1>6

(***************************************************************************)
(* pkcs7_encode returns the message as it is or throws, for messages of    *)
(* any length and blocks up to 999 bytes.                                  *)
(***************************************************************************)
THEOREM PaddingIsLost ==
    ASSUME NEW m \in Seq(Int), NEW block \in Blocks
    PROVE  C!NeverPads(m, block)
\* One byte is missing: the padding is 1; otherwise it is more.
<1> DEFINE pad == C!PadSize(m, block)
           digits == C!Digits(pad)
<1>1. pad \in Blocks /\ ((Len(m) + 1) % block = 0 <=> pad = 1)
  <2> DEFINE n == Len(m)
             q == n \div block
             r == n % block
  <2>1. n \in Nat
        OBVIOUS
  <2>0. pad = block - r
        BY Zenon DEF C!PadSize
  <2> SUFFICES pad \in Blocks /\ ((n + 1) % block = 0 <=> pad = 1)
      BY Zenon
  <2> HIDE DEF n
  <2>2. block \in Nat \ {0} /\ q \in Nat /\ r \in 0..block-1 /\ n = block * q + r
        BY <2>1 DEF Blocks
  <2> HIDE DEF q, r, pad
  <2>3. CASE r = block - 1
    <3> DEFINE m1 == n + 1
               q1 == q + 1
               r1 == 0
    <3>1. m1 \in Nat /\ q1 \in Nat /\ r1 \in 0..block-1 /\ m1 = block * q1 + r1
          BY <2>2, <2>3
    <3> HIDE DEF m1, q1, r1
    <3>2. m1 % block = r1
          BY <2>2, <3>1, Remainder
    <3>3. QED
          BY <2>0, <2>2, <2>3, <3>2 DEF m1, r1, Blocks
  <2>4. CASE r < block - 1
    <3> DEFINE m1 == n + 1
               r1 == r + 1
    <3>1. m1 \in Nat /\ r1 \in 0..block-1 /\ m1 = block * q + r1
          BY <2>2, <2>4
    <3> HIDE DEF m1, r1
    <3>2. m1 % block = r1
          BY <2>2, <3>1, Remainder
    <3>3. QED
          BY <2>0, <2>2, <2>4, <3>2 DEF m1, r1, Blocks
  <2>5. QED
        BY <2>2, <2>3, <2>4
<1>2. digits \in Seq(Int)
      /\ Len(digits) = IF pad < 10 THEN 1 ELSE IF pad < 100 THEN 2 ELSE 3
      BY <1>1, DigitsLength, Zenon
<1> HIDE DEF pad, digits
<1>3. C!pkcs7_encode(m, block) =
          IF pad > Len(digits) THEN C!Thrown
          ELSE C!Returned(m \o SubSeq(digits, pad + 1, Len(digits)))
      BY DEF C!pkcs7_encode, pad, digits
<1>4. CASE pad = 1
  <2>1. SubSeq(digits, 2, 1) = <<>>
        BY <1>2, SubSeqEmpty
  <2>2. m \o <<>> = m
        BY ConcatEmptySeq
  <2>3. C!pkcs7_encode(m, block) = C!Returned(m)
    <3>1. Len(digits) = 1 /\ pad + 1 = 2 /\ ~(pad > Len(digits))
          BY <1>2, <1>4
    <3>2. SubSeq(digits, pad + 1, Len(digits)) = <<>>
          BY <2>1, <3>1
    <3>3. QED
          BY <1>3, <2>2, <3>1, <3>2
  <2>4. QED
        BY <1>1, <1>4, <2>3 DEF C!NeverPads
<1>5. CASE pad # 1
      BY <1>1, <1>2, <1>3, <1>5 DEF C!NeverPads, Blocks
<1>6. QED
      BY <1>4, <1>5

------------------------------------------------------------------------------
(* The parameters of a url *)

\* Keys are ordered as numbers: a set of them has a least one.
LEMMA HasLeast ==
    ASSUME NEW T \in SUBSET Nat, T # {}
    PROVE  \E m \in T : \A y \in T : m <= y
<1>1. PICK m \in T : \A y \in T : ~(<<y, m>> \in OpToRel(<, Nat))
      BY NatLessThanWellFounded, WFMin, Zenon
<1>2. ASSUME NEW x \in Nat, NEW y \in Nat, x < y
      PROVE  <<x, y>> \in OpToRel(<, Nat)
  <2>1. <<x, y>> \in Nat \X Nat /\ <<x, y>>[1] < <<x, y>>[2]
        BY <1>2
  <2>2. QED
        BY <2>1, Zenon DEF OpToRel
<1>3. ASSUME NEW y \in T
      PROVE  m <= y
  <2>1. m \in Nat /\ y \in Nat /\ ~(y < m)
        BY <1>1, <1>2, Zenon
  <2>2. QED
        BY <2>1
<1>4. QED
      BY <1>3

LEMMA FirstKey ==
    ASSUME NEW T \in SUBSET Keys, T # {}
    PROVE  U!First(T) \in T /\ \A j \in T : U!First(T) <= j
<1>1. \E k \in T : \A j \in T : k <= j
      BY HasLeast, KeysAssumption
<1>2. QED
      BY <1>1 DEF U!First

Calls == [op : {"add"}, key : Keys, value : UrlTexts] \cup [op : {"del"}, key : Keys]

UrlTypes ==
    /\ DOMAIN values_ \subseteq Keys
    /\ values_ \in [DOMAIN values_ -> UrlTexts]
    /\ calls \in Seq(Calls)
    /\ encoding \in BOOLEAN
    /\ ahead \subseteq DOMAIN values_
    /\ query \in Seq(Keys \X UrlTexts)

\* every add of the key has a del behind it
Deleted(key) ==
    \A i \in DOMAIN calls : U!Adds(i, key) => \E j \in DOMAIN calls : i < j /\ U!Dels(j, key)

\* The map holds a key if a call of add counts for it, with the value of that call.
AsCalled ==
    \A key \in Keys :
        IF key \in DOMAIN values_
        THEN \E n \in DOMAIN calls : U!Winner(n, key) /\ values_[key] = calls[n].value
        ELSE Deleted(key)

\* What encode() has put out: the first pair, and from the second place on the
\* pairs that the iterator has left behind, in their order.
PutOut ==
    /\ ahead # {} => encoding
    /\ encoding =>
        /\ query = <<>> <=> DOMAIN values_ = {}
        /\ query # <<>> => query[1] = U!Pair(U!First(DOMAIN values_))
        /\ ~U!Several => ahead = {} /\ Len(query) < 2
        /\ U!Several =>
            /\ Len(query) < 2 => ahead = DOMAIN values_
            /\ Len(query) >= 2 => query[2] = query[1]
            /\ \A key \in DOMAIN values_ \ ahead :
                  \E i \in DOMAIN query : query[i] = U!Pair(key)
            /\ \A i \in DOMAIN query : i >= 2 =>
                  /\ query[i] = U!Pair(query[i][1])
                  /\ query[i][1] \in DOMAIN values_
                  /\ \A key \in ahead : query[i][1] < key
                  /\ \A j \in DOMAIN query : j > i => query[i][1] < query[j][1]

UrlInv == UrlTypes /\ AsCalled /\ PutOut

LEMMA InitUrlInv == U!Init => UrlInv
<1> SUFFICES ASSUME U!Init
             PROVE  UrlInv
    OBVIOUS
<1>1. DOMAIN values_ = {} /\ DOMAIN calls = {}
      BY DEF U!Init
<1>2. UrlTypes
  <2>1. values_ \in Seq(UrlTexts) /\ Len(values_) = 0
        BY DEF U!Init
  <2>2. values_ \in [DOMAIN values_ -> UrlTexts]
        BY <2>1, LenProperties
  <2>3. calls \in Seq(Calls) /\ query \in Seq(Keys \X UrlTexts)
        BY EmptySeq DEF U!Init
  <2>4. QED
        BY <1>1, <2>2, <2>3 DEF U!Init, UrlTypes
<1>3. AsCalled /\ PutOut
      BY <1>1 DEF U!Init, AsCalled, Deleted, PutOut
<1>4. QED
      BY <1>2, <1>3 DEF UrlInv

\* A call of add or del ends what encode() has put out.
LEMMA ChangeTypes ==
    ASSUME UrlTypes, NEW call \in Calls, NEW values, U!Change(call, values),
           DOMAIN values \subseteq Keys, values \in [DOMAIN values -> UrlTexts]
    PROVE  /\ UrlTypes' /\ PutOut'
           /\ values_' = values /\ calls' = Append(calls, call)
           /\ DOMAIN calls = 1..Len(calls) /\ Len(calls) \in Nat
           /\ DOMAIN calls' = 1..Len(calls) + 1 /\ calls'[Len(calls) + 1] = call
           /\ \A n \in DOMAIN calls : calls'[n] = calls[n]
<1>1. values_' = values /\ calls' = Append(calls, call) /\ calls \in Seq(Calls)
      BY DEF U!Change, UrlTypes
<1>2. /\ DOMAIN calls = 1..Len(calls) /\ Len(calls) \in Nat
      /\ DOMAIN calls' = 1..Len(calls) + 1 /\ calls'[Len(calls) + 1] = call
      /\ \A n \in DOMAIN calls : calls'[n] = calls[n]
      /\ calls' \in Seq(Calls)
      BY <1>1, AppendProperties
<1>3. UrlTypes'
  <2>1. ahead' = {} /\ encoding' = FALSE /\ query' = <<>>
        BY DEF U!Change
  <2>2. query' \in Seq(Keys \X UrlTexts)
        BY <2>1
  <2>3. DOMAIN values_' \subseteq Keys /\ values_' \in [DOMAIN values_' -> UrlTexts]
        BY <1>1
  <2>4. QED
        BY <1>2, <2>1, <2>2, <2>3 DEF UrlTypes
<1>4. PutOut'
      BY DEF U!Change, PutOut
<1>5. QED
      BY <1>1, <1>2, <1>3, <1>4

\* The calls for one key do not touch another, and a del only ends a key.
LEMMA OtherKey ==
    ASSUME NEW n \in Nat, DOMAIN calls = 1..n, DOMAIN calls' = 1..n + 1,
           \A i \in 1..n : calls'[i] = calls[i],
           NEW key, calls'[n + 1].key # key
    PROVE  /\ Deleted(key) => Deleted(key)'
           /\ \A i \in DOMAIN calls : U!Winner(i, key) => U!Winner(i, key)'
<1>1. \A i \in 1..n : (U!Adds(i, key)' <=> U!Adds(i, key)) /\ (U!Dels(i, key)' <=> U!Dels(i, key))
      BY DEF U!Adds, U!Dels
<1>2. ~U!Adds(n + 1, key)' /\ ~U!Dels(n + 1, key)'
      BY DEF U!Adds, U!Dels
<1>3. \A i \in 1..n + 1 : i = n + 1 \/ i \in 1..n
      OBVIOUS
<1>4. Deleted(key) => Deleted(key)'
      BY <1>1, <1>2, <1>3 DEF Deleted
<1>5. ASSUME NEW i \in 1..n, U!Winner(i, key)
      PROVE  U!Winner(i, key)'
      BY <1>1, <1>2, <1>3, <1>5 DEF U!Winner
<1>6. QED
      BY <1>4, <1>5

LEMMA AddUrlInv ==
    ASSUME UrlInv, NEW key \in Keys, NEW value \in UrlTexts, U!add(key, value)
    PROVE  UrlInv'
<1> DEFINE call == [op |-> "add", key |-> key, value |-> value]
           values == IF key \in DOMAIN values_ THEN values_ ELSE U!With(key, value)
<1>0. PICK n \in Nat : n = Len(calls)
      BY DEF UrlInv, UrlTypes
<1>1. call \in Calls
      BY DEF Calls
<1>2. /\ DOMAIN values = DOMAIN values_ \cup {key}
      /\ \A k \in DOMAIN values_ : values[k] = values_[k]
      /\ key \notin DOMAIN values_ => values[key] = value
      /\ values \in [DOMAIN values -> UrlTexts]
      BY DEF UrlInv, UrlTypes, U!With
<1>3. U!Change(call, values)
      BY DEF U!add
<1> HIDE DEF values
<1>4. /\ UrlTypes' /\ PutOut'
      /\ values_' = values /\ calls' = Append(calls, call)
      /\ DOMAIN calls = 1..n /\ n \in Nat
      /\ DOMAIN calls' = 1..n + 1 /\ calls'[n + 1] = call
      /\ \A i \in DOMAIN calls : calls'[i] = calls[i]
  <2>1. DOMAIN values \subseteq Keys
        BY <1>2 DEF UrlInv, UrlTypes
  <2>2. QED
        BY <1>0, <1>1, <1>2, <1>3, <2>1, ChangeTypes DEF UrlInv
<1>5. ASSUME NEW k \in Keys, k # key
      PROVE  IF k \in DOMAIN values_'
             THEN \E i \in DOMAIN calls' : U!Winner(i, k)' /\ values_'[k] = calls'[i].value
             ELSE Deleted(k)'
  <2>1. /\ Deleted(k) => Deleted(k)'
        /\ \A i \in DOMAIN calls : U!Winner(i, k) => U!Winner(i, k)'
    <3>1. calls'[n + 1].key # k
          BY <1>4, <1>5
    <3>2. DOMAIN calls = 1..n /\ DOMAIN calls' = 1..n + 1 /\ \A i \in 1..n : calls'[i] = calls[i]
          BY <1>4
    <3>3. QED
          BY <3>1, <3>2, OtherKey
  <2>2. DOMAIN calls \subseteq DOMAIN calls'
        BY <1>4
  <2>3. CASE k \in DOMAIN values_
    <3>1. PICK i \in DOMAIN calls : U!Winner(i, k) /\ values_[k] = calls[i].value
          BY <2>3 DEF UrlInv, AsCalled
    <3>2. k \in DOMAIN values_' /\ values_'[k] = values_[k] /\ calls'[i] = calls[i]
          BY <1>2, <1>4, <2>3
    <3>3. QED
          BY <2>1, <2>2, <3>1, <3>2
  <2>4. CASE k \notin DOMAIN values_
    <3>1. Deleted(k) /\ k \notin DOMAIN values_'
          BY <1>2, <1>4, <1>5, <2>4 DEF UrlInv, AsCalled
    <3>2. QED
          BY <2>1, <3>1
  <2>5. QED
        BY <2>3, <2>4
<1>6. \A i \in 1..n : (U!Adds(i, key)' <=> U!Adds(i, key)) /\ (U!Dels(i, key)' <=> U!Dels(i, key))
      BY <1>4 DEF U!Adds, U!Dels
<1>7. U!Adds(n + 1, key)' /\ ~U!Dels(n + 1, key)'
      BY <1>4 DEF U!Adds, U!Dels
<1>8. \E i \in DOMAIN calls' : U!Winner(i, key)' /\ values_'[key] = calls'[i].value
  <2>1. CASE key \in DOMAIN values_
    <3>1. PICK i \in DOMAIN calls : U!Winner(i, key) /\ values_[key] = calls[i].value
          BY <2>1 DEF UrlInv, AsCalled
    <3>2. i \in 1..n /\ i \in DOMAIN calls' /\ calls'[i] = calls[i] /\ values_'[key] = values_[key]
          BY <1>2, <1>4, <2>1
    <3>3. U!Winner(i, key)'
      <4>1. U!Adds(i, key)'
            BY <1>6, <3>1, <3>2 DEF U!Winner
      <4>2. \A j \in DOMAIN calls' : j > i => ~U!Dels(j, key)'
            BY <1>4, <1>6, <1>7, <3>1 DEF U!Winner
      <4>3. \A j \in DOMAIN calls' : j < i /\ U!Adds(j, key)' =>
               \E l \in DOMAIN calls' : j < l /\ l < i /\ U!Dels(l, key)'
        <5> SUFFICES ASSUME NEW j \in DOMAIN calls', j < i, U!Adds(j, key)'
                     PROVE  \E l \in DOMAIN calls' : j < l /\ l < i /\ U!Dels(l, key)'
            OBVIOUS
        <5>1. j \in 1..n
              BY <1>4, <3>2
        <5>2. PICK l \in DOMAIN calls : j < l /\ l < i /\ U!Dels(l, key)
              BY <1>4, <1>6, <3>1, <5>1 DEF U!Winner
        <5>3. QED
              BY <1>4, <1>6, <5>2
      <4>4. QED
            BY <4>1, <4>2, <4>3 DEF U!Winner
    <3>4. QED
          BY <3>1, <3>2, <3>3
  <2>2. CASE key \notin DOMAIN values_
    <3>1. n + 1 \in DOMAIN calls' /\ values_'[key] = calls'[n + 1].value
          BY <1>2, <1>4, <2>2
    <3>2. \A i \in DOMAIN calls : U!Adds(i, key) => \E j \in DOMAIN calls : i < j /\ U!Dels(j, key)
          BY <2>2 DEF UrlInv, AsCalled, Deleted
    <3>3. \A j \in DOMAIN calls' : j < n + 1 /\ U!Adds(j, key)' =>
             \E l \in DOMAIN calls' : j < l /\ l < n + 1 /\ U!Dels(l, key)'
      <4> SUFFICES ASSUME NEW j \in DOMAIN calls', j < n + 1, U!Adds(j, key)'
                   PROVE  \E l \in DOMAIN calls' : j < l /\ l < n + 1 /\ U!Dels(l, key)'
          OBVIOUS
      <4>1. j \in DOMAIN calls /\ U!Adds(j, key)
            BY <1>4, <1>6
      <4>2. PICK l \in DOMAIN calls : j < l /\ U!Dels(l, key)
            BY <3>2, <4>1
      <4>3. QED
            BY <1>4, <1>6, <4>2
    <3>4. \A j \in DOMAIN calls' : ~(j > n + 1)
          BY <1>4
    <3>5. U!Winner(n + 1, key)'
          BY <1>7, <3>3, <3>4 DEF U!Winner
    <3>6. QED
          BY <3>1, <3>5
  <2>3. QED
        BY <2>1, <2>2
<1>9. AsCalled'
  <2>1. key \in DOMAIN values_'
        BY <1>2, <1>4
  <2>2. QED
        BY <1>5, <1>8, <2>1 DEF AsCalled
<1>10. QED
       BY <1>4, <1>9 DEF UrlInv

LEMMA DelUrlInv ==
    ASSUME UrlInv, NEW key \in Keys, U!del(key)
    PROVE  UrlInv'
<1> DEFINE call == [op |-> "del", key |-> key]
           values == [k \in DOMAIN values_ \ {key} |-> values_[k]]
<1>0. PICK n \in Nat : n = Len(calls)
      BY DEF UrlInv, UrlTypes
<1>1. call \in Calls
      BY DEF Calls
<1>2. /\ DOMAIN values = DOMAIN values_ \ {key}
      /\ \A k \in DOMAIN values : values[k] = values_[k]
      /\ values \in [DOMAIN values -> UrlTexts]
      BY DEF UrlInv, UrlTypes
<1>3. U!Change(call, values)
      BY DEF U!del
<1> HIDE DEF values
<1>4. /\ UrlTypes' /\ PutOut'
      /\ values_' = values /\ calls' = Append(calls, call)
      /\ DOMAIN calls = 1..n /\ n \in Nat
      /\ DOMAIN calls' = 1..n + 1 /\ calls'[n + 1] = call
      /\ \A i \in DOMAIN calls : calls'[i] = calls[i]
  <2>1. DOMAIN values \subseteq Keys
        BY <1>2 DEF UrlInv, UrlTypes
  <2>2. QED
        BY <1>0, <1>1, <1>2, <1>3, <2>1, ChangeTypes DEF UrlInv
<1>5. ASSUME NEW k \in Keys, k # key
      PROVE  IF k \in DOMAIN values_'
             THEN \E i \in DOMAIN calls' : U!Winner(i, k)' /\ values_'[k] = calls'[i].value
             ELSE Deleted(k)'
  <2>1. /\ Deleted(k) => Deleted(k)'
        /\ \A i \in DOMAIN calls : U!Winner(i, k) => U!Winner(i, k)'
    <3>1. calls'[n + 1].key # k
          BY <1>4, <1>5
    <3>2. DOMAIN calls = 1..n /\ DOMAIN calls' = 1..n + 1 /\ \A i \in 1..n : calls'[i] = calls[i]
          BY <1>4
    <3>3. QED
          BY <3>1, <3>2, OtherKey
  <2>2. DOMAIN calls \subseteq DOMAIN calls'
        BY <1>4
  <2>3. CASE k \in DOMAIN values_
    <3>1. PICK i \in DOMAIN calls : U!Winner(i, k) /\ values_[k] = calls[i].value
          BY <2>3 DEF UrlInv, AsCalled
    <3>2. k \in DOMAIN values_' /\ values_'[k] = values_[k] /\ calls'[i] = calls[i]
          BY <1>2, <1>4, <1>5, <2>3
    <3>3. QED
          BY <2>1, <2>2, <3>1, <3>2
  <2>4. CASE k \notin DOMAIN values_
    <3>1. Deleted(k) /\ k \notin DOMAIN values_'
          BY <1>2, <1>4, <2>4 DEF UrlInv, AsCalled
    <3>2. QED
          BY <2>1, <3>1
  <2>5. QED
        BY <2>3, <2>4
<1>6. key \notin DOMAIN values_'
      BY <1>2, <1>4
<1>7. Deleted(key)'
  <2>1. U!Dels(n + 1, key)' /\ ~U!Adds(n + 1, key)' /\ n + 1 \in DOMAIN calls'
        BY <1>4 DEF U!Dels, U!Adds
  <2>2. \A i \in DOMAIN calls' : U!Adds(i, key)' => i < n + 1
        BY <1>4, <2>1
  <2>3. QED
        BY <2>1, <2>2 DEF Deleted
<1>8. AsCalled'
      BY <1>5, <1>6, <1>7 DEF AsCalled
<1>9. QED
      BY <1>4, <1>8 DEF UrlInv

LEMMA EncodeKeepsMap ==
    ASSUME AsCalled, UNCHANGED <<values_, calls>>
    PROVE  AsCalled'
BY DEF AsCalled, Deleted, U!Winner, U!Adds, U!Dels

LEMMA EncodeFirstInv == UrlInv /\ U!EncodeFirst => UrlInv'
<1> SUFFICES ASSUME UrlInv, U!EncodeFirst
             PROVE  UrlInv'
    OBVIOUS
<1> DEFINE D == DOMAIN values_
<1>1. /\ UNCHANGED <<values_, calls>> /\ encoding' = TRUE
      /\ query' = IF D = {} THEN <<>> ELSE <<U!Pair(U!First(D))>>
      /\ ahead' = IF U!Several THEN D ELSE {}
      BY DEF U!EncodeFirst
<1>2. D \subseteq Keys /\ values_ \in [D -> UrlTexts]
      BY DEF UrlInv, UrlTypes
<1>3. D # {} => U!Pair(U!First(D)) \in Keys \X UrlTexts
      BY <1>2, FirstKey DEF U!Pair
<1>4. UrlTypes'
  <2>1. CASE D = {}
        BY <1>1, <2>1 DEF UrlInv, UrlTypes
  <2>2. CASE D # {}
    <3>1. \A e \in Keys \X UrlTexts : <<e>> \in Seq(Keys \X UrlTexts)
          OBVIOUS
    <3>2. query' \in Seq(Keys \X UrlTexts)
          BY <1>1, <1>3, <2>2, <3>1
    <3>3. QED
          BY <1>1, <3>2 DEF UrlInv, UrlTypes
  <2>3. QED
        BY <2>1, <2>2
<1>5. (U!Several' <=> U!Several) /\ (U!Several => D # {})
      BY <1>1 DEF U!Several
<1>6. \A k : U!Pair(k)' = U!Pair(k)
      BY <1>1 DEF U!Pair
<1>7. Len(query') < 2 /\ (query' = <<>> <=> D = {}) /\ \A i \in DOMAIN query' : ~(i >= 2)
      BY <1>1
<1>8. query' # <<>> => query'[1] = U!Pair(U!First(D))
      BY <1>1
<1>9. PutOut'
  <2>1. D' = D
        BY <1>1
  <2>2. query' # <<>> => query'[1] = (U!Pair(U!First(DOMAIN values_)))'
        BY <1>1, <1>8 DEF U!Pair
  <2>3. ahead' # {} => encoding'
        BY <1>1
  <2>4. query' = <<>> <=> DOMAIN values_' = {}
        BY <1>7, <2>1
  <2>5. ~U!Several' => ahead' = {} /\ Len(query') < 2
        BY <1>1, <1>5, <1>7
  <2>6. U!Several' => ahead' = DOMAIN values_'
        BY <1>1, <1>5
  <2>7. ~(Len(query') >= 2)
        BY <1>1
  <2>8. QED
        BY <1>7, <2>2, <2>3, <2>4, <2>5, <2>6, <2>7 DEF PutOut
<1>10. QED
       BY <1>1, <1>4, <1>9, EncodeKeepsMap DEF UrlInv

LEMMA EncodeNextInv == UrlInv /\ U!EncodeNext => UrlInv'
<1> SUFFICES ASSUME UrlInv, U!EncodeNext
             PROVE  UrlInv'
    OBVIOUS
<1> DEFINE D == DOMAIN values_
           f == U!First(ahead)
           n == Len(query)
<1>1. /\ UNCHANGED <<values_, calls, encoding>> /\ ahead # {} /\ encoding
      /\ query' = Append(query, U!Pair(f)) /\ ahead' = ahead \ {f}
      BY DEF U!EncodeNext, UrlInv, PutOut
<1>2. /\ D \subseteq Keys /\ values_ \in [D -> UrlTexts] /\ ahead \subseteq D
      /\ query \in Seq(Keys \X UrlTexts)
      BY DEF UrlInv, UrlTypes
<1>3. f \in ahead /\ f \in Keys /\ \A k \in ahead : f <= k
      BY <1>1, <1>2, FirstKey
<1> HIDE DEF f
<1>4. U!Pair(f) \in Keys \X UrlTexts /\ U!Pair(f)[1] = f
      BY <1>2, <1>3 DEF U!Pair
<1>5. /\ n \in Nat /\ DOMAIN query = 1..n /\ DOMAIN query' = 1..n + 1
      /\ Len(query') = n + 1 /\ query'[n + 1] = U!Pair(f)
      /\ \A i \in 1..n : query'[i] = query[i]
      /\ query' \in Seq(Keys \X UrlTexts) /\ query' # <<>>
      BY <1>1, <1>2, <1>4, AppendProperties
<1> HIDE DEF n
<1>6. UrlTypes'
      BY <1>1, <1>2, <1>5 DEF UrlInv, UrlTypes
<1>7. /\ U!Several /\ U!Several' /\ D # {} /\ D' = D
      /\ \A k : U!Pair(k)' = U!Pair(k)
      BY <1>1, <1>2 DEF UrlInv, PutOut, U!Several, U!Pair
<1>8. /\ n < 2 => ahead = D
      /\ n >= 2 => query[2] = query[1]
      /\ query # <<>> /\ query[1] = U!Pair(U!First(D))
      /\ \A key \in D \ ahead : \E i \in DOMAIN query : query[i] = U!Pair(key)
      /\ \A i \in DOMAIN query : i >= 2 =>
            /\ query[i] = U!Pair(query[i][1])
            /\ query[i][1] \in D
            /\ \A key \in ahead : query[i][1] < key
            /\ \A j \in DOMAIN query : j > i => query[i][1] < query[j][1]
      BY <1>1, <1>7 DEF UrlInv, PutOut, n
<1>9. n >= 1
      BY <1>2, <1>8, EmptySeq DEF n
<1>10. query'[1] = U!Pair(U!First(D)) /\ query'[2] = query'[1]
  <2>1. query'[1] = query[1]
        BY <1>5, <1>9
  <2>2. CASE n >= 2
        BY <1>5, <1>8, <2>1, <2>2
  <2>3. CASE n = 1
    <3>1. ahead = D
          BY <1>8, <2>3
    <3>2. query'[2] = U!Pair(f) /\ f = U!First(D)
          BY <1>5, <2>3, <3>1 DEF f
    <3>3. QED
          BY <1>8, <2>1, <3>2
  <2>4. QED
        BY <1>5, <1>8, <1>9, <2>1, <2>2, <2>3
<1>11. ASSUME NEW key \in D \ ahead'
       PROVE  \E i \in DOMAIN query' : query'[i] = U!Pair(key)
  <2>1. CASE key = f
        BY <1>5, <2>1
  <2>2. CASE key # f
    <3>1. PICK i \in DOMAIN query : query[i] = U!Pair(key)
          BY <1>1, <1>8, <2>2
    <3>2. QED
          BY <1>5, <3>1
  <2>3. QED
        BY <2>1, <2>2
<1>12. ASSUME NEW i \in DOMAIN query', i >= 2
       PROVE  /\ query'[i] = U!Pair(query'[i][1])
              /\ query'[i][1] \in D
              /\ \A key \in ahead' : query'[i][1] < key
              /\ \A j \in DOMAIN query' : j > i => query'[i][1] < query'[j][1]
  <2>1. CASE i = n + 1
    <3>1. query'[i] = U!Pair(f) /\ query'[i][1] = f
          BY <1>4, <1>5, <2>1
    <3>2. \A key \in ahead' : f < key
      <4>1. \A key \in ahead' : key \in Nat /\ f \in Nat /\ f <= key /\ f # key
            BY <1>1, <1>2, <1>3, KeysAssumption
      <4>2. QED
            BY <4>1
    <3>3. \A j \in DOMAIN query' : ~(j > i)
          BY <1>5, <2>1
    <3>4. QED
          BY <1>2, <1>3, <3>1, <3>2, <3>3
  <2>2. CASE i \in 1..n
    <3>1. query'[i] = query[i] /\ i \in DOMAIN query
          BY <1>5, <2>2
    <3>2. \A j \in DOMAIN query' : j > i => query'[i][1] < query'[j][1]
      <4> SUFFICES ASSUME NEW j \in DOMAIN query', j > i
                   PROVE  query[i][1] < query'[j][1]
          BY <3>1
      <4>1. CASE j = n + 1
            BY <1>3, <1>4, <1>5, <1>8, <1>12, <3>1, <4>1
      <4>2. CASE j \in 1..n
            BY <1>5, <1>8, <1>12, <3>1, <4>2
      <4>3. QED
            BY <1>5, <4>1, <4>2
    <3>3. QED
          BY <1>1, <1>8, <1>12, <3>1, <3>2
  <2>3. QED
        BY <1>5, <2>1, <2>2
<1>13. PutOut'
  <2>1. query'[1] = (U!Pair(U!First(DOMAIN values_)))'
        BY <1>1, <1>10 DEF U!Pair
  <2>2. Len(query') >= 2 /\ ~(Len(query') < 2)
        BY <1>5, <1>9
  <2>3. \A key \in (DOMAIN values_ \ ahead)' : \E i \in DOMAIN query' : query'[i] = U!Pair(key)'
        BY <1>7, <1>11
  <2>4. \A i \in DOMAIN query' : i >= 2 =>
            /\ query'[i] = (U!Pair(query[i][1]))'
            /\ query'[i][1] \in DOMAIN values_'
            /\ \A key \in ahead' : query'[i][1] < key
            /\ \A j \in DOMAIN query' : j > i => query'[i][1] < query'[j][1]
        BY <1>1, <1>12 DEF U!Pair
  <2>5. encoding' /\ U!Several' /\ DOMAIN values_' # {}
        BY <1>1, <1>7
  <2>6. query' # <<>> /\ query'[1] = (U!Pair(U!First(DOMAIN values_)))' /\ query'[2] = query'[1]
        BY <1>5, <1>10, <2>1
  <2>7. QED
        BY <2>2, <2>3, <2>4, <2>5, <2>6 DEF PutOut
<1>14. QED
       BY <1>1, <1>6, <1>13, EncodeKeepsMap DEF UrlInv

LEMMA NextUrlInv == UrlInv /\ [U!Next]_url => UrlInv'
<1> SUFFICES ASSUME UrlInv, [U!Next]_url
             PROVE  UrlInv'
    OBVIOUS
<1>1. CASE UNCHANGED url
      BY <1>1, EncodeKeepsMap DEF url, UrlInv, UrlTypes, PutOut, U!Several, U!Pair
<1>2. QED
      BY <1>1, AddUrlInv, DelUrlInv, EncodeFirstInv, EncodeNextInv DEF U!Next

------------------------------------------------------------------------------
\* One call of add counts for a key.
LEMMA OneWinner ==
    ASSUME UrlTypes, NEW key, NEW n \in DOMAIN calls, NEW m \in DOMAIN calls,
           U!Winner(n, key), U!Winner(m, key)
    PROVE  n = m
<1>1. DOMAIN calls = 1..Len(calls) /\ Len(calls) \in Nat
      BY DEF UrlTypes
<1>2. ~(n < m) /\ ~(m < n)
      BY <1>1 DEF U!Winner
<1>3. QED
      BY <1>1, <1>2

LEMMA WinnersAreTheMap ==
    ASSUME UrlInv
    PROVE  {<<calls[n].key, calls[n].value>> :
               n \in {i \in DOMAIN calls : U!Winner(i, calls[i].key)}}
           = {U!Pair(key) : key \in DOMAIN values_}
<1>1. ASSUME NEW n \in DOMAIN calls, U!Winner(n, calls[n].key)
      PROVE  \E key \in DOMAIN values_ : <<calls[n].key, calls[n].value>> = U!Pair(key)
  <2> DEFINE key == calls[n].key
  <2>1. key \in Keys
        BY DEF UrlInv, UrlTypes, Calls
  <2>2. key \in DOMAIN values_
    <3>1. ASSUME Deleted(key)
          PROVE  FALSE
          BY <1>1, <3>1 DEF Deleted, U!Winner, UrlInv, UrlTypes
    <3>2. QED
          BY <2>1, <3>1 DEF UrlInv, AsCalled
  <2>3. PICK m \in DOMAIN calls : U!Winner(m, key) /\ values_[key] = calls[m].value
        BY <2>1, <2>2 DEF UrlInv, AsCalled
  <2>4. n = m
        BY <1>1, <2>3, OneWinner DEF UrlInv
  <2>5. QED
        BY <2>2, <2>3, <2>4 DEF U!Pair
<1>2. ASSUME NEW key \in DOMAIN values_
      PROVE  \E n \in {i \in DOMAIN calls : U!Winner(i, calls[i].key)} :
                U!Pair(key) = <<calls[n].key, calls[n].value>>
  <2>1. PICK n \in DOMAIN calls : U!Winner(n, key) /\ values_[key] = calls[n].value
        BY DEF UrlInv, UrlTypes, AsCalled
  <2>2. calls[n].key = key
        BY <2>1 DEF U!Winner, U!Adds
  <2>3. QED
        BY <2>1, <2>2 DEF U!Pair
<1>3. QED
      BY <1>1, <1>2

LEMMA QueryIsTheMap ==
    ASSUME UrlInv, U!Encoded
    PROVE  U!Pairs(query) = {U!Pair(key) : key \in DOMAIN values_}
<1> DEFINE D == DOMAIN values_
<1>1. encoding /\ ahead = {} /\ D \subseteq Keys /\ query \in Seq(Keys \X UrlTexts)
      BY DEF U!Encoded, UrlInv, UrlTypes
<1>2. Len(query) \in Nat /\ DOMAIN query = 1..Len(query)
      BY <1>1
<1>3. query # <<>> => D # {} /\ U!First(D) \in D /\ query[1] = U!Pair(U!First(D))
      BY <1>1, FirstKey DEF UrlInv, PutOut
<1>4. ASSUME NEW i \in DOMAIN query
      PROVE  query[i] \in {U!Pair(key) : key \in D}
  <2>1. CASE i = 1
    <3>1. query # <<>>
          BY <1>1, <1>2
    <3>2. QED
          BY <1>3, <2>1, <3>1
  <2>2. CASE i # 1
    <3>1. i >= 2 /\ Len(query) >= 2
          BY <1>2, <2>2
    <3>2. U!Several
          BY <1>1, <1>2, <3>1 DEF UrlInv, PutOut
    <3>3. query[i] = U!Pair(query[i][1]) /\ query[i][1] \in D
          BY <1>1, <3>1, <3>2 DEF UrlInv, PutOut
    <3>4. QED
          BY <3>3
  <2>3. QED
        BY <2>1, <2>2
<1>5. ASSUME NEW key \in D
      PROVE  \E i \in DOMAIN query : query[i] = U!Pair(key)
  <2>1. CASE U!Several
        BY <1>1, <2>1 DEF UrlInv, PutOut
  <2>2. CASE ~U!Several
    <3>1. query # <<>>
          BY <1>1 DEF UrlInv, PutOut
    <3>2. 1 \in DOMAIN query /\ key = U!First(D)
          BY <1>1, <1>2, <1>3, <2>2, <3>1, EmptySeq DEF U!Several
    <3>3. QED
          BY <1>3, <3>1, <3>2
  <2>3. QED
        BY <2>1, <2>2
<1>6. QED
      BY <1>4, <1>5 DEF U!Pairs

LEMMA RepeatsFirst == UrlInv => U!OnlyFirstTwice
<1> SUFFICES ASSUME UrlInv, U!Encoded
             PROVE  U!Repeats = IF Len(query) < 2 THEN {} ELSE {2}
    BY DEF U!OnlyFirstTwice
<1>1. encoding /\ ahead = {} /\ query \in Seq(Keys \X UrlTexts)
      BY DEF U!Encoded, UrlInv, UrlTypes
<1>2. Len(query) \in Nat /\ DOMAIN query = 1..Len(query)
      BY <1>1
<1>3. ASSUME NEW i \in DOMAIN query
      PROVE  query[i][1] \in Nat
  <2>1. query[i] \in Keys \X UrlTexts
        BY <1>1, <1>2, ElementOfSeq
  <2>2. QED
        BY <2>1, KeysAssumption
<1>4. CASE Len(query) < 2
  <2>1. \A i, j \in DOMAIN query : ~(j < i)
        BY <1>2, <1>4
  <2>2. QED
        BY <1>4, <2>1 DEF U!Repeats
<1>5. CASE Len(query) >= 2
  <2>1. U!Several
        BY <1>1, <1>2, <1>5 DEF UrlInv, PutOut
  <2>2. query[2] = query[1] /\ 1 \in DOMAIN query /\ 2 \in DOMAIN query
        BY <1>1, <1>2, <1>5, <2>1 DEF UrlInv, PutOut
  <2>3. \A i, j \in DOMAIN query : i >= 2 /\ j > i => query[i][1] < query[j][1]
        BY <1>1, <2>1 DEF UrlInv, PutOut
  <2>4. ASSUME NEW i \in DOMAIN query, NEW j \in DOMAIN query, j < i, query[i] = query[j]
        PROVE  i = 2
    <3>1. CASE j >= 2
          BY <1>3, <2>3, <2>4, <3>1
    <3>2. CASE j = 1
      <4>1. query[i] = query[2]
            BY <2>2, <2>4, <3>2
      <4>2. ~(i > 2)
            BY <1>2, <1>3, <2>2, <2>3, <4>1
      <4>3. QED
            BY <1>2, <2>4, <3>2, <4>2
    <3>3. QED
          BY <1>2, <3>1, <3>2
  <2>5. 2 \in U!Repeats
        BY <2>2 DEF U!Repeats
  <2>6. U!Repeats = {2}
        BY <2>4, <2>5 DEF U!Repeats
  <2>7. QED
        BY <1>2, <1>5, <2>6
<1>6. QED
      BY <1>2, <1>4, <1>5

(***************************************************************************)
(* Whatever calls of add and del were made, for any keys and values: the   *)
(* query says for each key the value of the first add since its last del,  *)
(* and cbegin()++ (writer.cc:450) repeats the first pair and no other.     *)
(***************************************************************************)
THEOREM QueryIsRight == TextSpec => []EncodeRepeatsFirst
<1>1. TextInit => UrlInv
      BY InitUrlInv DEF TextInit
<1>2. [TextNext]_textVars => [U!Next]_url
      BY DEF TextNext, textVars
<1>3. UrlInv => EncodeRepeatsFirst
      BY WinnersAreTheMap, QueryIsTheMap, RepeatsFirst DEF EncodeRepeatsFirst, U!QuerySays
<1>4. QED
      BY <1>1, <1>2, <1>3, NextUrlInv, PTL DEF TextSpec

------------------------------------------------------------------------------
(***************************************************************************)
(* The messages.  A number is read as it was written (VarintType to        *)
(* ReadCut), so a field is (WrittenPieces, ScalarWritten), an element of   *)
(* its fields (ElementWritten), and an item (ItemWritten).                 *)
(***************************************************************************)

LEMMA VarSizeType ==
    ASSUME NEW n \in M!Number31
    PROVE  M!VarSize(n) \in 1..5
BY SMT DEF M!Number31, M!VarSize

\* The bytes of a number: the last one is below 128, and no other.
LEMMA VarintType ==
    ASSUME NEW n \in M!Number31
    PROVE  /\ M!Varint(n) \in Seq(M!Byte) /\ Len(M!Varint(n)) = M!VarSize(n)
           /\ \A k \in 1..M!VarSize(n) :
                  M!Varint(n)[k] < 128 <=> k = M!VarSize(n)
<1> DEFINE s == M!VarSize(n)
<1>1. s \in 1..5
      BY VarSizeType
<1>2. \A k \in 1..s : /\ M!Bits(n, k) \in 0..127
      BY SMT DEF M!VarSize, M!Bits, M!Number31
<1>3. M!Varint(n) = [k \in 1..s |-> M!Bits(n, k) + (IF k < s THEN 128 ELSE 0)]
      BY DEF M!Varint
<1> HIDE DEF s
<1>4. ASSUME NEW k \in 1..s
      PROVE  /\ M!Varint(n)[k] \in M!Byte
             /\ M!Varint(n)[k] < 128 <=> k = s
  <2>1. M!Varint(n)[k] = M!Bits(n, k) + (IF k < s THEN 128 ELSE 0)
        BY <1>3
  <2>2. M!Bits(n, k) \in 0..127 /\ k \in Int /\ s \in Int /\ k <= s
        BY <1>1, <1>2
  <2>3. QED
        BY <2>1, <2>2 DEF M!Byte
<1>5. M!Varint(n) \in Seq(M!Byte) /\ Len(M!Varint(n)) = s
      BY <1>1, <1>3, <1>4
<1>7. QED
      BY <1>4, <1>5 DEF s

\* Seven bits at a time are the number.
LEMMA BitsAreNumber ==
    ASSUME NEW n \in M!Number31,
           NEW b \in [1..5 -> Int],
           \A k \in 1..5 : b[k] = IF k <= M!VarSize(n) THEN M!Bits(n, k) ELSE 0
    PROVE  b[1] + 128 * (b[2] + 128 * (b[3] + 128 * (b[4] + 128 * b[5]))) = n
<1>1. n \in Int /\ n >= 0 /\ n <= 2147483647
      BY SMT DEF M!Number31
<1>2. CASE n < 128
  <2>1. b[1] = n % 128 /\ b[2] = 0 /\ b[3] = 0 /\ b[4] = 0 /\ b[5] = 0
        BY <1>1, <1>2, SMT DEF M!VarSize, M!Bits
  <2>2. QED
        BY <1>1, <1>2, <2>1, SMT
<1>3. CASE n >= 128 /\ n < 16384
  <2>1. b[1] = n % 128 /\ b[2] = (n \div 128) % 128 /\ b[3] = 0 /\ b[4] = 0 /\ b[5] = 0
        BY <1>1, <1>3, SMT DEF M!VarSize, M!Bits
  <2>2. QED
        BY <1>1, <1>3, <2>1, SMT
<1>4. CASE n >= 16384 /\ n < 2097152
  <2>1. b[1] = n % 128 /\ b[2] = (n \div 128) % 128 /\ b[3] = (n \div 16384) % 128 /\ b[4] = 0 /\ b[5] = 0
        BY <1>1, <1>4, SMT DEF M!VarSize, M!Bits
  <2>2. QED
        BY <1>1, <1>4, <2>1, SMT
<1>5. CASE n >= 2097152 /\ n < 268435456
  <2>1. b[1] = n % 128 /\ b[2] = (n \div 128) % 128 /\ b[3] = (n \div 16384) % 128
        /\ b[4] = (n \div 2097152) % 128 /\ b[5] = 0
        BY <1>1, <1>5, SMT DEF M!VarSize, M!Bits
  <2>2. QED
        BY <1>1, <1>5, <2>1, SMT
<1>6. CASE n >= 268435456
  <2>1. b[1] = n % 128 /\ b[2] = (n \div 128) % 128 /\ b[3] = (n \div 16384) % 128
        /\ b[4] = (n \div 2097152) % 128 /\ b[5] = n \div 268435456
        BY <1>1, <1>6, SMT DEF M!VarSize, M!Bits
  <2>2. QED
        BY <1>1, <1>6, <2>1, SMT
<1>7. QED
      BY <1>1, <1>2, <1>3, <1>4, <1>5, <1>6, SMT

LEMMA LeastIs ==
    ASSUME NEW T \in SUBSET Nat, T # {}
    PROVE  M!Least(T) \in T /\ \A y \in T : M!Least(T) <= y
<1>1. \E m \in T : \A y \in T : m <= y
      BY HasLeast
<1>2. QED
      BY <1>1 DEF M!Least

LEMMA LeastIsThe ==
    ASSUME NEW T \in SUBSET Nat, NEW x \in T, \A y \in T : x <= y
    PROVE  M!Least(T) = x
<1>1. M!Least(T) \in T /\ \A y \in T : M!Least(T) <= y
      BY LeastIs
<1>2. M!Least(T) <= x /\ x <= M!Least(T) /\ M!Least(T) \in Nat
      BY <1>1
<1>3. QED
      BY <1>2

\* What is read where a number was written: the number if all of it is there,
\* and nothing if it is cut.
NumberAt(s, p, end, n) ==
    \A k \in 1..M!VarSize(n) : p + k <= end => s[p + k] = M!Varint(n)[k]

LEMMA ReadWhole ==
    ASSUME NEW s, NEW p \in Nat, NEW end \in Nat, NEW n \in M!Number31,
           NumberAt(s, p, end, n), p + M!VarSize(n) <= end
    PROVE  M!ReadNumber(s, p, end) = [size |-> M!VarSize(n), value |-> n]
<1> DEFINE z == M!VarSize(n)
           lasts == {k \in 1..5 : p + k <= end /\ s[p + k] < 128}
           bits(k) == IF p + k <= end /\ (lasts = {} \/ k <= z) THEN s[p + k] % 128 ELSE 0
           b == [k \in 1..5 |-> bits(k)]
<1>1. z \in 1..5 /\ \A k \in 1..z : s[p + k] = M!Varint(n)[k]
      BY VarSizeType DEF NumberAt
<1>2. \A k \in 1..z : M!Varint(n)[k] < 128 <=> k = z
      BY VarintType
<1>3. z \in lasts /\ \A k \in lasts : z <= k
  <2>1. z \in lasts
        BY <1>1, <1>2
  <2>2. ASSUME NEW k \in lasts PROVE z <= k
    <3>1. k \in 1..5 /\ s[p + k] < 128
          OBVIOUS
    <3>2. CASE k \in 1..z
          BY <1>1, <1>2, <3>1, <3>2
    <3>3. CASE k \notin 1..z
          BY <1>1, <3>1, <3>3
    <3>4. QED
          BY <3>2, <3>3
  <2>3. QED
        BY <2>1, <2>2
<1>4. lasts \in SUBSET Nat
      OBVIOUS
<1>5. M!Least(lasts) = z
  <2> HIDE DEF lasts, z
  <2>1. QED
        BY <1>3, <1>4, LeastIsThe
<1>6. lasts # {}
      BY <1>3
<1>7. M!ReadNumber(s, p, end) =
        [size |-> z, value |-> bits(1) + 128 * (bits(2) + 128 * (bits(3) + 128 * (bits(4) + 128 * bits(5))))]
      BY <1>5, <1>6 DEF M!ReadNumber
<1>8. \A k \in 1..z : s[p + k] % 128 = M!Bits(n, k) /\ M!Bits(n, k) \in Int
  <2>1. ASSUME NEW k \in 1..z PROVE s[p + k] % 128 = M!Bits(n, k) /\ M!Bits(n, k) \in Int
    <3>1. M!Bits(n, k) \in 0..127
          BY <1>1, SMT DEF M!Bits, M!Number31
    <3>2. M!Varint(n)[k] = M!Bits(n, k) + (IF k < z THEN 128 ELSE 0)
          BY DEF M!Varint
    <3>3. QED
          BY <1>1, <3>1, <3>2
  <2>2. QED
        BY <2>1
<1>9. \A k \in 1..5 : b[k] = IF k <= z THEN M!Bits(n, k) ELSE 0
      BY <1>1, <1>6, <1>8
<1>10. b \in [1..5 -> Int]
      BY <1>1, <1>8, <1>9
<1>11. b[1] + 128 * (b[2] + 128 * (b[3] + 128 * (b[4] + 128 * b[5]))) = n
  <2> HIDE DEF b
  <2>1. QED
        BY <1>9, <1>10, BitsAreNumber
<1>12. b[1] = bits(1) /\ b[2] = bits(2) /\ b[3] = bits(3) /\ b[4] = bits(4) /\ b[5] = bits(5)
      OBVIOUS
<1>13. QED
  <2> HIDE DEF b, bits
  <2>1. QED
        BY <1>7, <1>11, <1>12

LEMMA ReadCut ==
    ASSUME NEW s, NEW p \in Nat, NEW end \in Nat, NEW n \in M!Number31,
           NumberAt(s, p, end, n), end < p + M!VarSize(n)
    PROVE  M!ReadNumber(s, p, end).size = 0
<1> DEFINE lasts == {k \in 1..5 : p + k <= end /\ s[p + k] < 128}
<1>1. M!VarSize(n) \in 1..5
      BY VarSizeType
<1>2. \A k \in 1..M!VarSize(n) : M!Varint(n)[k] < 128 <=> k = M!VarSize(n)
      BY VarintType
<1>3. ASSUME NEW k \in 1..5, p + k <= end PROVE ~(s[p + k] < 128)
  <2>1. k \in 1..M!VarSize(n) /\ k # M!VarSize(n)
        BY <1>1, <1>3
  <2>2. QED
        BY <1>2, <1>3, <2>1 DEF NumberAt
<1>4. lasts = {}
      BY <1>3
<1>5. QED
      BY <1>4 DEF M!ReadNumber

\* The pieces of a field that was written.
LEMMA WrittenPieces ==
    ASSUME NEW f \in 1..15, NEW wire \in {0, 2}, NEW n \in M!Number31, NEW body \in Seq(M!Byte)
    PROVE  /\ M!Written(f, wire, n, body) \in Seq(M!Byte)
           /\ Len(M!Written(f, wire, n, body)) = 1 + M!VarSize(n) + Len(body)
           /\ M!Written(f, wire, n, body)[1] = 8 * f + wire
           /\ \A k \in 1..M!VarSize(n) :
                 M!Written(f, wire, n, body)[1 + k] = M!Varint(n)[k]
           /\ \A j \in 1..Len(body) :
                 M!Written(f, wire, n, body)[1 + M!VarSize(n) + j] = body[j]
<1> DEFINE z == M!VarSize(n)
           t == M!Varint(n)
           tag == <<8 * f + wire>>
<1>1. z \in 1..5 /\ t \in Seq(M!Byte) /\ Len(t) = z
      BY VarSizeType, VarintType
<1>2. tag \in Seq(M!Byte) /\ Len(tag) = 1 /\ tag[1] = 8 * f + wire
      BY DEF M!Byte
<1>3. M!Written(f, wire, n, body) = (tag \o t) \o body
      BY DEF M!Written
<1> HIDE DEF tag, t, z
<1> DEFINE u == tag \o t
<1>4. /\ u \in Seq(M!Byte) /\ Len(u) = 1 + z /\ u[1] = tag[1]
      /\ \A k \in 1..z : u[1 + k] = t[k]
  <2>1. /\ u \in Seq(M!Byte) /\ Len(u) = Len(tag) + Len(t)
        /\ \A i \in 1 .. Len(tag) + Len(t) : u[i] = IF i <= Len(tag) THEN tag[i] ELSE t[i - Len(tag)]
        BY <1>1, <1>2, ConcatProperties
  <2>2. ASSUME NEW k \in 1..z PROVE u[1 + k] = t[k]
    <3>1. 1 + k \in 1 .. Len(tag) + Len(t) /\ ~(1 + k <= Len(tag)) /\ (1 + k) - Len(tag) = k
          BY <1>1, <1>2
    <3>2. QED
          BY <2>1, <3>1
  <2>3. Len(u) = 1 + z
        BY <1>1, <1>2, <2>1
  <2>4. u[1] = tag[1]
        BY <1>1, <1>2, <2>1
  <2>5. QED
        BY <2>1, <2>2, <2>3, <2>4
<1> HIDE DEF u
<1> DEFINE s == u \o body
<1>5. /\ s \in Seq(M!Byte) /\ Len(s) = 1 + z + Len(body)
      /\ \A k \in 1..Len(u) : s[k] = u[k]
      /\ \A j \in 1..Len(body) : s[1 + z + j] = body[j]
      BY <1>1, <1>4
<1>6. s[1] = u[1] /\ \A k \in 1..z : s[1 + k] = u[1 + k]
      BY <1>1, <1>4, <1>5
<1>7. M!Written(f, wire, n, body) = s
      BY <1>3 DEF u
<1> HIDE DEF s
<1>8. QED
      BY <1>2, <1>4, <1>5, <1>6, <1>7 DEF t, z

LEMMA WrittenLength ==
    ASSUME NEW f \in 1..15, NEW wire \in {0, 2}, NEW n \in M!Number31, NEW body \in Seq(M!Byte)
    PROVE  /\ M!Written(f, wire, n, body) \in Seq(M!Byte)
           /\ Len(M!Written(f, wire, n, body)) = 1 + M!VarSize(n) + Len(body)
<1> DEFINE z == M!VarSize(n)
           t == M!Varint(n)
           tag == <<8 * f + wire>>
<1>1. z \in 1..5 /\ t \in Seq(M!Byte) /\ Len(t) = z
      BY VarSizeType, VarintType
<1>2. tag \in Seq(M!Byte) /\ Len(tag) = 1
      BY DEF M!Byte
<1>3. M!Written(f, wire, n, body) = (tag \o t) \o body
      BY DEF M!Written
<1> HIDE DEF tag, t, z
<1> DEFINE u == tag \o t
<1>4. /\ u \in Seq(M!Byte) /\ Len(u) = Len(tag) + Len(t)
      /\ \A i \in 1 .. Len(tag) + Len(t) : u[i] = IF i <= Len(tag) THEN tag[i] ELSE t[i - Len(tag)]
      BY <1>1, <1>2, ConcatProperties
<1>5. M!Written(f, wire, n, body) = u \o body
      BY <1>3
<1> HIDE DEF u
<1>6. u \o body \in Seq(M!Byte) /\ Len(u \o body) = 1 + z + Len(body)
      BY <1>1, <1>2, <1>4
<1>7. QED
      BY <1>5, <1>6 DEF z

IsScalar(field) ==
    field.kind \in M!Single /\ (field.kind = "int" => field.flag \in BOOLEAN)

LEMMA ScalarTypes ==
    ASSUME NEW field, IsScalar(field), NEW v \in M!Scalar(field)
    PROVE  /\ M!number(field, v) \in M!Number31
           /\ M!text(field, v) \in Seq(M!Byte)
           /\ Len(M!text(field, v)) = IF field.kind = "int" THEN 0 ELSE M!number(field, v)
           /\ M!number(field, v) <= 134217727 \/ field.kind = "int"
           /\ field.kind = "text" => v \in Seq(M!Byte) /\ M!text(field, v) = v
           /\ field.kind = "int" => v \in M!Number31 /\ M!number(field, v) = v
<1>1. CASE field.kind = "int"
      BY <1>1, SMT DEF IsScalar, M!Scalar, M!number, M!text, M!Number31
<1>2. CASE field.kind = "text"
      BY <1>2, SMT DEF IsScalar, M!Scalar, M!number, M!text, M!Number31, M!String
<1>3. QED
      BY <1>1, <1>2, SMT DEF IsScalar, M!Single

\* No field is longer.
Longest == 134217733

LEMMA ScalarWritten ==
    ASSUME NEW field, IsScalar(field), NEW v \in M!Scalar(field), NEW f \in 1..15
    PROVE  /\ M!PutScalar(f, field, v) \in Seq(M!Byte)
           /\ Len(M!PutScalar(f, field, v)) = M!ScalarSize(field, v)
           /\ M!ScalarSize(field, v) \in Nat /\ M!ScalarSize(field, v) <= Longest
<1>1. CASE v = M!Default(field)
  <2>1. M!PutScalar(f, field, v) = <<>> /\ M!ScalarSize(field, v) = 0
        BY <1>1 DEF M!PutScalar, M!ScalarSize
  <2>2. QED
        BY <2>1, SMT DEF Longest
<1>2. CASE v # M!Default(field)
  <2> DEFINE n == M!number(field, v)
             body == M!text(field, v)
  <2>1. n \in M!Number31 /\ body \in Seq(M!Byte)
        /\ Len(body) = IF field.kind = "int" THEN 0 ELSE n
        BY ScalarTypes
  <2>2. M!Wire(field) \in {0, 2}
        BY DEF M!Wire
  <2>3. M!PutScalar(f, field, v) = M!Written(f, M!Wire(field), n, body)
        BY <1>2 DEF M!PutScalar
  <2>4. M!ScalarSize(field, v) = 1 + M!VarSize(n) + Len(body)
    <3>1. field.kind # "int" => Len(v) = n
          BY DEF M!number
    <3>2. QED
          BY <1>2, <2>1, <3>1 DEF M!ScalarSize
  <2>5. M!VarSize(n) \in 1..5
        BY <2>1, VarSizeType
  <2>6. Len(body) \in Nat /\ Len(body) <= 134217727
        BY <2>1, ScalarTypes, SMT
  <2> HIDE DEF n, body
  <2>7. M!ScalarSize(field, v) \in Nat /\ M!ScalarSize(field, v) <= Longest
        BY <2>4, <2>5, <2>6, SMT DEF Longest
  <2>8. /\ M!PutScalar(f, field, v) \in Seq(M!Byte)
        /\ Len(M!PutScalar(f, field, v)) = 1 + M!VarSize(n) + Len(body)
    <3>1. /\ M!Written(f, M!Wire(field), n, body) \in Seq(M!Byte)
          /\ Len(M!Written(f, M!Wire(field), n, body)) = 1 + M!VarSize(n) + Len(body)
          BY <2>1, <2>2, WrittenLength
    <3>2. QED
          BY <2>3, <3>1
  <2>9. QED
        BY <2>4, <2>7, <2>8
<1>3. QED
      BY <1>1, <1>2

IsElementType(type) == M!IsType(type, M!Single, {2, 3})

LEMMA TypeFacts ==
    ASSUME NEW type, NEW kinds, NEW sizes \in SUBSET Nat, M!IsType(type, kinds, sizes)
    PROVE  /\ Len(type) \in sizes /\ Len(type) \in Nat /\ DOMAIN type = 1..Len(type)
           /\ \A f \in 1..Len(type) : type[f].kind \in kinds
                  /\ (type[f].kind = "int" => type[f].flag \in BOOLEAN)
BY DEF M!IsType

LEMMA ElementFacts ==
    ASSUME NEW type, IsElementType(type), NEW v \in M!Element(type)
    PROVE  /\ Len(type) \in {2, 3} /\ DOMAIN type = 1..Len(type)
           /\ \A k \in 1..Len(type) : IsScalar(type[k]) /\ v[k] \in M!Scalar(type[k])
           /\ v = [k \in 1..Len(type) |-> v[k]]
<1>1. /\ Len(type) \in {2, 3} /\ DOMAIN type = 1..Len(type)
      /\ \A k \in 1..Len(type) : IsScalar(type[k])
  <2>1. M!IsType(type, M!Single, {2, 3}) /\ {2, 3} \in SUBSET Nat
        BY DEF IsElementType
  <2>2. QED
        BY <2>1, TypeFacts DEF IsScalar
<1>2. CASE Len(type) = 2
  <2>1. v \in M!Scalar(type[1]) \X M!Scalar(type[2])
        BY <1>2 DEF M!Element
  <2>2. v = <<v[1], v[2]>> /\ v[1] \in M!Scalar(type[1]) /\ v[2] \in M!Scalar(type[2])
        BY <2>1
  <2>3. v = [k \in 1..2 |-> v[k]]
        BY <2>2
  <2>4. QED
        BY <1>1, <1>2, <2>2, <2>3
<1>3. CASE Len(type) = 3
  <2>1. v \in M!Scalar(type[1]) \X M!Scalar(type[2]) \X M!Scalar(type[3])
        BY <1>3 DEF M!Element
  <2>2. v = <<v[1], v[2], v[3]>> /\ v[1] \in M!Scalar(type[1])
        /\ v[2] \in M!Scalar(type[2]) /\ v[3] \in M!Scalar(type[3])
        BY <2>1
  <2>3. v = [k \in 1..3 |-> v[k]]
        BY <2>2
  <2>4. QED
        BY <1>1, <1>3, <2>2, <2>3
<1>4. QED
      BY <1>1, <1>2, <1>3

\* Where field k of an element begins.
Offset(type, v, k) ==
    (IF k > 1 THEN M!ScalarSize(type[1], v[1]) ELSE 0)
    + (IF k > 2 THEN M!ScalarSize(type[2], v[2]) ELSE 0)
    + (IF k > 3 THEN M!ScalarSize(type[3], v[3]) ELSE 0)

Scalars(type, v, k) == M!PutScalar(k, type[k], v[k])

LEMMA ElementWritten ==
    ASSUME NEW type, IsElementType(type), NEW v \in M!Element(type)
    PROVE  /\ M!ElementSize(type, v) \in M!Number31
           /\ M!Body(type, v) \in Seq(M!Byte)
           /\ Len(M!Body(type, v)) = M!ElementSize(type, v)
           /\ Offset(type, v, 1) = 0 /\ Offset(type, v, Len(type) + 1) = M!ElementSize(type, v)
           /\ \A k \in 1..Len(type) :
                  /\ Offset(type, v, k) \in Nat
                  /\ Offset(type, v, k + 1) = Offset(type, v, k) + M!ScalarSize(type[k], v[k])
                  /\ Offset(type, v, k + 1) <= M!ElementSize(type, v)
                  /\ \A j \in 1..M!ScalarSize(type[k], v[k]) :
                         M!Body(type, v)[Offset(type, v, k) + j] = Scalars(type, v, k)[j]
<1> DEFINE z(k) == M!ScalarSize(type[k], v[k])
           s(k) == M!PutScalar(k, type[k], v[k])
<1>1. /\ Len(type) \in {2, 3} /\ DOMAIN type = 1..Len(type)
      /\ \A k \in 1..Len(type) : IsScalar(type[k]) /\ v[k] \in M!Scalar(type[k])
      BY ElementFacts
<1>2. \A k \in 1..Len(type) :
          s(k) \in Seq(M!Byte) /\ Len(s(k)) = z(k) /\ z(k) \in Nat
  <2>1. ASSUME NEW k \in 1..Len(type)
        PROVE  s(k) \in Seq(M!Byte) /\ Len(s(k)) = z(k) /\ z(k) \in Nat
    <3>1. k \in 1..15 /\ IsScalar(type[k]) /\ v[k] \in M!Scalar(type[k])
          BY <1>1
    <3>2. QED
          BY <3>1, ScalarWritten
  <2>2. QED
        BY <2>1
<1>0. \A k \in 1..Len(type) : z(k) <= Longest
      BY <1>1, ScalarWritten
<1> DEFINE t3 == IF Len(type) = 3 THEN s(3) ELSE <<>>
           z3 == IF Len(type) = 3 THEN z(3) ELSE 0
<1>3. t3 \in Seq(M!Byte) /\ Len(t3) = z3 /\ z3 \in Nat
      BY <1>1, <1>2
<1>4. /\ s(1) \in Seq(M!Byte) /\ Len(s(1)) = z(1) /\ z(1) \in Nat
      /\ s(2) \in Seq(M!Byte) /\ Len(s(2)) = z(2) /\ z(2) \in Nat
      BY <1>1, <1>2
<1>5. M!Body(type, v) = (s(1) \o s(2)) \o t3
      BY DEF M!Body
<1>6. M!ElementSize(type, v) = z(1) + z(2) + z3
      BY DEF M!ElementSize
<1>7. /\ Offset(type, v, 1) = 0 /\ Offset(type, v, 2) = z(1) /\ Offset(type, v, 3) = z(1) + z(2)
      /\ Len(type) = 3 => Offset(type, v, 4) = z(1) + z(2) + z3
      BY <1>3, <1>4 DEF Offset
<1> HIDE DEF t3, z3, z, s
<1> DEFINE u == s(1) \o s(2)
<1>8. /\ u \in Seq(M!Byte) /\ Len(u) = z(1) + z(2)
      /\ \A i \in 1..Len(s(1)) + Len(s(2)) : u[i] = IF i <= Len(s(1)) THEN s(1)[i] ELSE s(2)[i - Len(s(1))]
  <2>1. /\ u \in Seq(M!Byte) /\ Len(u) = Len(s(1)) + Len(s(2))
        /\ \A i \in 1..Len(s(1)) + Len(s(2)) : u[i] = IF i <= Len(s(1)) THEN s(1)[i] ELSE s(2)[i - Len(s(1))]
        BY <1>4, ConcatProperties
  <2>2. QED
        BY <1>4, <2>1
<1> HIDE DEF u
<1> DEFINE b == u \o t3
<1>9. /\ b \in Seq(M!Byte) /\ Len(b) = z(1) + z(2) + z3
      /\ \A i \in 1..Len(u) + Len(t3) : b[i] = IF i <= Len(u) THEN u[i] ELSE t3[i - Len(u)]
  <2>1. /\ b \in Seq(M!Byte) /\ Len(b) = Len(u) + Len(t3)
        /\ \A i \in 1..Len(u) + Len(t3) : b[i] = IF i <= Len(u) THEN u[i] ELSE t3[i - Len(u)]
        BY <1>3, <1>8, ConcatProperties
  <2>2. QED
        BY <1>3, <1>8, <2>1
<1>10. M!Body(type, v) = b
       BY <1>5 DEF u
<1> HIDE DEF b
<1>11. \A j \in 1..z(1) : b[j] = s(1)[j]
  <2>1. ASSUME NEW j \in 1..z(1) PROVE b[j] = s(1)[j]
    <3>1. j \in 1..Len(s(1)) + Len(s(2)) /\ j <= Len(s(1)) /\ j \in 1..Len(u) + Len(t3) /\ j <= Len(u)
          BY <1>3, <1>4, <1>8
    <3>2. QED
          BY <1>8, <1>9, <3>1
  <2>2. QED
        BY <2>1
<1>12. ASSUME NEW j \in 1..z(2) PROVE b[z(1) + j] = s(2)[j]
  <2>1. z(1) + j \in 1..Len(s(1)) + Len(s(2)) /\ ~(z(1) + j <= Len(s(1))) /\ (z(1) + j) - Len(s(1)) = j
        BY <1>4
  <2>2. z(1) + j \in 1..Len(u) + Len(t3) /\ z(1) + j <= Len(u)
        BY <1>3, <1>4, <1>8
  <2>3. QED
        BY <1>8, <1>9, <2>1, <2>2
<1>13. ASSUME NEW j \in 1..z3 PROVE b[z(1) + z(2) + j] = t3[j]
  <2>1. /\ z(1) + z(2) + j \in 1..Len(u) + Len(t3) /\ ~(z(1) + z(2) + j <= Len(u))
        /\ (z(1) + z(2) + j) - Len(u) = j
        BY <1>3, <1>4, <1>8
  <2>2. QED
        BY <1>9, <2>1
<1>14. M!ElementSize(type, v) \in M!Number31
  <2>1. z(1) <= Longest /\ z(2) <= Longest
        BY <1>0, <1>1
  <2>2. z3 <= Longest
        BY <1>0, <1>1, SMT DEF z3, Longest
  <2>3. QED
        BY <1>3, <1>4, <1>6, <2>1, <2>2, SMT DEF M!Number31, Longest
<1>15. Offset(type, v, Len(type) + 1) = M!ElementSize(type, v)
  <2>1. CASE Len(type) = 2
        BY <1>4, <1>6, <1>7, <2>1 DEF z3
  <2>2. CASE Len(type) = 3
        BY <1>6, <1>7, <2>2
  <2>3. QED
        BY <1>1, <2>1, <2>2
<1>16. ASSUME NEW k \in 1..Len(type)
       PROVE  /\ Offset(type, v, k) \in Nat
              /\ Offset(type, v, k + 1) = Offset(type, v, k) + z(k)
              /\ Offset(type, v, k + 1) <= M!ElementSize(type, v)
              /\ \A j \in 1..z(k) : b[Offset(type, v, k) + j] = s(k)[j]
  <2>1. CASE k = 1
    <3>1. Offset(type, v, k) = 0 /\ Offset(type, v, k + 1) = z(1)
          BY <1>7, <2>1
    <3>2. \A j \in 1..z(1) : 0 + j = j
          BY <1>4
    <3>3. \A j \in 1..z(k) : b[Offset(type, v, k) + j] = s(k)[j]
          BY <1>11, <2>1, <3>1, <3>2
    <3>4. QED
          BY <1>3, <1>4, <1>6, <2>1, <3>1, <3>3
  <2>2. CASE k = 2
    <3>1. Offset(type, v, k) = z(1) /\ Offset(type, v, k + 1) = z(1) + z(2)
          BY <1>7, <2>2
    <3>2. \A j \in 1..z(k) : b[Offset(type, v, k) + j] = s(k)[j]
          BY <1>12, <2>2, <3>1
    <3>3. QED
          BY <1>3, <1>4, <1>6, <2>2, <3>1, <3>2
  <2>3. CASE k = 3 /\ Len(type) = 3
    <3>1. Offset(type, v, k) = z(1) + z(2) /\ Offset(type, v, k + 1) = z(1) + z(2) + z3
          BY <1>7, <2>3
    <3>2. z3 = z(3) /\ t3 = s(3)
          BY <2>3 DEF t3, z3
    <3>3. \A j \in 1..z(k) : b[Offset(type, v, k) + j] = s(k)[j]
          BY <1>13, <2>3, <3>1, <3>2
    <3>4. QED
          BY <1>3, <1>4, <1>6, <2>3, <3>1, <3>2, <3>3
  <2>4. QED
        BY <1>1, <2>1, <2>2, <2>3
<1>17. M!Body(type, v) \in Seq(M!Byte) /\ Len(M!Body(type, v)) = M!ElementSize(type, v)
       BY <1>6, <1>9, <1>10
<1>18. QED
       BY <1>7, <1>10, <1>14, <1>15, <1>16, <1>17 DEF z, s, Scalars

Kinds == M!Single \cup M!Nested \cup {"texts"}

Fields(d) == 1..Len(d.type)

LEMMA Within == \A n \in 1..15 : \A f \in 1..n : f \in 1..15
OBVIOUS

LEMMA CaseFacts ==
    ASSUME NEW d, M!WellFormed(d)
    PROVE  /\ Len(d.type) \in 1..15 /\ DOMAIN d.type = Fields(d)
           /\ \A f \in Fields(d) :
                 /\ d.type[f].kind \in Kinds
                 /\ d.type[f].kind = "int" => d.type[f].flag \in BOOLEAN
                 /\ d.type[f].kind \in M!Nested => IsElementType(d.type[f].type)
                 /\ d.msg[f] \in M!Values(d.type[f]) /\ d.into[f] \in M!Values(d.type[f])
           /\ d.msg = [f \in Fields(d) |-> d.msg[f]] /\ d.into = [f \in Fields(d) |-> d.into[f]]
           /\ d.known \in 0..Len(d.type) /\ d.file \in BOOLEAN
<1>1. M!IsType(d.type, Kinds, 1..15) /\ 1..15 \in SUBSET Nat
      BY DEF M!WellFormed, Kinds
<1>2. /\ Len(d.type) \in 1..15 /\ DOMAIN d.type = Fields(d)
      /\ \A f \in Fields(d) :
            /\ d.type[f].kind \in Kinds
            /\ d.type[f].kind = "int" => d.type[f].flag \in BOOLEAN
      BY <1>1, TypeFacts DEF Fields
<1>3. QED
      BY <1>2 DEF M!WellFormed, M!IsMessage, IsElementType

LEMMA Counts ==
    ASSUME NEW d, M!WellFormed(d), NEW f \in Fields(d)
    PROVE  /\ M!Count(d, f) \in Nat
           /\ d.type[f].kind \in M!Single => M!Count(d, f) \in 0..1
           /\ d.type[f].kind \in M!Single => IsScalar(d.type[f]) /\ d.msg[f] \in M!Scalar(d.type[f])
           /\ d.type[f].kind \notin M!Single =>
                 M!Count(d, f) = Len(d.msg[f]) /\ d.msg[f] = [i \in 1..M!Count(d, f) |-> d.msg[f][i]]
           /\ d.type[f].kind = "texts" => d.msg[f] \in Seq(M!String)
           /\ d.type[f].kind \in M!Nested => d.msg[f] \in Seq(M!Element(d.type[f].type))
           /\ d.type[f].kind = "msg" => M!Count(d, f) <= 1
<1>1. /\ d.type[f].kind \in Kinds /\ d.msg[f] \in M!Values(d.type[f])
      /\ d.type[f].kind = "int" => d.type[f].flag \in BOOLEAN
      BY CaseFacts
<1>2. CASE d.type[f].kind \in M!Single
      BY <1>1, <1>2 DEF M!Count, M!Values, M!Single, M!Nested, IsScalar
<1>3. CASE d.type[f].kind = "texts"
      BY <1>1, <1>3 DEF M!Count, M!Values, M!Single, M!Nested
<1>4. CASE d.type[f].kind \in M!Nested
  <2>1. d.type[f].kind \notin M!Single /\ d.type[f].kind # "texts"
        BY <1>4 DEF M!Single, M!Nested
  <2>2. d.msg[f] \in {s \in Seq(M!Element(d.type[f].type)) : d.type[f].kind = "msg" => Len(s) <= 1}
        BY <1>1, <2>1 DEF M!Values
  <2>3. M!Count(d, f) = Len(d.msg[f])
        BY <2>1 DEF M!Count
  <2>4. Len(d.msg[f]) \in Nat /\ d.msg[f] = [i \in 1..Len(d.msg[f]) |-> d.msg[f][i]]
        BY <2>2
  <2>5. d.type[f].kind = "msg" => M!Count(d, f) <= 1
    <3>1. ASSUME d.type[f].kind = "msg" PROVE M!Count(d, f) <= 1
      <4>1. Len(d.msg[f]) <= 1
            BY <2>2, <3>1
      <4>2. QED
            BY <2>3, <2>4, <4>1
    <3>2. QED
          BY <3>1
  <2>6. QED
        BY <1>4, <2>1, <2>2, <2>3, <2>4, <2>5
<1>5. QED
      BY <1>1, <1>2, <1>3, <1>4 DEF Kinds

LEMMA ItemValue ==
    ASSUME NEW d, M!WellFormed(d), NEW f \in Fields(d), NEW i \in 1..M!Count(d, f)
    PROVE  /\ d.type[f].kind \in M!Single =>
                 /\ M!Value(d, <<f, i>>) = d.msg[f] /\ i = 1
                 /\ d.msg[f] # M!Default(d.type[f])
           /\ d.type[f].kind \notin M!Single => M!Value(d, <<f, i>>) = d.msg[f][i]
           /\ d.type[f].kind = "texts" => M!Value(d, <<f, i>>) \in M!String
           /\ d.type[f].kind \in M!Nested =>
                 M!Value(d, <<f, i>>) \in M!Element(d.type[f].type)
<1>1. <<f, i>>[1] = f /\ <<f, i>>[2] = i
      OBVIOUS
<1>2. CASE d.type[f].kind \in M!Single
  <2>1. M!Count(d, f) \in 0..1 /\ (d.msg[f] = M!Default(d.type[f]) => M!Count(d, f) = 0)
        BY <1>2, Counts DEF M!Count
  <2>2. QED
        BY <1>1, <1>2, <2>1 DEF M!Value, M!Single, M!Nested
<1>3. CASE d.type[f].kind \notin M!Single
  <2>1. M!Value(d, <<f, i>>) = d.msg[f][i]
        BY <1>1, <1>3 DEF M!Value
  <2>2. i \in 1..Len(d.msg[f]) /\ (d.type[f].kind = "texts" => d.msg[f] \in Seq(M!String))
        /\ (d.type[f].kind \in M!Nested => d.msg[f] \in Seq(M!Element(d.type[f].type)))
        BY <1>3, Counts
  <2>3. QED
        BY <1>3, <2>1, <2>2
<1>4. QED
      BY <1>2, <1>3

\* The field of an item, its number, and the bytes behind that.
KindOf(d, c) == d.type[c[1]]
NumberOf(d, c) == M!Number(KindOf(d, c), M!Value(d, c))
ContentOf(d, c) == M!Content(KindOf(d, c), M!Value(d, c))

LEMMA ItemWritten ==
    ASSUME NEW d, M!WellFormed(d), NEW f \in Fields(d), NEW i \in 1..M!Count(d, f)
    PROVE  LET c == <<f, i>> IN
           /\ NumberOf(d, c) \in M!Number31
           /\ ContentOf(d, c) \in Seq(M!Byte)
           /\ Len(ContentOf(d, c)) = IF d.type[f].kind = "int" THEN 0 ELSE NumberOf(d, c)
           /\ M!Put(d, c) = M!Written(f, M!Wire(d.type[f]), NumberOf(d, c), ContentOf(d, c))
           /\ M!Put(d, c) \in Seq(M!Byte) /\ Len(M!Put(d, c)) = M!Size(d, c)
           /\ M!Size(d, c) = 1 + M!VarSize(NumberOf(d, c)) + Len(ContentOf(d, c))
           /\ M!Size(d, c) \in Nat /\ M!Size(d, c) > 0
<1> DEFINE c == <<f, i>>
           v == M!Value(d, c)
           field == d.type[f]
           n == NumberOf(d, c)
           body == ContentOf(d, c)
<1>1. c[1] = f /\ KindOf(d, c) = field
      BY DEF KindOf
<1>2. n \in M!Number31 /\ body \in Seq(M!Byte) /\ Len(body) = IF field.kind = "int" THEN 0 ELSE n
  <2>1. CASE field.kind \in M!Nested
    <3>1. n = M!ElementSize(field.type, v) /\ body = M!Body(field.type, v) /\ field.kind # "int"
          BY <1>1, <2>1 DEF NumberOf, ContentOf, M!Number, M!Content, M!Nested
    <3>2. IsElementType(field.type) /\ v \in M!Element(field.type)
          BY <2>1, CaseFacts, ItemValue
    <3>3. QED
          BY <3>1, <3>2, ElementWritten
  <2>2. CASE field.kind \in M!Single
    <3>1. n = M!number(field, v) /\ body = M!text(field, v)
          BY <1>1, <2>2 DEF NumberOf, ContentOf, M!Number, M!Content, M!Nested, M!Single
    <3>2. IsScalar(field) /\ v \in M!Scalar(field)
        <4>1. v = d.msg[f]
            BY <2>2, ItemValue
      <4>2. QED
            BY <2>2, <4>1, Counts
    <3>3. QED
          BY <3>1, <3>2, ScalarTypes
  <2>3. CASE field.kind = "texts"
    <3>1. n = Len(v) /\ body = v
          BY <1>1, <2>3 DEF NumberOf, ContentOf, M!Number, M!Content, M!Nested, M!number, M!text
    <3>2. v \in M!String
          BY <2>3, ItemValue
    <3>3. QED
          BY <2>3, <3>1, <3>2, SMT DEF M!String, M!Number31
  <2>4. QED
        BY <2>1, <2>2, <2>3, CaseFacts DEF Kinds
<1>3. M!Put(d, c) = M!Written(f, M!Wire(field), n, body)
      BY <1>1 DEF M!Put, NumberOf, ContentOf, KindOf
<1>4. M!Size(d, c) = 1 + M!VarSize(n) + Len(body)
      BY <1>1, <1>2 DEF M!Size, NumberOf, KindOf
<1>5. M!VarSize(n) \in 1..5
      BY <1>2, VarSizeType
<1>6. f \in 1..15 /\ M!Wire(field) \in {0, 2}
  <2>1. Len(d.type) \in 1..15
        BY CaseFacts
  <2>2. f \in 1..15
    <3>1. f \in 1..Len(d.type)
          BY DEF Fields
    <3>2. QED
          BY <2>1, <3>1, Within
  <2>3. QED
        BY <2>2 DEF M!Wire
<1>7. M!Put(d, c) \in Seq(M!Byte) /\ Len(M!Put(d, c)) = 1 + M!VarSize(n) + Len(body)
  <2> HIDE DEF n, body
  <2>1. /\ M!Written(f, M!Wire(field), n, body) \in Seq(M!Byte)
        /\ Len(M!Written(f, M!Wire(field), n, body)) = 1 + M!VarSize(n) + Len(body)
        BY <1>2, <1>6, WrittenLength
  <2>2. QED
        BY <1>3, <2>1
<1> HIDE DEF n, body
<1>8. M!Size(d, c) \in Nat /\ M!Size(d, c) > 0
      BY <1>2, <1>4, <1>5
<1>9. QED
      BY <1>2, <1>3, <1>4, <1>7, <1>8 DEF n, body

------------------------------------------------------------------------------
(* Which items there are, and in which order *)

\* Where the writer and the reader may be: at an item, or behind them all.
Places(d) ==
    {c \in Nat \X Nat :
        /\ c[1] \in 1..(Len(d.type) + 1)
        /\ c[1] <= Len(d.type) => c[2] \in 1..M!Count(d, c[1])
        /\ c[1] > Len(d.type) => c[2] = 1}

LEMMA PlaceFacts ==
    ASSUME NEW d, M!WellFormed(d), NEW c \in Places(d)
    PROVE  /\ c = <<c[1], c[2]>> /\ c[1] \in Nat /\ c[2] \in Nat /\ c[2] >= 1
           /\ ~ M!AtEnd(d, c) => c[1] \in Fields(d) /\ c[2] \in 1..M!Count(d, c[1])
           /\ M!AtEnd(d, c) => c[1] = Len(d.type) + 1
<1>1. Len(d.type) \in Nat
      BY CaseFacts
<1>2. \A f \in Fields(d) : M!Count(d, f) \in Nat
      BY Counts
<1>3. QED
      BY <1>1, <1>2 DEF Places, Fields, M!AtEnd

LEMMA FollowingFacts ==
    ASSUME NEW d, M!WellFormed(d), NEW f \in 1..(Len(d.type) + 1)
    PROVE  \E g \in f..(Len(d.type) + 1) :
               /\ M!Following(d, f) = <<g, 1>> /\ <<g, 1>> \in Places(d)
               /\ \A h \in f..(g - 1) : M!Count(d, h) = 0
<1> DEFINE Z == Len(d.type)
           T == {g \in f..(Z + 1) : g > Z \/ M!Count(d, g) > 0}
           g == M!Least(T)
<1>1. Z \in Nat
      BY CaseFacts
<1>2. Z + 1 \in T /\ T \in SUBSET Nat
      BY <1>1
<1>3. g \in T /\ \A y \in T : g <= y
  <2> HIDE DEF T
  <2>1. QED
        BY <1>2, LeastIs
<1>4. M!Following(d, f) = <<g, 1>>
      BY DEF M!Following
<1> HIDE DEF g
<1>5. g \in f..(Z + 1) /\ (g > Z \/ M!Count(d, g) > 0)
      BY <1>3
<1>6. \A h \in Fields(d) : M!Count(d, h) \in Nat
      BY Counts
<1>7. <<g, 1>> \in Places(d)
  <2>1. g \in Nat /\ g \in 1..(Z + 1)
        BY <1>1, <1>5
  <2>2. g <= Z => 1 \in 1..M!Count(d, g)
        BY <1>1, <1>5, <1>6, <2>1 DEF Fields
  <2>3. QED
        BY <2>1, <2>2 DEF Places
<1>8. ASSUME NEW h \in f..(g - 1) PROVE M!Count(d, h) = 0
  <2>1. h \in f..(Z + 1) /\ h < g /\ h \in Fields(d)
        BY <1>1, <1>5 DEF Fields
  <2>2. h \notin T
        BY <1>3, <1>5, <2>1
  <2>3. ~(M!Count(d, h) > 0)
        BY <2>1, <2>2
  <2>4. QED
        BY <1>6, <2>1, <2>3
<1>9. QED
      BY <1>4, <1>5, <1>7, <1>8

LEMMA AfterFacts ==
    ASSUME NEW d, M!WellFormed(d), NEW c \in Places(d), ~ M!AtEnd(d, c)
    PROVE  /\ M!After(d, c) \in Places(d)
           /\ \/ c[2] < M!Count(d, c[1]) /\ M!After(d, c) = <<c[1], c[2] + 1>>
              \/ /\ c[2] = M!Count(d, c[1])
                 /\ \E g \in (c[1] + 1)..(Len(d.type) + 1) :
                       /\ M!After(d, c) = <<g, 1>>
                       /\ \A h \in (c[1] + 1)..(g - 1) : M!Count(d, h) = 0
<1>1. c[1] \in Fields(d) /\ c[2] \in 1..M!Count(d, c[1]) /\ Len(d.type) \in Nat
      BY PlaceFacts, CaseFacts
<1>2. M!Count(d, c[1]) \in Nat
      BY <1>1, Counts
<1>3. CASE c[2] < M!Count(d, c[1])
  <2>1. M!After(d, c) = <<c[1], c[2] + 1>>
        BY <1>3 DEF M!After
  <2>2. <<c[1], c[2] + 1>> \in Places(d)
        BY <1>1, <1>2, <1>3 DEF Places, Fields
  <2>3. QED
        BY <1>3, <2>1, <2>2
<1>4. CASE ~(c[2] < M!Count(d, c[1]))
  <2>1. M!After(d, c) = M!Following(d, c[1] + 1) /\ c[2] = M!Count(d, c[1])
        BY <1>1, <1>2, <1>4 DEF M!After
  <2>2. c[1] + 1 \in 1..(Len(d.type) + 1)
        BY <1>1 DEF Fields
  <2>3. PICK g \in (c[1] + 1)..(Len(d.type) + 1) :
               /\ M!Following(d, c[1] + 1) = <<g, 1>> /\ <<g, 1>> \in Places(d)
               /\ \A h \in (c[1] + 1)..(g - 1) : M!Count(d, h) = 0
        BY <2>2, FollowingFacts
  <2>4. QED
        BY <2>1, <2>3
<1>5. QED
      BY <1>3, <1>4

LEMMA CaseNumbers ==
    ASSUME NEW d, M!WellFormed(d)
    PROVE  /\ Len(d.type) \in Nat /\ d.known \in Nat /\ d.known <= Len(d.type)
           /\ DOMAIN d.type = Fields(d)
           /\ \A f \in Fields(d) : f \in Nat /\ f \in 1..15 /\ f <= Len(d.type)
<1>1. Len(d.type) \in 1..15 /\ DOMAIN d.type = Fields(d) /\ d.known \in 0..Len(d.type)
      BY CaseFacts
<1>2. \A f \in Fields(d) : f \in 1..15
      BY <1>1, Within DEF Fields
<1>3. QED
      BY <1>1, <1>2 DEF Fields

LEMMA ItemFacts ==
    ASSUME NEW d, M!WellFormed(d), NEW c \in Places(d), ~ M!AtEnd(d, c)
    PROVE  /\ c = <<c[1], c[2]>> /\ c[1] \in Fields(d) /\ c[1] \in Nat /\ c[1] <= Len(d.type)
           /\ c[2] \in 1..M!Count(d, c[1]) /\ c[2] \in Nat /\ M!Count(d, c[1]) \in Nat
           /\ d.type[c[1]].kind \in M!Single => c[2] = 1 /\ M!Count(d, c[1]) = 1
<1>1. /\ c = <<c[1], c[2]>> /\ c[1] \in Fields(d) /\ c[1] \in Nat
      /\ c[2] \in 1..M!Count(d, c[1]) /\ c[2] \in Nat
      BY PlaceFacts
<1>2. M!Count(d, c[1]) \in Nat /\ (d.type[c[1]].kind \in M!Single => M!Count(d, c[1]) \in 0..1)
      BY <1>1, Counts
<1>3. c[1] <= Len(d.type)
      BY <1>1, CaseNumbers
<1>4. QED
      BY <1>1, <1>2, <1>3

\* A repeated field is a sequence, and so is a message that may be absent.
LEMMA IsSequence ==
    ASSUME NEW d, M!WellFormed(d), NEW f \in Fields(d), d.type[f].kind \notin M!Single
    PROVE  d.msg[f] \in Seq(M!String) \/ d.msg[f] \in Seq(M!Element(d.type[f].type))
<1>1. d.type[f].kind \in Kinds
      BY CaseFacts
<1>2. /\ d.type[f].kind = "texts" => d.msg[f] \in Seq(M!String)
      /\ d.type[f].kind \in M!Nested => d.msg[f] \in Seq(M!Element(d.type[f].type))
      BY Counts
<1>3. QED
      BY <1>1, <1>2 DEF Kinds

\* A field that is not written has its default.
LEMMA Unwritten ==
    ASSUME NEW d, M!WellFormed(d), NEW f \in Fields(d), M!Count(d, f) = 0
    PROVE  d.msg[f] = M!Default(d.type[f])
<1>1. CASE d.type[f].kind \in M!Single
      BY <1>1 DEF M!Count
<1>2. CASE d.type[f].kind \notin M!Single
  <2>1. d.msg[f] = [i \in 1..0 |-> d.msg[f][i]] /\ Len(d.msg[f]) = 0
        BY <1>2, Counts
  <2>2. d.msg[f] \in Seq(M!String) \/ d.msg[f] \in Seq(M!Element(d.type[f].type))
        BY <1>2, IsSequence
  <2>3. d.msg[f] = <<>>
        BY <2>1, <2>2
  <2>4. d.type[f].kind # "int"
        BY <1>2 DEF M!Single
  <2>5. QED
        BY <2>3, <2>4 DEF M!Default
<1>3. QED
      BY <1>1, <1>2

\* the part of a repeated field before its item i
LEMMA UptoHere ==
    ASSUME NEW d, M!WellFormed(d), NEW c \in Places(d), ~ M!AtEnd(d, c), c[1] <= d.known
    PROVE  M!Upto(d, c)[c[1]] =
               IF d.type[c[1]].kind \in M!Single THEN M!Default(d.type[c[1]])
               ELSE SubSeq(d.msg[c[1]], 1, c[2] - 1)
<1>1. c[1] \in Fields(d) /\ c[1] \in Nat /\ (d.type[c[1]].kind \in M!Single => c[2] = 1)
      BY ItemFacts
<1>2. DOMAIN d.type = Fields(d) /\ d.known \in Nat
      BY CaseNumbers
<1>4. ~(c[1] > d.known) /\ ~(c[1] > c[1]) /\ ~(c[1] < c[1])
      BY <1>1, <1>2
<1>5. QED
      BY <1>1, <1>2, <1>4 DEF M!Upto

LEMMA UptoAfterHere ==
    ASSUME NEW d, M!WellFormed(d), NEW c \in Places(d), ~ M!AtEnd(d, c), c[1] <= d.known
    PROVE  M!Upto(d, M!After(d, c))[c[1]] =
               IF d.type[c[1]].kind \in M!Single THEN d.msg[c[1]]
               ELSE SubSeq(d.msg[c[1]], 1, c[2])
<1> DEFINE f == c[1]
           a == M!After(d, c)
<1>0. /\ f \in Fields(d) /\ c[2] \in 1..M!Count(d, f) /\ f \in Nat
      /\ M!Count(d, f) \in Nat /\ c[2] \in Nat
      /\ d.type[f].kind \in M!Single => c[2] = 1 /\ M!Count(d, f) = 1
      BY ItemFacts
<1>1. f \in Fields(d) /\ DOMAIN d.type = Fields(d) /\ Len(d.type) \in Nat /\ d.known \in Nat
      BY <1>0, CaseNumbers
<1>2. d.known \in Nat /\ f \in Nat /\ ~(f > d.known) /\ M!Count(d, f) \in Nat /\ c[2] \in Nat
      BY <1>0, <1>1
<1>3. CASE c[2] < M!Count(d, f) /\ a = <<f, c[2] + 1>>
  <2>1. d.type[f].kind \notin M!Single
        BY <1>0, <1>3
  <2>2. a[1] = f /\ a[2] - 1 = c[2]
        BY <1>2, <1>3
  <2>3. ~(f > a[1]) /\ ~(f < a[1])
        BY <1>2, <2>2
  <2> HIDE DEF a
  <2>4. QED
        BY <1>1, <1>2, <2>1, <2>2, <2>3 DEF M!Upto, a
<1>4. ASSUME c[2] = M!Count(d, f), NEW g \in (f + 1)..(Len(d.type) + 1), a = <<g, 1>>
      PROVE  M!Upto(d, a)[f] = d.msg[f]
  <2>1. ~(f > a[1]) /\ f < a[1]
        BY <1>2, <1>4
  <2> HIDE DEF a
  <2>2. QED
        BY <1>1, <1>2, <2>1 DEF M!Upto
<1>5. c[2] = M!Count(d, f) /\ d.type[f].kind \notin M!Single
         => SubSeq(d.msg[f], 1, c[2]) = d.msg[f]
  <2> SUFFICES ASSUME c[2] = M!Count(d, f), d.type[f].kind \notin M!Single
               PROVE  SubSeq(d.msg[f], 1, c[2]) = d.msg[f]
      OBVIOUS
  <2>1. Len(d.msg[f]) = c[2]
        BY <1>1, Counts
  <2>2. d.msg[f] \in Seq(M!String) \/ d.msg[f] \in Seq(M!Element(d.type[f].type))
        BY <1>1, IsSequence
  <2>3. QED
        BY <2>1, <2>2
<1>6. QED
      BY <1>3, <1>4, <1>5, AfterFacts

\* Nothing but the field of the item is added by the item.
LEMMA UptoElsewhere ==
    ASSUME NEW d, M!WellFormed(d), NEW c \in Places(d), ~ M!AtEnd(d, c),
           NEW f \in Fields(d), f # c[1] \/ c[1] > d.known
    PROVE  M!Upto(d, M!After(d, c))[f] = M!Upto(d, c)[f]
<1> DEFINE a == M!After(d, c)
<1>1. /\ c[1] \in Fields(d) /\ DOMAIN d.type = Fields(d) /\ Len(d.type) \in Nat
      /\ d.known \in Nat /\ f \in Nat /\ c[1] \in Nat /\ c[2] \in Nat
      BY ItemFacts, CaseNumbers
<1>2. CASE f > d.known
      BY <1>1, <1>2 DEF M!Upto
<1>3. CASE f <= d.known /\ f # c[1]
  <2>1. CASE a[1] = c[1]
    <3>1. f < a[1] <=> f < c[1]
          BY <2>1
    <3>2. f > a[1] <=> f > c[1]
          BY <2>1
    <3>3. f < a[1] \/ f > a[1]
          BY <1>1, <1>3, <2>1
    <3> HIDE DEF a
    <3>4. QED
          BY <1>1, <1>3, <3>1, <3>2, <3>3 DEF M!Upto, a
  <2>2. ASSUME NEW g \in (c[1] + 1)..(Len(d.type) + 1), a = <<g, 1>>,
               \A h \in (c[1] + 1)..(g - 1) : M!Count(d, h) = 0
        PROVE  M!Upto(d, a)[f] = M!Upto(d, c)[f]
    <3>1. a[1] = g /\ a[2] = 1 /\ g \in Nat
          BY <1>1, <2>2
    <3> HIDE DEF a
    <3>2. CASE f < c[1]
      <4>1. f < a[1] /\ ~(f > a[1]) /\ ~(f > c[1]) /\ ~(f > d.known)
            BY <1>1, <1>3, <2>2, <3>1, <3>2
      <4>2. QED
            BY <1>1, <3>2, <4>1 DEF M!Upto
    <3>3. CASE f > c[1] /\ f < g
      <4>1. f < a[1] /\ ~(f > a[1]) /\ ~(f > d.known) /\ f \in (c[1] + 1)..(g - 1)
            BY <1>1, <1>3, <2>2, <3>1, <3>3
      <4>2. d.msg[f] = M!Default(d.type[f])
            BY <2>2, <4>1, Unwritten
      <4>3. QED
            BY <1>1, <3>3, <4>1, <4>2 DEF M!Upto
    <3>4. CASE f = g
      <4>1. ~(f < a[1]) /\ ~(f > a[1]) /\ ~(f > d.known) /\ f > c[1]
            BY <1>1, <1>3, <2>2, <3>1, <3>4
      <4>2. M!Upto(d, c)[f] = M!Default(d.type[f])
            BY <1>1, <4>1 DEF M!Upto
      <4>3. CASE d.type[f].kind \in M!Single
            BY <1>1, <3>1, <4>1, <4>2, <4>3 DEF M!Upto
      <4>4. CASE d.type[f].kind \notin M!Single
        <5>1. M!Upto(d, a)[f] = SubSeq(d.msg[f], 1, a[2] - 1)
              BY <1>1, <4>1, <4>4 DEF M!Upto
        <5>2. d.msg[f] \in Seq(M!String) \/ d.msg[f] \in Seq(M!Element(d.type[f].type))
              BY <4>4, IsSequence
        <5>3. SubSeq(d.msg[f], 1, 0) = <<>>
              BY <5>2
        <5>4. M!Default(d.type[f]) = <<>>
              BY <4>4 DEF M!Default, M!Single
        <5>5. a[2] - 1 = 0
              BY <3>1
        <5>6. QED
              BY <4>2, <5>1, <5>3, <5>4, <5>5
      <4>5. QED
            BY <4>3, <4>4
    <3>5. CASE f > g
      <4>1. f > a[1] /\ f > c[1]
            BY <1>1, <2>2, <3>1, <3>5
      <4>2. QED
            BY <1>1, <4>1 DEF M!Upto
    <3>6. QED
          BY <1>1, <1>3, <2>2, <3>2, <3>3, <3>4, <3>5
  <2>3. c[2] < M!Count(d, c[1]) /\ a = <<c[1], c[2] + 1>> => a[1] = c[1]
        OBVIOUS
  <2>4. QED
        BY <2>1, <2>2, <2>3, AfterFacts
<1>4. QED
      BY <1>1, <1>2, <1>3

------------------------------------------------------------------------------
(* What the items before an item are merged to *)

\* the values of a repeated field, or of a message that may be absent
Elements(field) == IF field.kind = "texts" THEN M!String ELSE M!Element(field.type)

LEMMA AreSequences ==
    ASSUME NEW d, M!WellFormed(d), NEW f \in Fields(d), d.type[f].kind \notin M!Single
    PROVE  /\ d.msg[f] \in Seq(Elements(d.type[f])) /\ d.into[f] \in Seq(Elements(d.type[f]))
           /\ Len(d.msg[f]) = M!Count(d, f) /\ M!Default(d.type[f]) = <<>>
           /\ d.type[f].kind = "msg" => Len(d.into[f]) <= 1
<1>1. /\ d.type[f].kind \in Kinds
      /\ d.msg[f] \in M!Values(d.type[f]) /\ d.into[f] \in M!Values(d.type[f])
      BY CaseFacts
<1>2. d.type[f].kind = "texts" \/ d.type[f].kind \in M!Nested
      BY <1>1 DEF Kinds
<1>3. M!Default(d.type[f]) = <<>> /\ Len(d.msg[f]) = M!Count(d, f)
      BY DEF M!Default, M!Single, M!Count
<1>4. CASE d.type[f].kind = "texts"
      BY <1>1, <1>3, <1>4 DEF M!Values, M!Single, Elements
<1>5. CASE d.type[f].kind \in M!Nested
  <2>1. d.type[f].kind # "texts"
        BY <1>5 DEF M!Nested
  <2>2. M!Values(d.type[f]) =
          {s \in Seq(M!Element(d.type[f].type)) : d.type[f].kind = "msg" => Len(s) <= 1}
        BY <2>1 DEF M!Values
  <2>3. Elements(d.type[f]) = M!Element(d.type[f].type)
        BY <2>1 DEF Elements
  <2>4. QED
        BY <1>1, <1>3, <2>2, <2>3
<1>6. QED
      BY <1>2, <1>4, <1>5

LEMMA AppendNothing ==
    ASSUME NEW E, NEW s \in Seq(E)
    PROVE  s \o <<>> = s /\ SubSeq(s, 1, 0) = <<>>
OBVIOUS

LEMMA MergeNothing ==
    ASSUME NEW d, M!WellFormed(d), NEW f \in Fields(d)
    PROVE  M!MergeField(d.type[f], d.into[f], M!Default(d.type[f])) = d.into[f]
<1>1. CASE d.type[f].kind \in M!Single
      BY <1>1 DEF M!MergeField, M!MergeScalar
<1>2. CASE d.type[f].kind \notin M!Single
  <2>1. d.into[f] \in Seq(Elements(d.type[f])) /\ M!Default(d.type[f]) = <<>>
        BY <1>2, AreSequences
  <2>2. d.into[f] \o <<>> = d.into[f]
        BY <2>1, AppendNothing
  <2>3. QED
        BY <1>2, <2>1, <2>2 DEF M!MergeField
<1>3. QED
      BY <1>1, <1>2

\* What is read of the items before c.
Merged(d, c) == M!MergeFrom(d.type, d.into, M!Upto(d, c))

LEMMA MergedIs ==
    ASSUME NEW d, M!WellFormed(d), NEW c
    PROVE  Merged(d, c) =
               [f \in Fields(d) |-> M!MergeField(d.type[f], d.into[f], M!Upto(d, c)[f])]
<1>1. DOMAIN d.type = Fields(d)
      BY CaseNumbers
<1>2. QED
      BY <1>1 DEF Merged, M!MergeFrom

LEMMA UptoStart ==
    ASSUME NEW d, M!WellFormed(d), NEW f \in Fields(d)
    PROVE  M!Upto(d, M!Following(d, 1))[f] = M!Default(d.type[f])
<1>1. /\ DOMAIN d.type = Fields(d) /\ Len(d.type) \in Nat /\ d.known \in Nat
      /\ f \in Nat /\ 1 \in 1..(Len(d.type) + 1) /\ f >= 1
      BY CaseNumbers DEF Fields
<1>2. PICK g \in 1..(Len(d.type) + 1) :
          M!Following(d, 1) = <<g, 1>> /\ \A h \in 1..(g - 1) : M!Count(d, h) = 0
      BY <1>1, FollowingFacts
<1>3. <<g, 1>>[1] = g /\ <<g, 1>>[2] = 1 /\ g \in Nat
      BY <1>1
<1>4. CASE f > d.known \/ f > g
      BY <1>1, <1>2, <1>3, <1>4 DEF M!Upto
<1>5. CASE ~(f > d.known) /\ f < g
  <2>1. f \in 1..(g - 1)
        BY <1>1, <1>3, <1>5
  <2>2. d.msg[f] = M!Default(d.type[f])
        BY <1>2, <2>1, Unwritten
  <2>3. ~(f > g)
        BY <1>1, <1>3, <1>5
  <2>4. QED
        BY <1>1, <1>2, <1>3, <1>5, <2>2, <2>3 DEF M!Upto
<1>6. CASE ~(f > d.known) /\ f = g
  <2>1. ~(f > g) /\ ~(f < g)
        BY <1>1, <1>3, <1>6
  <2>2. CASE d.type[f].kind \in M!Single
        BY <1>1, <1>2, <1>3, <1>6, <2>1, <2>2 DEF M!Upto
  <2>3. CASE d.type[f].kind \notin M!Single
    <3>1. d.msg[f] \in Seq(Elements(d.type[f])) /\ M!Default(d.type[f]) = <<>>
          BY <2>3, AreSequences
    <3>2. SubSeq(d.msg[f], 1, 0) = <<>>
          BY <3>1, AppendNothing
    <3>3. M!Upto(d, M!Following(d, 1))[f] = SubSeq(d.msg[f], 1, 1 - 1)
          BY <1>1, <1>2, <1>3, <1>6, <2>1, <2>3 DEF M!Upto
    <3>4. 1 - 1 = 0
          OBVIOUS
    <3>5. QED
          BY <3>1, <3>2, <3>3, <3>4
  <2>4. QED
        BY <2>2, <2>3
<1>7. QED
      BY <1>1, <1>3, <1>4, <1>5, <1>6

LEMMA MergedStart ==
    ASSUME NEW d, M!WellFormed(d)
    PROVE  Merged(d, M!Following(d, 1)) = d.into
<1>1. \A f \in Fields(d) :
          M!MergeField(d.type[f], d.into[f], M!Upto(d, M!Following(d, 1))[f]) = d.into[f]
      BY UptoStart, MergeNothing
<1>2. d.into = [f \in Fields(d) |-> d.into[f]]
      BY CaseFacts
<1>3. QED
      BY <1>1, <1>2, MergedIs

LEMMA MergedEnd ==
    ASSUME NEW d, M!WellFormed(d), NEW c \in Places(d), M!AtEnd(d, c), d.known = Len(d.type)
    PROVE  Merged(d, c) = M!MergeFrom(d.type, d.into, d.msg)
<1>1. c[1] = Len(d.type) + 1
      BY PlaceFacts
<1>2. DOMAIN d.type = Fields(d) /\ Len(d.type) \in Nat
      /\ \A f \in Fields(d) : f \in Nat /\ f <= Len(d.type)
      BY CaseNumbers
<1>3. \A f \in Fields(d) : M!Upto(d, c)[f] = d.msg[f]
      BY <1>1, <1>2 DEF M!Upto
<1>4. QED
      BY <1>2, <1>3 DEF Merged, M!MergeFrom

LEMMA MergedUnknown ==
    ASSUME NEW d, M!WellFormed(d), NEW c \in Places(d), ~ M!AtEnd(d, c), c[1] > d.known
    PROVE  Merged(d, M!After(d, c)) = Merged(d, c)
<1>1. \A f \in Fields(d) : M!Upto(d, M!After(d, c))[f] = M!Upto(d, c)[f]
      BY UptoElsewhere
<1>2. QED
      BY <1>1, MergedIs

LEMMA OneMore ==
    ASSUME NEW E, NEW s \in Seq(E), NEW i \in 1..Len(s)
    PROVE  SubSeq(s, 1, i) = Append(SubSeq(s, 1, i - 1), s[i])
OBVIOUS

LEMMA AppendBehind ==
    ASSUME NEW E, NEW s \in Seq(E), NEW t \in Seq(E), NEW e \in E
    PROVE  s \o Append(t, e) = Append(s \o t, e)
OBVIOUS

LEMMA OneIsAll ==
    ASSUME NEW E, NEW s \in Seq(E), Len(s) = 1
    PROVE  SubSeq(s, 1, 1) = <<s[1]>> /\ <<s[1]>> # <<>>
<1>1. SubSeq(s, 1, 1 - 1) = <<>> /\ 1 \in 1..Len(s)
      OBVIOUS
<1>2. SubSeq(s, 1, 1) = Append(SubSeq(s, 1, 1 - 1), s[1])
      BY <1>1, OneMore
<1>3. Append(<<>>, s[1]) = <<s[1]>> /\ <<s[1]>> # <<>>
      OBVIOUS
<1>4. QED
      BY <1>1, <1>2, <1>3

\* The element a nested item is merged into, and the elements before that.
Base(d, c) ==
    LET field == d.type[c[1]] IN
    IF field.kind = "msg" /\ d.into[c[1]] # <<>> THEN d.into[c[1]][1] ELSE M!Clear(field.type)

Preceding(d, c) == IF d.type[c[1]].kind = "msg" THEN <<>> ELSE Merged(d, c)[c[1]]

\* What the field of a known item becomes with it.
New(d, c) ==
    LET field == d.type[c[1]]
        v == M!Value(d, c) IN
    IF field.kind \in M!Single THEN v
    ELSE IF field.kind = "texts" THEN Append(Merged(d, c)[c[1]], v)
    ELSE Append(Preceding(d, c), M!MergeElement(field.type, Base(d, c), v))

LEMMA ClearThenMerge ==
    ASSUME NEW type, IsElementType(type), NEW v \in M!Element(type)
    PROVE  M!MergeElement(type, M!Clear(type), v) = v
<1>1. DOMAIN type = 1..Len(type) /\ v = [k \in 1..Len(type) |-> v[k]]
      BY ElementFacts
<1>2. QED
      BY <1>1 DEF M!MergeElement, M!Clear, M!MergeScalar

LEMMA FieldAfter ==
    ASSUME NEW d, M!WellFormed(d), NEW c \in Places(d), ~ M!AtEnd(d, c), c[1] <= d.known
    PROVE  Merged(d, M!After(d, c))[c[1]] = New(d, c)
<1> DEFINE f == c[1]
           i == c[2]
           field == d.type[f]
           to == d.into[f]
<1>1. /\ f \in Fields(d) /\ i \in 1..M!Count(d, f) /\ c = <<f, i>>
      /\ i \in Nat /\ M!Count(d, f) \in Nat
      BY ItemFacts
<1>2. /\ Merged(d, M!After(d, c))[f] = M!MergeField(field, to, M!Upto(d, M!After(d, c))[f])
      /\ Merged(d, c)[f] = M!MergeField(field, to, M!Upto(d, c)[f])
      BY <1>1, MergedIs
<1>3. CASE field.kind \in M!Single
  <2>1. M!Upto(d, M!After(d, c))[f] = d.msg[f]
        BY <1>3, UptoAfterHere
  <2>2. M!Value(d, <<f, i>>) = d.msg[f] /\ d.msg[f] # M!Default(field)
        BY <1>1, <1>3, ItemValue
  <2>3. New(d, c) = d.msg[f]
        BY <1>1, <1>3, <2>2 DEF New
  <2>4. QED
        BY <1>2, <1>3, <2>1, <2>2, <2>3 DEF M!MergeField, M!MergeScalar
<1>4. CASE field.kind \notin M!Single
  <2> DEFINE E == Elements(field)
             m == d.msg[f]
  <2>1. /\ m \in Seq(E) /\ to \in Seq(E) /\ Len(m) = M!Count(d, f)
        /\ field.kind = "msg" => Len(to) <= 1
        BY <1>1, <1>4, AreSequences
  <2>2. M!Upto(d, M!After(d, c))[f] = SubSeq(m, 1, i)
        BY <1>4, UptoAfterHere
  <2>3. M!Upto(d, c)[f] = SubSeq(m, 1, i - 1)
        BY <1>4, UptoHere
  <2>4. M!Value(d, <<f, i>>) = m[i]
        BY <1>1, <1>4, ItemValue
  <2>5. i \in 1..Len(m)
        BY <1>1, <2>1
  <2>6. m[i] \in E /\ SubSeq(m, 1, i - 1) \in Seq(E)
    <3> HIDE DEF m, E
    <3>1. QED
          BY <2>1, <2>5
  <2> HIDE DEF m, E, to
  <2>7. SubSeq(m, 1, i) = Append(SubSeq(m, 1, i - 1), m[i])
        BY <2>1, <2>5, OneMore
  <2>8. to \o SubSeq(m, 1, i) = Append(to \o SubSeq(m, 1, i - 1), m[i])
    <3> DEFINE t == SubSeq(m, 1, i - 1)
               e == m[i]
    <3>1. t \in Seq(E) /\ e \in E /\ to \in Seq(E)
          BY <2>1, <2>6
    <3> HIDE DEF t, e
    <3>2. to \o Append(t, e) = Append(to \o t, e)
          BY <3>1, AppendBehind
    <3>3. QED
          BY <2>7, <3>2 DEF t, e
  <2>9. CASE field.kind \in {"texts", "msgs"}
    <3>1. Merged(d, M!After(d, c))[f] = Append(Merged(d, c)[f], m[i])
          BY <1>2, <1>4, <2>2, <2>3, <2>8, <2>9 DEF M!MergeField
    <3>2. CASE field.kind = "texts"
          BY <1>1, <1>4, <2>4, <3>1, <3>2 DEF New
    <3>3. CASE field.kind = "msgs"
      <4>1. IsElementType(field.type) /\ m[i] \in M!Element(field.type)
        <5>1. field.kind \in M!Nested /\ field.kind # "texts"
              BY <3>3 DEF M!Nested
        <5>2. IsElementType(field.type)
              BY <1>1, <5>1, CaseFacts
        <5>3. QED
              BY <2>6, <5>1, <5>2 DEF E, Elements
      <4>2. M!MergeElement(field.type, M!Clear(field.type), m[i]) = m[i]
            BY <4>1, ClearThenMerge
      <4>3. Base(d, c) = M!Clear(field.type) /\ Preceding(d, c) = Merged(d, c)[f]
            BY <3>3 DEF Base, Preceding
      <4>4. New(d, c) = Append(Preceding(d, c), M!MergeElement(field.type, Base(d, c), m[i]))
            BY <1>1, <1>4, <2>4, <3>3 DEF New
      <4>5. QED
            BY <3>1, <4>2, <4>3, <4>4
    <3>4. QED
          BY <2>9, <3>2, <3>3
  <2>10. CASE field.kind = "msg"
    <3>1. i = 1 /\ Len(m) = 1
      <4>1. M!Count(d, f) <= 1
            BY <1>1, <2>10, Counts
      <4>2. QED
            BY <1>1, <2>1, <4>1
    <3>2. SubSeq(m, 1, i) = <<m[1]>> /\ <<m[1]>> # <<>>
          BY <2>1, <3>1, OneIsAll
    <3>3. <<m[1]>>[1] = m[1]
          OBVIOUS
    <3>4. IsElementType(field.type) /\ m[1] \in M!Element(field.type)
      <4>1. field.kind \in M!Nested /\ field.kind # "texts"
            BY <2>10 DEF M!Nested
      <4>2. IsElementType(field.type)
            BY <1>1, <4>1, CaseFacts
      <4>3. QED
            BY <2>6, <3>1, <4>1, <4>2 DEF E, Elements
    <3>5. M!MergeField(field, to, <<m[1]>>) =
            IF to = <<>> THEN <<m[1]>> ELSE <<M!MergeElement(field.type, to[1], m[1])>>
          BY <1>4, <2>10, <3>2, <3>3 DEF M!MergeField
    <3>6. New(d, c) = Append(Preceding(d, c), M!MergeElement(field.type, Base(d, c), m[1]))
          BY <1>1, <1>4, <2>4, <2>10, <3>1 DEF New
    <3>7. New(d, c) = <<M!MergeElement(field.type, Base(d, c), m[1])>>
          BY <2>10, <3>6 DEF Preceding
    <3>8. CASE to = <<>>
      <4>1. Base(d, c) = M!Clear(field.type)
            BY <3>8 DEF Base, to
      <4>2. QED
            BY <1>2, <2>2, <3>2, <3>4, <3>5, <3>7, <3>8, <4>1, ClearThenMerge
    <3>9. CASE to # <<>>
      <4>1. Base(d, c) = to[1]
            BY <2>10, <3>9 DEF Base, to
      <4>2. QED
            BY <1>2, <2>2, <3>2, <3>5, <3>7, <3>9, <4>1
    <3>10. QED
          BY <3>8, <3>9
  <2>11. field.kind \in {"texts", "msgs", "msg"}
        BY <1>1, <1>4, CaseFacts DEF Kinds, M!Nested
  <2>12. QED
        BY <2>9, <2>10, <2>11
<1>5. QED
      BY <1>3, <1>4

LEMMA MergedKnown ==
    ASSUME NEW d, M!WellFormed(d), NEW c \in Places(d), ~ M!AtEnd(d, c), c[1] <= d.known
    PROVE  Merged(d, M!After(d, c)) = [Merged(d, c) EXCEPT ![c[1]] = New(d, c)]
<1>1. c[1] \in Fields(d)
      BY ItemFacts
<1>2. \A f \in Fields(d) \ {c[1]} : M!Upto(d, M!After(d, c))[f] = M!Upto(d, c)[f]
      BY UptoElsewhere
<1>3. /\ Merged(d, c) = [f \in Fields(d) |-> M!MergeField(d.type[f], d.into[f], M!Upto(d, c)[f])]
      /\ Merged(d, M!After(d, c)) =
           [f \in Fields(d) |-> M!MergeField(d.type[f], d.into[f], M!Upto(d, M!After(d, c))[f])]
      BY MergedIs
<1>4. Merged(d, M!After(d, c))[c[1]] = New(d, c)
      BY FieldAfter
<1>5. \A f \in Fields(d) \ {c[1]} : Merged(d, M!After(d, c))[f] = Merged(d, c)[f]
      BY <1>2, <1>3
<1> DEFINE A == Merged(d, M!After(d, c))
           B == Merged(d, c)
<1>6. A = [f \in Fields(d) |-> A[f]] /\ B = [f \in Fields(d) |-> B[f]]
      BY <1>3
<1> HIDE DEF A, B
<1>7. A = [B EXCEPT ![c[1]] = New(d, c)]
      BY <1>1, <1>4, <1>5, <1>6 DEF A, B
<1>8. QED
      BY <1>7 DEF A, B

------------------------------------------------------------------------------
(* Where the items lie *)

Behind(c, e) == c[1] < e[1] \/ (c[1] = e[1] /\ c[2] < e[2])

Sum(d) == [item : Places(d), at : Nat]

\* The sums are those of the items there are, from the first one on.
IsSums(d, s) ==
    /\ s \in Seq(Sum(d)) /\ Len(s) > 0
    /\ s[1] = [item |-> M!Following(d, 1), at |-> 0]
    /\ \A n \in 1..(Len(s) - 1) :
          /\ ~ M!AtEnd(d, s[n].item)
          /\ s[n + 1].item = M!After(d, s[n].item)
          /\ s[n + 1].at = s[n].at + M!Size(d, s[n].item)
    /\ \A n \in 2..Len(s) : Behind(s[1].item, s[n].item) /\ s[2].at <= s[n].at

LEMMA AfterBehind ==
    ASSUME NEW d, M!WellFormed(d), NEW b \in Places(d), NEW c \in Places(d), ~ M!AtEnd(d, c),
           b = c \/ Behind(b, c)
    PROVE  Behind(b, M!After(d, c))
<1>1. /\ b[1] \in Nat /\ b[2] \in Nat /\ c[1] \in Nat /\ c[2] \in Nat
      BY PlaceFacts
<1>2. Len(d.type) \in Nat
      BY CaseNumbers
<1>3. CASE M!After(d, c) = <<c[1], c[2] + 1>>
  <2>1. M!After(d, c)[1] = c[1] /\ M!After(d, c)[2] = c[2] + 1
        BY <1>3
  <2>2. QED
        BY <1>1, <2>1 DEF Behind
<1>4. ASSUME NEW g \in (c[1] + 1)..(Len(d.type) + 1), M!After(d, c) = <<g, 1>>
      PROVE  Behind(b, M!After(d, c))
  <2>1. M!After(d, c)[1] = g /\ g > c[1] /\ g \in Nat
        BY <1>1, <1>2, <1>4
  <2>2. QED
        BY <1>1, <2>1 DEF Behind
<1>5. QED
      BY <1>3, <1>4, AfterFacts

LEMMA SizeIs ==
    ASSUME NEW d, M!WellFormed(d), NEW c \in Places(d), ~ M!AtEnd(d, c)
    PROVE  /\ M!Size(d, c) \in Nat /\ M!Size(d, c) > 0
           /\ M!Put(d, c) \in Seq(M!Byte) /\ Len(M!Put(d, c)) = M!Size(d, c)
<1>1. c = <<c[1], c[2]>> /\ c[1] \in Fields(d) /\ c[2] \in 1..M!Count(d, c[1])
      BY ItemFacts
<1>2. /\ M!Size(d, <<c[1], c[2]>>) \in Nat /\ M!Size(d, <<c[1], c[2]>>) > 0
      /\ M!Put(d, <<c[1], c[2]>>) \in Seq(M!Byte)
      /\ Len(M!Put(d, <<c[1], c[2]>>)) = M!Size(d, <<c[1], c[2]>>)
      BY <1>1, ItemWritten
<1>3. QED
      BY <1>1, <1>2

LEMMA FirstPlace ==
    ASSUME NEW d, M!WellFormed(d)
    PROVE  M!Following(d, 1) \in Places(d)
<1>1. 1 \in 1..(Len(d.type) + 1)
      BY CaseNumbers
<1>2. QED
      BY <1>1, FollowingFacts

LEMMA SumsStart ==
    ASSUME NEW d, M!WellFormed(d)
    PROVE  IsSums(d, <<[item |-> M!Following(d, 1), at |-> 0]>>)
<1> DEFINE e == [item |-> M!Following(d, 1), at |-> 0]
<1>1. e \in Sum(d)
      BY FirstPlace DEF Sum
<1> HIDE DEF e
<1>2. <<e>> \in Seq(Sum(d)) /\ Len(<<e>>) = 1 /\ <<e>>[1] = e
      BY <1>1
<1>3. QED
      BY <1>2 DEF IsSums, e

LEMMA SumIs ==
    ASSUME NEW d, NEW s, IsSums(d, s), NEW n \in 1..Len(s)
    PROVE  s[n].item \in Places(d) /\ s[n].at \in Nat /\ Len(s) \in Nat
<1>1. s \in Seq(Sum(d))
      BY DEF IsSums
<1>2. s[n] \in Sum(d) /\ Len(s) \in Nat
      BY <1>1
<1>3. QED
      BY <1>2 DEF Sum

LEMMA SumsGrow ==
    ASSUME NEW d, M!WellFormed(d), NEW s, IsSums(d, s), ~ M!AtEnd(d, s[Len(s)].item)
    PROVE  LET c == s[Len(s)].item IN
           IsSums(d, Append(s, [item |-> M!After(d, c), at |-> s[Len(s)].at + M!Size(d, c)]))
<1> DEFINE l == Len(s)
           c == s[l].item
           e == [item |-> M!After(d, c), at |-> s[l].at + M!Size(d, c)]
           t == Append(s, e)
<1>1. s \in Seq(Sum(d)) /\ l \in Nat /\ l > 0 /\ l \in 1..l
      BY DEF IsSums
<1>2. c \in Places(d) /\ s[l].at \in Nat
      BY <1>1, SumIs
<1>3. e \in Sum(d) /\ e.item = M!After(d, c) /\ e.at = s[l].at + M!Size(d, c)
      BY <1>2, AfterFacts, SizeIs DEF Sum
<1> HIDE DEF e
<1>4. /\ t \in Seq(Sum(d)) /\ Len(t) = l + 1 /\ t[l + 1] = e
      /\ \A n \in 1..l : t[n] = s[n]
      BY <1>1, <1>3
<1>5. s[1].item \in Places(d) /\ (s[1].item = c \/ Behind(s[1].item, c))
  <2>1. 1 \in 1..l
        BY <1>1
  <2>2. s[1].item \in Places(d)
        BY <2>1, SumIs
  <2>3. l = 1 \/ l \in 2..l
    <3> HIDE DEF l
    <3>1. QED
          BY <1>1
  <2>4. QED
        BY <2>2, <2>3 DEF IsSums
<1>6. Behind(s[1].item, e.item)
      BY <1>2, <1>3, <1>5, AfterBehind
<1> HIDE DEF t
<1>7. t[1] = [item |-> M!Following(d, 1), at |-> 0]
      BY <1>1, <1>4 DEF IsSums
<1>8. ASSUME NEW n \in 1..(Len(t) - 1)
      PROVE  /\ ~ M!AtEnd(d, t[n].item)
             /\ t[n + 1].item = M!After(d, t[n].item)
             /\ t[n + 1].at = t[n].at + M!Size(d, t[n].item)
  <2>1. CASE n = l
        BY <1>1, <1>3, <1>4, <2>1
  <2>2. CASE n # l
    <3>1. n \in 1..(Len(s) - 1) /\ n \in 1..l /\ n + 1 \in 1..l
          BY <1>1, <1>4, <2>2
    <3>2. QED
          BY <1>4, <3>1 DEF IsSums
  <2>3. QED
        BY <2>1, <2>2
<1>9. ASSUME NEW n \in 2..Len(t)
      PROVE  Behind(t[1].item, t[n].item) /\ t[2].at <= t[n].at
  <2>1. t[1] = s[1]
        BY <1>1, <1>4
  <2>2. M!Size(d, c) \in Nat
        BY <1>2, SizeIs
  <2>3. CASE n = l + 1
    <3>1. CASE l = 1
          BY <1>2, <1>3, <1>4, <1>6, <2>1, <2>2, <2>3, <3>1
    <3>2. CASE l # 1
      <4>1. 2 \in 1..l /\ l \in 2..l
        <5> HIDE DEF l
        <5>1. QED
              BY <1>1, <3>2
      <4>2. t[2] = s[2] /\ s[2].at \in Nat /\ s[2].at <= s[l].at
            BY <1>4, <4>1, SumIs DEF IsSums
      <4>3. QED
            BY <1>2, <1>3, <1>4, <1>6, <2>1, <2>2, <2>3, <4>2
    <3>3. QED
          BY <3>1, <3>2
  <2>4. CASE n # l + 1
    <3>1. n \in 2..l /\ n \in 1..l /\ 2 \in 1..l
      <4> HIDE DEF l
      <4>1. QED
            BY <1>1, <1>4, <2>4
    <3>2. t[n] = s[n] /\ t[2] = s[2]
          BY <1>4, <3>1
    <3>3. QED
          BY <2>1, <3>1, <3>2 DEF IsSums
  <2>5. QED
        BY <2>3, <2>4
<1>10. QED
       BY <1>1, <1>4, <1>7, <1>8, <1>9 DEF IsSums, t, e

\* b is the first items as they are written, up to the one at s[w].
Laid(d, s, b, w) ==
    /\ b \in Seq(M!Byte) /\ w \in 1..Len(s) /\ Len(b) = s[w].at
    /\ \A n \in 1..(w - 1) :
          /\ s[n + 1].at <= Len(b)
          /\ \A j \in 1..M!Size(d, s[n].item) : b[s[n].at + j] = M!Put(d, s[n].item)[j]

LEMMA LaidStart ==
    ASSUME NEW d, NEW s, IsSums(d, s)
    PROVE  Laid(d, s, <<>>, 1) /\ s[1].item = M!Following(d, 1)
<1>1. s[1] = [item |-> M!Following(d, 1), at |-> 0] /\ Len(s) \in Nat /\ Len(s) > 0
      BY DEF IsSums
<1>2. s[1].item = M!Following(d, 1) /\ s[1].at = 0
      BY <1>1
<1>3. <<>> \in Seq(M!Byte) /\ Len(<<>>) = 0
      OBVIOUS
<1>4. QED
      BY <1>1, <1>2, <1>3 DEF Laid

LEMMA LaidGrow ==
    ASSUME NEW d, M!WellFormed(d), NEW s, IsSums(d, s), M!AtEnd(d, s[Len(s)].item),
           NEW b, NEW w, Laid(d, s, b, w), ~ M!AtEnd(d, s[w].item)
    PROVE  /\ w + 1 \in 1..Len(s)
           /\ Laid(d, s, b \o M!Put(d, s[w].item), w + 1)
           /\ s[w + 1].item = M!After(d, s[w].item)
<1> DEFINE c == s[w].item
           p == M!Put(d, c)
           t == b \o p
<1>1. w \in 1..Len(s) /\ Len(s) \in Nat /\ b \in Seq(M!Byte) /\ Len(b) = s[w].at /\ w # Len(s)
      BY DEF Laid, IsSums
<1>2. w \in 1..(Len(s) - 1) /\ w + 1 \in 1..Len(s)
      BY <1>1
<1>3. c \in Places(d) /\ s[w].at \in Nat
      BY <1>1, SumIs
<1>4. p \in Seq(M!Byte) /\ Len(p) = M!Size(d, c) /\ M!Size(d, c) \in Nat
      BY <1>3, SizeIs
<1>5. s[w + 1].item = M!After(d, c) /\ s[w + 1].at = s[w].at + M!Size(d, c)
      BY <1>2 DEF IsSums
<1> HIDE DEF p
<1>6. /\ t \in Seq(M!Byte) /\ Len(t) = Len(b) + Len(p)
      /\ \A i \in 1..Len(b) + Len(p) : t[i] = IF i <= Len(b) THEN b[i] ELSE p[i - Len(b)]
      BY <1>1, <1>4, ConcatProperties
<1>7. Len(t) = s[w + 1].at
      BY <1>1, <1>4, <1>5, <1>6
<1>8. ASSUME NEW n \in 1..(w + 1 - 1)
      PROVE  /\ s[n + 1].at <= Len(t)
             /\ \A j \in 1..M!Size(d, s[n].item) : t[s[n].at + j] = M!Put(d, s[n].item)[j]
  <2>1. CASE n = w
    <3>1. ASSUME NEW j \in 1..M!Size(d, c) PROVE t[s[w].at + j] = p[j]
      <4>1. s[w].at + j \in 1..Len(b) + Len(p) /\ ~(s[w].at + j <= Len(b)) /\ (s[w].at + j) - Len(b) = j
            BY <1>1, <1>3, <1>4
      <4>2. QED
            BY <1>6, <4>1
    <3>2. s[w + 1].at \in Nat
          BY <1>2, SumIs
    <3>3. s[w + 1].at <= Len(t)
          BY <1>7, <3>2
    <3>4. \A j \in 1..M!Size(d, s[w].item) : t[s[w].at + j] = M!Put(d, s[w].item)[j]
          BY <3>1 DEF p
    <3> HIDE DEF t
    <3>5. QED
          BY <2>1, <3>3, <3>4
  <2>2. CASE n # w
    <3>1. n \in 1..(w - 1) /\ n \in 1..Len(s) /\ n + 1 \in 1..Len(s) /\ n \in 1..(Len(s) - 1)
          BY <1>1, <2>2
    <3>2. s[n].at \in Nat /\ s[n + 1].at \in Nat /\ s[n].item \in Places(d)
          BY <3>1, SumIs
    <3>3. s[n + 1].at = s[n].at + M!Size(d, s[n].item) /\ ~ M!AtEnd(d, s[n].item)
          BY <3>1 DEF IsSums
    <3>4. s[n + 1].at <= Len(b)
          BY <3>1 DEF Laid
    <3>5. M!Size(d, s[n].item) \in Nat
          BY <3>2, <3>3, SizeIs
    <3>6. ASSUME NEW j \in 1..M!Size(d, s[n].item)
          PROVE  t[s[n].at + j] = M!Put(d, s[n].item)[j]
      <4> DEFINE a == s[n].at
                 z == M!Size(d, s[n].item)
                 q == Len(b)
                 r == Len(p)
      <4>0. a \in Nat /\ z \in Nat /\ j \in 1..z /\ a + z <= q /\ q \in Nat /\ r \in Nat
            BY <1>1, <1>4, <3>2, <3>3, <3>4, <3>5
      <4>1. s[n].at + j \in 1..Len(b) + Len(p) /\ s[n].at + j <= Len(b)
        <5> HIDE DEF a, z, q, r
        <5>1. a + j \in 1..q + r /\ a + j <= q
              BY <4>0
        <5>2. QED
              BY <5>1 DEF a, q, r
      <4>2. t[s[n].at + j] = b[s[n].at + j]
            BY <1>6, <4>1
      <4>3. QED
            BY <3>1, <4>2 DEF Laid
    <3>7. s[n + 1].at <= Len(t)
          BY <1>1, <1>4, <1>6, <3>2, <3>4, SMTT(20)
    <3>8. QED
          BY <3>6, <3>7
  <2>3. QED
        BY <2>1, <2>2
<1> HIDE DEF t
<1>9. Laid(d, s, t, w + 1)
      BY <1>2, <1>6, <1>7, <1>8, SMTT(20) DEF Laid
<1>10. QED
       BY <1>2, <1>5, <1>9 DEF t, p

------------------------------------------------------------------------------
(* What is read where an item, or a field of an element, was written *)

\* w was written at p of s, which may end before it does.
LaidAt(s, p, end, w) == \A j \in 1..Len(w) : p + j <= end => s[p + j] = w[j]

\* What is read at p of s is what was written there, as far as s goes.
ReadAt(s, p, end, f, wire, n, body) ==
    LET z == M!VarSize(n)
        read == M!ReadNumber(s, p + 1, end) IN
    /\ z \in 1..5
    /\ s[p + 1] \div 8 = f /\ s[p + 1] % 8 = wire
    /\ p + 1 + z <= end => read.size = z /\ read.value = n
    /\ end < p + 1 + z => read.size = 0
    /\ \A j \in 1..Len(body) : p + 1 + z + j <= end => s[p + 1 + z + j] = body[j]
    /\ p + 1 + z + Len(body) <= end =>
          SubSeq(s, p + 1 + z + 1, p + 1 + z + Len(body)) = body

LEMMA ReadPiece ==
    ASSUME NEW f \in 1..15, NEW wire \in {0, 2}, NEW n \in M!Number31, NEW body \in Seq(M!Byte),
           NEW s \in Seq(M!Byte), NEW p \in Nat, NEW end \in Nat, p < end, end <= Len(s),
           LaidAt(s, p, end, M!Written(f, wire, n, body))
    PROVE  ReadAt(s, p, end, f, wire, n, body)
<1>0. /\ M!Written(f, wire, n, body) \in Seq(M!Byte)
      /\ Len(M!Written(f, wire, n, body)) = 1 + M!VarSize(n) + Len(body)
      /\ M!Written(f, wire, n, body)[1] = 8 * f + wire
      /\ \A k \in 1..M!VarSize(n) :
             M!Written(f, wire, n, body)[1 + k] = M!Varint(n)[k]
      /\ \A j \in 1..Len(body) :
             M!Written(f, wire, n, body)[1 + M!VarSize(n) + j] = body[j]
      BY WrittenPieces
<1> DEFINE w == M!Written(f, wire, n, body)
           z == M!VarSize(n)
           t == M!Varint(n)
           m == Len(body)
<1>1. w \in Seq(M!Byte) /\ Len(w) = 1 + z + m
      BY <1>0
<1>a. w[1] = 8 * f + wire /\ \A k \in 1..z : w[1 + k] = t[k]
      BY <1>0
<1>b. \A j \in 1..m : w[1 + z + j] = body[j]
      BY <1>0
<1>2. z \in 1..5 /\ m \in Nat
      BY VarSizeType
<1>3. \A j \in 1..Len(w) : p + j <= end => s[p + j] = w[j]
      BY DEF LaidAt
<1> HIDE DEF w
<1>4. s[p + 1] = 8 * f + wire
  <2>1. 1 \in 1..Len(w) /\ p + 1 <= end
        BY <1>1, <1>2
  <2>2. QED
        BY <1>a, <1>3, <2>1
<1>5. s[p + 1] \div 8 = f /\ s[p + 1] % 8 = wire
      BY <1>4
<1> HIDE DEF z, m
<1>6. ASSUME NEW k \in 1..z, p + 1 + k <= end PROVE s[p + 1 + k] = t[k]
  <2>1. 1 + k \in 1..Len(w) /\ p + (1 + k) = p + 1 + k
        BY <1>1, <1>2
  <2>2. QED
        BY <1>a, <1>3, <1>6, <2>1
<1>7. ASSUME NEW j \in 1..m, p + 1 + z + j <= end PROVE s[p + 1 + z + j] = body[j]
  <2>1. 1 + z + j \in 1..Len(w) /\ p + (1 + z + j) = p + 1 + z + j
        BY <1>1, <1>2
  <2>2. QED
        BY <1>b, <1>3, <1>7, <2>1
<1>8. NumberAt(s, p + 1, end, n)
      BY <1>6 DEF NumberAt, z
<1>9. p + 1 + z <= end => M!ReadNumber(s, p + 1, end) = [size |-> z, value |-> n]
      BY <1>8, ReadWhole DEF z
<1>10. end < p + 1 + z => M!ReadNumber(s, p + 1, end).size = 0
      BY <1>8, ReadCut DEF z
<1>11. ASSUME p + 1 + z + m <= end
       PROVE  SubSeq(s, p + 1 + z + 1, p + 1 + z + m) = body
  <2> DEFINE a == p + 1 + z
             u == SubSeq(s, a + 1, a + m)
  <2>1. a \in Nat /\ a + m <= Len(s) /\ m \in Nat /\ Len(s) \in Nat /\ a + m <= end
        BY <1>2, <1>11
  <2>2. \A j \in 1..m : s[a + j] = body[j]
    <3>1. ASSUME NEW j \in 1..m PROVE s[a + j] = body[j]
      <4>1. p + 1 + z + j <= end
            BY <1>2, <1>11
      <4>2. QED
            BY <1>7, <4>1
    <3>2. QED
          BY <3>1
  <2> HIDE DEF a
  <2>3. Len(u) = m /\ \A j \in 1..m : u[j] = s[a + j]
    <3>1. Len(u) = m
          BY <2>1
    <3>2. ASSUME NEW j \in 1..m PROVE u[j] = s[a + j]
      <4>1. (a + 1) + j - 1 = a + j /\ (a + m) - (a + 1) + 1 = m
            BY <2>1
      <4>2. QED
            BY <2>1, <4>1
    <3>3. QED
          BY <3>1, <3>2
  <2>4. u \in Seq(M!Byte)
        BY <2>1
  <2> HIDE DEF u
  <2>5. u = body
        BY <2>2, <2>3, <2>4 DEF m
  <2>6. QED
        BY <2>5 DEF u, a
<1>12. QED
       BY <1>2, <1>5, <1>7, <1>9, <1>10, <1>11 DEF z, m, ReadAt

Prefix(b, in) ==
    in \in Seq(M!Byte) /\ Len(in) <= Len(b) /\ \A j \in 1..Len(in) : in[j] = b[j]

LEMMA ItemRead ==
    ASSUME NEW d, M!WellFormed(d), NEW s, IsSums(d, s), NEW b, Laid(d, s, b, Len(s)),
           NEW in, Prefix(b, in), NEW r \in 1..Len(s), s[r].at < Len(in)
    PROVE  LET c == s[r].item
               p == s[r].at
               n == NumberOf(d, c)
               body == ContentOf(d, c) IN
           /\ r \in 1..(Len(s) - 1) /\ c \in Places(d) /\ ~ M!AtEnd(d, c)
           /\ ReadAt(in, p, Len(in), c[1], M!Wire(d.type[c[1]]), n, body)
           /\ M!VarSize(n) \in 1..5 /\ n \in Nat /\ body \in Seq(M!Byte) /\ Len(body) \in Nat
           /\ Len(body) = IF d.type[c[1]].kind = "int" THEN 0 ELSE n
           /\ s[r + 1].at = p + 1 + M!VarSize(n) + Len(body) /\ s[r + 1].item = M!After(d, c)
           /\ s[r + 1].at <= Len(b) /\ p \in Nat /\ Len(in) \in Nat /\ Len(b) \in Nat
<1> DEFINE c == s[r].item
           p == s[r].at
           n == NumberOf(d, c)
           z == M!VarSize(n)
           body == ContentOf(d, c)
           f == c[1]
           wire == M!Wire(d.type[f])
<1>1. /\ in \in Seq(M!Byte) /\ Len(in) \in Nat /\ Len(in) <= Len(b)
      /\ \A j \in 1..Len(in) : in[j] = b[j]
      BY DEF Prefix
<1>2. Len(s) \in Nat /\ c \in Places(d) /\ p \in Nat
      BY SumIs
<1>3. b \in Seq(M!Byte) /\ Len(b) = s[Len(s)].at /\ Len(b) \in Nat
      BY DEF Laid
<1>4. r # Len(s)
      BY <1>1, <1>2, <1>3
<1>5. r \in 1..(Len(s) - 1)
      BY <1>2, <1>4
<1>6. ~ M!AtEnd(d, c) /\ s[r + 1].item = M!After(d, c) /\ s[r + 1].at = p + M!Size(d, c)
      BY <1>5 DEF IsSums
<1>7. /\ s[r + 1].at <= Len(b)
      /\ \A j \in 1..M!Size(d, c) : b[p + j] = M!Put(d, c)[j]
      BY <1>5 DEF Laid
<1>8. f \in Fields(d) /\ c = <<f, c[2]>> /\ c[2] \in 1..M!Count(d, f)
      BY <1>2, <1>6, ItemFacts
<1>9. f \in 1..15
      BY <1>8, CaseNumbers
<1>10. /\ n \in M!Number31 /\ body \in Seq(M!Byte)
       /\ Len(body) = IF d.type[f].kind = "int" THEN 0 ELSE n
       /\ M!Put(d, c) = M!Written(f, wire, n, body)
       /\ M!Size(d, c) = 1 + z + Len(body)
       /\ Len(M!Put(d, c)) = M!Size(d, c)
       /\ M!Size(d, c) \in Nat
  <2>1. c = <<f, c[2]>>
        BY <1>8
  <2> DEFINE e == <<f, c[2]>>
  <2>2. /\ NumberOf(d, e) \in M!Number31 /\ ContentOf(d, e) \in Seq(M!Byte)
        /\ Len(ContentOf(d, e)) = IF d.type[f].kind = "int" THEN 0 ELSE NumberOf(d, e)
        /\ M!Put(d, e) = M!Written(f, M!Wire(d.type[f]), NumberOf(d, e), ContentOf(d, e))
        /\ M!Size(d, e) = 1 + M!VarSize(NumberOf(d, e)) + Len(ContentOf(d, e))
        /\ Len(M!Put(d, e)) = M!Size(d, e)
        /\ M!Size(d, e) \in Nat
        BY <1>8, ItemWritten
  <2>3. e = c
        BY <2>1
  <2> HIDE DEF e
  <2>4. QED
        BY <2>2, <2>3
<1>11. wire \in {0, 2} /\ n \in Nat
       BY <1>10, SMT DEF M!Wire, M!Number31
<1>12. z \in 1..5
       BY <1>10, VarSizeType
<1> HIDE DEF n, body, z, wire, f
<1>13. LaidAt(in, p, Len(in), M!Written(f, wire, n, body))
  <2>1. ASSUME NEW j \in 1..Len(M!Written(f, wire, n, body)), p + j <= Len(in)
        PROVE  in[p + j] = M!Written(f, wire, n, body)[j]
    <3>1. j \in 1..M!Size(d, c)
          BY <1>10
    <3>2. p + j \in 1..Len(in)
          BY <1>1, <1>2, <1>10, <2>1, <3>1
    <3>3. in[p + j] = b[p + j]
          BY <1>1, <3>2
    <3>4. QED
          BY <1>7, <1>10, <3>1, <3>3
  <2>2. QED
        BY <2>1 DEF LaidAt
<1>14. ReadAt(in, p, Len(in), f, wire, n, body)
  <2> HIDE DEF p
  <2>1. p < Len(in) /\ Len(in) <= Len(in)
        BY <1>1 DEF p
  <2>2. QED
        BY <1>1, <1>2, <1>9, <1>10, <1>11, <1>13, <2>1, ReadPiece
<1>15. s[r + 1].at = p + 1 + z + Len(body) /\ Len(body) \in Nat
  <2> DEFINE m == Len(body)
             q == M!Size(d, c)
  <2>1. m \in Nat /\ q = 1 + z + m /\ p \in Nat /\ s[r + 1].at = p + q
        BY <1>2, <1>6, <1>10
  <2>2. z \in Nat
        BY <1>12
  <2> HIDE DEF m, q, p
  <2>3. p + q = p + 1 + z + m
        BY <2>1, <2>2
  <2>4. QED
        BY <2>1, <2>3 DEF m, p
<1>16. QED
       BY <1>1, <1>2, <1>3, <1>5, <1>6, <1>7, <1>10, <1>11, <1>12, <1>14, <1>15, Zenon
       DEF n, body, z, wire, f

Defaults(type, v, k, q) == \A j \in k..(q - 1) : v[j] = M!Default(type[j])

\* A default takes no bytes.
LEMMA OffsetSkip ==
    ASSUME NEW type, IsElementType(type), NEW v \in M!Element(type),
           NEW k \in 1..(Len(type) + 1), NEW q \in k..(Len(type) + 1),
           Defaults(type, v, k, q)
    PROVE  Offset(type, v, q) = Offset(type, v, k)
<1> DEFINE z(j) == M!ScalarSize(type[j], v[j])
<1>1. Len(type) \in {2, 3}
      BY ElementFacts
<1>2. q \in 1..4 /\ k \in 1..4 /\ k <= q
  <2>1. CASE Len(type) = 2
        BY <2>1
  <2>2. CASE Len(type) = 3
        BY <2>2
  <2>3. QED
        BY <1>1, <2>1, <2>2
<1>3. \A j \in k..(q - 1) : z(j) = 0
      BY DEF M!ScalarSize, Defaults
<1>4. QED
      BY <1>2, <1>3 DEF Offset

\* The element of the nested item c, and what is read of its fields before k.
ElementType(d, c) == d.type[c[1]].type

Partial(d, c, k) ==
    [j \in 1..Len(ElementType(d, c)) |->
        IF j < k THEN M!MergeScalar(ElementType(d, c)[j], Base(d, c)[j], M!Value(d, c)[j])
        ELSE Base(d, c)[j]]

LEMMA NestedFacts ==
    ASSUME NEW d, M!WellFormed(d), NEW c \in Places(d), ~ M!AtEnd(d, c),
           d.type[c[1]].kind \in M!Nested
    PROVE  /\ IsElementType(ElementType(d, c)) /\ M!Value(d, c) \in M!Element(ElementType(d, c))
           /\ ContentOf(d, c) = M!Body(ElementType(d, c), M!Value(d, c))
           /\ NumberOf(d, c) = M!ElementSize(ElementType(d, c), M!Value(d, c))
           /\ Len(ContentOf(d, c)) = NumberOf(d, c) /\ NumberOf(d, c) \in Nat
           /\ d.type[c[1]].kind \notin M!Single /\ d.type[c[1]].kind # "texts"
<1>1. c = <<c[1], c[2]>> /\ c[1] \in Fields(d) /\ c[2] \in 1..M!Count(d, c[1])
      BY ItemFacts
<1>2. IsElementType(ElementType(d, c))
      BY <1>1, CaseFacts DEF ElementType
<1>3. M!Value(d, c) \in M!Element(ElementType(d, c))
      BY <1>1, ItemValue DEF ElementType
<1>4. /\ ContentOf(d, c) = M!Body(ElementType(d, c), M!Value(d, c))
      /\ NumberOf(d, c) = M!ElementSize(ElementType(d, c), M!Value(d, c))
      BY DEF ContentOf, NumberOf, KindOf, ElementType, M!Content, M!Number
<1>5. /\ M!ElementSize(ElementType(d, c), M!Value(d, c)) \in M!Number31
      /\ Len(M!Body(ElementType(d, c), M!Value(d, c))) = M!ElementSize(ElementType(d, c), M!Value(d, c))
      BY <1>2, <1>3, ElementWritten
<1>6. NumberOf(d, c) \in Nat
      BY <1>4, <1>5, SMT DEF M!Number31
<1>7. QED
      BY <1>2, <1>3, <1>4, <1>5, <1>6 DEF M!Single, M!Nested

\* Where field k of the element of the item at s[r] begins.
FieldAt(d, s, r, k) ==
    s[r].at + 1 + M!VarSize(NumberOf(d, s[r].item))
        + Offset(ElementType(d, s[r].item), M!Value(d, s[r].item), k)

Earlier(n, m) == IF n < m THEN n ELSE m

\* The reader is at field k of the element, or at a later one, q, that was written.
LEMMA ElementRead ==
    ASSUME NEW d, M!WellFormed(d), NEW s, IsSums(d, s), NEW b, Laid(d, s, b, Len(s)),
           NEW in, Prefix(b, in), NEW r \in 1..(Len(s) - 1),
           d.type[s[r].item[1]].kind \in M!Nested,
           NEW k \in 1..(Len(ElementType(d, s[r].item)) + 1),
           FieldAt(d, s, r, k) < Earlier(s[r + 1].at, Len(in))
    PROVE  LET c == s[r].item
               type == ElementType(d, c)
               v == M!Value(d, c)
               p == FieldAt(d, s, r, k)
               end == Earlier(s[r + 1].at, Len(in)) IN
           \E q \in k..Len(type) :
               /\ v[q] # M!Default(type[q]) /\ Defaults(type, v, k, q)
               /\ Partial(d, c, q) = Partial(d, c, k) /\ FieldAt(d, s, r, q) = p
               /\ ReadAt(in, p, end, q, M!Wire(type[q]), M!number(type[q], v[q]), M!text(type[q], v[q]))
               /\ FieldAt(d, s, r, q + 1) =
                     p + 1 + M!VarSize(M!number(type[q], v[q])) + Len(M!text(type[q], v[q]))
               /\ FieldAt(d, s, r, q + 1) <= s[r + 1].at
<1> DEFINE c == s[r].item
           type == ElementType(d, c)
           v == M!Value(d, c)
           p == FieldAt(d, s, r, k)
           end == Earlier(s[r + 1].at, Len(in))
           n == NumberOf(d, c)
           a == s[r].at + 1 + M!VarSize(n)
           Z == Len(type)
           l == s[r + 1].at
           body == M!Body(type, v)
<1>1. r \in 1..Len(s) /\ r + 1 \in 1..Len(s) /\ Len(s) \in Nat
  <2>1. Len(s) \in Nat
        BY DEF IsSums
  <2>2. QED
        BY <2>1
<1>2. c \in Places(d) /\ s[r].at \in Nat /\ l \in Nat /\ ~ M!AtEnd(d, c)
      BY <1>1, SumIs DEF IsSums
<1>3. /\ IsElementType(type) /\ v \in M!Element(type)
      /\ ContentOf(d, c) = body /\ n = M!ElementSize(type, v) /\ n \in Nat
      BY <1>2, NestedFacts
<1>4. /\ Z \in {2, 3}
      /\ \A j \in 1..Z : IsScalar(type[j]) /\ v[j] \in M!Scalar(type[j])
      BY <1>3, ElementFacts
<1>5. in \in Seq(M!Byte) /\ Len(in) \in Nat
      BY DEF Prefix
<1>6. end \in Nat /\ end <= Len(in) /\ end <= l /\ (end = l \/ end = Len(in))
      BY <1>2, <1>5 DEF Earlier
<1>7. /\ Len(body) = n /\ body \in Seq(M!Byte)
      /\ Offset(type, v, 1) = 0 /\ Offset(type, v, Z + 1) = n
      /\ \A j \in 1..Z :
            /\ Offset(type, v, j) \in Nat
            /\ Offset(type, v, j + 1) = Offset(type, v, j) + M!ScalarSize(type[j], v[j])
            /\ Offset(type, v, j + 1) <= n
            /\ \A i \in 1..M!ScalarSize(type[j], v[j]) :
                   body[Offset(type, v, j) + i] = Scalars(type, v, j)[i]
      BY <1>3, ElementWritten
<1>8. p = a + Offset(type, v, k)
      BY DEF FieldAt
<1> HIDE DEF p, end, type, v, body, n, Z, l
<1>9. \A j \in 1..(Z + 1) : Offset(type, v, j) \in Nat /\ Offset(type, v, j) <= n
  <2>1. ASSUME NEW j \in 1..(Z + 1) PROVE Offset(type, v, j) \in Nat /\ Offset(type, v, j) <= n
    <3>1. CASE j = Z + 1
          BY <1>3, <1>7, <3>1
    <3>2. CASE j # Z + 1
      <4>1. j \in 1..Z
            BY <1>4, <3>2
      <4>2. Offset(type, v, j) \in Nat /\ M!ScalarSize(type[j], v[j]) \in Nat
        <5>1. M!ScalarSize(type[j], v[j]) \in Nat
              BY <1>4, <4>1, ScalarWritten
        <5>2. QED
              BY <1>7, <4>1, <5>1
      <4>3. QED
            BY <1>3, <1>7, <4>1, <4>2
    <3>3. QED
          BY <3>1, <3>2
  <2>2. QED
        BY <2>1
<1>10. a \in Nat /\ s[r].at <= a /\ l = a + n /\ k \in 1..(Z + 1) /\ M!VarSize(n) \in Nat
       /\ \A j \in 1..n : a + j <= Len(in) => in[a + j] = body[j]
  <2>1. M!VarSize(n) \in 1..5
    <3>1. n \in M!Number31
          BY <1>3, ElementWritten DEF n
    <3>2. QED
          BY <3>1, VarSizeType
  <2>2. M!VarSize(n) \in Nat
        BY <2>1
  <2>3. a \in Nat /\ s[r].at <= a
        BY <1>2, <2>2
  <2>4. k \in 1..(Z + 1)
        BY DEF Z, type
  <2>5. s[r].at < Len(in)
    <3>1. p < end
          BY DEF p, end, l
    <3>2. Offset(type, v, k) \in Nat
          BY <1>9, <2>4
    <3> HIDE DEF a
    <3>3. QED
          BY <1>2, <1>5, <1>6, <1>8, <2>3, <3>1, <3>2
  <2>6. /\ ReadAt(in, s[r].at, Len(in), c[1], M!Wire(d.type[c[1]]), n, ContentOf(d, c))
        /\ s[r + 1].at = s[r].at + 1 + M!VarSize(n) + Len(ContentOf(d, c))
        BY <1>1, <2>5, ItemRead DEF n
  <2>7. l = a + n
        BY <1>3, <1>7, <2>6 DEF l
  <2>8. \A j \in 1..n : a + j <= Len(in) => in[a + j] = body[j]
        BY <1>3, <1>7, <2>6 DEF ReadAt
  <2>9. QED
        BY <2>2, <2>3, <2>4, <2>7, <2>8
<1> HIDE DEF a
<1> DEFINE T == {q \in k..Z : v[q] # M!Default(type[q])}
           q == M!Least(T)
<1>11. p < end
       BY DEF p, end, l
<1>12. Z \in Nat /\ T \in SUBSET Nat
       BY <1>4, <1>10
<1>13. T # {}
  <2> SUFFICES ASSUME T = {} PROVE FALSE
      OBVIOUS
  <2>1. Defaults(type, v, k, Z + 1)
    <3>1. \A j \in k..Z : v[j] = M!Default(type[j])
          OBVIOUS
    <3>2. (Z + 1) - 1 = Z
          BY <1>12
    <3>3. QED
          BY <3>1, <3>2 DEF Defaults
  <2>2. Z + 1 \in k..(Z + 1)
        BY <1>10, <1>12
  <2>3. Offset(type, v, Z + 1) = Offset(type, v, k)
        BY <1>3, <1>10, <2>1, <2>2, OffsetSkip DEF Z
  <2>4. p = l
        BY <1>7, <1>8, <1>10, <2>3
  <2>5. QED
        BY <1>2, <1>6, <1>11, <2>4 DEF l
<1>14. q \in T /\ \A j \in T : q <= j
  <2> HIDE DEF T
  <2>1. QED
        BY <1>12, <1>13, LeastIs
<1> HIDE DEF q
<1>15. q \in k..Z /\ q \in 1..Z /\ q \in Nat /\ v[q] # M!Default(type[q])
       BY <1>10, <1>12, <1>14
<1>16. Defaults(type, v, k, q)
  <2>1. ASSUME NEW j \in k..(q - 1) PROVE v[j] = M!Default(type[j])
    <3>1. j \in k..Z /\ ~(q <= j)
          BY <1>10, <1>12, <1>15
    <3>2. QED
          BY <1>14, <3>1
  <2>2. QED
        BY <2>1 DEF Defaults
<1> HIDE DEF T
<1>17. Offset(type, v, q) = Offset(type, v, k)
  <2>1. q \in k..(Z + 1)
        BY <1>10, <1>12, <1>15
  <2>2. QED
        BY <1>3, <1>10, <1>16, <2>1, OffsetSkip DEF Z
<1>18. Partial(d, c, q) = Partial(d, c, k)
  <2>1. ASSUME NEW j \in 1..Z
        PROVE  (IF j < q THEN M!MergeScalar(type[j], Base(d, c)[j], v[j]) ELSE Base(d, c)[j])
               = (IF j < k THEN M!MergeScalar(type[j], Base(d, c)[j], v[j]) ELSE Base(d, c)[j])
    <3>1. CASE j < k \/ ~(j < q)
      <4>1. k <= q /\ j \in Nat /\ k \in Nat
            BY <1>10, <1>12, <1>15
      <4>2. j < k <=> j < q
            BY <1>15, <3>1, <4>1
      <4>3. QED
            BY <4>2
    <3>2. CASE ~(j < k) /\ j < q
      <4>1. j \in k..(q - 1)
            BY <1>10, <1>12, <1>15, <3>2
      <4>2. M!MergeScalar(type[j], Base(d, c)[j], v[j]) = Base(d, c)[j]
            BY <1>16, <4>1 DEF M!MergeScalar, Defaults
      <4>3. QED
            BY <4>2
    <3>3. QED
          BY <3>1, <3>2
  <2>2. QED
        BY <2>1 DEF Partial, Z, type, v
<1> DEFINE num == M!number(type[q], v[q])
           txt == M!text(type[q], v[q])
           w == M!Written(q, M!Wire(type[q]), num, txt)
           size == M!ScalarSize(type[q], v[q])
<1>19. IsScalar(type[q]) /\ v[q] \in M!Scalar(type[q])
       BY <1>4, <1>15
<1>20. num \in M!Number31 /\ txt \in Seq(M!Byte) /\ q \in 1..15 /\ M!Wire(type[q]) \in {0, 2}
  <2>1. Z \in 1..15
        BY <1>4
  <2>2. q \in 1..15
        BY <1>15, <2>1, Within
  <2>3. QED
        BY <1>19, <2>2, ScalarTypes DEF M!Wire
<1>21. /\ Scalars(type, v, q) = w /\ Len(w) = size
       /\ size = 1 + M!VarSize(num) + Len(txt) /\ size \in Nat
  <2>1. M!PutScalar(q, type[q], v[q]) = w
        BY <1>15 DEF M!PutScalar
  <2>2. Len(M!PutScalar(q, type[q], v[q])) = size /\ size \in Nat
        BY <1>19, <1>20, ScalarWritten
  <2>3. Len(w) = 1 + M!VarSize(num) + Len(txt)
    <3> DEFINE wire == M!Wire(type[q])
    <3>1. q \in 1..15 /\ wire \in {0, 2} /\ num \in M!Number31 /\ txt \in Seq(M!Byte)
          BY <1>20
    <3> HIDE DEF num, txt, wire
    <3>2. Len(M!Written(q, wire, num, txt)) = 1 + M!VarSize(num) + Len(txt)
          BY <3>1, WrittenLength
    <3>3. QED
          BY <3>2 DEF wire
  <2>4. QED
        BY <2>1, <2>2, <2>3 DEF Scalars
<1> HIDE DEF num, txt, w, size
<1> DEFINE o == Offset(type, v, q)
<1>22. /\ o \in Nat /\ Offset(type, v, q + 1) = o + size /\ o + size <= n
       /\ \A i \in 1..size : body[o + i] = w[i]
       BY <1>7, <1>15, <1>21 DEF size
<1>23. p = a + o
       BY <1>8, <1>17
<1>24. FieldAt(d, s, r, q) = a + o /\ FieldAt(d, s, r, q + 1) = a + Offset(type, v, q + 1)
       BY DEF FieldAt, a, type, v, n
<1> HIDE DEF o
<1>25. LaidAt(in, p, end, w)
  <2>1. ASSUME NEW j \in 1..Len(w), p + j <= end PROVE in[p + j] = w[j]
    <3>0. j \in 1..size /\ size \in Nat /\ o \in Nat /\ a \in Nat /\ n \in Nat /\ o + size <= n
          /\ p = a + o /\ p + j <= end /\ end <= Len(in) /\ end \in Nat
          BY <1>3, <1>5, <1>6, <1>10, <1>21, <1>22, <1>23, <2>1
    <3>1. j \in 1..size /\ o + j \in 1..n /\ a + (o + j) = p + j
          BY <3>0
    <3>2. p + j <= Len(in)
          BY <1>5, <3>0
    <3>3. in[a + (o + j)] = body[o + j]
          BY <1>10, <3>1, <3>2
    <3>4. QED
          BY <1>22, <3>1, <3>3
  <2>2. QED
        BY <2>1 DEF LaidAt
<1>26. p \in Nat
       BY <1>10, <1>22, <1>23
<1>27. ReadAt(in, p, end, q, M!Wire(type[q]), num, txt)
       BY <1>5, <1>6, <1>11, <1>20, <1>25, <1>26, ReadPiece, ZenonT(60) DEF w
<1>28. FieldAt(d, s, r, q + 1) = p + 1 + M!VarSize(num) + Len(txt)
       /\ FieldAt(d, s, r, q + 1) <= l
  <2>1. FieldAt(d, s, r, q + 1) = p + size
        BY <1>10, <1>21, <1>22, <1>23, <1>24
  <2>2. p + size <= l
    <3>1. a \in Nat /\ o \in Nat /\ size \in Nat /\ o + size <= n /\ p = a + o /\ l = a + n
          BY <1>10, <1>21, <1>22, <1>23, Zenon
    <3>2. n \in Nat
          BY <1>3
    <3> HIDE DEF size
    <3>3. QED
          BY <3>1, <3>2
  <2>3. M!VarSize(num) \in 1..5 /\ Len(txt) \in Nat
        BY <1>20, VarSizeType
  <2> DEFINE y == M!VarSize(num)
             m == Len(txt)
  <2>4. p + size = p + 1 + y + m
    <3>1. y \in Nat /\ m \in Nat /\ size = 1 + y + m
          BY <1>21, <2>3
    <3> HIDE DEF y, m
    <3>2. QED
          BY <1>26, <3>1
  <2>5. QED
        BY <2>1, <2>2, <2>4
<1>29. FieldAt(d, s, r, q) = p
       BY <1>23, <1>24
<1>30. QED
  <2>1. /\ q \in k..Z /\ v[q] # M!Default(type[q]) /\ Defaults(type, v, k, q)
        /\ Partial(d, c, q) = Partial(d, c, k) /\ FieldAt(d, s, r, q) = p
        /\ ReadAt(in, p, end, q, M!Wire(type[q]), M!number(type[q], v[q]), M!text(type[q], v[q]))
        /\ FieldAt(d, s, r, q + 1) =
              p + 1 + M!VarSize(M!number(type[q], v[q])) + Len(M!text(type[q], v[q]))
        /\ FieldAt(d, s, r, q + 1) <= l
        BY <1>15, <1>16, <1>18, <1>27, <1>28, <1>29 DEF num, txt
  <2>2. QED
        BY <2>1 DEF p, end, type, v, Z, l

------------------------------------------------------------------------------
(* The texts, and where the reader is *)

\* No text in the items before c keeps them from being read.
ReadableUpto(d, c) ==
    \A f \in Fields(d) : f <= d.known =>
        \A i \in 1..M!Count(d, f) :
            Behind(<<f, i>>, c) => M!Readable(d.type[f], M!Value(d, <<f, i>>))

LEMMA ReadableStart ==
    ASSUME NEW d, M!WellFormed(d)
    PROVE  ReadableUpto(d, M!Following(d, 1))
<1>1. 1 \in 1..(Len(d.type) + 1) /\ Len(d.type) \in Nat
      BY CaseNumbers
<1>2. PICK g \in 1..(Len(d.type) + 1) :
          M!Following(d, 1) = <<g, 1>> /\ \A h \in 1..(g - 1) : M!Count(d, h) = 0
      BY <1>1, FollowingFacts
<1>3. ASSUME NEW f \in Fields(d), NEW i \in 1..M!Count(d, f), Behind(<<f, i>>, <<g, 1>>)
      PROVE  FALSE
  <2>1. f \in Nat /\ M!Count(d, f) \in Nat /\ f >= 1 /\ g \in Nat
    <3>1. f \in Nat /\ M!Count(d, f) \in Nat
          BY CaseNumbers, Counts
    <3>2. f >= 1
          BY <1>1, <3>1 DEF Fields
    <3>3. QED
          BY <1>1, <3>1, <3>2
  <2>2. f < g \/ (f = g /\ i < 1)
        BY <1>3 DEF Behind
  <2>3. f < g
        BY <2>1, <2>2
  <2>4. f \in 1..(g - 1)
        BY <2>1, <2>3
  <2>5. M!Count(d, f) = 0
        BY <1>2, <2>4
  <2>6. QED
        BY <2>5
<1>4. QED
      BY <1>2, <1>3 DEF ReadableUpto

LEMMA ReadableAfter ==
    ASSUME NEW d, M!WellFormed(d), NEW c \in Places(d), ~ M!AtEnd(d, c), ReadableUpto(d, c),
           c[1] <= d.known => M!Readable(d.type[c[1]], M!Value(d, c))
    PROVE  ReadableUpto(d, M!After(d, c))
<1>1. c = <<c[1], c[2]>> /\ c[1] \in Nat /\ c[2] \in Nat /\ M!Count(d, c[1]) \in Nat
      BY ItemFacts
<1>2. ASSUME NEW f \in Fields(d), NEW i \in 1..M!Count(d, f), Behind(<<f, i>>, M!After(d, c))
      PROVE  Behind(<<f, i>>, c) \/ <<f, i>> = c
  <2>1. f \in Nat /\ M!Count(d, f) \in Nat /\ Len(d.type) \in Nat
        BY CaseNumbers, Counts
  <2>2. <<f, i>>[1] = f /\ <<f, i>>[2] = i /\ i \in Nat
        BY <2>1
  <2>3. CASE M!After(d, c) = <<c[1], c[2] + 1>>
    <3>1. f < c[1] \/ (f = c[1] /\ i < c[2] + 1)
          BY <1>2, <2>3 DEF Behind
    <3>2. f < c[1] \/ (f = c[1] /\ i < c[2]) \/ (f = c[1] /\ i = c[2])
          BY <1>1, <2>2, <3>1
    <3>3. QED
          BY <1>1, <2>2, <3>2 DEF Behind
  <2>4. ASSUME c[2] = M!Count(d, c[1]), NEW g \in (c[1] + 1)..(Len(d.type) + 1),
               M!After(d, c) = <<g, 1>>, \A h \in (c[1] + 1)..(g - 1) : M!Count(d, h) = 0
        PROVE  Behind(<<f, i>>, c) \/ <<f, i>> = c
    <3>1. f < g \/ (f = g /\ i < 1)
          BY <1>2, <2>4 DEF Behind
    <3>2. g \in Nat /\ f < g
          BY <1>1, <2>1, <2>2, <3>1
    <3>3. f <= c[1]
      <4>1. f > c[1] => f \in (c[1] + 1)..(g - 1)
            BY <1>1, <2>1, <3>2
      <4>2. f > c[1] => M!Count(d, f) = 0
            BY <2>4, <4>1
      <4>3. QED
            BY <1>1, <2>1, <4>2
    <3>4. f < c[1] \/ (f = c[1] /\ i < c[2]) \/ (f = c[1] /\ i = c[2])
          BY <1>1, <2>1, <2>4, <3>3
    <3>5. QED
          BY <1>1, <2>2, <3>4 DEF Behind
  <2>5. QED
        BY <2>3, <2>4, AfterFacts
<1>3. ASSUME NEW f \in Fields(d), f <= d.known, NEW i \in 1..M!Count(d, f),
             Behind(<<f, i>>, M!After(d, c))
      PROVE  M!Readable(d.type[f], M!Value(d, <<f, i>>))
  <2>1. CASE Behind(<<f, i>>, c)
        BY <1>3, <2>1 DEF ReadableUpto
  <2>2. CASE <<f, i>> = c
    <3>1. c[1] = f
          BY <2>2
    <3>2. QED
          BY <1>3, <2>2, <3>1
  <2>3. QED
        BY <1>2, <1>3, <2>1, <2>2
<1>4. QED
      BY <1>3 DEF ReadableUpto

LEMMA ReadableEnd ==
    ASSUME NEW d, M!WellFormed(d), NEW c \in Places(d), M!AtEnd(d, c), ReadableUpto(d, c)
    PROVE  M!Valid(d)
<1>1. c[1] = Len(d.type) + 1
      BY PlaceFacts
<1>2. DOMAIN d.type = Fields(d) /\ Len(d.type) \in Nat
      /\ \A f \in Fields(d) : f \in Nat /\ f <= Len(d.type)
      BY CaseNumbers
<1>3. \A f \in Fields(d) : \A i \in 1..M!Count(d, f) : Behind(<<f, i>>, c)
      BY <1>1, <1>2 DEF Behind
<1>4. QED
      BY <1>2, <1>3 DEF ReadableUpto, M!Valid

LEMMA Unreadable ==
    ASSUME NEW d, M!WellFormed(d), NEW c \in Places(d), ~ M!AtEnd(d, c), c[1] <= d.known,
           ~ M!Readable(d.type[c[1]], M!Value(d, c))
    PROVE  ~ M!Valid(d)
<1>1. c = <<c[1], c[2]>> /\ c[1] \in Fields(d) /\ c[2] \in 1..M!Count(d, c[1])
      BY ItemFacts
<1>2. DOMAIN d.type = Fields(d)
      BY CaseNumbers
<1>3. M!Value(d, <<c[1], c[2]>>) = M!Value(d, c)
      BY <1>1
<1>4. QED
      BY <1>1, <1>2, <1>3 DEF M!Valid

------------------------------------------------------------------------------
\* The reader is at the item at s[r], or in it, at field k of its element.
AtItem(d, s, in, r, p, u, l, g) ==
    /\ r \in 1..Len(s) /\ u = 0 /\ l = 0 /\ p = s[r].at /\ p <= Len(in)
    /\ g = Merged(d, s[r].item) /\ ReadableUpto(d, s[r].item)

InItem(d, s, in, r, k, p, u, l, g) ==
    LET c == s[r].item IN
    /\ r \in 1..(Len(s) - 1) /\ c[1] <= d.known /\ d.type[c[1]].kind \in M!Nested
    /\ k \in 1..(Len(ElementType(d, c)) + 1)
    /\ u = c[1] /\ l = s[r + 1].at /\ p = FieldAt(d, s, r, k) /\ p <= Len(in)
    /\ g = [Merged(d, c) EXCEPT ![c[1]] = Append(Preceding(d, c), Partial(d, c, k))]
    /\ ReadableUpto(d, c)
    /\ \A j \in 1..(k - 1) :
          ElementType(d, c)[j].kind = "text" => M!VerifyUTF8(M!Value(d, c)[j])

\* What reading may end with.
ReadTo(d, s, in, g) ==
    \E r \in 1..Len(s) :
        Len(in) = s[r].at /\ g = Merged(d, s[r].item) /\ ReadableUpto(d, s[r].item)

LEMMA Passed ==
    ASSUME NEW d, M!WellFormed(d), NEW s, IsSums(d, s), NEW r \in 1..(Len(s) - 1),
           NEW in, s[r + 1].at <= Len(in), ReadableUpto(d, s[r].item),
           s[r].item[1] <= d.known => M!Readable(d.type[s[r].item[1]], M!Value(d, s[r].item)),
           NEW g,
           g = IF s[r].item[1] <= d.known
               THEN [Merged(d, s[r].item) EXCEPT ![s[r].item[1]] = New(d, s[r].item)]
               ELSE Merged(d, s[r].item)
    PROVE  AtItem(d, s, in, r + 1, s[r + 1].at, 0, 0, g)
<1> DEFINE c == s[r].item
<1>1. Len(s) \in Nat /\ r \in 1..Len(s) /\ r + 1 \in 1..Len(s)
  <2>1. Len(s) \in Nat
        BY DEF IsSums
  <2>2. QED
        BY <2>1
<1>2. c \in Places(d) /\ ~ M!AtEnd(d, c) /\ s[r + 1].item = M!After(d, c)
      BY <1>1, SumIs DEF IsSums
<1>3. ReadableUpto(d, M!After(d, c))
      BY <1>2, ReadableAfter
<1>4. g = Merged(d, M!After(d, c))
  <2>1. CASE c[1] <= d.known
        BY <1>2, <2>1, MergedKnown
  <2>2. CASE ~(c[1] <= d.known)
    <3>1. c[1] > d.known
      <4>1. c[1] \in Nat /\ d.known \in Nat
            BY <1>2, PlaceFacts, CaseNumbers
      <4>2. QED
            BY <2>2, <4>1
    <3>2. QED
          BY <1>2, <2>2, <3>1, MergedUnknown
  <2>3. QED
        BY <2>1, <2>2
<1>5. QED
      BY <1>1, <1>2, <1>3, <1>4 DEF AtItem

------------------------------------------------------------------------------
(* The id in a hardware file *)

\* A hardware file whose first field is the id.
IsIdFile(d) == d.file /\ \A f \in 1..3 : M!Count(d, f) = 0

IdPut(d) == M!PutScalar(4, M!Text, d.msg[4])

\* What becomes of the id when reading ends.
IdLeft(d, in, g) ==
    IsIdFile(d) =>
        IF Len(IdPut(d)) <= Len(in) THEN g[4] = d.msg[4]
        ELSE /\ \A j \in DOMAIN g[4] :
                   g[4][j] = 0 \/ (j \in DOMAIN d.msg[4] /\ g[4][j] = d.msg[4][j])
             /\ (\A j \in DOMAIN d.msg[4] : d.msg[4][j] # 0) => g[4] # d.msg[4]

LEMMA HardwareFacts ==
    ASSUME NEW d, M!WellFormed(d), d.file
    PROVE  /\ d.known = 11 /\ Len(d.type) = 11 /\ 4 \in Fields(d) /\ d.type[4] = M!Text
           /\ d.type[4].kind = "text" /\ d.into[4] = <<>> /\ d.msg[4] \in M!String
           /\ d.msg[4] \in Seq(M!Byte)
           /\ M!Count(d, 4) = IF d.msg[4] = <<>> THEN 0 ELSE 1
<1>1. d.type = M!HardwareInfo /\ d.known = 11 /\ d.into = M!Clear(d.type)
      BY DEF M!WellFormed
<1>2. Len(M!HardwareInfo) = 11 /\ M!HardwareInfo[4] = M!Text /\ DOMAIN M!HardwareInfo = 1..11
      BY DEF M!HardwareInfo
<1>3. d.type[4].kind = "text"
      BY <1>1, <1>2 DEF M!Text
<1>4. d.into[4] = <<>>
  <2>1. 4 \in DOMAIN d.type
        BY <1>1, <1>2
  <2>2. d.into[4] = M!Default(d.type[4])
        BY <1>1, <2>1 DEF M!Clear
  <2>3. QED
        BY <1>3, <2>2 DEF M!Default
<1>5. 4 \in Fields(d) /\ d.msg[4] \in M!Values(d.type[4])
  <2>1. 4 \in Fields(d)
        BY <1>1, <1>2 DEF Fields
  <2>2. QED
        BY <2>1, CaseFacts
<1>6. d.msg[4] \in M!String
      BY <1>3, <1>5 DEF M!Values, M!Single, M!Scalar
<1>7. M!Count(d, 4) = IF d.msg[4] = <<>> THEN 0 ELSE 1
      BY <1>3 DEF M!Count, M!Single, M!Default
<1>8. d.msg[4] \in Seq(M!Byte)
      BY <1>6 DEF M!String
<1>9. QED
      BY <1>1, <1>2, <1>3, <1>4, <1>5, <1>6, <1>7, <1>8

\* Where an id there is lies: first.
LEMMA IdIsFirst ==
    ASSUME NEW d, M!WellFormed(d), IsIdFile(d), d.msg[4] # <<>>,
           NEW s, IsSums(d, s), M!AtEnd(d, s[Len(s)].item)
    PROVE  /\ s[1].item = <<4, 1>> /\ s[1].at = 0 /\ 1 \in 1..(Len(s) - 1)
           /\ s[2].at = Len(IdPut(d)) /\ Len(IdPut(d)) \in Nat
           /\ IdPut(d) = M!Put(d, <<4, 1>>) /\ Len(IdPut(d)) > 0
           /\ \A r \in 2..Len(s) : s[r].item[1] > 4 /\ Len(IdPut(d)) <= s[r].at
<1>1. /\ Len(d.type) = 11 /\ 4 \in Fields(d) /\ d.type[4] = M!Text
      /\ M!Count(d, 4) = 1 /\ d.type[4].kind = "text"
      BY HardwareFacts DEF IsIdFile
<1>2. M!Following(d, 1) = <<4, 1>>
  <2>1. 1 \in 1..(Len(d.type) + 1)
        BY <1>1
  <2>2. PICK g \in 1..(Len(d.type) + 1) :
            /\ M!Following(d, 1) = <<g, 1>> /\ <<g, 1>> \in Places(d)
            /\ \A h \in 1..(g - 1) : M!Count(d, h) = 0
        BY <2>1, FollowingFacts
  <2>3. g \in 1..12
        BY <1>1, <2>2
  <2>4. g <= 4
    <3>1. g > 4 => 4 \in 1..(g - 1)
          BY <2>3
    <3>2. QED
          BY <1>1, <2>2, <2>3, <3>1
  <2>5. ~(g \in 1..3)
    <3>1. g \in 1..3 => 1 \in 1..M!Count(d, g)
      <4>1. <<g, 1>>[1] = g /\ <<g, 1>>[2] = 1
            OBVIOUS
      <4>2. g \in 1..3 => g <= Len(d.type)
            BY <1>1
      <4>3. QED
            BY <2>2, <4>1, <4>2 DEF Places
    <3>2. QED
          BY <3>1 DEF IsIdFile
  <2>6. g = 4
        BY <2>3, <2>4, <2>5
  <2>7. QED
        BY <2>2, <2>6
<1>3. s[1].item = <<4, 1>> /\ s[1].at = 0 /\ Len(s) \in Nat /\ Len(s) > 0
      BY <1>2 DEF IsSums
<1>4. ~ M!AtEnd(d, <<4, 1>>)
      BY <1>1 DEF M!AtEnd
<1>5. Len(s) # 1
      BY <1>3, <1>4
<1>6. 1 \in 1..(Len(s) - 1) /\ 2 \in 1..Len(s)
  <2> DEFINE n == Len(s)
  <2>1. n \in Nat /\ n > 0 /\ n # 1
        BY <1>3, <1>5
  <2> HIDE DEF n
  <2>2. 1 \in 1..(n - 1) /\ 2 \in 1..n
        BY <2>1
  <2>3. QED
        BY <2>2 DEF n
<1>7. s[1 + 1].at = s[1].at + M!Size(d, s[1].item)
      BY <1>6 DEF IsSums
<1>8. /\ M!Put(d, <<4, 1>>) = M!Written(4, M!Wire(d.type[4]), NumberOf(d, <<4, 1>>), ContentOf(d, <<4, 1>>))
      /\ Len(M!Put(d, <<4, 1>>)) = M!Size(d, <<4, 1>>)
      /\ M!Size(d, <<4, 1>>) \in Nat /\ M!Size(d, <<4, 1>>) > 0
  <2>1. 1 \in 1..M!Count(d, 4)
        BY <1>1
  <2>2. QED
        BY <1>1, <2>1, ItemWritten
<1>9. IdPut(d) = M!Put(d, <<4, 1>>)
  <2>1. M!Value(d, <<4, 1>>) = d.msg[4]
        BY <1>1 DEF M!Value, M!Single
  <2>2. NumberOf(d, <<4, 1>>) = M!number(M!Text, d.msg[4])
        BY <1>1, <2>1 DEF NumberOf, KindOf, M!Number, M!Nested
  <2>3. ContentOf(d, <<4, 1>>) = M!text(M!Text, d.msg[4])
        BY <1>1, <2>1 DEF ContentOf, KindOf, M!Content, M!Nested
  <2>4. d.msg[4] # M!Default(M!Text)
        BY DEF M!Default, M!Text
  <2>5. QED
        BY <1>1, <1>8, <2>2, <2>3, <2>4 DEF IdPut, M!PutScalar
<1>10. s[2].at = Len(IdPut(d)) /\ Len(IdPut(d)) \in Nat /\ Len(IdPut(d)) > 0
  <2>1. 1 + 1 = 2
        OBVIOUS
  <2>2. s[2].at = 0 + M!Size(d, <<4, 1>>)
        BY <1>3, <1>7, <2>1
  <2>3. QED
        BY <1>8, <1>9, <2>2
<1>11. ASSUME NEW r \in 2..Len(s) PROVE s[r].item[1] > 4 /\ Len(IdPut(d)) <= s[r].at
  <2>1. Behind(<<4, 1>>, s[r].item) /\ s[2].at <= s[r].at
        BY <1>3 DEF IsSums
  <2>2. r \in 1..Len(s)
        BY <1>3
  <2>3. s[r].item \in Places(d)
        BY <2>2, SumIs
  <2>4. 4 < s[r].item[1] \/ (4 = s[r].item[1] /\ 1 < s[r].item[2])
        BY <2>1 DEF Behind
  <2>5. s[r].item[1] \in Nat /\ s[r].item[2] \in Nat
        BY <2>3, PlaceFacts
  <2>6. 4 = s[r].item[1] => s[r].item[2] \in 1..1
        BY <1>1, <2>3 DEF Places
  <2>7. 4 < s[r].item[1]
        BY <2>4, <2>5, <2>6
  <2>8. QED
        BY <1>10, <2>1, <2>5, <2>7
<1>12. QED
       BY <1>3, <1>6, <1>9, <1>10, <1>11

LEMMA IdMerged ==
    ASSUME NEW d, M!WellFormed(d), IsIdFile(d), NEW s, IsSums(d, s), M!AtEnd(d, s[Len(s)].item),
           NEW r \in 1..Len(s)
    PROVE  Merged(d, s[r].item)[4] = IF r = 1 THEN <<>> ELSE d.msg[4]
<1>1. /\ d.known = 11 /\ Len(d.type) = 11 /\ 4 \in Fields(d) /\ d.type[4] = M!Text
      /\ d.type[4].kind = "text" /\ d.into[4] = <<>>
      BY HardwareFacts DEF IsIdFile
<1>2. Merged(d, s[r].item)[4] = M!MergeScalar(M!Text, <<>>, M!Upto(d, s[r].item)[4])
  <2>1. Merged(d, s[r].item)[4] = M!MergeField(d.type[4], d.into[4], M!Upto(d, s[r].item)[4])
        BY <1>1, MergedIs
  <2>2. QED
        BY <1>1, <2>1 DEF M!MergeField, M!Single
<1>3. M!Default(M!Text) = <<>> /\ M!MergeScalar(M!Text, <<>>, <<>>) = <<>>
      /\ M!MergeScalar(M!Text, <<>>, d.msg[4]) = d.msg[4]
      BY DEF M!Default, M!Text, M!MergeScalar
<1>4. CASE r = 1
  <2>1. s[1].item = M!Following(d, 1)
        BY DEF IsSums
  <2>2. QED
        BY <1>1, <1>4, <2>1, MergedStart
<1>5. CASE r # 1 /\ d.msg[4] # <<>>
  <2>1. r \in 2..Len(s) /\ Len(s) \in Nat
    <3>1. Len(s) \in Nat
          BY DEF IsSums
    <3>2. QED
          BY <1>5, <3>1
  <2>2. s[r].item[1] > 4
        BY <1>5, <2>1, IdIsFirst
  <2>3. s[r].item[1] \in Nat
        BY SumIs, PlaceFacts
  <2>4. M!Upto(d, s[r].item)[4] = d.msg[4]
    <3>1. ~(4 > d.known) /\ ~(4 > s[r].item[1]) /\ 4 < s[r].item[1]
          BY <1>1, <2>2, <2>3
    <3>2. 4 \in DOMAIN d.type
          BY <1>1, CaseNumbers
    <3>3. QED
          BY <3>1, <3>2 DEF M!Upto
  <2>5. QED
        BY <1>2, <1>3, <1>5, <2>4
<1>6. CASE d.msg[4] = <<>>
  <2>1. M!Upto(d, s[r].item)[4] = <<>>
    <3>1. 4 \in DOMAIN d.type /\ d.type[4].kind \in M!Single /\ M!Default(d.type[4]) = <<>>
          BY <1>1, <1>3, CaseNumbers DEF M!Single
    <3>2. QED
          BY <1>6, <3>1 DEF M!Upto
  <2>2. QED
        BY <1>2, <1>3, <1>6, <2>1
<1>7. QED
      BY <1>4, <1>5, <1>6

\* The id is settled but while the first item is read.
LEMMA IdSettled ==
    ASSUME NEW d, M!WellFormed(d), NEW s, IsSums(d, s), M!AtEnd(d, s[Len(s)].item),
           NEW r \in 1..Len(s), NEW in, s[r].at <= Len(in), Len(in) \in Nat, NEW g,
           d.file => g[4] = Merged(d, s[r].item)[4],
           d.file => s[r].item[1] # 4 \/ s[r].at = Len(in)
    PROVE  IdLeft(d, in, g)
<1> SUFFICES ASSUME IsIdFile(d)
             PROVE  IF Len(IdPut(d)) <= Len(in) THEN g[4] = d.msg[4]
                    ELSE /\ \A j \in DOMAIN g[4] :
                               g[4][j] = 0 \/ (j \in DOMAIN d.msg[4] /\ g[4][j] = d.msg[4][j])
                         /\ (\A j \in DOMAIN d.msg[4] : d.msg[4][j] # 0) => g[4] # d.msg[4]
    BY DEF IdLeft
<1>1. g[4] = IF r = 1 THEN <<>> ELSE d.msg[4]
      BY IdMerged DEF IsIdFile
<1>2. CASE d.msg[4] = <<>>
  <2>1. IdPut(d) = <<>>
        BY <1>2 DEF IdPut, M!PutScalar, M!Default, M!Text
  <2>2. Len(IdPut(d)) = 0
        BY <2>1
  <2>3. QED
        BY <1>1, <1>2, <2>2
<1>3. CASE d.msg[4] # <<>> /\ r = 1
  <2>1. s[1].item = <<4, 1>> /\ s[1].at = 0 /\ Len(IdPut(d)) > 0 /\ Len(IdPut(d)) \in Nat
        BY <1>3, IdIsFirst
  <2>2. Len(in) = 0
        BY <1>3, <2>1 DEF IsIdFile
  <2>3. ~(Len(IdPut(d)) <= Len(in))
        BY <2>1, <2>2
  <2>4. g[4] = <<>> /\ DOMAIN <<>> = {}
        BY <1>1, <1>3
  <2>5. QED
        BY <1>3, <2>3, <2>4
<1>4. CASE d.msg[4] # <<>> /\ r # 1
  <2>1. r \in 2..Len(s)
    <3>1. Len(s) \in Nat
          BY DEF IsSums
    <3>2. QED
          BY <1>4, <3>1
  <2>2. Len(IdPut(d)) <= s[r].at /\ Len(IdPut(d)) \in Nat
        BY <1>4, <2>1, IdIsFirst
  <2>3. s[r].at \in Nat
        BY SumIs
  <2>4. Len(IdPut(d)) <= Len(in)
        BY <2>2, <2>3
  <2>5. QED
        BY <1>1, <1>4, <2>4
<1>5. QED
      BY <1>2, <1>3, <1>4

------------------------------------------------------------------------------
(***************************************************************************)
(* The inductive invariant: the sums are those of the items, the bytes     *)
(* that are written lie as they say, and the reader is at an item, or in   *)
(* one at a field of its element, with the items and the fields before     *)
(* that merged into what it reads into.                                    *)
(***************************************************************************)

\* What does not change from the time the message is handed over.
Handed ==
    /\ IsSums(about, sums) /\ M!AtEnd(about, sums[Len(sums)].item)
    /\ Laid(about, sums, bytes, Len(sums)) /\ Prefix(bytes, input) /\ kept \in 0..Len(bytes)
    /\ about.file => input = M!Word(SubSeq(bytes, 1, kept))

Writing ==
    /\ IsSums(about, sums) /\ M!AtEnd(about, sums[Len(sums)].item)
    /\ \E w \in 1..Len(sums) : Laid(about, sums, bytes, w) /\ item = sums[w].item
    /\ ptr = 0 /\ sub = 0 /\ limit = 0

Reading ==
    \E r \in 1..Len(sums) :
        \/ AtItem(about, sums, input, r, ptr, sub, limit, got)
        \/ \E k \in 1..4 : InItem(about, sums, input, r, k, ptr, sub, limit, got)

Finished ==
    /\ IdLeft(about, input, got)
    /\ stage = "parsed" => ReadTo(about, sums, input, got)
    /\ stage = "failed" /\ Len(input) = Len(bytes) => ~ M!Valid(about)

MessageInv ==
    about.fn = "message" =>
        /\ M!WellFormed(about)
        /\ stage \in {"size", "write", "read", "parsed", "failed"}
        /\ stage = "size" => IsSums(about, sums) /\ item = sums[Len(sums)].item /\ M!Empty
        /\ stage = "write" => Writing
        /\ stage \in {"read", "parsed", "failed"} => Handed
        /\ stage = "read" => Reading
        /\ M!Over => Finished

LEMMA SubSeqIsPrefix ==
    ASSUME NEW b \in Seq(M!Byte), NEW k \in 0..Len(b)
    PROVE  SubSeq(b, 1, k) \in Seq(M!Byte) /\ Len(SubSeq(b, 1, k)) = k
           /\ \A j \in 1..k : SubSeq(b, 1, k)[j] = b[j]
<1>1. Len(b) \in Nat /\ k \in Nat
      OBVIOUS
<1>2. SubSeq(b, 1, k) \in Seq(M!Byte) /\ Len(SubSeq(b, 1, k)) = k
      BY <1>1
<1>3. ASSUME NEW j \in 1..k PROVE SubSeq(b, 1, k)[j] = b[j]
  <2>1. 1 + j - 1 = j /\ k - 1 + 1 = k
        BY <1>1
  <2>2. QED
        BY <1>1, <2>1
<1>4. QED
      BY <1>2, <1>3

\* The word at the beginning of a text that begins with one.
LEMMA WordIs ==
    ASSUME NEW t \in Seq(M!Byte), t # <<>> => t[1] \notin M!Space
    PROVE  \E m \in 0..Len(t) :
               /\ M!Word(t) = SubSeq(t, 1, m)
               /\ \A j \in 1..m : t[j] \notin M!Space
               /\ m < Len(t) => t[m + 1] \in M!Space
<1> DEFINE plain == {j \in DOMAIN t : t[j] \notin M!Space}
           first == M!Least(plain)
           blanks == {j \in DOMAIN t : j > first /\ t[j] \in M!Space}
<1>1. Len(t) \in Nat /\ DOMAIN t = 1..Len(t)
      OBVIOUS
<1>2. CASE t = <<>>
  <2>1. plain = {} /\ Len(t) = 0
        BY <1>2
  <2>2. M!Word(t) = <<>> /\ SubSeq(t, 1, 0) = <<>>
        BY <1>2, <2>1 DEF M!Word
  <2>3. 0 \in 0..Len(t) /\ (\A j \in 1..0 : t[j] \notin M!Space) /\ ~(0 < Len(t))
        BY <2>1
  <2>4. QED
        BY <2>2, <2>3
<1>3. CASE t # <<>>
  <2>1. Len(t) > 0
        BY <1>1, <1>3
  <2>2. 1 \in plain
        BY <1>1, <1>3, <2>1
  <2>3. plain \in SUBSET Nat /\ \A j \in plain : 1 <= j
        BY <1>1
  <2>4. first = 1
    <3> HIDE DEF plain
    <3>1. QED
          BY <2>2, <2>3, LeastIsThe
  <2>5. M!Word(t) = SubSeq(t, 1, IF blanks = {} THEN Len(t) ELSE M!Least(blanks) - 1)
        BY <2>2, <2>4 DEF M!Word
  <2>6. \A j \in 1..Len(t) : t[j] \in M!Space => j \in blanks
    <3>1. ASSUME NEW j \in 1..Len(t), t[j] \in M!Space PROVE j \in blanks
      <4>1. j # 1
            BY <1>3, <3>1
      <4>2. j > 1
            BY <1>1, <4>1
      <4>3. QED
            BY <1>1, <2>4, <3>1, <4>2
    <3>2. QED
          BY <3>1
  <2>7. CASE blanks = {}
    <3>1. M!Word(t) = SubSeq(t, 1, Len(t))
          BY <2>5, <2>7
    <3>2. \A j \in 1..Len(t) : t[j] \notin M!Space
          BY <2>6, <2>7
    <3>3. Len(t) \in 0..Len(t) /\ ~(Len(t) < Len(t))
          BY <1>1
    <3>4. QED
          BY <3>1, <3>2, <3>3
  <2>8. CASE blanks # {}
    <3> DEFINE least == M!Least(blanks)
               m == least - 1
    <3>1. blanks \in SUBSET Nat
          BY <1>1
    <3>2. least \in blanks /\ \A j \in blanks : least <= j
      <4> HIDE DEF blanks
      <4>1. QED
            BY <2>8, <3>1, LeastIs
    <3>3. least \in 1..Len(t) /\ least > 1 /\ t[least] \in M!Space
          BY <1>1, <2>4, <3>2
    <3>4. M!Word(t) = SubSeq(t, 1, m)
          BY <2>5, <2>8
    <3> HIDE DEF least, blanks
    <3>5. m \in 0..Len(t) /\ m + 1 = least
          BY <1>1, <3>3
    <3>6. ASSUME NEW j \in 1..m PROVE t[j] \notin M!Space
      <4>1. j \in 1..Len(t) /\ ~(least <= j)
            BY <1>1, <3>3
      <4>2. j \notin blanks
            BY <3>2, <4>1
      <4>3. QED
            BY <2>6, <4>1, <4>2
    <3>7. t[m + 1] \in M!Space
          BY <3>3, <3>5
    <3> HIDE DEF m
    <3>8. QED
          BY <3>4, <3>5, <3>6, <3>7
  <2>9. QED
        BY <2>7, <2>8
<1>4. QED
      BY <1>2, <1>3

\* A hardware file begins with a word.
LEMMA FirstByte ==
    ASSUME NEW d, M!WellFormed(d), d.file, NEW s, IsSums(d, s), NEW b, Laid(d, s, b, Len(s)),
           b # <<>>
    PROVE  b[1] \notin M!Space
<1>1. b \in Seq(M!Byte) /\ Len(b) \in Nat /\ Len(b) > 0
      BY DEF Laid
<1>2. Prefix(b, b)
      BY <1>1 DEF Prefix
<1>3. 1 \in 1..Len(s) /\ s[1].at = 0
      BY DEF IsSums
<1> DEFINE c == s[1].item
           n == NumberOf(d, c)
           body == ContentOf(d, c)
<1>4. /\ c \in Places(d) /\ ~ M!AtEnd(d, c)
      /\ ReadAt(b, 0, Len(b), c[1], M!Wire(d.type[c[1]]), n, body)
      BY <1>1, <1>2, <1>3, ItemRead
<1>5. b[0 + 1] \div 8 = c[1] /\ b[0 + 1] % 8 = M!Wire(d.type[c[1]])
      BY <1>4 DEF ReadAt
<1>6. d.type = M!HardwareInfo
      BY DEF M!WellFormed
<1>7. c[1] \in 1..11
  <2>1. c[1] \in Fields(d) /\ Len(d.type) = 11
        BY <1>4, ItemFacts, HardwareFacts
  <2>2. QED
        BY <2>1 DEF Fields
<1>8. c[1] # 1 => M!Wire(d.type[c[1]]) = 2
      BY <1>6, <1>7 DEF M!HardwareInfo, M!Wire, M!Num, M!Text, M!Msgs, M!Msg
<1>9. c[1] = 1 => M!Wire(d.type[c[1]]) = 0
      BY <1>6 DEF M!HardwareInfo, M!Wire, M!Num
<1>10. b[1] \in Nat /\ b[1] \div 8 = c[1] /\ b[1] % 8 = M!Wire(d.type[c[1]])
  <2>1. b[1] \in Nat
    <3>1. b[1] \in M!Byte
          BY <1>1
    <3>2. \A x \in M!Byte : x \in Nat
          BY DEF M!Byte
    <3>3. QED
          BY <3>1, <3>2
  <2>2. QED
        BY <1>5, <2>1
<1> HIDE DEF c
<1>11. b[1] \notin {9, 10, 11, 12, 13, 32}
       BY <1>7, <1>8, <1>9, <1>10
<1>12. QED
       BY <1>11 DEF M!Space

------------------------------------------------------------------------------
(* Measuring, writing and handing over *)

\* The messages up to the time they are handed over.
LEMMA InputIsPrefix ==
    ASSUME NEW d, M!WellFormed(d), NEW s, IsSums(d, s), NEW b, Laid(d, s, b, Len(s)),
           NEW k \in 0..Len(b), NEW in,
           in = IF d.file THEN M!Word(SubSeq(b, 1, k)) ELSE SubSeq(b, 1, k)
    PROVE  Prefix(b, in)
<1> DEFINE t == SubSeq(b, 1, k)
<1>1. b \in Seq(M!Byte) /\ Len(b) \in Nat /\ k \in Nat /\ k <= Len(b)
      BY DEF Laid
<1>2. t \in Seq(M!Byte) /\ Len(t) = k /\ \A j \in 1..k : t[j] = b[j]
      BY <1>1, SubSeqIsPrefix
<1> HIDE DEF t
<1>3. CASE ~ d.file
  <2>1. in = t
        BY <1>3 DEF t
  <2>2. QED
        BY <1>1, <1>2, <2>1 DEF Prefix
<1>4. CASE d.file
  <2>1. t # <<>> => t[1] \notin M!Space
    <3>1. t # <<>> => k > 0
          BY <1>1, <1>2
    <3>2. k > 0 => b # <<>> /\ t[1] = b[1]
      <4>1. k > 0 => Len(b) # 0 /\ 1 \in 1..k
            BY <1>1
      <4>2. QED
            BY <1>2, <4>1
    <3>3. b # <<>> => b[1] \notin M!Space
          BY <1>4, FirstByte
    <3>4. QED
          BY <3>1, <3>2, <3>3
  <2>2. PICK m \in 0..Len(t) : M!Word(t) = SubSeq(t, 1, m)
        BY <1>2, <2>1, WordIs
  <2>3. in = SubSeq(t, 1, m)
        BY <1>4, <2>2 DEF t
  <2>4. in \in Seq(M!Byte) /\ Len(in) = m /\ \A j \in 1..m : in[j] = t[j]
        BY <1>2, <2>3, SubSeqIsPrefix
  <2>5. m \in Nat /\ m <= k
        BY <1>1, <1>2
  <2>6. ASSUME NEW j \in 1..Len(in) PROVE in[j] = b[j]
    <3>1. j \in 1..m /\ j \in 1..k
          BY <1>1, <2>4, <2>5
    <3>2. QED
          BY <1>2, <2>4, <3>1
  <2>7. QED
        BY <1>1, <2>4, <2>5, <2>6 DEF Prefix
<1>5. d.file \in BOOLEAN
      BY CaseFacts
<1>6. QED
      BY <1>3, <1>4

LEMMA StepByteSizeLong ==
    ASSUME about.fn = "message", MessageInv, M!ByteSizeLong, UNCHANGED about
    PROVE  MessageInv'
<1>1. /\ M!WellFormed(about) /\ IsSums(about, sums) /\ M!Empty
      /\ item = sums[Len(sums)].item /\ ~ M!AtEnd(about, item) /\ stage = "size"
      BY DEF MessageInv, M!ByteSizeLong
<1> DEFINE e == [item |-> M!After(about, item), at |-> sums[Len(sums)].at + M!Size(about, item)]
<1>2. IsSums(about, Append(sums, e))
      BY <1>1, SumsGrow
<1>3. sums' = Append(sums, e) /\ item' = e.item /\ stage' = "size" /\ M!Empty'
      BY <1>1 DEF M!ByteSizeLong, M!Empty
<1>4. sums'[Len(sums')].item = e.item
  <2>1. sums \in Seq(Sum(about)) /\ Append(sums, e) \in Seq(Sum(about))
        BY <1>1, <1>2 DEF IsSums
  <2>2. Len(Append(sums, e)) = Len(sums) + 1 /\ Append(sums, e)[Len(sums) + 1] = e
        BY <2>1
  <2>3. QED
        BY <1>3, <2>2
<1> HIDE DEF e
<1>5. IsSums(about, sums)' /\ M!WellFormed(about)' /\ about' = about
      BY <1>1, <1>2, <1>3
<1>6. QED
      BY <1>3, <1>4, <1>5 DEF MessageInv, M!Over

LEMMA StepSized ==
    ASSUME about.fn = "message", MessageInv, M!Sized, UNCHANGED about
    PROVE  MessageInv'
<1>1. /\ M!WellFormed(about) /\ IsSums(about, sums) /\ M!Empty
      /\ item = sums[Len(sums)].item /\ M!AtEnd(about, item)
      BY DEF MessageInv, M!Sized
<1>2. /\ stage' = "write" /\ item' = M!Following(about, 1) /\ sums' = sums /\ bytes' = bytes
      /\ bytes = <<>> /\ ptr' = 0 /\ sub' = 0 /\ limit' = 0 /\ about' = about
      BY <1>1 DEF M!Sized, M!Empty
<1>3. Laid(about, sums, <<>>, 1) /\ sums[1].item = M!Following(about, 1) /\ 1 \in 1..Len(sums)
      BY <1>1, LaidStart DEF IsSums
<1>4. Writing'
      BY <1>1, <1>2, <1>3 DEF Writing
<1>5. QED
      BY <1>1, <1>2, <1>4 DEF MessageInv, M!Over

LEMMA StepSerialize ==
    ASSUME about.fn = "message", MessageInv, M!Serialize, UNCHANGED about
    PROVE  MessageInv'
<1>1. M!WellFormed(about) /\ Writing /\ ~ M!AtEnd(about, item)
      BY DEF MessageInv, M!Serialize
<1>2. PICK w \in 1..Len(sums) : Laid(about, sums, bytes, w) /\ item = sums[w].item
      BY <1>1 DEF Writing
<1>3. /\ w + 1 \in 1..Len(sums)
      /\ Laid(about, sums, bytes \o M!Put(about, item), w + 1)
      /\ sums[w + 1].item = M!After(about, item)
      BY <1>1, <1>2, LaidGrow DEF Writing
<1>4. /\ bytes' = bytes \o M!Put(about, item) /\ item' = M!After(about, item)
      /\ stage' = "write" /\ sums' = sums /\ ptr' = ptr /\ sub' = sub /\ limit' = limit
      /\ about' = about
      BY DEF M!Serialize
<1>5. Writing'
      BY <1>1, <1>3, <1>4 DEF Writing
<1>6. QED
      BY <1>1, <1>4, <1>5 DEF MessageInv, M!Over

LEMMA StepHandOver ==
    ASSUME about.fn = "message", MessageInv, M!HandOver, UNCHANGED about
    PROVE  MessageInv'
<1>1. M!WellFormed(about) /\ Writing /\ M!AtEnd(about, item)
      BY DEF MessageInv, M!HandOver
<1>2. PICK w \in 1..Len(sums) : Laid(about, sums, bytes, w) /\ item = sums[w].item
      BY <1>1 DEF Writing
<1>3. w = Len(sums)
  <2>1. Len(sums) \in Nat /\ \A n \in 1..(Len(sums) - 1) : ~ M!AtEnd(about, sums[n].item)
        BY <1>1 DEF Writing, IsSums
  <2>2. w \notin 1..(Len(sums) - 1)
        BY <1>1, <1>2, <2>1
  <2>3. QED
        BY <2>1, <2>2
<1>4. PICK k \in 0..Len(bytes) :
         /\ kept' = k
         /\ input' = IF about.file THEN M!Word(SubSeq(bytes, 1, k)) ELSE SubSeq(bytes, 1, k)
      BY DEF M!HandOver
<1>5. /\ stage' = "read" /\ got' = about.into /\ sums' = sums /\ bytes' = bytes
      /\ ptr' = ptr /\ sub' = sub /\ limit' = limit /\ about' = about
      BY DEF M!HandOver
<1>6. IsSums(about, sums) /\ Laid(about, sums, bytes, Len(sums))
      BY <1>1, <1>2, <1>3 DEF Writing
<1>7. Prefix(bytes, input')
      BY <1>1, <1>4, <1>6, InputIsPrefix
<1>8. Handed'
      BY <1>1, <1>4, <1>5, <1>6, <1>7 DEF Handed, Writing
<1>9. AtItem(about, sums, input', 1, 0, 0, 0, about.into)
  <2>1. sums[1].item = M!Following(about, 1) /\ sums[1].at = 0 /\ 1 \in 1..Len(sums)
        BY <1>6 DEF IsSums
  <2>2. 0 <= Len(input')
        BY <1>7 DEF Prefix
  <2>3. QED
        BY <1>1, <2>1, <2>2, MergedStart, ReadableStart DEF AtItem
<1>10. Reading'
  <2>1. 1 \in 1..Len(sums)
        BY <1>6 DEF IsSums
  <2>2. ptr' = 0 /\ sub' = 0 /\ limit' = 0
        BY <1>1, <1>5 DEF Writing
  <2>3. QED
        BY <1>5, <1>9, <2>1, <2>2 DEF Reading
<1>11. QED
       BY <1>1, <1>5, <1>8, <1>10 DEF MessageInv, M!Over

Still ==
    /\ about' = about /\ sums' = sums /\ bytes' = bytes /\ kept' = kept /\ input' = input

LEMMA GoesOn ==
    ASSUME about.fn = "message", M!WellFormed(about), Handed, Still, stage' = "read",
           NEW r \in 1..Len(sums),
           AtItem(about, sums, input, r, ptr', sub', limit', got')
           \/ \E k \in 1..4 : InItem(about, sums, input, r, k, ptr', sub', limit', got')
    PROVE  MessageInv'
<1>1. Handed'
      BY DEF Handed, Still
<1>2. Reading'
      BY DEF Reading, Still
<1>3. QED
      BY <1>1, <1>2 DEF MessageInv, M!Over, Still

LEMMA Fails ==
    ASSUME about.fn = "message", M!WellFormed(about), Handed, Still, stage' = "failed",
           IdLeft(about, input, got'), Len(input) = Len(bytes) => ~ M!Valid(about)
    PROVE  MessageInv'
<1>1. Handed'
      BY DEF Handed, Still
<1>2. Finished'
      BY DEF Finished, Still
<1>3. QED
      BY <1>1, <1>2 DEF MessageInv, M!Over, Still

LEMMA Ends ==
    ASSUME about.fn = "message", M!WellFormed(about), Handed, Still, stage' = "parsed",
           IdLeft(about, input, got'), ReadTo(about, sums, input, got')
    PROVE  MessageInv'
<1>1. Handed'
      BY DEF Handed, Still
<1>2. Finished'
      BY DEF Finished, Still
<1>3. QED
      BY <1>1, <1>2 DEF MessageInv, M!Over, Still

------------------------------------------------------------------------------
(* Reading at an item *)

\* What the reader sees at the item c = sums[r].item, which begins at ptr.
AtFieldOf(r) ==
    LET c == sums[r].item
        n == NumberOf(about, c)
        body == ContentOf(about, c)
        from == ptr + 1 + M!VarSize(n) IN
    /\ r \in 1..(Len(sums) - 1) /\ c \in Places(about) /\ ~ M!AtEnd(about, c)
    /\ M!Type = about.type /\ M!ReadEnd = Len(input) /\ M!Here = got
    /\ M!Field = c[1] /\ M!Tag % 8 = M!Wire(about.type[c[1]])
    /\ M!Known <=> c[1] <= about.known
    /\ ptr \in Nat /\ from \in Nat /\ n \in Nat /\ Len(input) \in Nat /\ Len(bytes) \in Nat
    /\ body \in Seq(M!Byte) /\ Len(body) \in Nat
    /\ Len(body) = IF about.type[c[1]].kind = "int" THEN 0 ELSE n
    /\ sums[r + 1].at = from + Len(body) /\ sums[r + 1].at <= Len(bytes)
    /\ from <= Len(input) =>
          M!Read.size > 0 /\ M!Read.value = n /\ M!From = from
    /\ Len(input) < from => ~(M!Read.size > 0)
    /\ \A j \in 1..Len(body) : from + j <= Len(input) => input[from + j] = body[j]
    /\ from + Len(body) <= Len(input) => SubSeq(input, from + 1, from + Len(body)) = body

LEMMA SeesItem ==
    ASSUME M!WellFormed(about), Handed, NEW r \in 1..Len(sums),
           AtItem(about, sums, input, r, ptr, sub, limit, got), ptr < Len(input)
    PROVE  AtFieldOf(r)
<1> DEFINE c == sums[r].item
           n == NumberOf(about, c)
           body == ContentOf(about, c)
           from == ptr + 1 + M!VarSize(n)
<1>1. sub = 0 /\ ptr = sums[r].at /\ IsSums(about, sums) /\ Prefix(bytes, input)
      /\ Laid(about, sums, bytes, Len(sums))
      BY DEF AtItem, Handed
<1>2. /\ r \in 1..(Len(sums) - 1) /\ c \in Places(about) /\ ~ M!AtEnd(about, c)
      /\ ReadAt(input, ptr, Len(input), c[1], M!Wire(about.type[c[1]]), n, body)
      /\ M!VarSize(n) \in 1..5 /\ n \in Nat /\ body \in Seq(M!Byte) /\ Len(body) \in Nat
      /\ Len(body) = IF about.type[c[1]].kind = "int" THEN 0 ELSE n
      /\ sums[r + 1].at = ptr + 1 + M!VarSize(n) + Len(body)
      /\ sums[r + 1].at <= Len(bytes) /\ ptr \in Nat /\ Len(input) \in Nat /\ Len(bytes) \in Nat
      BY <1>1, ItemRead, ZenonT(60)
<1>3. M!Type = about.type /\ M!ReadEnd = Len(input) /\ M!Here = got
      BY <1>1 DEF M!Type, M!ReadEnd, M!Here
<1>4. M!Field = c[1] /\ M!Tag % 8 = M!Wire(about.type[c[1]])
      BY <1>2, ZenonT(60) DEF M!Field, M!Tag, ReadAt
<1>5. M!Known <=> c[1] <= about.known
  <2>1. c[1] \in DOMAIN about.type
        BY <1>2, ItemFacts, CaseNumbers
  <2>2. QED
        BY <1>1, <1>3, <1>4, <2>1 DEF M!Known
<1>6. M!Read = M!ReadNumber(input, ptr + 1, Len(input))
      BY <1>3 DEF M!Read
<1>7. M!VarSize(n) \in Nat /\ M!VarSize(n) > 0
  <2>1. M!VarSize(n) \in 1..5
        BY <1>2, Zenon
  <2>2. QED
        BY <2>1
<1>8. from <= Len(input) => M!Read.size = M!VarSize(n) /\ M!Read.value = n
      BY <1>2, <1>6, ZenonT(60) DEF ReadAt
<1>9. from <= Len(input) => M!Read.size > 0 /\ M!Read.value = n /\ M!From = from
      BY <1>7, <1>8 DEF M!From
<1>10. Len(input) < from => ~(M!Read.size > 0)
  <2>1. Len(input) < from => M!Read.size = 0
        BY <1>2, <1>6, ZenonT(60) DEF ReadAt
  <2>2. QED
        BY <2>1, SMTT(20)
<1>11. /\ \A j \in 1..Len(body) : from + j <= Len(input) => input[from + j] = body[j]
       /\ from + Len(body) <= Len(input) => SubSeq(input, from + 1, from + Len(body)) = body
       BY <1>2, Zenon DEF ReadAt
<1>12. from \in Nat
       BY <1>2, <1>7, SMTT(20)
<1>13. QED
       BY <1>2, <1>3, <1>4, <1>5, <1>9, <1>10, <1>11, <1>12, Zenon DEF AtFieldOf

\* An item but the id leaves the id as it is.
LEMMA OtherItem ==
    ASSUME M!WellFormed(about), Handed, NEW r \in 1..Len(sums),
           AtItem(about, sums, input, r, ptr, sub, limit, got),
           NEW g, about.file => g[4] = got[4], about.file => sums[r].item[1] # 4
    PROVE  IdLeft(about, input, g)
<1>1. /\ IsSums(about, sums) /\ M!AtEnd(about, sums[Len(sums)].item)
      /\ Len(input) \in Nat /\ sums[r].at <= Len(input) /\ got = Merged(about, sums[r].item)
      BY DEF Handed, Prefix, AtItem
<1>2. QED
      BY <1>1, IdSettled

LEMMA MergedHasField ==
    ASSUME NEW d, M!WellFormed(d), NEW c
    PROVE  DOMAIN Merged(d, c) = Fields(d)
BY MergedIs

LEMMA ItemReadInt ==
    ASSUME about.fn = "message", M!WellFormed(about), Handed, NEW r \in 1..Len(sums),
           AtItem(about, sums, input, r, ptr, sub, limit, got), M!ReadInt, UNCHANGED about
    PROVE  MessageInv'
<1> DEFINE c == sums[r].item
           f == c[1]
           field == about.type[f]
           n == NumberOf(about, c)
           v == M!Value(about, c)
           g == [got EXCEPT ![f] = v]
<1>1. /\ stage = "read" /\ ptr < Len(input) /\ AtFieldOf(r) /\ Still
      /\ sub = 0 /\ limit = 0 /\ sub' = sub /\ limit' = limit
  <2>1. sub = 0 /\ limit = 0 /\ stage = "read" /\ ptr < M!ReadEnd
        BY DEF M!ReadInt, M!AtField, AtItem
  <2>2. ptr < Len(input)
        BY <2>1 DEF M!ReadEnd
  <2>3. QED
        BY <2>1, <2>2, SeesItem DEF M!ReadInt, Still
<1>2. /\ f <= about.known /\ field.kind = "int" /\ f \in Fields(about)
      /\ c \in Places(about) /\ ~ M!AtEnd(about, c)
      BY <1>1, ItemFacts, Zenon DEF AtFieldOf, M!ReadInt
<1>3. n = v /\ v \in M!Scalar(field) /\ New(about, c) = v
  <2>1. c = <<f, c[2]>> /\ c[2] \in 1..M!Count(about, f)
        BY <1>2, ItemFacts
  <2>2. field.kind \in M!Single
        BY <1>2 DEF M!Single
  <2>3. v = about.msg[f]
    <3>1. M!Value(about, <<f, c[2]>>) = about.msg[f]
          BY <1>2, <2>1, <2>2, ItemValue
    <3>2. QED
          BY <2>1, <3>1
  <2>4. about.msg[f] \in M!Scalar(field)
        BY <1>2, <2>2, Counts
  <2>5. n = v
        BY <1>2 DEF NumberOf, KindOf, M!Number, M!Nested, M!number
  <2>6. QED
        BY <2>2, <2>3, <2>4, <2>5 DEF New
<1>4. (IF field.flag /\ n > 0 THEN 1 ELSE n) = n
  <2>1. field.flag \in BOOLEAN
        BY <1>2, CaseFacts
  <2>2. field.flag => n \in {0, 1}
        BY <1>2, <1>3 DEF M!Scalar
  <2>3. QED
        BY <2>1, <2>2
<1>5. \A x : M!Set(x) => got' = [got EXCEPT ![f] = x]
      BY <1>1, Zenon DEF M!Set, AtFieldOf
<1>6. about.file => f # 4
      BY <1>2, HardwareFacts
<1>7. CASE M!Read.size > 0
  <2>1. M!Read.value = n /\ M!From = sums[r + 1].at /\ sums[r + 1].at <= Len(input)
    <3> DEFINE from == ptr + 1 + M!VarSize(n)
    <3>1. from \in Nat /\ Len(input) \in Nat
          BY <1>1, Zenon DEF AtFieldOf
    <3>2. from <= Len(input)
      <4>1. Len(input) < from => ~(M!Read.size > 0)
            BY <1>1, Zenon DEF AtFieldOf
      <4> HIDE DEF from
      <4>2. QED
            BY <1>7, <3>1, <4>1
    <3>3. M!Read.value = n /\ M!From = from /\ sums[r + 1].at = from + 0
          BY <1>1, <1>2, <3>2, Zenon DEF AtFieldOf
    <3> HIDE DEF from
    <3>4. QED
          BY <3>1, <3>2, <3>3, SMTT(20)
  <2>2. got' = g
        BY <1>1, <1>3, <1>4, <1>5, <2>1, Zenon DEF M!ReadInt, AtFieldOf
  <2>3. ptr' = sums[r + 1].at /\ stage' = "read"
        BY <1>1, <1>7, <2>1 DEF M!ReadInt, M!GoOn
  <2>4. M!Readable(field, v)
        BY <1>2 DEF M!Readable, M!Nested
  <2>5. r \in 1..(Len(sums) - 1) /\ IsSums(about, sums) /\ ReadableUpto(about, c)
        /\ got = Merged(about, c)
        BY <1>1, Zenon DEF AtFieldOf, Handed, AtItem
  <2>6. AtItem(about, sums, input, r + 1, sums[r + 1].at, 0, 0, g)
        BY <1>2, <1>3, <2>1, <2>4, <2>5, Passed
  <2>7. r + 1 \in 1..Len(sums)
        BY <2>6 DEF AtItem
  <2>8. QED
        BY <1>1, <2>2, <2>3, <2>6, <2>7, GoesOn, Zenon
<1>8. CASE ~(M!Read.size > 0)
  <2>1. stage' = "failed"
        BY <1>8 DEF M!ReadInt, M!GoOn
  <2>2. PICK x : got' = [got EXCEPT ![f] = x]
        BY <1>5 DEF M!ReadInt
  <2>3. about.file => got'[4] = got[4]
        BY <1>6, <2>2
  <2>4. IdLeft(about, input, got')
        BY <1>6, <2>3, OtherItem
  <2>5. Len(input) # Len(bytes)
    <3> DEFINE from == ptr + 1 + M!VarSize(n)
    <3>1. from \in Nat /\ Len(input) \in Nat /\ Len(bytes) \in Nat
          /\ sums[r + 1].at = from + 0 /\ sums[r + 1].at <= Len(bytes)
          BY <1>1, <1>2, Zenon DEF AtFieldOf
    <3>2. ~(from <= Len(input))
          BY <1>1, <1>8, Zenon DEF AtFieldOf
    <3> HIDE DEF from
    <3>3. QED
          BY <3>1, <3>2
  <2>6. QED
        BY <1>1, <2>1, <2>4, <2>5, Fails
<1>9. QED
      BY <1>7, <1>8

\* An id that is there is read whole or cut.
LEMMA IdRead ==
    ASSUME M!WellFormed(about), Handed, NEW r \in 1..Len(sums),
           AtItem(about, sums, input, r, ptr, sub, limit, got), ptr < Len(input),
           sums[r].item[1] = 4, NEW g,
           LET from == ptr + 1 + M!VarSize(NumberOf(about, sums[r].item)) IN
           IF sums[r + 1].at <= Len(input) THEN g[4] = ContentOf(about, sums[r].item)
           ELSE g[4] \in M!Left(<<>>)
                \/ (from <= Len(input) /\ g[4] \in M!Left(SubSeq(input, from + 1, Len(input))))
    PROVE  IdLeft(about, input, g)
<1> DEFINE c == sums[r].item
           n == NumberOf(about, c)
           body == ContentOf(about, c)
           from == ptr + 1 + M!VarSize(n)
           id == about.msg[4]
<1> SUFFICES ASSUME IsIdFile(about)
             PROVE  IF Len(IdPut(about)) <= Len(input) THEN g[4] = id
                    ELSE /\ \A j \in DOMAIN g[4] :
                               g[4][j] = 0 \/ (j \in DOMAIN id /\ g[4][j] = id[j])
                         /\ (\A j \in DOMAIN id : id[j] # 0) => g[4] # id
    BY DEF IdLeft
<1>1. AtFieldOf(r) /\ IsSums(about, sums) /\ M!AtEnd(about, sums[Len(sums)].item)
      /\ Len(sums) \in Nat
      BY SeesItem DEF Handed, IsSums
<1>2. /\ id \in Seq(M!Byte) /\ M!Count(about, 4) = (IF id = <<>> THEN 0 ELSE 1)
      /\ about.type[4].kind = "text" /\ 4 \in Fields(about)
      BY HardwareFacts DEF IsIdFile
<1>3. c = <<4, 1>> /\ id # <<>>
  <2>1. c = <<c[1], c[2]>> /\ c[2] \in 1..M!Count(about, c[1])
        BY <1>1, ItemFacts, Zenon DEF AtFieldOf
  <2>2. c[2] \in 1..M!Count(about, 4)
        BY <2>1
  <2>3. id # <<>>
    <3>1. id = <<>> => c[2] \in 1..0
          BY <1>2, <2>2
    <3>2. QED
          BY <3>1
  <2>4. c[2] \in 1..1
        BY <1>2, <2>2, <2>3
  <2>5. c[2] = 1
        BY <2>4
  <2>6. QED
        BY <2>1, <2>3, <2>5
<1>4. r = 1
  <2>1. \A q \in 2..Len(sums) : sums[q].item[1] > 4
        BY <1>1, <1>3, IdIsFirst
  <2>2. r \notin 2..Len(sums)
        BY <2>1
  <2>3. QED
        BY <1>1, <2>2
<1>5. Len(IdPut(about)) = sums[r + 1].at /\ Len(IdPut(about)) \in Nat
  <2>1. sums[2].at = Len(IdPut(about)) /\ Len(IdPut(about)) \in Nat
        BY <1>1, <1>3, IdIsFirst
  <2>2. r + 1 = 2
        BY <1>4
  <2>3. QED
        BY <2>1, <2>2
<1>6. body = id
  <2>1. M!Value(about, <<4, 1>>) = id
        BY <1>2 DEF M!Value, M!Single
  <2>2. M!Value(about, c) = id
        BY <1>3, <2>1
  <2>3. QED
        BY <1>2, <2>2 DEF ContentOf, KindOf, M!Content, M!Nested, M!text
<1>7. CASE sums[r + 1].at <= Len(input)
      BY <1>5, <1>6, <1>7, ZenonT(60)
<1>8. CASE ~(sums[r + 1].at <= Len(input))
  <2>1. PICK have : /\ g[4] \in M!Left(have)
                    /\ have = <<>>
                       \/ (from <= Len(input) /\ have = SubSeq(input, from + 1, Len(input)))
        BY <1>8
  <2>2. have \in Seq(M!Byte) /\ Len(have) < Len(id) /\ \A j \in 1..Len(have) : have[j] = id[j]
    <3>1. CASE have = <<>>
      <4>1. Len(have) = 0 /\ have \in Seq(M!Byte)
            BY <3>1
      <4>2. Len(id) > 0
            BY <1>2, <1>3
      <4>3. QED
            BY <4>1, <4>2
    <3>2. CASE from <= Len(input) /\ have = SubSeq(input, from + 1, Len(input))
      <4>1. /\ from \in Nat /\ Len(input) \in Nat /\ Len(id) \in Nat
            /\ sums[r + 1].at = from + Len(id)
            /\ \A j \in 1..Len(id) : from + j <= Len(input) => input[from + j] = id[j]
            BY <1>1, <1>6, Zenon DEF AtFieldOf
      <4>2. input \in Seq(M!Byte)
            BY DEF Handed, Prefix
      <4> HIDE DEF from, id
      <4> DEFINE m == Len(input) - from
      <4>3. m \in Nat /\ from + m = Len(input) /\ m < Len(id)
            BY <1>8, <3>2, <4>1
      <4>4. /\ have \in Seq(M!Byte) /\ Len(have) = m
            /\ \A j \in 1..m : have[j] = input[from + j]
        <5>1. Len(have) = m /\ have \in Seq(M!Byte)
              BY <3>2, <4>1, <4>2
        <5>2. ASSUME NEW j \in 1..m PROVE have[j] = input[from + j]
          <6>1. (from + 1) + j - 1 = from + j /\ Len(input) - (from + 1) + 1 = m
                BY <4>1
          <6>2. QED
                BY <3>2, <4>1, <4>2, <6>1
        <5>3. QED
              BY <5>1, <5>2
      <4> HIDE DEF m
      <4>5. ASSUME NEW j \in 1..m PROVE have[j] = id[j]
        <5>1. j \in 1..Len(id) /\ from + j <= Len(input)
              BY <4>1, <4>3
        <5>2. QED
              BY <4>1, <4>4, <5>1
      <4>6. QED
            BY <4>3, <4>4, <4>5
    <3>3. QED
          BY <2>1, <3>1, <3>2
  <2>3. CASE g[4] = <<>>
    <3>1. DOMAIN g[4] = {}
          BY <2>3
    <3>2. QED
          BY <1>3, <1>5, <1>8, <2>3, <3>1
  <2>4. ASSUME NEW z \in Slop, g[4] = have \o [j \in 1..z |-> 0]
        PROVE  /\ \A j \in DOMAIN g[4] :
                     g[4][j] = 0 \/ (j \in DOMAIN id /\ g[4][j] = id[j])
               /\ (\A j \in DOMAIN id : id[j] # 0) => g[4] # id
    <3> DEFINE y == [j \in 1..z |-> 0]
    <3>1. z \in Nat
          BY MessagesAssumption
    <3>2. y \in Seq({0}) /\ Len(y) = z /\ \A j \in 1..z : y[j] = 0
          BY <3>1
    <3> HIDE DEF y
    <3>3. /\ Len(g[4]) = Len(have) + z /\ DOMAIN g[4] = 1..(Len(have) + z)
          /\ \A j \in 1..Len(have) : g[4][j] = have[j]
          /\ \A j \in (Len(have) + 1)..(Len(have) + z) : g[4][j] = 0
      <4>1. g[4] = have \o y
            BY <2>4 DEF y
      <4> DEFINE E == M!Byte \cup {0}
      <4>2. have \in Seq(E) /\ y \in Seq(E)
            BY <2>2, <3>2
      <4> HIDE DEF E
      <4>3. /\ have \o y \in Seq(E) /\ Len(have \o y) = Len(have) + Len(y)
            /\ \A i \in 1..Len(have) + Len(y) :
                  (have \o y)[i] = IF i <= Len(have) THEN have[i] ELSE y[i - Len(have)]
            BY <4>2, ConcatProperties
      <4>4. Len(have) \in Nat
            BY <4>2
      <4>5. DOMAIN (have \o y) = 1..(Len(have) + Len(y))
            BY <4>3
      <4>6. ASSUME NEW j \in (Len(have) + 1)..(Len(have) + z) PROVE (have \o y)[j] = 0
        <5>1. j \in 1..Len(have) + Len(y) /\ ~(j <= Len(have)) /\ j - Len(have) \in 1..z
              BY <3>1, <3>2, <4>4
        <5>2. QED
              BY <3>2, <4>3, <5>1
      <4>7. ASSUME NEW j \in 1..Len(have) PROVE (have \o y)[j] = have[j]
        <5>1. j \in 1..Len(have) + Len(y) /\ j <= Len(have)
              BY <3>1, <3>2, <4>4
        <5>2. QED
              BY <4>3, <5>1
      <4>8. QED
            BY <3>2, <4>1, <4>3, <4>5, <4>6, <4>7
    <3>4. Len(have) \in Nat /\ Len(id) \in Nat /\ DOMAIN id = 1..Len(id)
          BY <1>2, <2>2
    <3> HIDE DEF id
    <3>5. ASSUME NEW j \in DOMAIN g[4]
          PROVE  g[4][j] = 0 \/ (j \in DOMAIN id /\ g[4][j] = id[j])
      <4>1. j \in 1..Len(have) \/ j \in (Len(have) + 1)..(Len(have) + z)
            BY <3>1, <3>3, <3>4
      <4>2. j \in 1..Len(have) => j \in DOMAIN id
            BY <2>2, <3>4
      <4>3. QED
            BY <2>2, <3>3, <4>1, <4>2
    <3>6. ASSUME \A j \in DOMAIN id : id[j] # 0, g[4] = id PROVE FALSE
      <4>1. Len(have) + z = Len(id)
            BY <3>3, <3>6
      <4>2. z > 0 /\ Len(id) \in (Len(have) + 1)..(Len(have) + z) /\ Len(id) \in 1..Len(id)
            BY <2>2, <3>1, <3>4, <4>1
      <4>3. id[Len(id)] = 0
            BY <3>3, <3>6, <4>2
      <4>4. QED
            BY <3>4, <3>6, <4>2, <4>3
    <3>7. QED
          BY <3>5, <3>6
  <2>5. QED
        BY <1>5, <1>8, <2>1, <2>3, <2>4, Zenon DEF M!Left
<1>9. QED
      BY <1>7, <1>8

\* What of a length-delimited item is there.
LEMMA Lengths ==
    ASSUME NEW r, AtFieldOf(r), about.type[sums[r].item[1]].kind # "int"
    PROVE  LET n == NumberOf(about, sums[r].item)
               from == ptr + 1 + M!VarSize(n) IN
           /\ M!Whole <=> sums[r + 1].at <= Len(input)
           /\ M!Whole => M!From = from /\ M!Read.value = n /\ M!From + M!Read.value = sums[r + 1].at
                         /\ SubSeq(input, M!From + 1, M!From + M!Read.value) = ContentOf(about, sums[r].item)
           /\ M!Read.size > 0 => M!From = from /\ M!Read.value = n /\ from <= Len(input)
           /\ M!Read.size > 0 <=> from <= Len(input)
           /\ from + n = sums[r + 1].at
<1> DEFINE n == NumberOf(about, sums[r].item)
           body == ContentOf(about, sums[r].item)
           from == ptr + 1 + M!VarSize(n)
<1>1. /\ from \in Nat /\ n \in Nat /\ Len(input) \in Nat /\ M!ReadEnd = Len(input)
      /\ Len(body) = n /\ sums[r + 1].at = from + n
      /\ from <= Len(input) => M!Read.size > 0 /\ M!Read.value = n /\ M!From = from
      /\ Len(input) < from => ~(M!Read.size > 0)
      /\ from + n <= Len(input) => SubSeq(input, from + 1, from + n) = body
      BY Zenon DEF AtFieldOf
<1> HIDE DEF n, body, from
<1>2. M!Read.size > 0 <=> from <= Len(input)
      BY <1>1
<1>3. M!Whole <=> from + n <= Len(input)
      BY <1>1, <1>2 DEF M!Whole
<1>4. from + n <= Len(input) => from <= Len(input)
      BY <1>1
<1>5. QED
      BY <1>1, <1>2, <1>3, <1>4 DEF n, body, from

LEMMA ItemReadText ==
    ASSUME about.fn = "message", M!WellFormed(about), Handed, NEW r \in 1..Len(sums),
           AtItem(about, sums, input, r, ptr, sub, limit, got), M!ReadText, UNCHANGED about
    PROVE  MessageInv'
<1> DEFINE c == sums[r].item
           f == c[1]
           field == about.type[f]
           n == NumberOf(about, c)
           v == M!Value(about, c)
           from == ptr + 1 + M!VarSize(n)
           to == sums[r + 1].at
           body == SubSeq(input, M!From + 1, M!From + M!Read.value)
           have == IF M!Read.size > 0 THEN SubSeq(input, M!From + 1, M!ReadEnd) ELSE <<>>
           set(t) == IF field.kind = "text" THEN t ELSE Append(got[f], t)
<1>1. /\ stage = "read" /\ ptr < Len(input) /\ AtFieldOf(r) /\ Still
      /\ sub = 0 /\ limit = 0 /\ sub' = sub /\ limit' = limit
  <2>1. sub = 0 /\ limit = 0 /\ stage = "read" /\ ptr < M!ReadEnd
        BY DEF M!ReadText, M!AtField, AtItem
  <2>2. ptr < Len(input)
        BY <2>1 DEF M!ReadEnd
  <2>3. QED
        BY <2>1, <2>2, SeesItem DEF M!ReadText, Still
<1>2. /\ f <= about.known /\ field.kind \in {"text", "texts"} /\ f \in Fields(about)
      /\ c \in Places(about) /\ ~ M!AtEnd(about, c)
      BY <1>1, ItemFacts, Zenon DEF AtFieldOf, M!ReadText
<1>3. /\ M!Whole <=> to <= Len(input)
      /\ M!Whole => M!From + M!Read.value = to /\ body = ContentOf(about, c)
      /\ M!Read.size > 0 => M!From = from /\ from <= Len(input)
      BY <1>1, <1>2, Lengths
<1>4. ContentOf(about, c) = v
      BY <1>2 DEF ContentOf, KindOf, M!Content, M!Nested, M!text
<1>5. got = Merged(about, c) /\ New(about, c) = set(v)
      BY <1>2 DEF AtItem, New, M!Single
<1>6. PICK t \in (IF M!Whole THEN {body} ELSE M!Left(have)) : got' = [got EXCEPT ![f] = set(t)]
  <2>1. M!Type = about.type /\ M!Here = got /\ M!Field = f
        BY <1>1, Zenon DEF AtFieldOf
  <2>2. \A x : M!Set(x) => got' = [got EXCEPT ![f] = x]
        BY <1>1, <2>1 DEF M!Set
  <2>3. \E t \in (IF M!Whole THEN {body} ELSE M!Left(have)) : M!Set(set(t))
        BY <2>1 DEF M!ReadText
  <2>4. QED
        BY <2>2, <2>3, ZenonT(60)
<1>7. M!GoOn(M!Whole /\ M!VerifyUTF8(body), M!From + M!Read.value)
      BY DEF M!ReadText
<1>8. M!Readable(field, v) <=> M!VerifyUTF8(v)
      BY <1>2 DEF M!Readable, M!Nested
<1> HIDE DEF body, have
<1>9. CASE M!Whole /\ M!VerifyUTF8(body)
  <2>1. body = v /\ to <= Len(input) /\ t = v
        BY <1>3, <1>4, <1>6, <1>9
  <2>2. got' = [got EXCEPT ![f] = New(about, c)]
        BY <1>5, <1>6, <2>1
  <2>3. ptr' = to /\ stage' = "read"
        BY <1>1, <1>3, <1>7, <1>9 DEF M!GoOn
  <2>4. r \in 1..(Len(sums) - 1) /\ IsSums(about, sums) /\ ReadableUpto(about, c)
        BY <1>1, ZenonT(60) DEF AtFieldOf, Handed, AtItem
  <2>5. M!Readable(field, v)
        BY <1>8, <1>9, <2>1, Zenon
  <2>6. AtItem(about, sums, input, r + 1, to, 0, 0, got')
        BY <1>2, <1>5, <2>1, <2>2, <2>4, <2>5, Passed
  <2>7. r + 1 \in 1..Len(sums)
        BY <2>6 DEF AtItem
  <2>8. QED
        BY <1>1, <2>3, <2>6, <2>7, GoesOn
<1>10. CASE ~(M!Whole /\ M!VerifyUTF8(body))
  <2>1. stage' = "failed"
        BY <1>7, <1>10 DEF M!GoOn
  <2>2. Len(input) = Len(bytes) => ~ M!Valid(about)
    <3> SUFFICES ASSUME Len(input) = Len(bytes) PROVE ~ M!Valid(about)
        BY SMTT(20)
    <3>1. to <= Len(input)
          BY <1>1, Zenon DEF AtFieldOf
    <3>2. ~ M!VerifyUTF8(v)
          BY <1>3, <1>4, <1>10, <3>1
    <3>3. QED
          BY <1>2, <1>8, <3>2, Unreadable
  <2>3. IdLeft(about, input, got')
    <3>1. CASE about.file /\ f = 4
      <4>1. field.kind = "text"
            BY <3>1, HardwareFacts
      <4>2. 4 \in DOMAIN got
            BY <1>2, <1>5, <3>1, MergedHasField
      <4>3. got'[4] = t
            BY <1>6, <3>1, <4>1, <4>2
      <4>4. CASE to <= Len(input)
        <5>1. got'[4] = ContentOf(about, c)
              BY <1>3, <1>6, <4>3, <4>4
        <5>2. QED
              BY <1>1, <3>1, <4>4, <5>1, IdRead
      <4>5. CASE ~(to <= Len(input))
        <5>1. got'[4] \in M!Left(have)
              BY <1>3, <1>6, <4>3, <4>5, Zenon
        <5>2. M!ReadEnd = Len(input)
              BY <1>1, Zenon DEF AtFieldOf
        <5>3. have = <<>> \/ (from <= Len(input) /\ have = SubSeq(input, from + 1, Len(input)))
              BY <1>3, <5>2 DEF have
        <5>4. got'[4] \in M!Left(<<>>)
              \/ (from <= Len(input) /\ got'[4] \in M!Left(SubSeq(input, from + 1, Len(input))))
              BY <5>1, <5>3
        <5>5. QED
              BY <1>1, <3>1, <4>5, <5>4, IdRead
      <4>6. QED
            BY <4>4, <4>5
    <3>2. CASE ~(about.file /\ f = 4)
      <4>1. about.file => got'[4] = got[4]
            BY <1>6, <3>2
      <4>2. QED
            BY <3>2, <4>1, OtherItem
    <3>3. QED
          BY <3>1, <3>2
  <2>4. QED
        BY <1>1, <2>1, <2>2, <2>3, Fails
<1>11. QED
       BY <1>9, <1>10

LEMMA ItemSkip ==
    ASSUME about.fn = "message", M!WellFormed(about), Handed, NEW r \in 1..Len(sums),
           AtItem(about, sums, input, r, ptr, sub, limit, got), M!Skip, UNCHANGED about
    PROVE  MessageInv'
<1> DEFINE c == sums[r].item
           f == c[1]
           field == about.type[f]
           n == NumberOf(about, c)
           from == ptr + 1 + M!VarSize(n)
           to == sums[r + 1].at
<1>1. /\ stage = "read" /\ ptr < Len(input) /\ AtFieldOf(r) /\ Still
      /\ sub = 0 /\ limit = 0 /\ sub' = sub /\ limit' = limit
  <2>1. sub = 0 /\ limit = 0 /\ stage = "read" /\ ptr < M!ReadEnd
        BY DEF M!Skip, M!AtField, AtItem
  <2>2. ptr < Len(input)
        BY <2>1 DEF M!ReadEnd
  <2>3. QED
        BY <2>1, <2>2, SeesItem DEF M!Skip, Still
<1>2. /\ ~(f <= about.known) /\ f \in Fields(about)
      /\ c \in Places(about) /\ ~ M!AtEnd(about, c) /\ got' = got /\ got = Merged(about, c)
      BY <1>1, ItemFacts, Zenon DEF AtFieldOf, M!Skip, AtItem
<1>3. ~ about.file
  <2>1. about.file => about.known = 11 /\ Len(about.type) = 11
        BY HardwareFacts
  <2>2. f <= Len(about.type)
        BY <1>2, CaseNumbers
  <2>3. QED
        BY <1>2, <2>1, <2>2
<1>4. IdLeft(about, input, got')
      BY <1>3 DEF IdLeft, IsIdFile
<1>5. CASE stage' = "read" /\ ptr' = to /\ to <= Len(input)
  <2>1. r \in 1..(Len(sums) - 1) /\ IsSums(about, sums) /\ ReadableUpto(about, c)
        BY <1>1, Zenon DEF AtFieldOf, Handed, AtItem
  <2>2. AtItem(about, sums, input, r + 1, to, 0, 0, got')
        BY <1>2, <1>5, <2>1, Passed
  <2>3. r + 1 \in 1..Len(sums)
        BY <2>2 DEF AtItem
  <2>4. QED
        BY <1>1, <1>5, <2>2, <2>3, GoesOn
<1>6. CASE stage' = "failed" /\ ~(to <= Len(input))
  <2>1. Len(input) # Len(bytes)
        BY <1>1, <1>6, Zenon DEF AtFieldOf
  <2>2. QED
        BY <1>1, <1>4, <1>6, <2>1, Fails
<1>7. CASE field.kind = "int"
  <2>1. M!Tag % 8 = 0
        BY <1>1, <1>7, Zenon DEF AtFieldOf, M!Wire
  <2>2. M!GoOn(M!Read.size > 0, M!From)
        BY <2>1 DEF M!Skip
  <2>3. /\ from \in Nat /\ Len(input) \in Nat /\ to = from + 0
        /\ from <= Len(input) => M!Read.size > 0 /\ M!From = from
        /\ Len(input) < from => ~(M!Read.size > 0)
        BY <1>1, <1>7, Zenon DEF AtFieldOf
  <2> HIDE DEF from, to
  <2>4. CASE M!Read.size > 0
    <3>1. to <= Len(input) /\ M!From = to
          BY <2>3, <2>4
    <3>2. stage' = "read" /\ ptr' = to
          BY <1>1, <2>2, <2>4, <3>1 DEF M!GoOn
    <3>3. QED
          BY <1>5, <3>1, <3>2
  <2>5. CASE ~(M!Read.size > 0)
    <3>1. ~(to <= Len(input))
          BY <2>3, <2>5
    <3>2. stage' = "failed"
          BY <2>2, <2>5 DEF M!GoOn
    <3>3. QED
          BY <1>6, <3>1, <3>2
  <2>6. QED
        BY <2>4, <2>5
<1>8. CASE field.kind # "int"
  <2>1. M!Tag % 8 = 2
        BY <1>1, <1>8, Zenon DEF AtFieldOf, M!Wire
  <2>2. M!GoOn(M!Whole, M!From + M!Read.value)
        BY <2>1 DEF M!Skip
  <2>3. (M!Whole <=> to <= Len(input)) /\ (M!Whole => M!From + M!Read.value = to)
        BY <1>1, <1>8, Lengths
  <2>4. CASE M!Whole
        BY <1>1, <1>5, <2>2, <2>3, <2>4 DEF M!GoOn
  <2>5. CASE ~ M!Whole
        BY <1>6, <2>2, <2>3, <2>5 DEF M!GoOn
  <2>6. QED
        BY <2>4, <2>5
<1>9. QED
      BY <1>7, <1>8

LEMMA ItemDone ==
    ASSUME about.fn = "message", M!WellFormed(about), Handed, NEW r \in 1..Len(sums),
           AtItem(about, sums, input, r, ptr, sub, limit, got), M!Done, UNCHANGED about
    PROVE  MessageInv'
<1>1. /\ ptr = Len(input) /\ stage' = "parsed" /\ Still /\ got' = got
      /\ sums[r].at = Len(input) /\ got = Merged(about, sums[r].item)
      /\ ReadableUpto(about, sums[r].item)
      BY DEF M!Done, AtItem, Still
<1>2. IsSums(about, sums) /\ M!AtEnd(about, sums[Len(sums)].item) /\ Len(input) \in Nat
      BY DEF Handed, Prefix
<1>3. IdLeft(about, input, got')
      BY <1>1, <1>2, IdSettled
<1>4. ReadTo(about, sums, input, got')
      BY <1>1 DEF ReadTo
<1>5. QED
      BY <1>1, <1>3, <1>4, Ends

\* The element that reading begins with.
LEMMA BaseIs ==
    ASSUME NEW d, M!WellFormed(d), NEW c \in Places(d), ~ M!AtEnd(d, c),
           d.type[c[1]].kind \in M!Nested
    PROVE  Partial(d, c, 1) = Base(d, c)
<1> DEFINE f == c[1]
           type == ElementType(d, c)
<1>1. IsElementType(type) /\ f \in Fields(d) /\ d.type[f].kind \notin M!Single
      /\ d.type[f].kind # "texts"
      BY NestedFacts, ItemFacts
<1>2. DOMAIN type = 1..Len(type)
  <2>1. M!IsType(type, M!Single, {2, 3}) /\ {2, 3} \in SUBSET Nat
        BY <1>1 DEF IsElementType
  <2>2. QED
        BY <2>1, TypeFacts
<1>3. Base(d, c) = [j \in 1..Len(type) |-> Base(d, c)[j]]
  <2>1. CASE d.type[f].kind = "msg" /\ d.into[f] # <<>>
    <3>1. d.into[f] \in Seq(M!Element(type))
          BY <1>1, AreSequences DEF Elements, ElementType
    <3>2. d.into[f][1] \in M!Element(type)
          BY <2>1, <3>1
    <3>3. Base(d, c) = d.into[f][1]
          BY <2>1 DEF Base
    <3>4. QED
          BY <1>1, <3>2, <3>3, ElementFacts
  <2>2. CASE ~(d.type[f].kind = "msg" /\ d.into[f] # <<>>)
    <3>1. Base(d, c) = M!Clear(type)
          BY <2>2 DEF Base, ElementType
    <3>2. QED
          BY <1>2, <3>1 DEF M!Clear
  <2>3. QED
        BY <2>1, <2>2
<1>4. \A j \in 1..Len(type) : ~(j < 1)
  <2>1. Len(type) \in {2, 3}
        BY <1>1 DEF IsElementType, M!IsType
  <2>2. QED
        BY <2>1
<1>5. Partial(d, c, 1) = [j \in 1..Len(type) |-> Base(d, c)[j]]
      BY <1>4 DEF Partial
<1>6. QED
      BY <1>3, <1>5

\* Adding an element, or taking the one there is.
LEMMA OpenIs ==
    ASSUME NEW d, M!WellFormed(d), NEW c \in Places(d), ~ M!AtEnd(d, c),
           d.type[c[1]].kind \in M!Nested, c[1] <= d.known
    PROVE  LET f == c[1]
               g == Merged(d, c)
               type == d.type[f].type IN
           (IF d.type[f].kind = "msg" THEN M!mutable(d.type, g, f) ELSE M!add(g, f, M!Clear(type)))
           = [g EXCEPT ![f] = Append(Preceding(d, c), Partial(d, c, 1))]
<1> DEFINE f == c[1]
           g == Merged(d, c)
           type == d.type[f].type
<1>1. /\ f \in Fields(d) /\ d.type[f].kind \notin M!Single /\ d.type[f].kind # "texts"
      /\ c[2] \in 1..M!Count(d, f) /\ M!Count(d, f) \in Nat
      BY NestedFacts, ItemFacts
<1>2. Partial(d, c, 1) = Base(d, c) /\ DOMAIN g = Fields(d) /\ g = [h \in Fields(d) |-> g[h]]
  <2>1. g = [h \in Fields(d) |-> M!MergeField(d.type[h], d.into[h], M!Upto(d, c)[h])]
        BY MergedIs
  <2>2. QED
        BY <2>1, BaseIs
<1>3. CASE d.type[f].kind # "msg"
  <2>1. Base(d, c) = M!Clear(type) /\ Preceding(d, c) = g[f]
        BY <1>3 DEF Base, Preceding
  <2>2. QED
        BY <1>2, <1>3, <2>1 DEF M!add
<1>4. CASE d.type[f].kind = "msg"
  <2>1. /\ d.into[f] \in Seq(Elements(d.type[f])) /\ d.msg[f] \in Seq(Elements(d.type[f]))
        /\ Len(d.into[f]) <= 1 /\ M!Default(d.type[f]) = <<>>
        BY <1>1, <1>4, AreSequences
  <2>2. c[2] = 1
    <3>1. M!Count(d, f) <= 1
          BY <1>1, <1>4, Counts
    <3>2. QED
          BY <1>1, <3>1
  <2>3. M!Upto(d, c)[f] = <<>>
    <3>1. M!Upto(d, c)[f] = SubSeq(d.msg[f], 1, c[2] - 1)
          BY <1>1, UptoHere
    <3>2. c[2] - 1 = 0
          BY <2>2
    <3>3. SubSeq(d.msg[f], 1, 0) = <<>>
          BY <2>1, AppendNothing
    <3>4. QED
          BY <3>1, <3>2, <3>3
  <2>4. g[f] = d.into[f]
    <3>1. g[f] = M!MergeField(d.type[f], d.into[f], M!Upto(d, c)[f])
          BY <1>1, MergedIs
    <3>2. QED
          BY <1>1, <2>1, <2>3, <3>1, MergeNothing
  <2>5. Preceding(d, c) = <<>>
        BY <1>4 DEF Preceding
  <2> HIDE DEF g
  <2>6. CASE d.into[f] = <<>>
    <3>1. Base(d, c) = M!Clear(type)
          BY <2>6 DEF Base
    <3>2. Append(<<>>, M!Clear(type)) = <<M!Clear(type)>>
          OBVIOUS
    <3>3. M!mutable(d.type, g, f) = [g EXCEPT ![f] = <<M!Clear(type)>>]
          BY <2>4, <2>6 DEF M!mutable
    <3>4. QED
          BY <1>2, <1>4, <2>5, <3>1, <3>2, <3>3 DEF g
  <2>7. CASE d.into[f] # <<>>
    <3>1. Base(d, c) = d.into[f][1]
          BY <1>4, <2>7 DEF Base
    <3>2. d.into[f] = <<d.into[f][1]>>
      <4>1. Len(d.into[f]) = 1
        <5>1. Len(d.into[f]) \in Nat
              BY <2>1
        <5>2. Len(d.into[f]) # 0
              BY <2>1, <2>7
        <5>3. Len(d.into[f]) <= 1
              BY <2>1
        <5>4. \A x \in Nat : x <= 1 /\ x # 0 => x = 1
              OBVIOUS
        <5>5. QED
              BY <5>1, <5>2, <5>3, <5>4
      <4>2. QED
            BY <2>1, <4>1
    <3>3. Append(<<>>, d.into[f][1]) = <<d.into[f][1]>>
          OBVIOUS
    <3>4. M!mutable(d.type, g, f) = g
          BY <2>4, <2>7 DEF M!mutable
    <3>5. g = [g EXCEPT ![f] = g[f]]
          BY <1>2
    <3>6. QED
          BY <1>2, <1>4, <2>4, <2>5, <3>1, <3>2, <3>3, <3>4, <3>5 DEF g
  <2>8. QED
        BY <2>6, <2>7
<1>5. QED
      BY <1>3, <1>4

LEMMA ItemOpen ==
    ASSUME about.fn = "message", M!WellFormed(about), Handed, NEW r \in 1..Len(sums),
           AtItem(about, sums, input, r, ptr, sub, limit, got), M!Open, UNCHANGED about
    PROVE  MessageInv'
<1> DEFINE c == sums[r].item
           f == c[1]
           field == about.type[f]
           n == NumberOf(about, c)
           from == ptr + 1 + M!VarSize(n)
           to == sums[r + 1].at
<1>1. /\ stage = "read" /\ ptr < Len(input) /\ AtFieldOf(r) /\ Still /\ sub = 0 /\ limit = 0
  <2>1. sub = 0 /\ limit = 0 /\ stage = "read" /\ ptr < M!ReadEnd
        BY DEF M!Open, M!AtField, AtItem
  <2>2. ptr < Len(input)
        BY <2>1 DEF M!ReadEnd
  <2>3. QED
        BY <2>1, <2>2, SeesItem DEF M!Open, Still
<1>2. /\ f <= about.known /\ field.kind \in M!Nested /\ f \in Fields(about)
      /\ c \in Places(about) /\ ~ M!AtEnd(about, c) /\ got = Merged(about, c)
      BY <1>1, ItemFacts, Zenon DEF AtFieldOf, M!Open, AtItem
<1>3. got' = [got EXCEPT ![f] = Append(Preceding(about, c), Partial(about, c, 1))]
  <2>1. M!Type = about.type /\ M!Field = f
        BY <1>1, Zenon DEF AtFieldOf
  <2>2. got' = (IF field.kind = "msg" THEN M!mutable(about.type, got, f)
                ELSE M!add(got, f, M!Clear(field.type)))
        BY <2>1 DEF M!Open
  <2>3. QED
        BY <1>2, <2>2, OpenIs, Zenon
<1>4. about.file => f # 4
      BY <1>2, HardwareFacts DEF M!Nested
<1>5. field.kind # "int"
      BY <1>2 DEF M!Nested
<1>6. /\ M!Read.size > 0 => M!From = from /\ M!Read.value = n /\ from <= Len(input)
      /\ M!Read.size > 0 <=> from <= Len(input)
      /\ from + n = to
      BY <1>1, <1>5, Lengths
<1>7. CASE M!Read.size > 0
  <2>1. /\ ptr' = from /\ stage' = "read" /\ sub' = f /\ limit' = to
    <3>1. M!Field = f
          BY <1>1, Zenon DEF AtFieldOf
    <3>2. QED
          BY <1>1, <1>6, <1>7, <3>1 DEF M!Open, M!GoOn
  <2>2. from = FieldAt(about, sums, r, 1)
    <3>1. IsElementType(ElementType(about, c)) /\ M!Value(about, c) \in M!Element(ElementType(about, c))
          BY <1>2, NestedFacts
    <3>2. Offset(ElementType(about, c), M!Value(about, c), 1) = 0
          BY <3>1, ElementWritten
    <3>3. ptr = sums[r].at /\ from \in Nat
          BY <1>1, Zenon DEF AtItem, AtFieldOf
    <3>4. from + 0 = FieldAt(about, sums, r, 1)
          BY <3>2, <3>3 DEF FieldAt
    <3>5. QED
          BY <3>3, <3>4
  <2>3. Len(ElementType(about, c)) \in {2, 3}
        BY <1>2, NestedFacts, Zenon DEF IsElementType, M!IsType
  <2>4. 1 \in 1..(Len(ElementType(about, c)) + 1) /\ \A j \in 1..(1 - 1) : FALSE
        BY <2>3
  <2>5. r \in 1..(Len(sums) - 1) /\ ReadableUpto(about, c)
        BY <1>1, Zenon DEF AtFieldOf, AtItem
  <2>6. InItem(about, sums, input, r, 1, ptr', sub', limit', got')
        BY <1>2, <1>3, <1>6, <1>7, <2>1, <2>2, <2>4, <2>5 DEF InItem
  <2>7. 1 \in 1..4
        OBVIOUS
  <2>8. QED
        BY <1>1, <2>1, <2>6, <2>7, GoesOn
<1>8. CASE ~(M!Read.size > 0)
  <2>1. stage' = "failed"
        BY <1>8 DEF M!Open, M!GoOn
  <2>2. about.file => got'[4] = got[4]
        BY <1>3, <1>4
  <2>3. IdLeft(about, input, got')
        BY <1>4, <2>2, OtherItem
  <2>4. Len(input) # Len(bytes)
    <3>1. /\ from \in Nat /\ n \in Nat /\ Len(input) \in Nat /\ Len(bytes) \in Nat
          /\ to <= Len(bytes)
          BY <1>1, Zenon DEF AtFieldOf
    <3>2. ~(from <= Len(input)) /\ from + n = to
          BY <1>6, <1>8
    <3> HIDE DEF from, to, n
    <3>3. QED
          BY <3>1, <3>2, SMTT(20)
  <2>5. QED
        BY <1>1, <2>1, <2>3, <2>4, Fails
<1>9. QED
      BY <1>7, <1>8

------------------------------------------------------------------------------
(* Reading in an element *)

\* An element that has been gone through to its end is merged.
LEMMA OffsetEnd ==
    ASSUME NEW type, IsElementType(type), NEW v \in M!Element(type),
           NEW k \in 1..(Len(type) + 1), Offset(type, v, k) = M!ElementSize(type, v)
    PROVE  Defaults(type, v, k, Len(type) + 1)
<1> DEFINE z(j) == M!ScalarSize(type[j], v[j])
<1>1. /\ Len(type) \in {2, 3}
      /\ \A j \in 1..Len(type) : IsScalar(type[j]) /\ v[j] \in M!Scalar(type[j])
      BY ElementFacts
<1>2. \A j \in 1..Len(type) : z(j) \in Nat /\ (z(j) = 0 => v[j] = M!Default(type[j]))
  <2>1. ASSUME NEW j \in 1..Len(type)
        PROVE  z(j) \in Nat /\ (z(j) = 0 => v[j] = M!Default(type[j]))
    <3>1. IsScalar(type[j]) /\ v[j] \in M!Scalar(type[j])
          BY <1>1, <2>1
    <3>2. z(j) \in Nat
      <4>1. 1 \in 1..15
            OBVIOUS
      <4>2. QED
            BY <3>1, <4>1, ScalarWritten
    <3>3. ASSUME v[j] # M!Default(type[j]) PROVE z(j) > 0
      <4>1. M!number(type[j], v[j]) \in M!Number31 /\ M!text(type[j], v[j]) \in Seq(M!Byte)
            BY <3>1, ScalarTypes
      <4>2. M!VarSize(M!number(type[j], v[j])) \in 1..5
            BY <4>1, VarSizeType
      <4>3. (IF type[j].kind = "int" THEN 0 ELSE Len(v[j])) \in Nat
        <5>1. type[j].kind # "int" => Len(M!text(type[j], v[j])) \in Nat /\ M!text(type[j], v[j]) = v[j]
              BY <4>1 DEF M!text
        <5>2. QED
              BY <5>1
      <4>4. z(j) = 1 + M!VarSize(M!number(type[j], v[j])) + (IF type[j].kind = "int" THEN 0 ELSE Len(v[j]))
            BY <3>3 DEF M!ScalarSize
      <4> HIDE DEF z
      <4>5. \A a \in 1..5, b \in Nat : 1 + a + b > 0
            OBVIOUS
      <4>6. QED
            BY <4>2, <4>3, <4>4, <4>5
    <3> HIDE DEF z
    <3>4. QED
          BY <3>2, <3>3
  <2>2. QED
        BY <2>1
<1>3. Offset(type, v, Len(type) + 1) = Offset(type, v, k)
      BY ElementWritten
<1> HIDE DEF z
<1>4. ASSUME NEW j \in k..((Len(type) + 1) - 1) PROVE z(j) = 0
  <2>1. z(1) \in Nat /\ z(2) \in Nat /\ (Len(type) = 3 => z(3) \in Nat)
    <3>1. 1 \in 1..Len(type) /\ 2 \in 1..Len(type) /\ (Len(type) = 3 => 3 \in 1..Len(type))
          BY <1>1
    <3>2. QED
          BY <1>2, <3>1
  <2>2. \A i : Offset(type, v, i) =
            (IF i > 1 THEN z(1) ELSE 0) + (IF i > 2 THEN z(2) ELSE 0) + (IF i > 3 THEN z(3) ELSE 0)
        BY DEF Offset, z
  <2>3. CASE Len(type) = 2
    <3>1. Offset(type, v, Len(type) + 1) = z(1) + z(2)
          BY <2>1, <2>2, <2>3
    <3>2. j \in 1..2 /\ k \in 1..2 /\ k <= j
          BY <2>3, <1>4
    <3>3. Offset(type, v, 1) = 0 /\ Offset(type, v, 2) = z(1)
          BY <2>1, <2>2
    <3>4. k = 1 => z(1) + z(2) = 0
          BY <1>3, <3>1, <3>3
    <3>5. k = 2 => z(1) + z(2) = z(1)
          BY <1>3, <3>1, <3>3
    <3>6. QED
          BY <2>1, <3>2, <3>4, <3>5
  <2>4. CASE Len(type) = 3
    <3>0. z(3) \in Nat
          BY <2>1, <2>4
    <3>1. Offset(type, v, Len(type) + 1) = z(1) + z(2) + z(3)
          BY <2>1, <2>2, <2>4, <3>0
    <3>2. j \in 1..3 /\ k \in 1..3 /\ k <= j
          BY <2>4, <1>4
    <3>3. Offset(type, v, 1) = 0 /\ Offset(type, v, 2) = z(1) /\ Offset(type, v, 3) = z(1) + z(2)
          BY <2>1, <2>2
    <3>4. k = 1 => z(1) + z(2) + z(3) = 0
          BY <1>3, <3>1, <3>3
    <3>5. k = 2 => z(1) + z(2) + z(3) = z(1)
          BY <1>3, <3>1, <3>3
    <3>6. k = 3 => z(1) + z(2) + z(3) = z(1) + z(2)
          BY <1>3, <3>1, <3>3
    <3>7. QED
          BY <2>1, <3>0, <3>2, <3>4, <3>5, <3>6
  <2>5. QED
        BY <1>1, <2>3, <2>4
<1>5. QED
  <2>1. \A j \in k..((Len(type) + 1) - 1) : j \in 1..Len(type)
        BY <1>1
  <2>2. QED
        BY <1>2, <1>4, <2>1 DEF Defaults

LEMMA LastOf ==
    ASSUME NEW E, NEW s \in Seq(E), NEW e \in E, NEW x \in E
    PROVE  /\ Append(s, e)[Len(Append(s, e))] = e
           /\ [Append(s, e) EXCEPT ![Len(Append(s, e))] = x] = Append(s, x)
<1> DEFINE n == Len(s)
           t == Append(s, e)
           u == Append(s, x)
<1>1. /\ n \in Nat /\ t \in Seq(E) /\ u \in Seq(E) /\ Len(t) = n + 1 /\ Len(u) = n + 1
      /\ t[n + 1] = e /\ u[n + 1] = x
      OBVIOUS
<1>2. \A j \in 1..n : t[j] = s[j] /\ u[j] = s[j]
      OBVIOUS
<1>3. t = [j \in 1..(n + 1) |-> t[j]] /\ u = [j \in 1..(n + 1) |-> u[j]]
  <2> HIDE DEF t, u, n
  <2>1. \A z \in Seq(E) : z = [j \in 1..Len(z) |-> z[j]]
        OBVIOUS
  <2>2. t = [j \in 1..Len(t) |-> t[j]] /\ u = [j \in 1..Len(u) |-> u[j]]
        BY <1>1, <2>1
  <2>3. QED
        BY <1>1, <2>2
<1> HIDE DEF t, u, n
<1>4. \A j \in 1..(n + 1) : j # n + 1 => t[j] = u[j]
  <2>1. \A j \in 1..(n + 1) : j # n + 1 => j \in 1..n
        BY <1>1
  <2>2. QED
        BY <1>2, <2>1
<1>5. [t EXCEPT ![n + 1] = x] = u
      BY <1>1, <1>3, <1>4
<1>6. QED
      BY <1>1, <1>5 DEF t, u

LEMMA PrecedingIs ==
    ASSUME NEW d, M!WellFormed(d), NEW c \in Places(d), ~ M!AtEnd(d, c),
           d.type[c[1]].kind \in M!Nested
    PROVE  Preceding(d, c) \in Seq(Elements(d.type[c[1]]))
<1> DEFINE f == c[1]
           E == Elements(d.type[f])
<1>1. /\ f \in Fields(d) /\ c[2] \in 1..M!Count(d, f) /\ M!Count(d, f) \in Nat
      /\ d.type[f].kind \notin M!Single /\ d.type[f].kind # "texts"
      BY NestedFacts, ItemFacts
<1>2. d.into[f] \in Seq(E) /\ d.msg[f] \in Seq(E) /\ Len(d.msg[f]) = M!Count(d, f)
      BY <1>1, AreSequences
<1>3. CASE d.type[f].kind = "msg"
  <2>1. Preceding(d, c) = <<>>
        BY <1>3 DEF Preceding
  <2>2. QED
        BY <2>1
<1>4. CASE d.type[f].kind # "msg"
  <2>1. d.type[f].kind = "msgs"
        BY <1>4 DEF M!Nested
  <2>2. Merged(d, c)[f] = d.into[f] \o M!Upto(d, c)[f]
    <3>1. Merged(d, c)[f] = M!MergeField(d.type[f], d.into[f], M!Upto(d, c)[f])
          BY <1>1, MergedIs
    <3>2. QED
          BY <1>1, <2>1, <3>1 DEF M!MergeField
  <2>3. M!Upto(d, c)[f] \in Seq(E)
    <3>1. M!Upto(d, c)[f] = SubSeq(d.msg[f], 1, c[2] - 1) \/ M!Upto(d, c)[f] = <<>>
      <4>1. f <= d.known \/ f > d.known
            BY <1>1, CaseNumbers
      <4>2. CASE f <= d.known
            BY <1>1, <4>2, UptoHere
      <4>3. CASE f > d.known
        <5>1. f \in DOMAIN d.type /\ M!Default(d.type[f]) = <<>>
              BY <1>1, <2>1, CaseNumbers DEF M!Default
        <5>2. QED
              BY <4>3, <5>1 DEF M!Upto
      <4>4. QED
            BY <4>1, <4>2, <4>3
    <3>2. SubSeq(d.msg[f], 1, c[2] - 1) \in Seq(E) /\ <<>> \in Seq(E)
      <4> DEFINE m == d.msg[f]
                 i == c[2] - 1
      <4>1. m \in Seq(E) /\ i \in 0..Len(m)
            BY <1>1, <1>2
      <4> HIDE DEF m, i, E
      <4>2. SubSeq(m, 1, i) \in Seq(E)
            BY <4>1
      <4>3. QED
            BY <4>2 DEF m, i
    <3>3. QED
          BY <3>1, <3>2
  <2>4. QED
    <3> DEFINE to == d.into[f]
               m == M!Upto(d, c)[f]
    <3>1. Preceding(d, c) = to \o m /\ to \in Seq(E) /\ m \in Seq(E)
          BY <1>2, <1>4, <2>2, <2>3 DEF Preceding
    <3> HIDE DEF to, m, E
    <3>2. to \o m \in Seq(E)
          BY <3>1
    <3>3. QED
          BY <3>1, <3>2 DEF E
<1>5. QED
      BY <1>3, <1>4

\* Element e is the one of c that is read; it is the last one of its field.
WithElement(d, c, e) == [Merged(d, c) EXCEPT ![c[1]] = Append(Preceding(d, c), e)]

Last(g, f) == g[f][Len(g[f])]
SetLast(g, f, x) == [g EXCEPT ![f][Len(g[f])] = x]

LEMMA LastElement ==
    ASSUME NEW d, M!WellFormed(d), NEW c \in Places(d), ~ M!AtEnd(d, c),
           d.type[c[1]].kind \in M!Nested, NEW e, NEW x
    PROVE  /\ Last(WithElement(d, c, e), c[1]) = e
           /\ SetLast(WithElement(d, c, e), c[1], x) = WithElement(d, c, x)
<1> DEFINE f == c[1]
           E == Elements(d.type[f]) \cup {e, x}
           s == Preceding(d, c)
           t == Append(s, e)
           g == [Merged(d, c) EXCEPT ![f] = t]
<1>1. f \in DOMAIN Merged(d, c)
      BY ItemFacts, MergedHasField
<1>2. g[f] = t
      BY <1>1
<1>3. s \in Seq(E) /\ e \in E /\ x \in E
  <2>1. s \in Seq(Elements(d.type[f])) /\ Elements(d.type[f]) \subseteq E
        BY PrecedingIs
  <2> HIDE DEF E
  <2>2. s \in Seq(E)
        BY <2>1
  <2>3. QED
        BY <2>2 DEF E
<1> HIDE DEF E
<1>4. t[Len(t)] = e /\ [t EXCEPT ![Len(t)] = x] = Append(s, x)
      BY <1>3, LastOf
<1>5. [g EXCEPT ![f][Len(g[f])] = x] = [g EXCEPT ![f] = Append(s, x)]
  <2>1. [g EXCEPT ![f][Len(g[f])] = x] = [g EXCEPT ![f] = [g[f] EXCEPT ![Len(g[f])] = x]]
        OBVIOUS
  <2>2. QED
        BY <1>2, <1>4, <2>1
<1>6. [g EXCEPT ![f] = Append(s, x)] = [Merged(d, c) EXCEPT ![f] = Append(s, x)]
      OBVIOUS
<1>7. QED
      BY <1>2, <1>4, <1>5, <1>6 DEF WithElement, Last, SetLast

\* The fields before q are passed over: they are defaults.
LEMMA InPlace ==
    ASSUME NEW d, M!WellFormed(d), NEW s, NEW in, NEW r, NEW k, NEW q, NEW p, NEW u, NEW l, NEW g,
           InItem(d, s, in, r, k, p, u, l, g),
           q \in k..(Len(ElementType(d, s[r].item)) + 1),
           Defaults(ElementType(d, s[r].item), M!Value(d, s[r].item), k, q),
           Partial(d, s[r].item, q) = Partial(d, s[r].item, k),
           FieldAt(d, s, r, q) = FieldAt(d, s, r, k)
    PROVE  InItem(d, s, in, r, q, p, u, l, g)
<1> DEFINE type == ElementType(d, s[r].item)
           v == M!Value(d, s[r].item)
           n == Len(type)
<1>1. k \in 1..(n + 1) /\ \A j \in 1..(k - 1) : type[j].kind = "text" => M!VerifyUTF8(v[j])
      BY DEF InItem
<1>2. n \in Nat
      BY <1>1
<1> HIDE DEF n
<1>3. q \in 1..(n + 1)
      BY <1>1, <1>2 DEF n
<1>4. ASSUME NEW j \in 1..(q - 1), type[j].kind = "text" PROVE M!VerifyUTF8(v[j])
  <2>1. j \in 1..(k - 1) \/ j \in k..(q - 1)
        BY <1>1, <1>2, <1>3
  <2>2. ASSUME j \in k..(q - 1) PROVE v[j] = <<>>
        BY <1>4, <2>2 DEF Defaults, M!Default
  <2>3. M!VerifyUTF8(<<>>)
        BY MessagesAssumption DEF M!VerifyUTF8
  <2>4. QED
        BY <1>1, <1>4, <2>1, <2>2, <2>3
<1>5. QED
      BY <1>3, <1>4 DEF InItem, n

\* What the reader sees at field q of the element of sums[r].item.
AtFieldIn(r, q) ==
    LET c == sums[r].item
        type == ElementType(about, c)
        v == M!Value(about, c)
        end == Earlier(sums[r + 1].at, Len(input))
        n == M!number(type[q], v[q])
        body == M!text(type[q], v[q])
        from == ptr + 1 + M!VarSize(n)
        to == FieldAt(about, sums, r, q + 1) IN
    /\ InItem(about, sums, input, r, q, ptr, sub, limit, got)
    /\ c \in Places(about) /\ ~ M!AtEnd(about, c)
    /\ q \in 1..Len(type) /\ IsScalar(type[q]) /\ v[q] \in M!Scalar(type[q])
    /\ v[q] # M!Default(type[q])
    /\ M!Type = type /\ M!ReadEnd = end /\ M!Here = Partial(about, c, q)
    /\ M!Field = q /\ M!Tag % 8 = M!Wire(type[q]) /\ M!Known
    /\ from \in Nat /\ n \in Nat /\ Len(input) \in Nat /\ Len(bytes) \in Nat /\ end \in Nat
    /\ end <= Len(input) /\ Len(body) \in Nat
    /\ Len(body) = IF type[q].kind = "int" THEN 0 ELSE n
    /\ to = from + Len(body) /\ to <= sums[r + 1].at /\ sums[r + 1].at <= Len(bytes)
    /\ end # Len(input) => end = sums[r + 1].at
    /\ from <= end => M!Read.size > 0 /\ M!Read.value = n /\ M!From = from
    /\ end < from => ~(M!Read.size > 0)
    /\ from + Len(body) <= end => SubSeq(input, from + 1, from + Len(body)) = body
    /\ \A x : M!Set(x) =>
           got' = WithElement(about, c, [Partial(about, c, q) EXCEPT ![q] = x])

\* What is known while an element is read.
LEMMA InFacts ==
    ASSUME M!WellFormed(about), Handed, NEW r, NEW k,
           InItem(about, sums, input, r, k, ptr, sub, limit, got)
    PROVE  LET c == sums[r].item
               f == c[1] IN
           /\ IsSums(about, sums) /\ M!AtEnd(about, sums[Len(sums)].item)
           /\ Laid(about, sums, bytes, Len(sums)) /\ Prefix(bytes, input)
           /\ r \in 1..(Len(sums) - 1) /\ r \in 1..Len(sums) /\ r + 1 \in 1..Len(sums)
           /\ c \in Places(about) /\ ~ M!AtEnd(about, c) /\ f \in Fields(about)
           /\ IsElementType(ElementType(about, c))
           /\ M!Value(about, c) \in M!Element(ElementType(about, c))
           /\ sub = f /\ f # 0 /\ limit = sums[r + 1].at
           /\ M!Type = ElementType(about, c) /\ M!ReadEnd = Earlier(limit, Len(input))
           /\ sums[r].at \in Nat /\ limit \in Nat /\ Len(input) \in Nat /\ Len(bytes) \in Nat
           /\ limit <= Len(bytes)
           /\ M!Here = Partial(about, c, k)
           /\ \A m : got' = SetLast(got, sub, m) => got' = WithElement(about, c, m)
           /\ got = WithElement(about, c, Partial(about, c, k))
<1> DEFINE c == sums[r].item
           f == c[1]
<1>1. /\ r \in 1..(Len(sums) - 1) /\ about.type[f].kind \in M!Nested /\ sub = f
      /\ limit = sums[r + 1].at
      /\ got = WithElement(about, c, Partial(about, c, k))
      BY DEF InItem, WithElement
<1>2. /\ IsSums(about, sums) /\ M!AtEnd(about, sums[Len(sums)].item)
      /\ Laid(about, sums, bytes, Len(sums)) /\ Prefix(bytes, input)
      BY DEF Handed
<1>3. r \in 1..Len(sums) /\ r + 1 \in 1..Len(sums)
  <2>1. Len(sums) \in Nat
        BY <1>2 DEF IsSums
  <2>2. QED
        BY <1>1, <2>1
<1>4. c \in Places(about) /\ sums[r].at \in Nat /\ ~ M!AtEnd(about, c) /\ limit \in Nat
      BY <1>1, <1>2, <1>3, SumIs DEF IsSums
<1>5. f \in Fields(about) /\ f # 0
  <2>1. f \in Fields(about) /\ Len(about.type) \in Nat
        BY <1>4, ItemFacts, CaseNumbers
  <2>2. QED
        BY <2>1 DEF Fields
<1>6. IsElementType(ElementType(about, c)) /\ M!Value(about, c) \in M!Element(ElementType(about, c))
      BY <1>1, <1>4, NestedFacts
<1>7. M!Type = ElementType(about, c) /\ M!ReadEnd = Earlier(limit, Len(input))
      BY <1>1, <1>5 DEF M!Type, M!ReadEnd, ElementType, Earlier
<1>8. /\ M!Here = Partial(about, c, k)
      /\ \A m : SetLast(got, f, m) = WithElement(about, c, m)
  <2>1. \A m : /\ Last(got, f) = Partial(about, c, k)
               /\ SetLast(got, f, m) = WithElement(about, c, m)
        BY <1>1, <1>4, LastElement
  <2>2. M!Here = Last(got, f)
        BY <1>1, <1>5 DEF M!Here, Last
  <2>3. QED
        BY <2>1, <2>2
<1>9. limit <= Len(bytes) /\ Len(bytes) \in Nat /\ Len(input) \in Nat
      BY <1>1, <1>2 DEF Laid, Prefix
<1>10. QED
       BY <1>1, <1>2, <1>3, <1>4, <1>5, <1>6, <1>7, <1>8, <1>9

LEMMA SeesField ==
    ASSUME M!WellFormed(about), Handed, NEW r, NEW k,
           InItem(about, sums, input, r, k, ptr, sub, limit, got), ptr < M!ReadEnd
    PROVE  \E q \in 1..Len(ElementType(about, sums[r].item)) : AtFieldIn(r, q)
<1> DEFINE c == sums[r].item
           type == ElementType(about, c)
           v == M!Value(about, c)
           end == Earlier(sums[r + 1].at, Len(input))
           Is(q) == /\ v[q] # M!Default(type[q]) /\ Defaults(type, v, k, q)
                    /\ Partial(about, c, q) = Partial(about, c, k)
                    /\ FieldAt(about, sums, r, q) = ptr
                    /\ ReadAt(input, ptr, end, q, M!Wire(type[q]),
                              M!number(type[q], v[q]), M!text(type[q], v[q]))
                    /\ FieldAt(about, sums, r, q + 1) =
                          ptr + 1 + M!VarSize(M!number(type[q], v[q])) + Len(M!text(type[q], v[q]))
                    /\ FieldAt(about, sums, r, q + 1) <= sums[r + 1].at
<1>1. /\ IsSums(about, sums) /\ Laid(about, sums, bytes, Len(sums)) /\ Prefix(bytes, input)
      /\ r \in 1..(Len(sums) - 1) /\ c \in Places(about) /\ ~ M!AtEnd(about, c)
      /\ IsElementType(type) /\ v \in M!Element(type)
      /\ sub = c[1] /\ c[1] # 0 /\ limit = sums[r + 1].at
      /\ M!Type = type /\ M!ReadEnd = end
      /\ limit \in Nat /\ Len(input) \in Nat /\ Len(bytes) \in Nat /\ limit <= Len(bytes)
      BY InFacts
<1>2. /\ about.type[c[1]].kind \in M!Nested /\ k \in 1..(Len(type) + 1)
      /\ ptr = FieldAt(about, sums, r, k)
      BY DEF InItem
<1>3. /\ Len(type) \in {2, 3}
      /\ \A j \in 1..Len(type) : IsScalar(type[j]) /\ v[j] \in M!Scalar(type[j])
      BY <1>1, ElementFacts
<1>4. ptr < end
      BY <1>1
<1>5. \E q \in k..Len(type) : Is(q)
  <2>1. FieldAt(about, sums, r, k) < Earlier(sums[r + 1].at, Len(input))
        BY <1>2, <1>4
  <2>2. QED
        BY <1>1, <1>2, <2>1, ElementRead
<1>6. PICK q \in k..Len(type) : Is(q)
      BY <1>5
<1>7. q \in 1..Len(type) /\ q \in k..(Len(type) + 1)
  <2>1. Len(type) \in Nat
        BY <1>3
  <2>2. QED
        BY <1>2, <2>1
<1>8. InItem(about, sums, input, r, q, ptr, sub, limit, got)
      BY <1>2, <1>6, <1>7, InPlace
<1>9. /\ M!Here = Partial(about, c, q)
      /\ \A m : got' = SetLast(got, sub, m) => got' = WithElement(about, c, m)
      BY <1>8, InFacts
<1> DEFINE n == M!number(type[q], v[q])
           body == M!text(type[q], v[q])
           y == M!VarSize(n)
           from == ptr + 1 + y
           to == FieldAt(about, sums, r, q + 1)
<1>10. IsScalar(type[q]) /\ v[q] \in M!Scalar(type[q])
       BY <1>3, <1>7
<1>11. /\ n \in Nat /\ body \in Seq(M!Byte) /\ Len(body) \in Nat /\ y \in 1..5
       /\ Len(body) = IF type[q].kind = "int" THEN 0 ELSE n
  <2>1. n \in M!Number31 /\ body \in Seq(M!Byte)
        /\ Len(body) = IF type[q].kind = "int" THEN 0 ELSE n
        BY <1>10, ScalarTypes
  <2>2. y \in 1..5
        BY <2>1, VarSizeType
  <2>3. \A x \in M!Number31 : x \in Nat
        BY DEF M!Number31
  <2>4. n \in Nat
        BY <2>1, <2>3
  <2>5. Len(body) \in Nat
        BY <2>1
  <2>6. QED
        BY <2>1, <2>2, <2>4, <2>5
<1>12. end \in Nat /\ end <= Len(input) /\ (end # Len(input) => end = sums[r + 1].at)
       BY <1>1 DEF Earlier
<1>13. ptr \in Nat
  <2>1. FieldAt(about, sums, r, q) = ptr
        BY <1>6
  <2>2. sums[r].at \in Nat /\ Offset(type, v, q) \in Nat /\ M!VarSize(NumberOf(about, c)) \in Nat
    <3>1. sums[r].at \in Nat
          BY InFacts
    <3>2. Offset(type, v, q) \in Nat
          BY <1>1, <1>7, ElementWritten
    <3>3. M!VarSize(NumberOf(about, c)) \in Nat
      <4>1. NumberOf(about, c) = M!ElementSize(type, v)
            BY <1>1, <1>2, NestedFacts
      <4>2. M!ElementSize(type, v) \in M!Number31
            BY <1>1, ElementWritten
      <4>3. M!VarSize(NumberOf(about, c)) \in 1..5
            BY <4>1, <4>2, VarSizeType
      <4>4. QED
            BY <4>3
    <3>4. QED
          BY <3>1, <3>2, <3>3
  <2>3. FieldAt(about, sums, r, q) = sums[r].at + 1 + M!VarSize(NumberOf(about, c)) + Offset(type, v, q)
        BY DEF FieldAt
  <2>4. QED
        BY <2>1, <2>2, <2>3
<1>14. from \in Nat /\ y \in Nat /\ y > 0
       BY <1>11, <1>13
<1>15. /\ M!Field = q /\ M!Tag % 8 = M!Wire(type[q])
       /\ (from <= end => M!Read.size = y /\ M!Read.value = n)
       /\ (end < from => M!Read.size = 0)
       /\ (from + Len(body) <= end => SubSeq(input, from + 1, from + Len(body)) = body)
  <2>1. ReadAt(input, ptr, end, q, M!Wire(type[q]), n, body)
        BY <1>6
  <2>2. M!Read = M!ReadNumber(input, ptr + 1, end)
        BY <1>1 DEF M!Read
  <2>3. QED
        BY <2>1, <2>2 DEF ReadAt, M!Field, M!Tag
<1>16. M!Known
  <2>1. q \in DOMAIN M!Type
        BY <1>1, <1>7, ElementFacts
  <2>2. sub # 0
        BY <1>1
  <2>3. QED
        BY <1>1, <1>15, <2>1, <2>2 DEF M!Known
<1>17. from <= end => M!Read.size > 0 /\ M!Read.value = n /\ M!From = from
       BY <1>14, <1>15 DEF M!From
<1>18. end < from => ~(M!Read.size > 0)
  <2>1. end < from => M!Read.size = 0
        BY <1>15
  <2>2. QED
        BY <2>1
<1>19. \A x : M!Set(x) =>
           got' = WithElement(about, c, [Partial(about, c, q) EXCEPT ![q] = x])
  <2>1. ASSUME NEW x, M!Set(x)
        PROVE  got' = SetLast(got, sub, [Partial(about, c, q) EXCEPT ![q] = x])
        BY <1>1, <1>9, <1>15, <2>1, Zenon DEF M!Set, SetLast
  <2>2. QED
        BY <1>9, <2>1
<1>20. to = from + Len(body) /\ to <= sums[r + 1].at
       BY <1>6
<1>21. /\ v[q] # M!Default(type[q]) /\ M!Type = type /\ M!ReadEnd = end
       /\ sums[r + 1].at <= Len(bytes)
       BY <1>1, <1>6
<1> HIDE DEF c, type, v, end, n, body, y, from, to, Is
<1>22. AtFieldIn(r, q)
       BY <1>1, <1>7, <1>8, <1>9, <1>10, <1>11, <1>12, <1>14, <1>15, <1>16, <1>17, <1>18, <1>19,
          <1>20, <1>21, Zenon
       DEF AtFieldIn, c, type, v, end, n, body, y, from, to
<1>23. QED
       BY <1>7, <1>22 DEF type, c

LEMMA ElementFails ==
    ASSUME about.fn = "message", M!WellFormed(about), Handed, Still, stage' = "failed",
           NEW r, NEW k, InItem(about, sums, input, r, k, ptr, sub, limit, got),
           NEW e, got' = WithElement(about, sums[r].item, e),
           Len(input) = Len(bytes) => ~ M!Valid(about)
    PROVE  MessageInv'
<1> DEFINE c == sums[r].item
<1>1. /\ IsSums(about, sums) /\ M!AtEnd(about, sums[Len(sums)].item)
      /\ r \in 1..Len(sums) /\ sums[r].at \in Nat /\ Len(input) \in Nat
      /\ c \in Places(about) /\ ~ M!AtEnd(about, c)
      /\ IsElementType(ElementType(about, c))
      /\ M!Value(about, c) \in M!Element(ElementType(about, c))
      BY InFacts
<1>2. /\ about.type[c[1]].kind \in M!Nested /\ ptr = FieldAt(about, sums, r, k)
      /\ ptr <= Len(input) /\ k \in 1..(Len(ElementType(about, c)) + 1)
      BY DEF InItem
<1>3. about.file => c[1] # 4
      BY <1>2, HardwareFacts DEF M!Nested
<1>4. about.file => got'[4] = Merged(about, c)[4]
      BY <1>3 DEF WithElement
<1>5. sums[r].at <= Len(input)
  <2> DEFINE o == Offset(ElementType(about, c), M!Value(about, c), k)
             y == M!VarSize(NumberOf(about, c))
  <2>1. o \in Nat
    <3>1. Len(ElementType(about, c)) \in {2, 3}
          BY <1>1, ElementFacts
    <3>2. CASE k = Len(ElementType(about, c)) + 1
      <4>1. o = M!ElementSize(ElementType(about, c), M!Value(about, c)) /\ o \in M!Number31
            BY <1>1, <3>2, ElementWritten
      <4>2. \A x \in M!Number31 : x \in Nat
            BY DEF M!Number31
      <4>3. QED
            BY <4>1, <4>2
    <3>3. CASE k # Len(ElementType(about, c)) + 1
      <4>1. k \in 1..Len(ElementType(about, c))
            BY <1>2, <3>1, <3>3
      <4>2. QED
            BY <1>1, <4>1, ElementWritten
    <3>4. QED
          BY <3>2, <3>3
  <2>2. y \in Nat
    <3>1. NumberOf(about, c) = M!ElementSize(ElementType(about, c), M!Value(about, c))
          BY <1>1, <1>2, NestedFacts
    <3>2. M!ElementSize(ElementType(about, c), M!Value(about, c)) \in M!Number31
          BY <1>1, ElementWritten
    <3>3. y \in 1..5
          BY <3>1, <3>2, VarSizeType
    <3>4. QED
          BY <3>3
  <2>3. ptr = sums[r].at + 1 + y + o
        BY <1>2 DEF FieldAt
  <2> HIDE DEF o, y
  <2>4. QED
        BY <1>1, <1>2, <2>1, <2>2, <2>3
<1>6. IdLeft(about, input, got')
      BY <1>1, <1>3, <1>4, <1>5, IdSettled
<1>7. QED
      BY <1>6, Fails

LEMMA FieldIsRead ==
    ASSUME about.fn = "message", M!WellFormed(about), Handed, Still, stage' = "read",
           NEW r, NEW q, AtFieldIn(r, q), sub' = sub, limit' = limit,
           ptr' = FieldAt(about, sums, r, q + 1), FieldAt(about, sums, r, q + 1) <= Len(input),
           M!Set(M!Value(about, sums[r].item)[q]),
           ElementType(about, sums[r].item)[q].kind = "text" =>
               M!VerifyUTF8(M!Value(about, sums[r].item)[q])
    PROVE  MessageInv'
<1> DEFINE c == sums[r].item
           type == ElementType(about, c)
           v == M!Value(about, c)
<1>1. /\ InItem(about, sums, input, r, q, ptr, sub, limit, got)
      /\ q \in 1..Len(type) /\ v[q] # M!Default(type[q])
      /\ got' = WithElement(about, c, [Partial(about, c, q) EXCEPT ![q] = v[q]])
      BY Zenon DEF AtFieldIn
<1>2. Len(type) \in {2, 3} /\ r \in 1..Len(sums)
      BY <1>1, InFacts, ElementFacts
<1>3. [Partial(about, c, q) EXCEPT ![q] = v[q]] = Partial(about, c, q + 1)
  <2>1. M!MergeScalar(type[q], Base(about, c)[q], v[q]) = v[q]
        BY <1>1 DEF M!MergeScalar
  <2>2. \A j \in 1..Len(type) : j < q + 1 <=> j < q \/ j = q
        BY <1>1, <1>2
  <2> HIDE DEF v
  <2>3. QED
        BY <1>1, <2>1, <2>2 DEF Partial, v
<1>4. q + 1 \in 1..(Len(type) + 1) /\ q + 1 \in 1..4
      BY <1>1, <1>2
<1>5. ASSUME NEW j \in 1..((q + 1) - 1), type[j].kind = "text" PROVE M!VerifyUTF8(v[j])
  <2>1. j \in 1..(q - 1) \/ j = q
        BY <1>1, <1>2
  <2>2. j \in 1..(q - 1) => M!VerifyUTF8(v[j])
        BY <1>1, <1>5 DEF InItem
  <2>3. QED
        BY <1>5, <2>1, <2>2
<1>6. got' = WithElement(about, c, Partial(about, c, q + 1))
      BY <1>1, <1>3
<1>7. InItem(about, sums, input, r, q + 1, ptr', sub', limit', got')
      BY <1>1, <1>4, <1>5, <1>6 DEF InItem, WithElement
<1>8. QED
      BY <1>2, <1>4, <1>7, GoesOn, Zenon

LEMMA ElementReadInt ==
    ASSUME about.fn = "message", M!WellFormed(about), Handed, NEW r, NEW k,
           InItem(about, sums, input, r, k, ptr, sub, limit, got), M!ReadInt, UNCHANGED about
    PROVE  MessageInv'
<1>1. ptr < M!ReadEnd /\ stage = "read" /\ Still /\ sub' = sub /\ limit' = limit
      BY DEF M!ReadInt, M!AtField, Still
<1>2. PICK q \in 1..Len(ElementType(about, sums[r].item)) : AtFieldIn(r, q)
      BY <1>1, SeesField, Zenon
<1> DEFINE c == sums[r].item
           type == ElementType(about, c)
           v == M!Value(about, c)
           n == M!number(type[q], v[q])
           from == ptr + 1 + M!VarSize(n)
           end == Earlier(sums[r + 1].at, Len(input))
           to == FieldAt(about, sums, r, q + 1)
<1>3. /\ type[q].kind = "int" /\ IsScalar(type[q]) /\ v[q] \in M!Scalar(type[q])
      /\ M!Type = type /\ M!Field = q /\ to = from + 0
      /\ from \in Nat /\ Len(input) \in Nat /\ Len(bytes) \in Nat /\ end \in Nat
      /\ end <= Len(input) /\ to <= sums[r + 1].at /\ sums[r + 1].at <= Len(bytes)
      BY <1>2, Zenon DEF AtFieldIn, M!ReadInt
<1>4. /\ end # Len(input) => end = sums[r + 1].at
      /\ from <= end => M!Read.size > 0 /\ M!Read.value = n /\ M!From = from
      /\ end < from => ~(M!Read.size > 0)
      BY <1>2, Zenon DEF AtFieldIn
<1>5. n = v[q] /\ (IF type[q].flag /\ n > 0 THEN 1 ELSE n) = n
  <2>1. n = v[q]
        BY <1>3 DEF M!number
  <2>2. type[q].flag \in BOOLEAN
        BY <1>3 DEF IsScalar
  <2>3. type[q].flag => n \in {0, 1}
        BY <1>3, <2>1 DEF M!Scalar
  <2>4. QED
        BY <2>1, <2>2, <2>3
<1>6. PICK x : M!Set(x) /\ x = (IF type[q].flag /\ M!Read.value > 0 THEN 1 ELSE M!Read.value)
      BY <1>3 DEF M!ReadInt
<1>7. M!GoOn(M!Read.size > 0, M!From)
      BY DEF M!ReadInt
<1> HIDE DEF from, end, to, n, v
<1>8. CASE M!Read.size > 0
  <2>1. from <= end
        BY <1>3, <1>4, <1>8
  <2>2. M!Read.value = n /\ M!From = to /\ to <= Len(input)
        BY <1>3, <1>4, <2>1
  <2>3. M!Set(v[q])
        BY <1>5, <1>6, <2>2
  <2>4. ptr' = to /\ stage' = "read"
        BY <1>1, <1>7, <1>8, <2>2 DEF M!GoOn
  <2>5. type[q].kind # "text"
        BY <1>3
  <2>6. QED
        BY <1>1, <1>2, <2>2, <2>3, <2>4, <2>5, FieldIsRead DEF to, v
<1>9. CASE ~(M!Read.size > 0)
  <2>1. stage' = "failed"
        BY <1>7, <1>9 DEF M!GoOn
  <2>2. Len(input) # Len(bytes)
    <3>1. sums[r + 1].at \in Nat
          BY InFacts, SMTT(20) DEF InItem
    <3>2. QED
          BY <1>3, <1>4, <1>9, <3>1
  <2>3. InItem(about, sums, input, r, q, ptr, sub, limit, got)
        /\ got' = WithElement(about, c, [Partial(about, c, q) EXCEPT ![q] = x])
        BY <1>2, <1>6, Zenon DEF AtFieldIn
  <2>4. QED
        BY <1>1, <2>1, <2>2, <2>3, ElementFails
<1>10. QED
       BY <1>8, <1>9

LEMMA ElementReadText ==
    ASSUME about.fn = "message", M!WellFormed(about), Handed, NEW r, NEW k,
           InItem(about, sums, input, r, k, ptr, sub, limit, got), M!ReadText, UNCHANGED about
    PROVE  MessageInv'
<1>1. ptr < M!ReadEnd /\ stage = "read" /\ Still /\ sub' = sub /\ limit' = limit
      BY DEF M!ReadText, M!AtField, Still
<1>2. PICK q \in 1..Len(ElementType(about, sums[r].item)) : AtFieldIn(r, q)
      BY <1>1, SeesField
<1> DEFINE c == sums[r].item
           type == ElementType(about, c)
           v == M!Value(about, c)
           n == M!number(type[q], v[q])
           from == ptr + 1 + M!VarSize(n)
           end == Earlier(sums[r + 1].at, Len(input))
           to == FieldAt(about, sums, r, q + 1)
           body == SubSeq(input, M!From + 1, M!From + M!Read.value)
           have == IF M!Read.size > 0 THEN SubSeq(input, M!From + 1, M!ReadEnd) ELSE <<>>
<1>3. /\ type[q].kind = "text" /\ M!Type = type /\ M!Field = q /\ M!ReadEnd = end
      /\ IsScalar(type[q]) /\ v[q] \in M!Scalar(type[q])
      /\ from \in Nat /\ n \in Nat /\ Len(input) \in Nat /\ Len(bytes) \in Nat /\ end \in Nat
      /\ end <= Len(input) /\ to <= sums[r + 1].at /\ sums[r + 1].at <= Len(bytes)
  <2>1. IsScalar(type[q]) /\ M!Type = type /\ M!Field = q
        BY <1>2, Zenon DEF AtFieldIn
  <2>2. type[q].kind = "text"
        BY <2>1 DEF M!ReadText, IsScalar, M!Single
  <2>3. QED
        BY <1>2, <2>2, Zenon DEF AtFieldIn
<1>4. M!text(type[q], v[q]) = v[q]
      BY <1>3, ScalarTypes
<1>5. /\ to = from + n
      /\ end # Len(input) => end = sums[r + 1].at
      /\ from <= end => M!Read.size > 0 /\ M!Read.value = n /\ M!From = from
      /\ end < from => ~(M!Read.size > 0)
      /\ from + n <= end => SubSeq(input, from + 1, from + n) = v[q]
      BY <1>2, <1>3, <1>4, Zenon DEF AtFieldIn
<1>6. PICK t \in (IF M!Whole THEN {body} ELSE M!Left(have)) : M!Set(t)
      BY <1>3 DEF M!ReadText
<1>7. M!GoOn(M!Whole /\ M!VerifyUTF8(body), M!From + M!Read.value)
      BY DEF M!ReadText
<1>8. /\ M!Whole <=> to <= end
      /\ M!Whole => M!From + M!Read.value = to /\ body = v[q]
  <2> HIDE DEF from, end, to, n, v
  <2>1. M!Read.size > 0 <=> from <= end
        BY <1>3, <1>5
  <2>2. M!Whole <=> to <= end
    <3>1. from + n <= end => from <= end
          BY <1>3
    <3>2. QED
          BY <1>3, <1>5, <2>1, <3>1 DEF M!Whole
  <2>3. QED
        BY <1>5, <2>1, <2>2 DEF M!Whole
<1> HIDE DEF from, end, to, n, v, body, have
<1>9. CASE M!Whole /\ M!VerifyUTF8(body)
  <2>1. t = v[q] /\ M!VerifyUTF8(v[q]) /\ to <= Len(input)
        BY <1>3, <1>5, <1>6, <1>8, <1>9
  <2>2. ptr' = to /\ stage' = "read"
        BY <1>1, <1>7, <1>8, <1>9 DEF M!GoOn
  <2>3. QED
        BY <1>1, <1>2, <1>6, <2>1, <2>2, FieldIsRead DEF to, v
<1>10. CASE ~(M!Whole /\ M!VerifyUTF8(body))
  <2>1. stage' = "failed"
        BY <1>7, <1>10, SMTT(20) DEF M!GoOn
  <2>2. InItem(about, sums, input, r, q, ptr, sub, limit, got)
        /\ got' = WithElement(about, c, [Partial(about, c, q) EXCEPT ![q] = t])
        BY <1>2, <1>6, Zenon DEF AtFieldIn
  <2>3. Len(input) = Len(bytes) => ~ M!Valid(about)
    <3> SUFFICES ASSUME Len(input) = Len(bytes) PROVE ~ M!Valid(about)
        OBVIOUS
    <3>0. sums[r + 1].at \in Nat
          BY InFacts DEF InItem
    <3>1. to <= end
          BY <1>3, <1>5, <3>0, SMTT(20)
    <3>2. ~ M!VerifyUTF8(v[q])
          BY <1>8, <1>10, <3>1, SMTT(20)
    <3>3. /\ c \in Places(about) /\ ~ M!AtEnd(about, c) /\ c[1] <= about.known
          /\ about.type[c[1]].kind \in M!Nested
          BY <2>2, InFacts DEF InItem
    <3>4. q \in DOMAIN about.type[c[1]].type
      <4>1. DOMAIN type = 1..Len(type)
        <5>1. IsElementType(type) /\ M!Value(about, c) \in M!Element(type)
              BY <2>2, InFacts
        <5>2. QED
              BY <5>1, ElementFacts
      <4>2. QED
            BY <1>2, <4>1 DEF ElementType
    <3>5. ~ M!Readable(about.type[c[1]], M!Value(about, c))
          BY <1>3, <3>2, <3>3, <3>4, Zenon DEF M!Readable, ElementType, v
    <3>6. QED
          BY <3>3, <3>5, Unreadable
  <2>4. QED
        BY <1>1, <2>1, <2>2, <2>3, ElementFails
<1>11. QED
       BY <1>9, <1>10

LEMMA ElementClose ==
    ASSUME about.fn = "message", M!WellFormed(about), Handed, NEW r, NEW k,
           InItem(about, sums, input, r, k, ptr, sub, limit, got), M!Close, UNCHANGED about
    PROVE  MessageInv'
<1> DEFINE c == sums[r].item
           f == c[1]
           type == ElementType(about, c)
           v == M!Value(about, c)
<1>1. /\ ptr = limit /\ sub' = 0 /\ limit' = 0 /\ stage' = "read" /\ ptr' = ptr /\ got' = got
      /\ Still
      BY DEF M!Close, Still
<1>2. /\ IsSums(about, sums) /\ r \in 1..(Len(sums) - 1) /\ r + 1 \in 1..Len(sums)
      /\ Laid(about, sums, bytes, Len(sums)) /\ r \in 1..Len(sums)
      /\ c \in Places(about) /\ ~ M!AtEnd(about, c)
      /\ IsElementType(type) /\ v \in M!Element(type) /\ limit = sums[r + 1].at
      /\ sums[r].at \in Nat /\ got = WithElement(about, c, Partial(about, c, k))
      BY InFacts
<1>3. /\ f <= about.known /\ about.type[f].kind \in M!Nested /\ k \in 1..(Len(type) + 1)
      /\ ptr = FieldAt(about, sums, r, k) /\ ptr <= Len(input) /\ ReadableUpto(about, c)
      /\ \A j \in 1..(k - 1) : type[j].kind = "text" => M!VerifyUTF8(v[j])
      BY DEF InItem
<1>4. Len(type) \in {2, 3} /\ DOMAIN type = 1..Len(type)
      BY <1>2, ElementFacts
<1>5. Offset(type, v, k) = M!ElementSize(type, v)
  <2> DEFINE n == NumberOf(about, c)
             y == M!VarSize(n)
             o == Offset(type, v, k)
  <2>1. n = M!ElementSize(type, v) /\ n \in Nat /\ about.type[f].kind # "int"
        BY <1>2, <1>3, NestedFacts DEF M!Nested
  <2>2. y \in Nat
    <3>1. n \in M!Number31
          BY <1>2, <2>1, ElementWritten
    <3>2. y \in 1..5
          BY <3>1, VarSizeType
    <3>3. QED
          BY <3>2
  <2>3. sums[r + 1].at = sums[r].at + M!Size(about, c)
        BY <1>2 DEF IsSums
  <2>4. M!Size(about, c) = 1 + y + n
        BY <2>1 DEF M!Size, NumberOf, KindOf
  <2>5. o \in Nat
    <3>1. CASE k = Len(type) + 1
      <4>1. o = M!ElementSize(type, v)
            BY <1>2, <3>1, ElementWritten
      <4>2. QED
            BY <2>1, <4>1
    <3>2. CASE k # Len(type) + 1
      <4>1. k \in 1..Len(type)
            BY <1>3, <1>4, <3>2
      <4>2. QED
            BY <1>2, <4>1, ElementWritten
    <3>3. QED
          BY <3>1, <3>2
  <2>6. ptr = sums[r].at + 1 + y + o
        BY <1>3 DEF FieldAt
  <2>7. o = n
    <3>1. sums[r].at \in Nat /\ y \in Nat /\ o \in Nat /\ n \in Nat
          /\ sums[r].at + 1 + y + o = sums[r].at + (1 + y + n)
          BY <1>1, <1>2, <2>1, <2>2, <2>3, <2>4, <2>5, <2>6
    <3> HIDE DEF o, y, n
    <3>2. QED
          BY <3>1
  <2>8. QED
        BY <2>1, <2>7
<1>6. Defaults(type, v, k, Len(type) + 1)
      BY <1>2, <1>3, <1>5, OffsetEnd
<1>7. \A j \in 1..Len(type) : j < k \/ v[j] = M!Default(type[j])
  <2>1. ASSUME NEW j \in 1..Len(type), ~(j < k) PROVE v[j] = M!Default(type[j])
    <3>1. j \in k..((Len(type) + 1) - 1)
          BY <1>3, <1>4, <2>1
    <3>2. QED
          BY <1>6, <3>1 DEF Defaults
  <2>2. QED
        BY <2>1
<1>8. Partial(about, c, k) = M!MergeElement(type, Base(about, c), v)
  <2>1. \A j \in 1..Len(type) : ~(j < k) =>
            M!MergeScalar(type[j], Base(about, c)[j], v[j]) = Base(about, c)[j]
        BY <1>7 DEF M!MergeScalar
  <2> HIDE DEF v
  <2>2. QED
        BY <1>4, <2>1 DEF Partial, M!MergeElement, v
<1>9. New(about, c) = Append(Preceding(about, c), M!MergeElement(type, Base(about, c), v))
  <2>1. about.type[f].kind \notin M!Single /\ about.type[f].kind # "texts"
        BY <1>2, <1>3, NestedFacts
  <2>2. QED
        BY <2>1 DEF New, ElementType
<1>10. got = [Merged(about, c) EXCEPT ![f] = New(about, c)]
       BY <1>2, <1>8, <1>9 DEF WithElement
<1>11. M!Readable(about.type[f], v)
  <2>1. about.type[f].kind \notin {"text", "texts"}
        BY <1>3 DEF M!Nested
  <2>2. ASSUME NEW j \in 1..Len(type), type[j].kind = "text" PROVE M!VerifyUTF8(v[j])
    <3>1. CASE j < k
      <4>1. j \in 1..(k - 1)
            BY <1>3, <1>4, <3>1
      <4>2. QED
            BY <1>3, <2>2, <4>1
    <3>2. CASE v[j] = M!Default(type[j])
      <4>1. v[j] = <<>>
            BY <2>2, <3>2 DEF M!Default
      <4>2. QED
            BY <4>1, MessagesAssumption DEF M!VerifyUTF8
    <3>3. QED
          BY <1>7, <3>1, <3>2
  <2>3. QED
        BY <1>4, <2>1, <2>2, Zenon DEF M!Readable, ElementType
<1>12. AtItem(about, sums, input, r + 1, sums[r + 1].at, 0, 0, got)
       BY <1>1, <1>2, <1>3, <1>10, <1>11, Passed
<1>13. QED
       BY <1>1, <1>2, <1>12, GoesOn

\* The input ends in an element: it was cut.
LEMMA ElementDone ==
    ASSUME about.fn = "message", M!WellFormed(about), Handed, NEW r, NEW k,
           InItem(about, sums, input, r, k, ptr, sub, limit, got), M!Done, UNCHANGED about
    PROVE  MessageInv'
<1>1. /\ sub # 0 /\ limit = sums[r + 1].at /\ Len(input) \in Nat /\ limit \in Nat
      /\ Len(bytes) \in Nat /\ limit <= Len(bytes) /\ Prefix(bytes, input)
      /\ got = WithElement(about, sums[r].item, Partial(about, sums[r].item, k))
      BY InFacts
<1>2. stage' = "failed" /\ Still /\ got' = got /\ ptr = Len(input) /\ ptr # limit
      BY <1>1 DEF M!Done, Still
<1>3. Len(input) # Len(bytes)
  <2> SUFFICES ASSUME Len(input) = Len(bytes) PROVE FALSE
      OBVIOUS
  <2> DEFINE c == sums[r].item
             type == ElementType(about, c)
             v == M!Value(about, c)
             n == NumberOf(about, c)
             y == M!VarSize(n)
             o == Offset(type, v, k)
  <2>1. /\ IsSums(about, sums) /\ c \in Places(about) /\ ~ M!AtEnd(about, c)
        /\ r \in 1..(Len(sums) - 1) /\ sums[r].at \in Nat
        /\ IsElementType(type) /\ v \in M!Element(type)
        BY InFacts
  <2>2. /\ about.type[c[1]].kind \in M!Nested /\ k \in 1..(Len(type) + 1)
        /\ ptr = sums[r].at + 1 + y + o
        BY DEF InItem, FieldAt
  <2>3. /\ n = M!ElementSize(type, v) /\ n \in Nat /\ about.type[c[1]].kind # "int"
        BY <2>1, <2>2, NestedFacts DEF M!Nested
  <2>4. y \in Nat
    <3>1. n \in M!Number31
          BY <2>1, <2>3, ElementWritten
    <3>2. y \in 1..5
          BY <3>1, VarSizeType
    <3>3. QED
          BY <3>2
  <2>5. limit = sums[r].at + (1 + y + n)
    <3>1. sums[r + 1].at = sums[r].at + M!Size(about, c)
          BY <2>1 DEF IsSums
    <3>2. M!Size(about, c) = 1 + y + n
          BY <2>3 DEF M!Size, NumberOf, KindOf
    <3>3. QED
          BY <1>1, <3>1, <3>2
  <2>6. o \in Nat /\ o <= n
    <3>1. Len(type) \in {2, 3}
          BY <2>1, ElementFacts
    <3>2. CASE k = Len(type) + 1
      <4>1. o = n
            BY <2>1, <2>3, <3>2, ElementWritten
      <4>2. QED
            BY <2>3, <4>1
    <3>3. CASE k # Len(type) + 1
      <4>1. k \in 1..Len(type)
            BY <2>2, <3>1, <3>3
      <4>2. o \in Nat /\ Offset(type, v, k + 1) = o + M!ScalarSize(type[k], v[k])
            /\ Offset(type, v, k + 1) <= M!ElementSize(type, v)
            BY <2>1, <4>1, ElementWritten
      <4>3. M!ScalarSize(type[k], v[k]) \in Nat
        <5>1. IsScalar(type[k]) /\ v[k] \in M!Scalar(type[k]) /\ 1 \in 1..15
              BY <2>1, <4>1, ElementFacts
        <5>2. QED
              BY <5>1, ScalarWritten
      <4> HIDE DEF o
      <4>4. QED
            BY <2>3, <4>2, <4>3
    <3>4. QED
          BY <3>2, <3>3
  <2>7. ptr <= limit
    <3>1. /\ sums[r].at \in Nat /\ y \in Nat /\ n \in Nat /\ o \in Nat /\ o <= n
          /\ ptr = sums[r].at + 1 + y + o /\ limit = sums[r].at + (1 + y + n)
          BY <2>1, <2>2, <2>3, <2>4, <2>5, <2>6
    <3> HIDE DEF n, y, o
    <3>2. QED
          BY <3>1
  <2>8. QED
        BY <1>1, <1>2, <2>7
<1>4. QED
      BY <1>1, <1>2, <1>3, ElementFails

\* No other message is opened in an element, and nothing in it is unknown.
LEMMA ElementKnown ==
    ASSUME M!WellFormed(about), Handed, NEW r, NEW k,
           InItem(about, sums, input, r, k, ptr, sub, limit, got)
    PROVE  ~ M!Open /\ ~ M!Skip
<1>1. ASSUME ptr < M!ReadEnd
      PROVE  M!Known /\ M!Type[M!Field].kind \notin M!Nested
  <2>1. PICK q \in 1..Len(ElementType(about, sums[r].item)) : AtFieldIn(r, q)
        BY <1>1, SeesField, Zenon
  <2>2. M!Known /\ M!Type[M!Field].kind \in M!Single
        BY <2>1, Zenon DEF AtFieldIn, IsScalar
  <2>3. QED
        BY <2>2 DEF M!Single, M!Nested
<1>2. QED
      BY <1>1 DEF M!Open, M!Skip, M!AtField

------------------------------------------------------------------------------
(* All steps, and what follows *)

LEMMA InitMessageInv == TextInit => MessageInv
<1> SUFFICES ASSUME TextInit, about.fn = "message" PROVE MessageInv
    BY DEF MessageInv
<1>1. about \in Inputs /\ M!Init
      BY DEF TextInit
<1>2. M!WellFormed(about)
      BY <1>1, InputsAssumption
<1>3. /\ stage = "size" /\ item = M!Following(about, 1) /\ M!Empty
      /\ sums = <<[item |-> M!Following(about, 1), at |-> 0]>>
      BY <1>1 DEF M!Init, M!Start
<1>4. IsSums(about, sums)
      BY <1>2, <1>3, SumsStart
<1>5. item = sums[Len(sums)].item
      BY <1>3
<1>6. QED
      BY <1>2, <1>3, <1>4, <1>5 DEF MessageInv, M!Over

LEMMA ReadingMessageInv ==
    ASSUME about.fn = "message", MessageInv, UNCHANGED about, stage = "read",
           M!ReadInt \/ M!ReadText \/ M!Open \/ M!Close \/ M!Skip \/ M!Done
    PROVE  MessageInv'
<1>1. M!WellFormed(about) /\ Handed /\ Reading
      BY DEF MessageInv
<1>2. PICK r \in 1..Len(sums) :
          \/ AtItem(about, sums, input, r, ptr, sub, limit, got)
          \/ \E k \in 1..4 : InItem(about, sums, input, r, k, ptr, sub, limit, got)
      BY <1>1 DEF Reading
<1>3. CASE AtItem(about, sums, input, r, ptr, sub, limit, got)
  <2>1. ~ M!Close
        BY <1>3 DEF AtItem, M!Close
  <2>2. QED
        BY <1>1, <1>3, <2>1, ItemReadInt, ItemReadText, ItemOpen, ItemSkip, ItemDone
<1>4. CASE \E k \in 1..4 : InItem(about, sums, input, r, k, ptr, sub, limit, got)
  <2>1. PICK k \in 1..4 : InItem(about, sums, input, r, k, ptr, sub, limit, got)
        BY <1>4
  <2>2. ~ M!Open /\ ~ M!Skip
        BY <1>1, <2>1, ElementKnown
  <2>3. QED
        BY <1>1, <2>1, <2>2, ElementReadInt, ElementReadText, ElementClose, ElementDone
<1>5. QED
      BY <1>2, <1>3, <1>4

LEMMA NextMessageInv == MessageInv /\ [TextNext]_textVars => MessageInv'
<1> SUFFICES ASSUME MessageInv, [TextNext]_textVars PROVE MessageInv'
    OBVIOUS
<1>1. about' = about
      BY DEF TextNext, textVars
<1>2. CASE about.fn # "message"
      BY <1>1, <1>2 DEF MessageInv
<1>3. CASE UNCHANGED textVars
      BY <1>3 DEF textVars, message, MessageInv, Writing, Reading, Finished, Handed, M!Over, M!Empty
<1>4. CASE about.fn = "message" /\ M!Next
  <2>1. CASE M!ByteSizeLong \/ M!Sized \/ M!Serialize \/ M!HandOver
        BY <1>1, <1>4, <2>1, StepByteSizeLong, StepSized, StepSerialize, StepHandOver
  <2>2. CASE M!ReadInt \/ M!ReadText \/ M!Open \/ M!Close \/ M!Skip \/ M!Done
    <3>1. stage = "read"
          BY <2>2 DEF M!ReadInt, M!ReadText, M!Open, M!Close, M!Skip, M!Done, M!AtField
    <3>2. QED
          BY <1>1, <1>4, <2>2, <3>1, ReadingMessageInv
  <2>3. QED
        BY <1>4, <2>1, <2>2 DEF M!Next
<1>5. QED
      BY <1>2, <1>3, <1>4 DEF TextNext

\* What was handed over whole is read up to its end.
LEMMA ReadToEnd ==
    ASSUME NEW d, M!WellFormed(d), NEW s, IsSums(d, s), NEW b, Laid(d, s, b, Len(s)),
           NEW r \in 1..Len(s), s[r].at = Len(b)
    PROVE  r = Len(s)
<1>1. Len(s) \in Nat
      BY DEF IsSums
<1>2. ASSUME r # Len(s) PROVE FALSE
  <2>1. r \in 1..(Len(s) - 1)
        BY <1>1, <1>2
  <2>2. s[r + 1].at = s[r].at + M!Size(d, s[r].item) /\ ~ M!AtEnd(d, s[r].item)
        BY <2>1 DEF IsSums
  <2>3. s[r + 1].at <= Len(b)
        BY <2>1 DEF Laid
  <2>4. M!Size(d, s[r].item) \in Nat /\ M!Size(d, s[r].item) > 0 /\ s[r].at \in Nat
        BY <2>2, SumIs, SizeIs
  <2>5. QED
        BY <2>2, <2>3, <2>4
<1>3. QED
      BY <1>2

LEMMA MessageInvReads == MessageInv => MessageIsRead
<1> SUFFICES ASSUME MessageInv, about.fn = "message", M!Over PROVE M!ReadsBack
    BY DEF MessageIsRead, M!ReadsBack
<1> DEFINE l == Len(sums)
<1>1. M!WellFormed(about) /\ Handed /\ Finished /\ stage \in {"parsed", "failed"}
      BY DEF MessageInv, M!Over
<1>2. /\ IsSums(about, sums) /\ M!AtEnd(about, sums[l].item)
      /\ Laid(about, sums, bytes, l)
      BY <1>1 DEF Handed
<1>3. Len(bytes) = sums[l].at /\ l \in 1..l
      BY <1>2 DEF Laid
<1>4. ASSUME stage = "parsed"
      PROVE  \E r \in 1..l : /\ Len(input) = sums[r].at /\ ReadableUpto(about, sums[r].item)
                             /\ got = M!MergeFrom(about.type, about.into, M!Upto(about, sums[r].item))
      BY <1>1, <1>4 DEF Finished, ReadTo, Merged
<1>5. ASSUME stage = "parsed", Len(input) = Len(bytes)
      PROVE  /\ M!Valid(about)
             /\ got = M!MergeFrom(about.type, about.into, M!Upto(about, sums[l].item))
  <2>1. PICK r \in 1..l :
            /\ Len(input) = sums[r].at /\ ReadableUpto(about, sums[r].item)
            /\ got = M!MergeFrom(about.type, about.into, M!Upto(about, sums[r].item))
        BY <1>4, <1>5
  <2>2. r = l
        BY <1>1, <1>2, <1>5, <2>1, ReadToEnd
  <2>3. sums[l].item \in Places(about)
        BY <1>2, <1>3, SumIs
  <2>4. QED
        BY <1>1, <1>2, <2>1, <2>2, <2>3, ReadableEnd
<1>6. Len(input) = Len(bytes) => (stage = "parsed" <=> M!Valid(about))
      BY <1>1, <1>5 DEF Finished
<1>7. stage = "parsed" =>
          \E n \in DOMAIN sums :
              /\ Len(input) = sums[n].at
              /\ got = M!MergeFrom(about.type, about.into, M!Upto(about, sums[n].item))
  <2>1. DOMAIN sums = 1..l
        BY <1>2 DEF IsSums
  <2>2. QED
        BY <1>4, <2>1
<1>8. ASSUME stage = "parsed", Len(input) = Len(bytes), about.known = Len(about.type)
      PROVE  got = M!MergeFrom(about.type, about.into, about.msg)
  <2>1. got = Merged(about, sums[l].item)
        BY <1>5, <1>8 DEF Merged
  <2>2. sums[l].item \in Places(about)
        BY <1>2, <1>3, SumIs
  <2>3. QED
        BY <1>1, <1>2, <1>8, <2>1, <2>2, MergedEnd
<1>9. QED
      BY <1>3, <1>6, <1>7, <1>8 DEF M!ReadsBack

\* The word in a file holds the field of the id if it is there without a blank.
LEMMA IdIsWhole ==
    ASSUME M!WellFormed(about), Handed, IsIdFile(about)
    PROVE  Len(IdPut(about)) <= Len(input) <=>
               /\ Len(IdPut(about)) <= kept
               /\ \A j \in DOMAIN IdPut(about) : IdPut(about)[j] \notin M!Space
<1> DEFINE w == IdPut(about)
           t == SubSeq(bytes, 1, kept)
<1>1. /\ IsSums(about, sums) /\ M!AtEnd(about, sums[Len(sums)].item)
      /\ Laid(about, sums, bytes, Len(sums)) /\ kept \in 0..Len(bytes) /\ about.file
      /\ input = M!Word(t) /\ bytes \in Seq(M!Byte) /\ Len(bytes) \in Nat /\ kept \in Nat
      BY DEF Handed, IsIdFile, Laid
<1>2. CASE about.msg[4] = <<>>
  <2>1. w = <<>>
        BY <1>2 DEF IdPut, M!PutScalar, M!Default, M!Text
  <2>2. Len(w) = 0 /\ DOMAIN w = {}
        BY <2>1
  <2>3. Len(input) \in Nat
        BY DEF Handed, Prefix
  <2> HIDE DEF w
  <2>4. QED
        BY <1>1, <2>2, <2>3 DEF w
<1>3. CASE about.msg[4] # <<>>
  <2>1. /\ sums[1].item = <<4, 1>> /\ sums[1].at = 0 /\ 1 \in 1..(Len(sums) - 1)
        /\ sums[2].at = Len(w) /\ Len(w) \in Nat /\ w = M!Put(about, <<4, 1>>)
        BY <1>1, <1>3, IdIsFirst
  <2>2. w \in Seq(M!Byte) /\ Len(w) = M!Size(about, <<4, 1>>)
    <3>1. ~ M!AtEnd(about, <<4, 1>>) /\ <<4, 1>> \in Places(about)
      <4>1. 1 \in 1..Len(sums)
            BY <1>1 DEF IsSums
      <4>2. sums[1].item \in Places(about)
            BY <1>1, <4>1, SumIs
      <4>3. ~ M!AtEnd(about, sums[1].item)
            BY <1>1, <2>1 DEF IsSums
      <4>4. QED
            BY <2>1, <4>2, <4>3
    <3>2. QED
          BY <2>1, <3>1, SizeIs
  <2>3. \A j \in 1..Len(w) : bytes[j] = w[j]
    <3>1. \A j \in 1..M!Size(about, sums[1].item) :
              bytes[sums[1].at + j] = M!Put(about, sums[1].item)[j]
          BY <1>1, <2>1 DEF Laid
    <3>2. \A j \in 1..Len(w) : bytes[0 + j] = w[j]
          BY <2>1, <2>2, <3>1
    <3>3. \A j \in 1..Len(w) : 0 + j = j
          BY <2>1
    <3>4. QED
          BY <3>2, <3>3
  <2>4. t \in Seq(M!Byte) /\ Len(t) = kept /\ \A j \in 1..kept : t[j] = bytes[j]
        BY <1>1, SubSeqIsPrefix
  <2>5. t # <<>> => t[1] \notin M!Space
    <3>1. t # <<>> => kept > 0
          BY <1>1, <2>4
    <3>2. kept > 0 => bytes # <<>> /\ 1 \in 1..kept
          BY <1>1
    <3>3. bytes # <<>> => bytes[1] \notin M!Space
          BY <1>1, FirstByte
    <3>4. QED
          BY <2>4, <3>1, <3>2, <3>3
  <2> HIDE DEF t, w
  <2>6. PICK m \in 0..Len(t) : /\ M!Word(t) = SubSeq(t, 1, m)
                               /\ \A j \in 1..m : t[j] \notin M!Space
                               /\ m < Len(t) => t[m + 1] \in M!Space
        BY <2>4, <2>5, WordIs
  <2>7. Len(input) = m
        BY <1>1, <2>4, <2>6, SubSeqIsPrefix
  <2>8. m \in Nat /\ m <= kept /\ DOMAIN w = 1..Len(w)
        BY <1>1, <2>2, <2>4, <2>6
  <2>9. ASSUME Len(w) <= m, NEW j \in 1..Len(w) PROVE w[j] \notin M!Space
    <3>1. j \in 1..m /\ j \in 1..kept
          BY <1>1, <2>1, <2>8, <2>9
    <3>2. QED
          BY <2>3, <2>4, <2>6, <2>9, <3>1
  <2>10. ASSUME Len(w) <= kept, \A j \in 1..Len(w) : w[j] \notin M!Space, ~(Len(w) <= m)
         PROVE  FALSE
    <3>1. m + 1 \in 1..Len(w) /\ m + 1 \in 1..kept /\ m < kept
          BY <1>1, <2>1, <2>8, <2>10
    <3>2. t[m + 1] = w[m + 1]
          BY <2>3, <2>4, <3>1
    <3>3. QED
          BY <2>4, <2>6, <2>10, <3>1, <3>2
  <2>11. Len(w) <= m => Len(w) <= kept
         BY <1>1, <2>1, <2>8
  <2>12. QED
         BY <2>7, <2>8, <2>9, <2>10, <2>11 DEF w
<1>4. QED
      BY <1>2, <1>3

LEMMA MessageInvKeepsId == MessageInv => IdSurvives
<1> SUFFICES ASSUME MessageInv, about.fn = "message", M!Over, IsIdFile(about)
             PROVE  M!IdSurvives
    BY DEF IdSurvives, M!IdSurvives, IsIdFile
<1>1. M!WellFormed(about) /\ Handed /\ Finished
      BY DEF MessageInv, M!Over
<1>2. IdLeft(about, input, got)
      BY <1>1 DEF Finished
<1>3. QED
      BY <1>1, <1>2, IdIsWhole DEF M!IdSurvives, IdLeft, IdPut

LEMMA MessageInvHolds == TextSpec => []MessageInv
BY InitMessageInv, NextMessageInv, PTL DEF TextSpec

(***************************************************************************)
(* For messages of any type and with any values: what is written has as    *)
(* many bytes as were measured, and is read as it was written and merged   *)
(* into the message that is there, wherever it is cut.                     *)
(***************************************************************************)
THEOREM MessagesAreRead == TextSpec => []MessageIsRead
BY MessageInvHolds, MessageInvReads, PTL

(***************************************************************************)
(* An id of any length that was saved is found again by load_from_file, or *)
(* cut at a blank or where the file ends.                                  *)
(***************************************************************************)
THEOREM IdIsFound == TextSpec => []IdSurvives
BY MessageInvHolds, MessageInvKeepsId, PTL
==============================================================================
