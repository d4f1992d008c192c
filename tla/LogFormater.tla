------------------------------ MODULE LogFormater ------------------------------
(***************************************************************************)
(* LogFormater::init (src/src/log.cc): the loop that turns a pattern such  *)
(* as "%d{%H:%M}%T%m%n" into the list of items a message is printed with.  *)
(* One action is one turn of the for loop; characters are counted from 1   *)
(* here and End is the null character behind the last.                     *)
(***************************************************************************)
EXTENDS Naturals, Sequences, FiniteSets

CONSTANTS Char,      \* the characters of a pattern
          Letters,   \* those that name a field: T u N p L f c l m n
          End,       \* the null character std::string has at its end
          Patterns   \* the patterns to look at

ASSUME CharAssumption ==
    /\ Patterns \subseteq Seq(Char)
    /\ {"%", "d", "{", "}"} \subseteq Char /\ End \notin Char
    /\ Letters \subseteq Char \ {"%", "d", "{", "}"}

VARIABLES log_pattern_, index, items_,
          reached   \* history: the last position that was read

vars == <<log_pattern_, index, items_, reached>>

Init ==
    /\ log_pattern_ \in Patterns
    /\ index = 1 /\ items_ = <<>> /\ reached = 0

Size == Len(log_pattern_)
At(i) == IF i <= Size THEN log_pattern_[i] ELSE End

Date(format) == [item |-> "date", text |-> format]
DefaultFormat == <<"%", "H">>
Item(c) ==
    CASE c = "d"          -> Date(<<>>)
      [] c \in Letters    -> [item |-> "field", text |-> <<c>>]
      [] OTHER            -> [item |-> "string", text |-> <<c>>]

\* the position of the first closing brace after the date that begins here
Closing(n) == n \in index+1..Size /\ At(n) = "}"
                 /\ \A k \in index+1..n-1 : At(k) # "}"

Read(n) == reached' = IF n > reached THEN n ELSE reached

\* Fault: the percent sign is not skipped.
FaultPercent ==
    /\ At(index) = "%"
    /\ items_' = Append(items_, Item("%"))
    /\ index' = index + 1
    /\ Read(index)

Percent ==
    /\ At(index) = "%"
    /\ index' = index + 1
    /\ Read(index)
    /\ UNCHANGED items_

\* A date without braces gets the default format and ends the loop: break.
BareDate ==
    /\ At(index) = "d" /\ At(index + 1) # "{"
    /\ items_' = Append(items_, Date(DefaultFormat))
    /\ index' = Size + 1
    /\ Read(index + 1)

\* Fault: the end of the pattern is taken for the closing brace.
FaultBracedDate ==
    /\ At(index) = "d" /\ At(index + 1) = "{"
    /\ \E n \in index+1..Size + 1 :
          /\ At(n) = "}" \/ n = Size + 1
          /\ items_' = items_ \o <<Date(SubSeq(log_pattern_, index + 2, n - 1)),
                                   Item(At(n + 1))>>
          /\ index' = n + 2
          /\ Read(n + 1)

\* The text between the braces is the format; the character behind the brace
\* becomes an item whatever it is, and the loop goes on after that one.
BracedDate ==
    /\ At(index) = "d" /\ At(index + 1) = "{"
    /\ \E n \in index+1..Size :
          /\ Closing(n)
          /\ items_' = items_ \o <<Date(SubSeq(log_pattern_, index + 2, n - 1)),
                                   Item(At(n + 1))>>
          /\ index' = n + 2
          /\ Read(n + 1)

\* Without a closing brace the letter is a date with an empty format.
OpenDate ==
    /\ At(index) = "d" /\ At(index + 1) = "{"
    /\ \A n \in index+1..Size : At(n) # "}"
    /\ items_' = Append(items_, Item("d"))
    /\ index' = index + 1
    /\ Read(Size)

Other ==
    /\ At(index) \notin {"%", "d"}
    /\ items_' = Append(items_, Item(At(index)))
    /\ index' = index + 1
    /\ Read(index)

Next ==
    /\ index <= Size
    /\ Percent \/ BareDate \/ BracedDate \/ OpenDate \/ Other
    /\ UNCHANGED log_pattern_

Spec == Init /\ [][Next]_vars

------------------------------------------------------------------------------
(* Properties *)

(***************************************************************************)
(* The parser looks ahead behind a `d' and behind a brace, and never reads *)
(* beyond the null character that ends the string.                         *)
(***************************************************************************)
InBounds == reached <= Size + 1

(***************************************************************************)
(* A percent sign is no output: as an item, or the null character as one,  *)
(* it can only be the character behind the brace of a date, which the      *)
(* pattern of the application prints after the time.                       *)
(***************************************************************************)
StrayOnlyAfterDate ==
    \A i \in DOMAIN items_ :
        items_[i].text \in {<<"%">>, <<End>>} /\ items_[i].item = "string" =>
            i > 1 /\ items_[i - 1].item = "date"

(***************************************************************************)
(* Without a date the items are the letters of the pattern in their order, *)
(* each once.                                                              *)
(***************************************************************************)
Plain == {i \in 1..Size : At(i) # "%"}

Rank(i) == Cardinality({j \in Plain : j <= i})

LettersInOrder ==
    index > Size /\ (\A i \in 1..Size : At(i) # "d") =>
        /\ Len(items_) = Cardinality(Plain)
        /\ \A i \in Plain : items_[Rank(i)] = Item(At(i))

(***************************************************************************)
(* What the items of a pattern are: both of the above.                     *)
(***************************************************************************)
ItemsAreThePattern == StrayOnlyAfterDate /\ LettersInOrder
================================================================================
