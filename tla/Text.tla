--------------------------------- MODULE Text ---------------------------------
(***************************************************************************)
(* The log, the parser of its patterns, the parameters of a url, and the   *)
(* messages.  They share nothing, so a behaviour is about one of them: the *)
(* initial state chooses which, and which message.                         *)
(***************************************************************************)
EXTENDS LogFormater

CONSTANTS Threads,   \* the threads that log
          NoThread,  \* the owner of a free mutex
          Levels,    \* the levels of their events
          level_,    \* the level of the appenders
          MaxLog,    \* bound: events of one thread
          Inputs,    \* the messages to look at
          Utf8, Slop,              \* of Messages
          Keys, UrlTexts, MaxCalls    \* of UrlValues

VARIABLES about,     \* the fn of a component, or the input to look at
          pc, at, level, events, mutex_, part, out,  \* of Logger
          values_, calls, encoding, ahead, query,    \* of UrlValues
          stage, item, sums, bytes, kept, input,     \* of Messages
          ptr, sub, limit, got

ASSUME LogAssumption ==
    NoThread \notin Threads /\ Levels \subseteq Nat /\ level_ \in Nat

M == INSTANCE Messages WITH doc <- about

ASSUME InputsAssumption == \A x \in Inputs : x.fn = "message" /\ M!WellFormed(x)

ASSUME MessagesAssumption == <<>> \in Utf8 /\ Slop \subseteq Nat

\* The order of the map is that of numbers.
ASSUME KeysAssumption == Keys \subseteq Nat

logger == <<pc, at, level, events, mutex_, part, out>>
url == <<values_, calls, encoding, ahead, query>>
message == <<stage, item, sums, bytes, kept, input, ptr, sub, limit, got>>
textVars == <<about, vars, logger, url, message>>

L == INSTANCE Logger
U == INSTANCE UrlValues

------------------------------------------------------------------------------
ParserRests == log_pattern_ = <<>> /\ index = 1 /\ items_ = <<>> /\ reached = 0

TextInit ==
    /\ L!Init /\ U!Init
    /\ \/ about \in {[fn |-> "log"], [fn |-> "url"]} /\ ParserRests /\ M!Rests
       \/ about = [fn |-> "pattern"] /\ Init /\ M!Rests
       \/ about \in Inputs /\ M!Init /\ ParserRests

TextNext ==
    /\ UNCHANGED about
    /\ \/ about.fn = "log" /\ L!Next /\ UNCHANGED <<vars, url, message>>
       \/ about.fn = "pattern" /\ Next /\ UNCHANGED <<logger, url, message>>
       \/ about.fn = "url" /\ U!Next /\ UNCHANGED <<vars, logger, message>>
       \/ about.fn = "message" /\ M!Next /\ UNCHANGED <<vars, logger, url>>

TextSpec == TextInit /\ [][TextNext]_textVars

------------------------------------------------------------------------------
(* The properties of the modules, each of its own inputs; those of LogFormater
   are used as they are *)

\* The items of one event stay together on the console, and each appender puts
\* out a thread's events once, in order, by level.
EventsInOrder == L!EventsWhole /\ L!LoggedOnce

\* UrlValues::encode says what the calls of add and del left, its first pair
\* twice and no other.
EncodeRepeatsFirst == U!QuerySays /\ U!OnlyFirstTwice

\* A message is read as it was written, and merged into the one that is read
\* into; one that was cut between two items, as the items before the cut.
MessageIsRead == about.fn = "message" => M!ReadsBack

\* The id in a saved hardware file is found by load_from_file, or cut at a blank.
IdSurvives == about.fn = "message" => M!IdSurvives
==============================================================================
