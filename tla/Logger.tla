--------------------------------- MODULE Logger ---------------------------------
(***************************************************************************)
(* class Logger and its appenders (src/src/log.h, log.cc): every thread    *)
(* logs through one Logger, which hands the event to the appenders in the  *)
(* order of their names; each appender filters by its level and prints     *)
(* under a mutex of its own.  The console prints item by item to std::cout,*)
(* syslog takes the whole text at once.                                    *)
(***************************************************************************)
EXTENDS Naturals, Sequences

CONSTANTS Threads,   \* the threads that log
          NoThread,  \* the owner of a free mutex
          Levels,    \* the levels of events, Fatal = 0 to Debug = 4
          level_,    \* the level of the appenders
          MaxLog     \* bound: events of one thread

\* init_default adds syslog and then console; std::map orders them by name.
appenders_ == <<"console", "syslog">>

\* the writes one event takes: two items stand for the items of a pattern
Pieces(a) == IF appenders_[a] = "console" THEN 2 ELSE 1

VARIABLES pc, at, level,   \* each thread in log(): step, appender, event
          events,          \* history: the levels of a thread's events
          mutex_,          \* the owner of each appender's mutex
          part,            \* the pieces of its event a thread has written
          out              \* what each appender has put out

vars == <<pc, at, level, events, mutex_, part, out>>

Init ==
    /\ pc = [t \in Threads |-> "idle"]
    /\ at = [t \in Threads |-> 1]
    /\ level = [t \in Threads |-> 0]
    /\ events = [t \in Threads |-> <<>>]
    /\ mutex_ = [a \in DOMAIN appenders_ |-> NoThread]
    /\ part = [t \in Threads |-> 0]
    /\ out = [a \in DOMAIN appenders_ |-> <<>>]

Log(t, l) ==
    /\ pc[t] = "idle" /\ Len(events[t]) < MaxLog
    /\ pc' = [pc EXCEPT ![t] = "lock"]
    /\ at' = [at EXCEPT ![t] = 1]
    /\ level' = [level EXCEPT ![t] = l]
    /\ events' = [events EXCEPT ![t] = Append(@, l)]
    /\ UNCHANGED <<mutex_, part, out>>

\* Fault: the appender prints without its mutex.
FaultLock(t) ==
    /\ pc[t] = "lock"
    /\ pc' = [pc EXCEPT ![t] = "print"]
    /\ part' = [part EXCEPT ![t] = 0]
    /\ UNCHANGED <<at, level, events, mutex_, out>>

Lock(t) ==
    /\ pc[t] = "lock"
    /\ mutex_[at[t]] = NoThread
    /\ mutex_' = [mutex_ EXCEPT ![at[t]] = t]
    /\ pc' = [pc EXCEPT ![t] = "print"]
    /\ part' = [part EXCEPT ![t] = 0]
    /\ UNCHANGED <<at, level, events, out>>

Ignored(t) == level[t] > level_

PrintPiece(t) ==
    /\ pc[t] = "print"
    /\ ~Ignored(t) /\ part[t] < Pieces(at[t])
    /\ out' = [out EXCEPT ![at[t]] = Append(@, <<t, Len(events[t]), part[t] + 1>>)]
    /\ part' = [part EXCEPT ![t] = @ + 1]
    /\ UNCHANGED <<pc, at, level, events, mutex_>>

\* The event is printed or ignored: the guard is destroyed, the loop goes on.
Unlock(t) ==
    /\ pc[t] = "print"
    /\ Ignored(t) \/ part[t] = Pieces(at[t])
    /\ mutex_' = [mutex_ EXCEPT ![at[t]] = NoThread]
    /\ at' = [at EXCEPT ![t] = @ + 1]
    /\ pc' = [pc EXCEPT ![t] = IF at[t] = Len(appenders_) THEN "idle" ELSE "lock"]
    /\ UNCHANGED <<level, events, part, out>>

Go(t) == Lock(t) \/ PrintPiece(t) \/ Unlock(t)

Next == \E t \in Threads : Go(t) \/ \E l \in Levels : Log(t, l)

Spec == Init /\ [][Next]_vars

------------------------------------------------------------------------------
(* Properties *)

(***************************************************************************)
(* The items of an event stay together on the console: a piece that is not *)
(* the first follows the piece before it of the same event.                *)
(***************************************************************************)
EventsWhole ==
    \A a \in DOMAIN out : \A i \in DOMAIN out[a] :
        LET p == out[a][i] IN
        p[3] > 1 => i > 1 /\ out[a][i - 1] = <<p[1], p[2], p[3] - 1>>

(***************************************************************************)
(* Every appender puts out the events of a thread in the order in which    *)
(* the thread logged them, none of them twice, and exactly those whose     *)
(* level is not above its own.  The order between threads may differ from  *)
(* one appender to the other.                                              *)
(***************************************************************************)
Loud(t) == {n \in DOMAIN events[t] : events[t][n] <= level_}

First(t, a) == {i \in DOMAIN out[a] : out[a][i][1] = t /\ out[a][i][3] = 1}

Printed(t, a) == {out[a][i][2] : i \in First(t, a)}

LoggedOnce ==
    \A t \in Threads, a \in DOMAIN out :
        /\ \A i, j \in First(t, a) : i < j => out[a][i][2] < out[a][j][2]
        /\ pc[t] = "idle" => Printed(t, a) = Loud(t)
==============================================================================
