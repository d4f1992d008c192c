------------------------------ MODULE Application ------------------------------
(***************************************************************************)
(* class Application (src/src/application.cc) with class Thread            *)
(* (thread.cc) and the two hosts: main() of main.cc, which starts the      *)
(* application and at once destroys it, and the plugin of plugin.cc, whose *)
(* Start and Stop a daemon calls before it ends.  start() creates a thread *)
(* for every responder and every collector, stop() cancels the threads,    *)
(* and the destructor joins them in their order.                           *)
(*                                                                         *)
(* Of what a thread runs only its shape is kept: whether it waits, ends,   *)
(* gets stuck, or ends the process.  The part of ExplanModule that is not  *)
(* in RespChain is here too: the plan a user switches on, and what a new   *)
(* process finds of it.                                                    *)
(***************************************************************************)
EXTENDS Naturals, Sequences

CONSTANTS MaxStops,     \* bound: calls of Stop in the first process, one less
                        \* in each later one
          MaxSignals,   \* bound: SIGINTs that do not end a process
          MaxProcesses  \* bound: processes one after the other

ASSUME BoundsAssumption ==
    MaxStops \in Nat /\ MaxSignals \in Nat /\ MaxProcesses \in Nat \ {0}

\* resp_vec and col_vec of start()
resp_vec == <<"explan", "web", "network">>
col_vec == <<"hardware", "database", "app">>

VARIABLES
    host,       \* who has the application: "main" or "plugin"
    alive,      \* the process runs
    process,    \* how many there have been
    pc, n,      \* the main thread, and its place in a loop
    threads_,   \* Seq of [job, at, cancel]
    db_open,    \* connect() of the database has opened it
    blocked_,   \* of ExplanModule: the plan is off
    experience_enable,   \* of SystemInfo
    exported,   \* init() of the plan has installed its handlers on the bus
    stops, signals,      \* counters for the bounds
    wish        \* history: the process the plan was last switched on in, 0 if it
                \* was switched off since, or never on

vars == <<host, alive, process, pc, n, threads_, db_open, blocked_,
          experience_enable, exported, stops, signals, wish>>

main == <<pc, n, db_open, stops>>
plan == <<blocked_, experience_enable, wish>>
world == <<host, process, exported>>

Jobs == {"explan", "web", "network", "hardware", "database", "app"}

Begin(h, p) ==
    /\ host = h /\ process = p /\ alive = TRUE
    /\ pc = "idle" /\ n = 1 /\ threads_ = <<>> /\ db_open = FALSE
    /\ blocked_ = TRUE /\ experience_enable = FALSE /\ exported = FALSE
    /\ stops = 0 /\ signals = 0

Init ==
    /\ \E h \in {"main", "plugin"} : Begin(h, 1)
    /\ wish = 0

------------------------------------------------------------------------------
(* The threads *)

Over(t) == t.at \in {"ended", "cancelled"}
Create(job) == [job |-> job, at |-> "begin", cancel |-> FALSE]
To(i, at) == threads_' = [threads_ EXCEPT ![i].at = at]

\* init() of the web writer is empty, collect() of the hardware and of the
\* application collector end once the service they wait for is there.
Finish(i) ==
    /\ threads_[i].at = "begin"
    /\ threads_[i].job \in {"web", "hardware", "app"}
    /\ To(i, "ended")

\* init() of the plan and of the network end in sigwait(), that of the plan
\* behind the export of its object.
Wait(i) ==
    /\ threads_[i].at = "begin"
    /\ threads_[i].job = "network" \/ (threads_[i].job = "explan" /\ exported)
    /\ To(i, "wait")

\* read() of the database locks the mutex it holds; without a database it
\* returns before that.
Read(i) ==
    /\ threads_[i].at = "begin" /\ threads_[i].job = "database"
    /\ To(i, IF db_open THEN "stuck" ELSE "ended")

\* Fault: a thread that waits for a lock is cancelled as well.
FaultCancelled(i) ==
    /\ threads_[i].cancel /\ ~Over(threads_[i])
    /\ To(i, "cancelled")

\* Cancelling is deferred to a point where the thread prints, sleeps or waits
\* for a signal; waiting for a mutex is none.
Cancelled(i) ==
    /\ threads_[i].cancel /\ threads_[i].at \in {"begin", "wait"}
    /\ To(i, "cancelled")

Step(i) == Finish(i) \/ Wait(i) \/ Read(i) \/ Cancelled(i)

Thread ==
    /\ alive
    /\ \E i \in DOMAIN threads_ : Step(i)
    /\ UNCHANGED <<world, alive, main, plan, signals>>

\* init() of the plan installs the handlers of its object.
Export ==
    /\ alive /\ ~exported
    /\ \E i \in DOMAIN threads_ : threads_[i].job = "explan" /\ threads_[i].at = "begin"
    /\ exported' = TRUE
    /\ UNCHANGED <<host, process, alive, main, threads_, plan, signals>>

\* What can end the process: an exception that leaves init() of the plan or
\* of the network, the null pointers of the hardware collector and, once the
\* application collector has subscribed, of its signal handlers.
Kills(t) ==
    \/ t.at = "begin" /\ t.job \in {"explan", "network", "hardware"}
    \/ t.at = "ended" /\ t.job = "app"

Die ==
    /\ alive
    /\ \E i \in DOMAIN threads_ : Kills(threads_[i])
    /\ alive' = FALSE
    /\ UNCHANGED <<world, main, threads_, plan, signals>>

\* Fault: a signal wakes every thread that waits for one.
FaultInterrupt ==
    /\ alive /\ signals < MaxSignals
    /\ signals' = signals + 1
    /\ threads_' = [i \in DOMAIN threads_ |->
                       IF threads_[i].at = "wait"
                       THEN [threads_[i] EXCEPT !.at = "ended"] ELSE threads_[i]]
    /\ UNCHANGED <<world, alive, main, plan>>

\* SIGINT is blocked nowhere: it ends the process, or one sigwait() takes it.
Interrupt ==
    /\ alive
    /\ \/ /\ alive' = FALSE
          /\ UNCHANGED <<threads_, signals>>
       \/ /\ signals < MaxSignals
          /\ signals' = signals + 1
          /\ \E i \in DOMAIN threads_ : threads_[i].at = "wait" /\ To(i, "ended")
          /\ UNCHANGED alive
    /\ UNCHANGED <<world, main, plan>>

------------------------------------------------------------------------------
(* The main thread *)

\* Fault: the collectors are started before the writers are connected.
FaultPhases == <<"config", "resp", "collector", "writer">>

\* what start() does when the modules are made
Phases == <<"config", "resp", "writer", "collector">>

Go(at) == pc' = at /\ n' = 1

\* main() returns behind start(), so that the application is destroyed.
After(phase) ==
    IF phase = Phases[4] THEN (IF host = "main" THEN "join" ELSE "run")
    ELSE Phases[1 + CHOOSE i \in 1..3 : Phases[i] = phase]

\* one turn of a loop of start() that creates threads
CreateIn(phase, vec) ==
    /\ pc = phase
    /\ threads_' = Append(threads_, Create(vec[n]))
    /\ IF n < Len(vec) THEN n' = n + 1 /\ UNCHANGED pc ELSE Go(After(phase))
    /\ UNCHANGED <<db_open, plan, stops>>

Start ==
    /\ pc = "idle"
    /\ Go(Phases[1])
    /\ UNCHANGED <<threads_, db_open, plan, stops>>

\* Fault: the module finds the plan of the last process.
FaultInitConfig ==
    /\ pc = "config"
    /\ blocked_' = (wish = 0)
    /\ experience_enable' = (wish # 0)
    /\ Go(After("config"))
    /\ UNCHANGED <<threads_, db_open, stops, wish>>

\* load_from_file of the plan asks an empty tree, gets the default, which is
\* its own state, and throws it away.
InitConfig ==
    /\ pc = "config"
    /\ experience_enable' = ~blocked_
    /\ Go(After("config"))
    /\ UNCHANGED <<threads_, db_open, blocked_, stops, wish>>

InitResp == CreateIn("resp", resp_vec)

\* connect() of the database may fail and says nothing; of the web it is empty.
InitWriter ==
    /\ pc = "writer"
    /\ \E opened \in BOOLEAN : db_open' = opened
    /\ Go(After("writer"))
    /\ UNCHANGED <<threads_, plan, stops>>

InitCollector == CreateIn("collector", col_vec)

Stop ==
    /\ pc = "run" /\ stops + process <= MaxStops
    /\ stops' = stops + 1
    /\ Go("stop")
    /\ UNCHANGED <<threads_, db_open, plan>>

\* Fault: the loop leaves out the last thread.
FaultStopThread ==
    /\ pc = "stop"
    /\ threads_' = [threads_ EXCEPT ![n].cancel = TRUE]
    /\ IF n < Len(threads_) - 1 THEN n' = n + 1 /\ UNCHANGED pc ELSE Go("run")
    /\ UNCHANGED <<db_open, plan, stops>>

\* Cancelling a thread that has ended does nothing.
StopThread ==
    /\ pc = "stop"
    /\ threads_' = [threads_ EXCEPT ![n].cancel = @ \/ ~Over(threads_[n])]
    /\ IF n < Len(threads_) THEN n' = n + 1 /\ UNCHANGED pc ELSE Go("run")
    /\ UNCHANGED <<db_open, plan, stops>>

\* The daemon ends; app is a global object of the plugin.
Exit ==
    /\ pc = "run"
    /\ Go("join")
    /\ UNCHANGED <<threads_, db_open, plan, stops>>

Join ==
    /\ pc = "join"
    /\ Over(threads_[n])
    /\ IF n < Len(threads_) THEN n' = n + 1 /\ UNCHANGED pc ELSE Go("gone")
    /\ UNCHANGED <<threads_, db_open, plan, stops>>

\* what the main thread does by itself, once start() or stop() is called
Goes == InitConfig \/ InitResp \/ InitWriter \/ InitCollector \/ StopThread \/ Join

Main ==
    /\ alive
    /\ Start \/ Stop \/ Exit \/ Goes
    /\ UNCHANGED <<world, alive, signals>>

------------------------------------------------------------------------------
(* The user, and the next process *)

\* The module goes with the thread that was created with it, the first that
\* the destructor joins.
Destroyed == pc = "gone" \/ (pc = "join" /\ n > 1)

\* A call of Enable on the bus: the object is there until its module goes,
\* whether the thread of init() has ended or not.
Enable(on) ==
    /\ alive /\ exported /\ ~Destroyed
    /\ blocked_' = ~on
    /\ wish' = IF on THEN process ELSE 0
    /\ UNCHANGED <<world, alive, main, threads_, experience_enable, signals>>

Restart ==
    /\ ~alive \/ pc = "gone"
    /\ process < MaxProcesses
    /\ process' = process + 1 /\ alive' = TRUE
    /\ pc' = "idle" /\ n' = 1 /\ threads_' = <<>> /\ db_open' = FALSE
    /\ blocked_' = TRUE /\ experience_enable' = FALSE /\ exported' = FALSE
    /\ stops' = 0 /\ signals' = 0
    /\ UNCHANGED <<host, wish>>

Next ==
    \/ Thread \/ Export \/ Die \/ Interrupt \/ Main \/ Restart
    \/ \E on \in BOOLEAN : Enable(on)

Spec == Init /\ [][Next]_vars

\* A thread that is cancelled gets to its next cancellation point, the loops
\* of start(), stop() and the destructor go on, a database read goes on.  No
\* service that is waited for has to appear, and nobody has to call or signal.
Fairness ==
    /\ WF_vars(alive /\ Goes /\ UNCHANGED <<world, alive, signals>>)
    /\ \A i \in 1..Len(resp_vec \o col_vec) :
          WF_vars(/\ alive /\ i \in DOMAIN threads_
                  /\ Cancelled(i) \/ Read(i)
                  /\ UNCHANGED <<world, alive, main, plan, signals>>)

FairSpec == Spec /\ Fairness

------------------------------------------------------------------------------
(* Properties *)

ThreadType ==
    [job : Jobs, at : {"begin", "wait", "stuck", "ended", "cancelled"}, cancel : BOOLEAN]

TypeOK ==
    /\ host \in {"main", "plugin"} /\ alive \in BOOLEAN /\ process \in 1..MaxProcesses
    /\ pc \in {"idle", "config", "resp", "writer", "collector", "run", "stop", "join", "gone"}
    /\ n \in 1..6
    /\ threads_ \in Seq(ThreadType)
    /\ Len(threads_) <= 6
    /\ \A i \in DOMAIN threads_ : threads_[i].job = (resp_vec \o col_vec)[i]
    /\ db_open \in BOOLEAN /\ blocked_ \in BOOLEAN /\ experience_enable \in BOOLEAN
    /\ exported \in BOOLEAN
    /\ stops \in 0..MaxStops /\ signals \in 0..MaxSignals
    /\ wish \in 0..MaxProcesses

(***************************************************************************)
(* No thread outlives the application whose modules and queues it uses:    *)
(* when the destructor is done every thread has ended.                     *)
(***************************************************************************)
NoThreadOutlives ==
    pc = "gone" => \A i \in DOMAIN threads_ : Over(threads_[i])

(***************************************************************************)
(* A database that could be opened keeps the application from ever going   *)
(* in peace: its collector waits for its own lock, which nothing ends, so  *)
(* once it does the destructor is never done, stopped or not.              *)
(***************************************************************************)
Stuck == \E i \in DOMAIN threads_ : threads_[i].at = "stuck"

StuckStays ==
    [][Stuck /\ process' = process => Stuck' /\ pc' # "gone"]_<<process, pc, threads_>>

(***************************************************************************)
(* The application of main() is destroyed without stop(): it goes only     *)
(* after two signals that woke the plan and the network.                   *)
(***************************************************************************)
GoesOnlyByTwoSignals == pc = "gone" /\ stops = 0 => signals >= 2

(***************************************************************************)
(* The destruction of the application, whoever hosts it: after its         *)
(* threads, and without stop() after two signals.                          *)
(***************************************************************************)
GoneInOrder == NoThreadOutlives /\ GoesOnlyByTwoSignals

(***************************************************************************)
(* The database is read by a thread that start() creates behind connect(): *)
(* the collector never finds a database that is not there yet, so that one *)
(* that returned has found none for good.                                  *)
(***************************************************************************)
ReadsConnected ==
    \A i \in DOMAIN threads_ :
        threads_[i].job = "database" /\ threads_[i].at = "ended" => ~db_open

(***************************************************************************)
(* A plan is forgotten with the process: the module is open only while the *)
(* last call of Enable was made in this process and said so.  A plan that  *)
(* was switched on before a restart is off after it, though there is a     *)
(* file to keep it in, and the flag set from it is never true.             *)
(***************************************************************************)
PlanIsForgotten ==
    /\ ~blocked_ <=> wish = process
    /\ ~experience_enable

(***************************************************************************)
(* A plugin that was stopped can be unloaded: when the destructor begins   *)
(* after stop(), it is done, or the process ends, or the collector of the  *)
(* database is stuck.                                                      *)
(***************************************************************************)
StoppedGoes ==
    pc = "join" /\ stops > 0 ~> pc # "join" \/ ~alive \/ Stuck
================================================================================
