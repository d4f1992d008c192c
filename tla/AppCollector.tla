------------------------------ MODULE AppCollector ------------------------------
(***************************************************************************)
(* class AppCollector (src/src/data.cc): the thread of collect() waits for *)
(* the dock, subscribes to its signals and ends; the handlers are for a    *)
(* thread of the bus, one after the other, while the dock goes on.  The    *)
(* code installs an executor and no thread runs it: the steps of that      *)
(* thread may be taken and nothing makes them happen, so that only safety  *)
(* is stated.  The signal objects are locals; the handlers keep references *)
(* to locals of calls that have returned; and pop_req() writes through a   *)
(* null pointer.                                                           *)
(***************************************************************************)
EXTENDS Naturals, Sequences

CONSTANTS Entries,    \* the entries the dock may have
          Packaged,   \* those whose desktop file dpkg knows
          MaxSignals  \* bound: signals on the way

ASSUME DockAssumption ==
    Packaged \subseteq Entries /\ "none" \notin Entries /\ MaxSignals \in Nat \ {0}

VARIABLES
    alive,      \* the process runs
    pc,         \* collect(): "wait", "added", "removed" or "ended"
    added, removed,   \* the two signals of the dock are connected
    dock, open, \* the entries of the dock, and those that have a window
    signals,    \* on the way to the process
    at, entry,  \* the thread of the bus: where in a handler, and for which entry
    monitored,  \* the entries whose PropertiesChanged is connected
    apps_,      \* the applications that are known to be open
    late,       \* history: the entries EntryAdded has been sent for
    keeps       \* the library keeps the connection of a signal object that is gone

vars ==
    <<alive, pc, added, removed, dock, open, signals, at, entry, monitored, apps_, late, keeps>>

collector == <<pc, added, removed>>
service == <<dock, open, late>>
bus == <<at, entry, monitored, apps_>>

None == "none"

Init ==
    /\ alive = TRUE /\ pc = "wait" /\ added = FALSE /\ removed = FALSE
    /\ dock \in SUBSET Entries /\ open \in SUBSET dock /\ late = {}
    /\ signals = <<>> /\ keeps \in BOOLEAN
    /\ at = "idle" /\ entry = None /\ monitored = {} /\ apps_ = {}

------------------------------------------------------------------------------
(* collect() *)

\* Fault: the entries that were read are monitored as well.
FaultConnectAdded ==
    /\ pc = "wait" /\ pc' = "added" /\ added' = TRUE
    /\ monitored' = monitored \cup (dock \cap Packaged)
    /\ UNCHANGED <<removed, at, entry, apps_>>

\* The dock is there; its entries are read and not used.
ConnectAdded ==
    /\ pc = "wait" /\ pc' = "added" /\ added' = TRUE
    /\ UNCHANGED <<removed, bus>>

ConnectRemoved ==
    /\ pc = "added" /\ pc' = "removed" /\ removed' = TRUE
    /\ UNCHANGED <<added, bus>>

\* It ends, or a call on the bus throws, which is caught and not reported.
\* The two signal objects go.
Return ==
    /\ pc # "ended" /\ pc' = "ended"
    /\ added' = (added /\ keeps) /\ removed' = (removed /\ keeps)
    /\ UNCHANGED bus

Collect ==
    /\ alive
    /\ ConnectAdded \/ ConnectRemoved \/ Return
    /\ UNCHANGED <<alive, service, signals, keeps>>

------------------------------------------------------------------------------
(* The dock *)

Signal(name, e, connected) ==
    IF connected THEN /\ Len(signals) < MaxSignals
                      /\ signals' = Append(signals, [name |-> name, entry |-> e])
    ELSE UNCHANGED signals

EntryAdded(e) ==
    /\ e \notin dock
    /\ dock' = dock \cup {e}
    /\ Signal("added", e, added)
    /\ late' = IF added THEN late \cup {e} ELSE late
    /\ UNCHANGED open

EntryRemoved(e) ==
    /\ e \in dock
    /\ dock' = dock \ {e} /\ open' = open \ {e}
    /\ Signal("removed", e, removed)
    /\ UNCHANGED late

\* the property WindowInfos of an entry
WindowsChanged(e) ==
    /\ e \in dock
    /\ \/ /\ e \notin open /\ open' = open \cup {e}
          /\ Signal("opened", e, e \in monitored)
       \/ /\ e \in open /\ open' = open \ {e}
          /\ Signal("closed", e, e \in monitored)
    /\ UNCHANGED <<dock, late>>

Dock ==
    /\ \E e \in Entries : EntryAdded(e) \/ EntryRemoved(e) \/ WindowsChanged(e)
    /\ UNCHANGED <<alive, collector, bus, keeps>>

------------------------------------------------------------------------------
(* The handlers, in the thread of the bus *)

\* some handler is connected for a signal
Heard(s) ==
    CASE s.name = "added" -> added
      [] s.name = "removed" -> removed
      [] OTHER -> s.entry \in monitored

\* the next signal is one of this name
Receive(name) ==
    /\ at = "idle" /\ signals # <<>> /\ Head(signals).name = name
    /\ Heard(Head(signals))
    /\ signals' = Tail(signals)

Rest == at' = "idle" /\ entry' = None
Keep == UNCHANGED <<alive, monitored, apps_>>

\* The connection to PropertiesChanged is a local of monitor_entry.
Leave == monitored' = IF keeps THEN monitored ELSE monitored \ {entry}

\* A signal whose connection has gone is read and dropped.
Unheard ==
    /\ at = "idle" /\ signals # <<>> /\ ~Heard(Head(signals))
    /\ signals' = Tail(signals)
    /\ UNCHANGED <<at, entry>> /\ Keep

\* The handler of EntryAdded copies que, a parameter of collect(): when that
\* has returned the copy may end the process.
OnAdded ==
    /\ Receive("added")
    /\ \/ at' = "added" /\ entry' = Head(signals).entry /\ UNCHANGED alive
       \/ pc = "ended" /\ alive' = FALSE /\ UNCHANGED <<at, entry>>
    /\ UNCHANGED <<monitored, apps_>>

\* It finds nothing that it would change, and only logs.
OnRemoved == Receive("removed") /\ UNCHANGED <<at, entry>> /\ Keep

\* A property of an entry that is gone cannot be read: the exception ends the
\* process or only the handler, as the library has it.
Throw ==
    /\ at \in {"added", "monitored"} /\ entry \notin dock
    /\ Rest /\ Leave /\ alive' \in BOOLEAN
    /\ UNCHANGED <<signals, apps_>>

\* Fault: only an entry that has a window is monitored.
FaultMonitor ==
    /\ at = "added" /\ entry \in dock
    /\ IF entry \in Packaged \cap open
       THEN at' = "monitored" /\ monitored' = monitored \cup {entry} /\ UNCHANGED entry
       ELSE Rest /\ UNCHANGED monitored
    /\ UNCHANGED <<alive, signals, apps_>>

\* monitor_entry, up to the connection
Monitor ==
    /\ at = "added" /\ entry \in dock
    /\ IF entry \in Packaged
       THEN at' = "monitored" /\ monitored' = monitored \cup {entry} /\ UNCHANGED entry
       ELSE Rest /\ UNCHANGED monitored
    /\ UNCHANGED <<alive, signals, apps_>>

\* add_entry: an application that is not known yet
AddEntry(e) ==
    IF e \in apps_ THEN Rest /\ UNCHANGED apps_
    ELSE at' = "pop" /\ entry' = e /\ apps_' = apps_ \cup {e}

\* Fault: the windows are not read behind the connection.
FaultReadWindows ==
    /\ at = "monitored" /\ Rest /\ Leave
    /\ UNCHANGED <<alive, signals, apps_>>

\* monitor_entry, behind the connection
ReadWindows ==
    /\ at = "monitored" /\ entry \in dock
    /\ IF entry \in open THEN AddEntry(entry) /\ UNCHANGED monitored
       ELSE Rest /\ Leave /\ UNCHANGED apps_
    /\ UNCHANGED <<alive, signals>>

\* The path is a reference to a local that is gone.  While no application is
\* known it is compared with nothing: add_entry succeeds, del_entry fails.
OnOpened ==
    /\ Receive("opened")
    /\ AddEntry(Head(signals).entry)
    /\ UNCHANGED <<alive, monitored>>

OnClosed ==
    /\ Receive("closed")
    /\ IF Head(signals).entry \in apps_
       THEN at' = "pop" /\ entry' = Head(signals).entry
       ELSE UNCHANGED <<at, entry>>
    /\ apps_' = apps_ \ {Head(signals).entry}
    /\ UNCHANGED <<alive, monitored>>

\* Fault: the message is created and queued.
FaultPopReq ==
    /\ at = "pop" /\ Rest
    /\ UNCHANGED <<alive, signals, monitored, apps_>>

\* The message is a null pointer, and its members are written.
PopReq ==
    /\ at = "pop" /\ Rest
    /\ alive' = FALSE
    /\ UNCHANGED <<signals, monitored, apps_>>

Handle ==
    \/ Unheard \/ OnAdded \/ OnRemoved \/ OnOpened \/ OnClosed
    \/ Throw \/ Monitor \/ ReadWindows \/ PopReq

Bus == alive /\ Handle /\ UNCHANGED <<collector, service, keeps>>

Next == Collect \/ (alive /\ Dock) \/ Bus

Spec == Init /\ [][Next]_vars

------------------------------------------------------------------------------
(* Properties *)

TypeOK ==
    /\ alive \in BOOLEAN /\ pc \in {"wait", "added", "removed", "ended"}
    /\ added \in BOOLEAN /\ removed \in BOOLEAN /\ keeps \in BOOLEAN
    /\ dock \subseteq Entries /\ open \subseteq dock /\ late \subseteq Entries
    /\ signals \in Seq([name : {"added", "removed", "opened", "closed"}, entry : Entries])
    /\ at \in {"idle", "added", "monitored", "pop"}
    /\ entry \in Entries \cup {None} /\ (at = "idle" <=> entry = None)
    /\ monitored \subseteq Packaged /\ apps_ \subseteq Entries

(***************************************************************************)
(* No application is ever known to be open by a process that runs, but for *)
(* the moment between add_entry and pop_req: the first one ends it, so     *)
(* that none is ever queued and the removed signal never finds one.        *)
(***************************************************************************)
NothingKept == alive => apps_ = IF at = "pop" THEN {entry} ELSE {}

(***************************************************************************)
(* The entries the dock had before EntryAdded was connected stay unknown:  *)
(* only one that the dock has added since is ever monitored, and so are    *)
(* those added between reading the entries and connecting the signal.      *)
(***************************************************************************)
OnlyLateMonitored == monitored \subseteq late

OnItsWay(name, e) == \E i \in DOMAIN signals : signals[i] = [name |-> name, entry |-> e]

(***************************************************************************)
(* No entry that is added later is forgotten: if the library keeps the     *)
(* connections, each one that dpkg knows and that is still in the dock is  *)
(* monitored, or its signal waits to be handled or is (data.cc:59-63 and   *)
(* 91-118), whatever comes and goes in between.                            *)
(***************************************************************************)
LateIsAwaited ==
    alive /\ keeps => \A e \in Packaged \cap late \cap dock :
        e \in monitored \/ OnItsWay("added", e) \/ (at = "added" /\ entry = e)

(***************************************************************************)
(* No opening of a monitored entry is missed: one that has a window is     *)
(* announced by a signal not yet handled, or its windows are still to be   *)
(* read (data.cc:137, behind the connection), or it is being reported.     *)
(***************************************************************************)
OpeningIsAwaited ==
    alive => \A e \in monitored \cap open :
        OnItsWay("opened", e) \/ (at \in {"monitored", "pop"} /\ entry = e)
================================================================================
