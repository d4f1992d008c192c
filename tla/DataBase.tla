------------------------------- MODULE DataBase -------------------------------
(***************************************************************************)
(* class DataBase (src/src/writer.h, writer.cc): the sqlite connection of  *)
(* the database writer, used by any number of threads.  Every statement is *)
(* executed under mutex_; read() takes mutex_ and then calls               *)
(* execute_with_return(), which takes the same std::mutex again.  A        *)
(* std::mutex is not recursive: with the pthread mutex of the build the    *)
(* thread waits for itself, so there is no action for anything after that  *)
(* second lock.  close() takes no lock at all: a statement that runs at    *)
(* the time may or may not have its effect.                                *)
(*                                                                         *)
(* External: sqlite.  Values are put into the statement without quotes.  A *)
(* statement fails when the connection is closed, the table does not exist *)
(* or sqlite makes nothing of the value: insert needs a literal, the where *)
(* of remove may be any expression, such as the name of a column.  Any     *)
(* other failure (a file that cannot be opened, a full disk) may come too. *)
(* The content of a table is the number of its rows that have each value   *)
(* in the Data column; literals of equal value count as one.  No caller    *)
(* looks at the result of open(), insert(), remove() or create_table(), so *)
(* results are left out.                                                   *)
(*                                                                         *)
(* The operators named Fault... are not part of the model: each is an      *)
(* action as a plausible bug would change it.                              *)
(***************************************************************************)
EXTENDS Naturals

CONSTANTS Threads,    \* the threads that use the connection
          Tables,     \* table names that occur
          Values,     \* values of the Data column that occur
          Literals,   \* the texts that are SQL literals as they stand
          Expressions,\* the texts that are SQL expressions and no literals
          NoThread    \* the owner of a free mutex

VARIABLES opened,    \* db_ is not null
          mutex_,    \* the thread that holds the mutex, or NoThread
          pc,        \* where each thread is in a call
          call,      \* what each thread has called
          rows       \* the number of rows of each value in each table that exists

vars == <<opened, mutex_, pc, call, rows>>

NoRows == [v \in Values |-> 0]

Statements == {"create", "insert", "remove"}

\* insert, remove, read and create_table(table); only the first two use v
CallOf(op, table, v) == [op |-> op, table |-> table, value |-> v]

Calls == [op : Statements \cup {"read"}, table : Tables, value : Values]

\* before the first call of a thread: any
SomeCall == CHOOSE c \in Calls : TRUE

NoTables == [table \in {} |-> NoRows]

\* open() has been called, whether or not it has opened the file, and no table
\* exists yet.
InitOpened ==
    /\ opened \in BOOLEAN
    /\ mutex_ = NoThread
    /\ pc = [t \in Threads |-> "idle"]
    /\ call = [t \in Threads |-> SomeCall]
    /\ rows = NoTables

------------------------------------------------------------------------------
(* Calls *)

\* insert(), remove() and read() look at is_open() before they lock.
Begin(t, c) ==
    /\ pc[t] = "idle"
    /\ c.op = "create" \/ opened
    /\ call' = [call EXCEPT ![t] = c]
    /\ pc' = [pc EXCEPT ![t] = IF c.op = "read" THEN "readlock" ELSE "execlock"]
    /\ UNCHANGED <<opened, mutex_, rows>>

\* ... and return false when the connection is closed.
Refuse(t, c) ==
    /\ pc[t] = "idle"
    /\ c.op # "create" /\ ~opened
    /\ call' = [call EXCEPT ![t] = c]
    /\ UNCHANGED <<opened, mutex_, pc, rows>>

\* execute_no_return(): lock.
ExecLock(t) ==
    /\ pc[t] = "execlock"
    /\ mutex_ = NoThread
    /\ mutex_' = t
    /\ pc' = [pc EXCEPT ![t] = "exec"]
    /\ UNCHANGED <<opened, call, rows>>

\* Release the mutex and return.
Return(t) == mutex_' = NoThread /\ pc' = [pc EXCEPT ![t] = "idle"]

\* What sqlite asks of a statement on an open connection.
Valid(c) ==
    \/ c.op = "create"
    \/ /\ c.table \in DOMAIN rows
       /\ c.value \in IF c.op = "insert" THEN Literals ELSE Literals \cup Expressions

\* Fault: the early return of a failed statement keeps the mutex.
FaultExecFail(t) ==
    /\ pc[t] = "exec"
    /\ pc' = [pc EXCEPT ![t] = "idle"]
    /\ UNCHANGED <<opened, mutex_, call, rows>>

\* sqlite3_exec() fails: it rejects the statement, or the connection that is
\* null by now or was never sound, or cannot write.
ExecFail(t) ==
    /\ pc[t] = "exec"
    /\ Return(t)
    /\ UNCHANGED <<opened, call, rows>>

\* sqlite3_exec() is called with a connection that is open.
ExecStart(t) ==
    /\ pc[t] = "exec"
    /\ opened /\ Valid(call[t])
    /\ pc' = [pc EXCEPT ![t] = "running"]
    /\ UNCHANGED <<opened, mutex_, call, rows>>

\* What "where Data=v" may leave of the rows: an expression is compared in each
\* row, and may hold in any of them.
Left(r, v) ==
    IF v \in Expressions
    THEN {q \in [Values -> UNION {0 .. r[x] : x \in Values}] :
             \A x \in Values : q[x] <= r[x]}
    ELSE {[r EXCEPT ![v] = 0]}

\* What the tables may be after the statement; a table is created only if it
\* is missing.
After(c) ==
    CASE c.op = "create" ->
           {[x \in DOMAIN rows \cup {c.table} |->
                IF x \in DOMAIN rows THEN rows[x] ELSE NoRows]}
      [] c.op = "insert" -> {[rows EXCEPT ![c.table][c.value] = @ + 1]}
      [] c.op = "remove" ->
           {[rows EXCEPT ![c.table] = q] : q \in Left(rows[c.table], c.value)}

\* The statement ends; without effect only if close() came in between.
ExecEnd(t) ==
    /\ pc[t] = "running"
    /\ rows' \in After(call[t]) \cup IF opened THEN {} ELSE {rows}
    /\ Return(t)
    /\ UNCHANGED <<opened, call>>

\* Fault: the first of the two locks of read() is forgotten.
FaultReadUnlocked(t) ==
    /\ pc[t] = "readlock"
    /\ pc' = [pc EXCEPT ![t] = "again"]
    /\ UNCHANGED <<opened, mutex_, call, rows>>

\* read(): lock, then wait in execute_with_return() for the same mutex.
ReadLock(t) ==
    /\ pc[t] = "readlock"
    /\ mutex_ = NoThread
    /\ mutex_' = t
    /\ pc' = [pc EXCEPT ![t] = "again"]
    /\ UNCHANGED <<opened, call, rows>>

\* close(): no lock, whatever the other threads do.
Close ==
    /\ opened
    /\ opened' = FALSE
    /\ UNCHANGED <<mutex_, pc, call, rows>>

------------------------------------------------------------------------------
\* what a thread does inside a call
Proceed(t) ==
    ExecLock(t) \/ ExecFail(t) \/ ExecStart(t) \/ ExecEnd(t) \/ ReadLock(t)

Begins(t, c) == Begin(t, c) \/ Refuse(t, c)

------------------------------------------------------------------------------
(* Properties *)

(***************************************************************************)
(* Type invariant, with mutual exclusion: the thread between the lock and  *)
(* the unlock of a statement, or stuck in read(), is the owner of mutex_.  *)
(***************************************************************************)
TypeOK ==
    /\ opened \in BOOLEAN
    /\ mutex_ \in Threads \cup {NoThread}
    /\ pc \in [Threads -> {"idle", "readlock", "execlock", "exec", "running", "again"}]
    /\ \A t \in Threads : mutex_ = t <=> pc[t] \in {"exec", "running", "again"}

\* the threads that wait for the mutex they hold themselves
Reading == {t \in Threads : pc[t] = "again"}

(***************************************************************************)
(* Once a thread is in read() no statement of any thread has an effect any *)
(* more: the mutex that read() takes twice (writer.cc:145 and 160) is      *)
(* never released, whatever the other threads do.                          *)
(***************************************************************************)
FrozenByRead == [][Reading # {} => Reading' = Reading /\ UNCHANGED rows]_vars

==============================================================================
