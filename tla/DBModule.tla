------------------------------- MODULE DBModule -------------------------------
(***************************************************************************)
(* DBModule (src/src/writer.h, writer.cc): the writer that stores the      *)
(* messages of a queue in a table, the collector that reads them back for  *)
(* the web writer, and the call-back that deletes what was posted.  They   *)
(* run in threads of their own over one DataBase.                          *)
(*                                                                         *)
(* connect(url) runs before the threads start (application.cc:82-86): the  *)
(* model starts when it has called open(), and its create_table() is the   *)
(* first call of the thread that writes.  Whether or not these succeeded,  *)
(* it then remembers url, the path of the database file, as the name of    *)
(* the table.  Nothing in the code sets the origin of a result: it may be  *)
(* any text.                                                               *)
(*                                                                         *)
(* The queue is that of module Queue: here pop hands out any message.  A   *)
(* message is the sequence of its items; Encode is base64.  The columns    *)
(* Type and Nano are left out: nothing reads them.                         *)
(*                                                                         *)
(* The operators named Fault... are not part of the model: each is an      *)
(* action as a plausible bug would change it.                              *)
(***************************************************************************)
EXTENDS Naturals, Sequences, FiniteSets

CONSTANTS WriterThread,   \* runs connect() and write()
          Collectors,     \* threads that run collect()
          Handlers,       \* threads that run the call-back
          Items,          \* the items of messages
          Encode,         \* the base64 text of each item
          Literals,       \* the texts that are an SQL literal
          Expressions,    \* those that are another SQL expression
          Origins,        \* what the origin of a result may be
          Messages,       \* the messages pop may hand out
          MaxMessages,    \* bound: messages handed out
          Urls,           \* what connect() may be called with
          DatabaseTable,  \* the value of database_table
          NoThread        \* the owner of a free mutex

Texts == {Encode[i] : i \in Items}

ASSUME DBAssumption ==
    /\ Encode = [i \in Items |-> Encode[i]]
    /\ \A i, j \in Items : Encode[i] = Encode[j] => i = j
    /\ Messages \subseteq Seq(Items)
    /\ MaxMessages \in Nat
    /\ WriterThread \notin Collectors \cup Handlers
    /\ Collectors \cap Handlers = {}
    /\ NoThread \notin {WriterThread} \cup Collectors \cup Handlers
    /\ "" \notin Urls \cup {DatabaseTable}
    /\ Literals \cap Expressions = {}

Threads == {WriterThread} \cup Collectors \cup Handlers

VARIABLES opened, mutex_, pc, call, rows,   \* DataBase
          created,    \* connect() has called create_table()
          table_,     \* the table name connect() has stored, or ""
          message,    \* the message the writer is storing
          next,       \* the item it will store next
          popped,     \* number of messages handed out
          code        \* the result each call-back was last given

dbVars == <<opened, mutex_, pc, call, rows>>
vars == <<dbVars, created, table_, message, next, popped, code>>

DB == INSTANCE DataBase
    WITH Tables <- Urls \cup {DatabaseTable}, Values <- Texts \cup Origins

AnyText == CHOOSE x \in Texts : TRUE
Codes == {"Success", "UnsavedFailed", "SavedFailed"}

Init ==
    /\ DB!InitOpened
    /\ created = FALSE
    /\ table_ = ""
    /\ message = <<>>
    /\ next = 1
    /\ popped = 0
    /\ code = [h \in Handlers |-> "Success"]

------------------------------------------------------------------------------
(* connect() *)

\* connect() is over when table_ is set; only then the threads start.
Connected == table_ # ""

\* Fault: the table is created under the name that is going to be used.
FaultCreateTable ==
    /\ ~created
    /\ created' = TRUE
    /\ \E url \in Urls :
           DB!Begin(WriterThread, DB!CallOf("create", url, AnyText))
    /\ UNCHANGED <<table_, message, next, popped, code>>

CreateTable ==
    /\ ~created
    /\ created' = TRUE
    /\ DB!Begin(WriterThread, DB!CallOf("create", DatabaseTable, AnyText))
    /\ UNCHANGED <<table_, message, next, popped, code>>

\* table_ = url, when create_table() has returned, whatever it did.
SaveTable ==
    /\ created /\ ~Connected
    /\ pc[WriterThread] = "idle"
    /\ table_' \in Urls
    /\ UNCHANGED <<dbVars, created, message, next, popped, code>>

------------------------------------------------------------------------------
(* write() *)

Writing == next <= Len(message)

\* auto req = que->pop()
PopMessage ==
    /\ Connected
    /\ pc[WriterThread] = "idle"
    /\ ~Writing
    /\ popped < MaxMessages
    /\ \E m \in Messages : message' = m
    /\ next' = 1
    /\ popped' = popped + 1
    /\ UNCHANGED <<dbVars, created, table_, code>>

\* Fault: the turn of the loop stores its item under "Data" of every row.
FaultInsertItem ==
    /\ pc[WriterThread] = "idle"
    /\ Writing
    /\ DB!Begins(WriterThread, DB!CallOf("insert", table_, Encode[message[next]]))
    /\ next' = next + 1
    /\ UNCHANGED <<created, table_, message, popped, code>>

\* values.insert() does not replace the "Data" of an earlier turn of the loop,
\* so every row gets the first item; the result of insert() is ignored.
InsertItem ==
    /\ pc[WriterThread] = "idle"
    /\ Writing
    /\ DB!Begins(WriterThread, DB!CallOf("insert", table_, Encode[message[1]]))
    /\ next' = next + 1
    /\ UNCHANGED <<created, table_, message, popped, code>>

------------------------------------------------------------------------------
(* collect() *)

\* collect() reads the table, and returns at once if the connection is closed.
Collect(t) ==
    /\ Connected
    /\ DB!Begins(t, DB!CallOf("read", table_, AnyText))
    /\ UNCHANGED <<created, table_, message, next, popped, code>>

------------------------------------------------------------------------------
(* handler() *)

\* result->code != WriteResultSavedFailed returns: "dont need to delete data"
NeedsDeletion(c) == c = "SavedFailed"

Ignore(t, c) ==
    /\ Connected
    /\ pc[t] = "idle"
    /\ ~NeedsDeletion(c)
    /\ code' = [code EXCEPT ![t] = c]
    /\ UNCHANGED <<dbVars, created, table_, message, next, popped>>

\* Delete the rows whose Data is the origin of the result.
Delete(t, c, origin) ==
    /\ Connected
    /\ NeedsDeletion(c)
    /\ code' = [code EXCEPT ![t] = c]
    /\ DB!Begins(t, DB!CallOf("remove", table_, origin))
    /\ UNCHANGED <<created, table_, message, next, popped>>

\* disconnect()
Disconnect ==
    /\ Connected
    /\ DB!Close
    /\ UNCHANGED <<created, table_, message, next, popped, code>>

------------------------------------------------------------------------------
InDataBase(t) ==
    /\ DB!Proceed(t)
    /\ UNCHANGED <<created, table_, message, next, popped, code>>

Writer == CreateTable \/ SaveTable \/ PopMessage \/ InsertItem

Next ==
    \/ Writer
    \/ \E t \in Collectors : Collect(t)
    \/ \E t \in Handlers, c \in Codes :
           Ignore(t, c) \/ \E origin \in Origins : Delete(t, c, origin)
    \/ Disconnect
    \/ \E t \in Threads : InDataBase(t)

Spec == Init /\ [][Next]_vars

(***************************************************************************)
(* The loop of write() runs, and a thread that waits for mutex_ gets it if *)
(* it is free again and again: the strongest fairness a mutex may have.    *)
(* Collectors, call-backs and disconnect() need never come.                *)
(***************************************************************************)
FairSpec ==
    /\ Spec
    /\ WF_vars(Writer)
    /\ \A t \in Threads : SF_vars(InDataBase(t))

------------------------------------------------------------------------------
(* Properties *)

(***************************************************************************)
(* Type invariant, with that of the DataBase and the mutual exclusion in it.*)
(***************************************************************************)
TypeOK ==
    /\ DB!TypeOK
    /\ created \in BOOLEAN
    /\ table_ \in {""} \cup Urls
    /\ message \in Messages \cup {<<>>}
    /\ next \in 1 .. Len(message) + 1
    /\ popped \in 0 .. MaxMessages
    /\ code \in [Handlers -> Codes]

\* the rows of a table, none if it does not exist
Rows(table) == IF table \in DOMAIN rows THEN rows[table] ELSE DB!NoRows

(***************************************************************************)
(* Once collect() is in read(), no row of any table changes any more       *)
(* (writer.cc:145 and 160), although the writer keeps taking messages.     *)
(***************************************************************************)
FrozenByRead == DB!FrozenByRead

(***************************************************************************)
(* A row holds the first item of some message: the later turns of the loop *)
(* of write() (writer.cc:369-373) store the first item again.              *)
(***************************************************************************)
OnlyFirstItems ==
    \A table \in DOMAIN rows : \A v \in Texts \cup Origins :
        rows[table][v] > 0 => \E m \in Messages : m # <<>> /\ v = Encode[m[1]]

(***************************************************************************)
(* Nothing is ever stored anywhere when the url is not the name of the     *)
(* table that connect() creates (writer.cc:312-314), whatever is written,  *)
(* deleted and read.                                                       *)
(***************************************************************************)
NothingStored ==
    table_ # DatabaseTable => \A table \in DOMAIN rows : rows[table] = DB!NoRows

(***************************************************************************)
(* write() gets through every message unless a collector is in read():     *)
(* failing statements, call-backs and disconnect() never stop it.          *)
(***************************************************************************)
WriteEnds == Writing ~> ~Writing \/ DB!Reading # {}

(***************************************************************************)
(* writer.h:202 "read message from data": a read() that has begun comes to *)
(* an end.                                                                 *)
(***************************************************************************)
ReadReturns == \A t \in Collectors : pc[t] # "idle" ~> pc[t] = "idle"

==============================================================================
