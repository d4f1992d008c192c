---------------------------- MODULE DBModuleProofs ----------------------------
(***************************************************************************)
(* Proofs about DBModule, for any threads, items, messages and urls.       *)
(***************************************************************************)
EXTENDS DBModule, TLAPS

\* Mutual exclusion: the lines between lock and unlock belong to the owner.
LockInv ==
    /\ pc \in [Threads -> {"idle", "readlock", "execlock", "exec", "running", "again"}]
    /\ mutex_ \in Threads \cup {NoThread}
    /\ \A t \in Threads : mutex_ = t <=> pc[t] \in {"exec", "running", "again"}

LEMMA WriterIsThread == WriterThread \in Threads
BY DEF Threads

LEMMA NoThreadIsNone == NoThread \notin Threads
BY DBAssumption DEF Threads

\* What the calls of the connection do to the lock.
LEMMA CallLockInv ==
    ASSUME LockInv, NEW t \in Threads, NEW c, DB!Begins(t, c)
    PROVE  LockInv'
BY NoThreadIsNone DEF LockInv, DB!Begins, DB!Begin, DB!Refuse

LEMMA ProceedLockInv ==
    ASSUME LockInv, NEW t \in Threads, DB!Proceed(t)
    PROVE  LockInv'
<1> USE NoThreadIsNone DEF LockInv, DB!Return
<1>1. CASE DB!ExecLock(t)
      BY <1>1 DEF DB!ExecLock
<1>2. CASE DB!ExecFail(t)
      BY <1>2 DEF DB!ExecFail
<1>3. CASE DB!ExecStart(t)
      BY <1>3 DEF DB!ExecStart
<1>4. CASE DB!ExecEnd(t)
      BY <1>4 DEF DB!ExecEnd
<1>5. CASE DB!ReadLock(t)
      BY <1>5 DEF DB!ReadLock
<1>6. QED
      BY <1>1, <1>2, <1>3, <1>4, <1>5 DEF DB!Proceed

LEMMA InitLockInv == Init => LockInv
<1> SUFFICES ASSUME Init
             PROVE  LockInv
    OBVIOUS
<1>1. mutex_ = NoThread /\ pc = [t \in Threads |-> "idle"]
      BY Zenon DEF Init, DB!InitOpened
<1>2. QED
      BY <1>1, NoThreadIsNone DEF LockInv

\* Every step is a call of the connection, a step inside one, or leaves the
\* mutex and the threads alone.
LEMMA StepKinds ==
    ASSUME [Next]_vars
    PROVE  \/ \E t \in Threads : \E c : DB!Begins(t, c)
           \/ \E t \in Threads : DB!Proceed(t)
           \/ UNCHANGED <<mutex_, pc, rows>>
<1> USE WriterIsThread DEF Threads
<1>1. CASE CreateTable
      BY <1>1 DEF CreateTable, DB!Begins
<1>2. CASE SaveTable \/ PopMessage \/ UNCHANGED vars
      BY <1>2 DEF SaveTable, PopMessage, vars, dbVars
<1>3. CASE InsertItem
      BY <1>3 DEF InsertItem
<1>4. ASSUME NEW t \in Collectors, Collect(t)
      PROVE  \E u \in Threads : \E c : DB!Begins(u, c)
      BY <1>4 DEF Collect
<1>5. ASSUME NEW t \in Handlers, NEW c \in Codes, Ignore(t, c)
      PROVE  UNCHANGED <<mutex_, pc, rows>>
      BY <1>5 DEF Ignore, dbVars
<1>6. ASSUME NEW t \in Handlers, NEW c \in Codes, NEW origin \in Origins, Delete(t, c, origin)
      PROVE  \E u \in Threads : \E d : DB!Begins(u, d)
      BY <1>6 DEF Delete
<1>7. CASE Disconnect
      BY <1>7 DEF Disconnect, DB!Close
<1>8. ASSUME NEW t \in Threads, InDataBase(t)
      PROVE  \E u \in Threads : DB!Proceed(u)
      BY <1>8 DEF InDataBase
<1> HIDE DEF Threads
<1>9. QED
      BY <1>1, <1>2, <1>3, <1>4, <1>5, <1>6, <1>7, <1>8 DEF Next, Writer

LEMMA NextLockInv == LockInv /\ [Next]_vars => LockInv'
<1> SUFFICES ASSUME LockInv, [Next]_vars
             PROVE  LockInv'
    OBVIOUS
<1>1. CASE UNCHANGED <<mutex_, pc, rows>>
      BY <1>1 DEF LockInv
<1>2. QED
      BY <1>1, StepKinds, CallLockInv, ProceedLockInv

------------------------------------------------------------------------------
(* Types *)

ModuleTypes ==
    /\ opened \in BOOLEAN /\ created \in BOOLEAN
    /\ table_ \in {""} \cup Urls
    /\ message \in Messages \cup {<<>>}
    /\ next \in 1 .. Len(message) + 1
    /\ popped \in 0 .. MaxMessages
    /\ code \in [Handlers -> Codes]

LEMMA MessageSeqs == \A m \in Messages : m \in Seq(Items)
BY DBAssumption, Zenon

LEMMA BoundIsNat == MaxMessages \in Nat
BY DBAssumption, Zenon

LEMMA MessageLength == ASSUME ModuleTypes PROVE Len(message) \in Nat
<1>1. CASE message = <<>>
      BY <1>1
<1>2. CASE message \in Messages
  <2>1. message \in Seq(Items)
        BY <1>2, MessageSeqs
  <2>2. QED
        BY <2>1
<1>3. QED
      BY <1>1, <1>2 DEF ModuleTypes

LEMMA InitModuleTypes == Init => ModuleTypes
<1> SUFFICES ASSUME Init
             PROVE  ModuleTypes
    OBVIOUS
<1>1. opened \in BOOLEAN /\ created \in BOOLEAN
  <2>1. opened \in BOOLEAN /\ created = FALSE
        BY Zenon DEF Init, DB!InitOpened
  <2>2. QED
        BY <2>1
<1>2. table_ = "" /\ message = <<>> /\ next = 1 /\ popped = 0
      BY Zenon DEF Init
<1>3. code = [h \in Handlers |-> "Success"]
      BY Zenon DEF Init
<1>4. code \in [Handlers -> Codes]
      BY <1>3 DEF Codes
<1>5. next \in 1 .. Len(message) + 1
  <2>1. Len(message) = 0
        BY <1>2
  <2>2. next = 1
        BY <1>2
  <2>3. QED
        BY <2>1, <2>2
<1>6. popped \in 0 .. MaxMessages
  <2>1. popped = 0
        BY <1>2
  <2>2. QED
        BY <2>1, BoundIsNat
<1>7. QED
      BY <1>1, <1>2, <1>4, <1>5, <1>6 DEF ModuleTypes

LEMMA NextModuleTypes == ModuleTypes /\ [Next]_vars => ModuleTypes'
<1> SUFFICES ASSUME ModuleTypes, [Next]_vars
             PROVE  ModuleTypes'
    OBVIOUS
<1>1. CASE CreateTable
      BY <1>1 DEF ModuleTypes, CreateTable, DB!Begin
<1>2. CASE SaveTable
      BY <1>2 DEF ModuleTypes, SaveTable, dbVars
<1>3. CASE PopMessage
  <2>1. PICK m \in Messages : message' = m
        BY <1>3 DEF PopMessage
  <2>2. m \in Seq(Items)
        BY MessageSeqs
  <2>3. Len(m) \in Nat
        BY <2>2
  <2>4. next' \in 1 .. Len(message') + 1
    <3>1. next' = 1
          BY <1>3 DEF PopMessage
    <3>2. QED
          BY <2>1, <2>3, <3>1
  <2>5. popped' \in 0 .. MaxMessages
    <3>1. popped \in 0 .. MaxMessages
          BY DEF ModuleTypes
    <3>2. popped < MaxMessages /\ popped' = popped + 1
          BY <1>3 DEF PopMessage
    <3>3. QED
          BY <3>1, <3>2, BoundIsNat
  <2>6. UNCHANGED <<opened, created, table_, code>>
        BY <1>3 DEF PopMessage, dbVars
  <2>7. QED
        BY <2>1, <2>4, <2>5, <2>6 DEF ModuleTypes
<1>4. CASE InsertItem
  <2>1. UNCHANGED <<opened, created, table_, message, popped, code>>
        BY <1>4 DEF InsertItem, DB!Begins, DB!Begin, DB!Refuse
  <2>2. next' = next + 1 /\ next <= Len(message)
        BY <1>4 DEF InsertItem, Writing
  <2>3. Len(message) \in Nat
        BY MessageLength
  <2>4. next' \in 1 .. Len(message) + 1
    <3>1. next \in 1 .. Len(message) + 1
          BY DEF ModuleTypes
    <3>2. QED
          BY <2>2, <2>3, <3>1
  <2>5. QED
        BY <2>1, <2>4 DEF ModuleTypes
<1>5. ASSUME NEW t \in Collectors, Collect(t)
      PROVE  ModuleTypes'
      BY <1>5 DEF ModuleTypes, Collect, DB!Begins, DB!Begin, DB!Refuse
<1>6. ASSUME NEW t \in Handlers, NEW c \in Codes, Ignore(t, c)
      PROVE  ModuleTypes'
      BY <1>6 DEF ModuleTypes, Ignore, dbVars
<1>7. ASSUME NEW t \in Handlers, NEW c \in Codes, NEW origin \in Origins, Delete(t, c, origin)
      PROVE  ModuleTypes'
      BY <1>7 DEF ModuleTypes, Delete, DB!Begins, DB!Begin, DB!Refuse
<1>8. CASE Disconnect
      BY <1>8 DEF ModuleTypes, Disconnect, DB!Close
<1>9. ASSUME NEW t \in Threads, InDataBase(t)
      PROVE  ModuleTypes'
      BY <1>9 DEF ModuleTypes, InDataBase, DB!Proceed, DB!ExecLock,
                  DB!ExecFail, DB!ExecStart, DB!ExecEnd, DB!ReadLock
<1>10. CASE UNCHANGED vars
      BY <1>10 DEF ModuleTypes, vars, dbVars
<1>11. QED
      BY <1>1, <1>2, <1>3, <1>4, <1>5, <1>6, <1>7, <1>8, <1>9, <1>10 DEF Next, Writer

(***************************************************************************)
(* The type invariant, and with it mutual exclusion: the lines between the *)
(* lock and the unlock of a statement belong to the owner of mutex_, for   *)
(* any threads.                                                            *)
(***************************************************************************)
THEOREM TypeCorrect == Spec => []TypeOK
<1>1. LockInv /\ ModuleTypes => TypeOK
      BY DEF LockInv, ModuleTypes, TypeOK, DB!TypeOK
<1>2. QED
      BY <1>1, InitLockInv, NextLockInv, InitModuleTypes, NextModuleTypes, PTL DEF Spec

------------------------------------------------------------------------------
(* Nothing moves any more once a thread is in read(). *)

LEMMA ProceedFrozen ==
    ASSUME LockInv, NEW t \in Threads, DB!Proceed(t), DB!Reading # {}
    PROVE  DB!Reading' = DB!Reading /\ UNCHANGED rows
<1>1. PICK r \in Threads : pc[r] = "again"
      BY DEF DB!Reading
<1>2. mutex_ = r
      BY <1>1 DEF LockInv
<1>3. mutex_ # NoThread /\ pc[t] \notin {"exec", "running"}
      BY <1>1, <1>2, NoThreadIsNone DEF LockInv
<1>4. QED
      BY <1>3 DEF DB!Proceed, DB!ExecLock, DB!ExecFail, DB!ExecStart, DB!ExecEnd,
                  DB!ReadLock

LEMMA CallFrozen ==
    ASSUME LockInv, NEW t \in Threads, NEW c, DB!Begins(t, c)
    PROVE  DB!Reading' = DB!Reading /\ UNCHANGED rows
BY DEF LockInv, DB!Begins, DB!Begin, DB!Refuse, DB!Reading

(***************************************************************************)
(* Once a collector is in read(), which locks mutex_ twice, no statement   *)
(* of any thread changes a row: for any number of threads.                 *)
(***************************************************************************)
THEOREM ReadFreezes == Spec => FrozenByRead
<1> DEFINE Frozen == DB!Reading # {} => DB!Reading' = DB!Reading /\ UNCHANGED rows
<1>1. LockInv /\ [Next]_vars => [Frozen]_(DB!vars)
  <2> SUFFICES ASSUME LockInv, [Next]_vars, DB!Reading # {}
               PROVE  DB!Reading' = DB!Reading /\ UNCHANGED rows
      OBVIOUS
  <2>1. CASE UNCHANGED <<mutex_, pc, rows>>
        BY <2>1 DEF DB!Reading
  <2>2. QED
        BY <2>1, StepKinds, CallFrozen, ProceedFrozen
<1>2. QED
      BY <1>1, InitLockInv, NextLockInv, PTL DEF Spec, FrozenByRead, DB!FrozenByRead

------------------------------------------------------------------------------
(* The table stays empty when it is not the one that is written to. *)

\* the calls whose statement may still have an effect
Pending(t) == pc[t] \in {"execlock", "exec", "running"}

\* Only connect() creates, before table_ is set; the others use table_.
CallInv ==
    \A t \in Threads : Pending(t) =>
        \/ call[t].op = "create" /\ call[t].table = DatabaseTable
        \/ Connected /\ call[t].op \in {"insert", "remove"} /\ call[t].table = table_

\* No table but database_table comes into being.
RowsInv ==
    /\ rows = [table \in DOMAIN rows |-> rows[table]]
    /\ DOMAIN rows \subseteq {DatabaseTable}

EmptyInv ==
    /\ LockInv
    /\ call = [t \in Threads |-> call[t]]
    /\ CallInv
    /\ RowsInv
    /\ NothingStored
    /\ Writing => Connected

LEMMA InitEmptyInv == Init => EmptyInv
<1> SUFFICES ASSUME Init
             PROVE  EmptyInv
    OBVIOUS
<1>1. pc = [t \in Threads |-> "idle"] /\ rows = [table \in {} |-> DB!NoRows]
      BY Zenon DEF Init, DB!InitOpened, DB!NoTables
<1>2. call = [t \in Threads |-> call[t]]
  <2>1. call = [t \in Threads |-> DB!SomeCall]
        BY Zenon DEF Init, DB!InitOpened
  <2>2. QED
        BY <2>1
<1>3. CallInv
      BY <1>1 DEF CallInv, Pending
<1>4. RowsInv /\ NothingStored
      BY <1>1 DEF RowsInv, NothingStored
<1>5. ~Writing
  <2>1. message = <<>> /\ next = 1
        BY Zenon DEF Init
  <2>2. QED
        BY <2>1 DEF Writing
<1>6. QED
      BY <1>2, <1>3, <1>4, <1>5, InitLockInv DEF EmptyInv

\* A statement on a table that is not table_ is the CREATE TABLE of connect().
LEMMA StatementKeepsEmpty ==
    ASSUME EmptyInv, NEW t \in Threads, Pending(t), rows' \in DB!After(call[t]),
           UNCHANGED table_
    PROVE  RowsInv' /\ NothingStored'
<1> USE DEF EmptyInv, RowsInv, NothingStored
<1>1. CASE call[t].op = "create"
  <2>1. call[t].table = DatabaseTable
        BY <1>1 DEF CallInv
  <2>2. rows' = [x \in DOMAIN rows \cup {DatabaseTable} |->
                    IF x \in DOMAIN rows THEN rows[x] ELSE DB!NoRows]
        BY <1>1, <2>1 DEF DB!After
  <2>3. QED
        BY <2>2
<1>2. CASE call[t].op = "insert"
  <2>1. call[t].table = table_
        BY <1>2 DEF CallInv
  <2>2. rows' = [rows EXCEPT ![table_][call[t].value] = @ + 1]
        BY <1>2, <2>1 DEF DB!After
  <2>3. QED
        BY <2>2
<1>3. CASE call[t].op = "remove"
  <2>1. call[t].table = table_
        BY <1>3 DEF CallInv
  <2>2. PICK q : rows' = [rows EXCEPT ![table_] = q]
        BY <1>3, <2>1 DEF DB!After
  <2>3. DOMAIN rows' = DOMAIN rows /\ rows' = [x \in DOMAIN rows' |-> rows'[x]]
        BY <2>2
  <2>4. \A x \in DOMAIN rows : x # table_ => rows'[x] = rows[x]
        BY <2>2
  <2>5. QED
        BY <2>3, <2>4
<1>4. QED
      BY <1>1, <1>2, <1>3 DEF CallInv

LEMMA ProceedEmptyInv ==
    ASSUME EmptyInv, NEW t \in Threads, InDataBase(t)
    PROVE  EmptyInv'
<1>1. LockInv' /\ UNCHANGED <<table_, call>>
      BY ProceedLockInv DEF EmptyInv, InDataBase, DB!Proceed, DB!ExecLock,
         DB!ExecFail, DB!ExecStart, DB!ExecEnd, DB!ReadLock
<1>2. \A u \in Threads : Pending(u)' => Pending(u)
      BY DEF EmptyInv, LockInv, Pending, InDataBase, DB!Proceed, DB!ExecLock,
         DB!ExecFail, DB!ExecStart, DB!ExecEnd, DB!ReadLock, DB!Return
<1>3. CallInv'
      BY <1>1, <1>2 DEF EmptyInv, CallInv, Connected
<1>4. UNCHANGED rows \/ (Pending(t) /\ rows' \in DB!After(call[t]))
      BY DEF InDataBase, Pending, DB!Proceed, DB!ExecLock, DB!ExecFail,
         DB!ExecStart, DB!ExecEnd, DB!ReadLock
<1>5. RowsInv' /\ NothingStored'
      BY <1>1, <1>4, StatementKeepsEmpty DEF EmptyInv, RowsInv, NothingStored
<1>6. Writing' = Writing /\ Connected' = Connected
      BY DEF InDataBase, Writing, Connected
<1>7. QED
      BY <1>1, <1>3, <1>5, <1>6 DEF EmptyInv

\* A call that begins: connect() creates database_table, the others are made
\* after it and use table_.
LEMMA CallEmptyInv ==
    ASSUME EmptyInv, NEW t \in Threads, NEW c, DB!Begins(t, c), UNCHANGED table_,
           Writing' => Writing,
           \/ c.op = "create" /\ c.table = DatabaseTable
           \/ c.op = "read"
           \/ Connected /\ c.op \in {"insert", "remove"} /\ c.table = table_
    PROVE  EmptyInv'
<1>1. LockInv' /\ UNCHANGED rows
      BY CallLockInv DEF EmptyInv, DB!Begins, DB!Begin, DB!Refuse
<1>2. call' = [call EXCEPT ![t] = c]
      BY DEF DB!Begins, DB!Begin, DB!Refuse
<1>3. pc' = pc \/ pc' = [pc EXCEPT ![t] = IF c.op = "read" THEN "readlock" ELSE "execlock"]
      BY DEF DB!Begins, DB!Begin, DB!Refuse
<1>4. pc[t] = "idle"
      BY DEF DB!Begins, DB!Begin, DB!Refuse
<1>5. CallInv'
      BY <1>2, <1>3, <1>4 DEF EmptyInv, LockInv, CallInv, Pending, Connected
<1>6. call' = [u \in Threads |-> call'[u]]
      BY <1>2 DEF EmptyInv
<1>7. RowsInv' /\ NothingStored' /\ (Writing' => Connected')
      BY <1>1 DEF EmptyInv, RowsInv, NothingStored, Connected
<1>8. QED
      BY <1>1, <1>5, <1>6, <1>7 DEF EmptyInv

\* table_ is set while nobody but the writer, which is idle, may have called.
LEMMA SaveEmptyInv == EmptyInv /\ SaveTable => EmptyInv'
<1> SUFFICES ASSUME EmptyInv, SaveTable
             PROVE  EmptyInv'
    OBVIOUS
<1>1. UNCHANGED <<pc, mutex_, call, rows>> /\ table_ = ""
      BY DEF SaveTable, dbVars, Connected
<1>2. NothingStored'
      BY <1>1, DBAssumption DEF EmptyInv, NothingStored
<1>3. Connected' /\ ~Connected
      BY <1>1, DBAssumption DEF SaveTable, Connected
<1>4. QED
      BY <1>1, <1>2, <1>3 DEF EmptyInv, LockInv, CallInv, Pending, RowsInv

LEMMA NextEmptyInv == EmptyInv /\ [Next]_vars => EmptyInv'
<1> SUFFICES ASSUME EmptyInv, [Next]_vars
             PROVE  EmptyInv'
    OBVIOUS
<1> USE WriterIsThread
<1>1. CASE CreateTable
  <2>1. UNCHANGED table_ /\ (Writing' => Writing)
        BY <1>1 DEF CreateTable, Writing
  <2>2. PICK c : /\ DB!Begins(WriterThread, c)
                 /\ c.op = "create" /\ c.table = DatabaseTable
        BY <1>1 DEF CreateTable, DB!Begins, DB!CallOf
  <2>3. QED
        BY <2>1, <2>2, CallEmptyInv
<1>2. CASE SaveTable
      BY <1>2, SaveEmptyInv
<1>3. CASE InsertItem
  <2>1. UNCHANGED table_ /\ Connected /\ (Writing' => Writing)
        BY <1>3 DEF InsertItem, EmptyInv
  <2>2. PICK c : /\ DB!Begins(WriterThread, c)
                 /\ c.op = "insert" /\ c.table = table_
        BY <1>3 DEF InsertItem, DB!CallOf
  <2>3. QED
        BY <2>1, <2>2, CallEmptyInv
<1>4. ASSUME NEW t \in Collectors, Collect(t)
      PROVE  EmptyInv'
  <2>1. UNCHANGED table_ /\ t \in Threads /\ (Writing' => Writing)
        BY <1>4 DEF Collect, Threads, Writing
  <2>2. PICK c : DB!Begins(t, c) /\ c.op = "read"
        BY <1>4 DEF Collect, DB!CallOf
  <2>3. QED
        BY <2>1, <2>2, CallEmptyInv
<1>5. ASSUME NEW t \in Handlers, NEW d \in Codes, NEW origin \in Origins,
             Delete(t, d, origin)
      PROVE  EmptyInv'
  <2>1. UNCHANGED table_ /\ Connected /\ t \in Threads /\ (Writing' => Writing)
        BY <1>5 DEF Delete, Threads, Writing
  <2>2. PICK c : DB!Begins(t, c) /\ c.op = "remove" /\ c.table = table_
        BY <1>5 DEF Delete, DB!CallOf
  <2>3. QED
        BY <2>1, <2>2, CallEmptyInv
<1>6. ASSUME UNCHANGED <<pc, mutex_, call, rows, table_>>, Writing' => Connected
      PROVE  EmptyInv'
      BY <1>6 DEF EmptyInv, LockInv, CallInv, Pending, RowsInv, NothingStored, Connected
<1>7. CASE PopMessage \/ Disconnect \/ UNCHANGED vars
      BY <1>6, <1>7 DEF PopMessage, Disconnect, DB!Close, vars, dbVars, EmptyInv, Writing
<1>8. ASSUME NEW t \in Handlers, NEW c \in Codes, Ignore(t, c)
      PROVE  EmptyInv'
      BY <1>6, <1>8 DEF Ignore, dbVars, EmptyInv, Writing
<1>9. QED
      BY <1>1, <1>2, <1>3, <1>4, <1>5, <1>7, <1>8, ProceedEmptyInv DEF Next, Writer

(***************************************************************************)
(* The table that connect() creates stays empty when the url is not its    *)
(* name: for any messages, threads and order of their statements.          *)
(***************************************************************************)
THEOREM StaysEmpty == Spec => []NothingStored
<1>1. EmptyInv => NothingStored
      BY DEF EmptyInv
<1>2. QED
      BY <1>1, InitEmptyInv, NextEmptyInv, PTL DEF Spec

------------------------------------------------------------------------------
(* What the rows can hold, and which rows go. *)

\* A pending insert stores the first item of a message, a pending delete is
\* that of a call-back that was told to.
ValueInv ==
    \A t \in Threads : Pending(t) =>
        /\ call[t].op = "insert" =>
              \E m \in Messages : m # <<>> /\ call[t].value = Encode[m[1]]
        /\ call[t].op = "remove" => t \in Handlers /\ code[t] = "SavedFailed"

Data == Texts \cup Origins

CountInv == \A table \in DOMAIN rows : rows[table] \in [Data -> Nat]

HeldInv ==
    /\ EmptyInv /\ ModuleTypes
    /\ ValueInv /\ CountInv /\ OnlyFirstItems

LEMMA InitHeldInv == Init => HeldInv
<1> SUFFICES ASSUME Init
             PROVE  HeldInv
    OBVIOUS
<1>1. pc = [t \in Threads |-> "idle"] /\ rows = [table \in {} |-> DB!NoRows]
      BY Zenon DEF Init, DB!InitOpened, DB!NoTables
<1>2. ValueInv /\ CountInv /\ OnlyFirstItems
      BY <1>1 DEF ValueInv, Pending, CountInv, OnlyFirstItems
<1>3. QED
      BY <1>2, InitEmptyInv, InitModuleTypes DEF HeldInv

\* What a delete leaves of the rows: never more, and but for an expression
\* those of the other values as they were.
LEMMA LeftRows ==
    ASSUME NEW r \in [Data -> Nat], NEW v, NEW q \in DB!Left(r, v)
    PROVE  /\ q \in [Data -> Nat]
           /\ \A x \in Data : q[x] <= r[x]
           /\ v \notin Expressions => \A x \in Data : x # v => q[x] = r[x]
<1>1. CASE v \in Expressions
  <2>1. /\ q \in [Data -> UNION {0 .. r[x] : x \in Data}]
        /\ \A x \in Data : q[x] <= r[x]
        BY <1>1 DEF DB!Left, Data
  <2>2. UNION {0 .. r[x] : x \in Data} \subseteq Nat
        OBVIOUS
  <2>3. QED
        BY <1>1, <2>1, <2>2
<1>2. CASE v \notin Expressions
  <2>1. q = [r EXCEPT ![v] = 0]
        BY <1>2 DEF DB!Left
  <2>2. q \in [Data -> Nat]
        BY <2>1
  <2>3. \A x \in Data : r[x] \in Nat /\ q[x] = IF x = v THEN 0 ELSE r[x]
        BY <2>1
  <2>4. \A x \in Data : q[x] <= r[x]
        BY <2>3
  <2>5. QED
        BY <2>2, <2>3, <2>4
<1>3. QED
      BY <1>1, <1>2

\* The rows after a statement: an insert adds to those of its value, a delete
\* takes from those of its value, or of any if that is an expression.
LEMMA StatementRows ==
    ASSUME RowsInv, CountInv, NEW c, c.op \in {"create", "insert", "remove"},
           rows' \in DB!After(c)
    PROVE  /\ CountInv'
           /\ DOMAIN rows \subseteq DOMAIN rows'
           /\ \A table \in DOMAIN rows, v \in Data :
                 /\ ~(v = c.value /\ c.op = "insert") => rows'[table][v] <= rows[table][v]
                 /\ rows'[table][v] < rows[table][v] =>
                        c.op = "remove" /\ (c.value = v \/ c.value \in Expressions)
           /\ \A table \in DOMAIN rows' \ DOMAIN rows : rows'[table] = DB!NoRows
<1> USE DEF RowsInv, CountInv
<1>1. CASE c.op = "create"
  <2>1. rows' = [x \in DOMAIN rows \cup {c.table} |->
                    IF x \in DOMAIN rows THEN rows[x] ELSE DB!NoRows]
        BY <1>1 DEF DB!After
  <2>2. DB!NoRows \in [Data -> Nat]
        BY DEF DB!NoRows, Data
  <2>3. /\ DOMAIN rows \subseteq DOMAIN rows'
        /\ \A x \in DOMAIN rows : rows'[x] = rows[x]
        /\ \A x \in DOMAIN rows' \ DOMAIN rows : rows'[x] = DB!NoRows
        BY <2>1
  <2>4. \A x \in DOMAIN rows, v \in Data : rows[x][v] \in Nat
        OBVIOUS
  <2>5. QED
        BY <2>2, <2>3, <2>4
<1>2. CASE c.op = "insert"
  <2>1. rows' = [rows EXCEPT ![c.table] = [rows[c.table] EXCEPT ![c.value] = rows[c.table][c.value] + 1]]
        BY <1>2 DEF DB!After
  <2>2. /\ DOMAIN rows' = DOMAIN rows
        /\ \A x \in DOMAIN rows :
              rows'[x] = IF x = c.table THEN [rows[x] EXCEPT ![c.value] = @ + 1] ELSE rows[x]
        BY <2>1
  <2>3. ASSUME NEW x \in DOMAIN rows
        PROVE  /\ rows'[x] \in [Data -> Nat]
               /\ \A v \in Data :
                     /\ rows[x][v] \in Nat
                     /\ rows'[x][v] = rows[x][v] \/ (v = c.value /\ rows'[x][v] = rows[x][v] + 1)
    <3>1. rows[x] \in [Data -> Nat]
          OBVIOUS
    <3>2. CASE x = c.table
      <4>1. rows'[x] = [rows[x] EXCEPT ![c.value] = rows[x][c.value] + 1]
            BY <2>2, <3>2
      <4>2. \A v \in Data :
                /\ rows[x][v] \in Nat
                /\ rows'[x][v] = IF v = c.value THEN rows[x][v] + 1 ELSE rows[x][v]
            BY <3>1, <4>1
      <4>3. \A v \in Data : rows'[x][v] \in Nat
            BY <4>2
      <4>4. DOMAIN rows'[x] = Data /\ rows'[x] = [v \in Data |-> rows'[x][v]]
            BY <3>1, <4>1
      <4>5. rows'[x] \in [Data -> Nat]
            BY <4>3, <4>4
      <4>6. QED
            BY <4>2, <4>5
    <3>3. CASE x # c.table
          BY <2>2, <3>1, <3>3
    <3>4. QED
          BY <3>2, <3>3
  <2>4. \A x \in DOMAIN rows, v \in Data :
            /\ rows[x][v] \in Nat
            /\ rows'[x][v] = rows[x][v] \/ (v = c.value /\ rows'[x][v] = rows[x][v] + 1)
        BY <2>3
  <2>5. \A x \in DOMAIN rows, v \in Data :
            /\ ~(v = c.value /\ c.op = "insert") => rows'[x][v] <= rows[x][v]
            /\ ~(rows'[x][v] < rows[x][v])
        BY <1>2, <2>4
  <2>6. QED
        BY <2>2, <2>3, <2>5
<1>3. CASE c.op = "remove"
  <2>1. PICK q \in DB!Left(rows[c.table], c.value) : rows' = [rows EXCEPT ![c.table] = q]
        BY <1>3 DEF DB!After
  <2>2. /\ DOMAIN rows' = DOMAIN rows
        /\ \A x \in DOMAIN rows : rows'[x] = IF x = c.table THEN q ELSE rows[x]
        BY <2>1
  <2>3. CASE c.table \in DOMAIN rows
    <3>1. /\ q \in [Data -> Nat]
          /\ \A v \in Data : q[v] <= rows[c.table][v]
          /\ c.value \notin Expressions =>
                \A v \in Data : v # c.value => q[v] = rows[c.table][v]
          BY <2>1, <2>3, LeftRows
    <3>2. \A x \in DOMAIN rows : rows'[x] \in [Data -> Nat]
          BY <2>2, <3>1
    <3>3. \A x \in DOMAIN rows, v \in Data : rows[x][v] \in Nat
          OBVIOUS
    <3>4. \A x \in DOMAIN rows, v \in Data :
              /\ rows'[x][v] <= rows[x][v]
              /\ rows'[x][v] < rows[x][v] => v = c.value \/ c.value \in Expressions
          BY <2>2, <3>1, <3>3
    <3>5. QED
          BY <1>3, <2>2, <3>2, <3>4
  <2>4. CASE c.table \notin DOMAIN rows
    <3>1. \A x \in DOMAIN rows : rows'[x] = rows[x]
          BY <2>2, <2>4
    <3>2. \A x \in DOMAIN rows, v \in Data : rows[x][v] \in Nat
          OBVIOUS
    <3>3. QED
          BY <2>2, <3>1, <3>2
  <2>5. QED
        BY <2>3, <2>4
<1>4. QED
      BY <1>1, <1>2, <1>3

\* A step inside a call changes no rows, or it is the end of a statement.
LEMMA StatementEnds ==
    ASSUME EmptyInv, NEW t \in Threads, DB!Proceed(t)
    PROVE  \/ UNCHANGED rows
           \/ /\ pc[t] = "running" /\ Pending(t)
              /\ rows' \in DB!After(call[t])
              /\ call[t].op \in {"create", "insert", "remove"}
BY DEF EmptyInv, CallInv, Pending, DB!Proceed, DB!ExecLock, DB!ExecFail,
       DB!ExecStart, DB!ExecEnd, DB!ReadLock

LEMMA ProceedHeldInv ==
    ASSUME HeldInv, NEW t \in Threads, InDataBase(t)
    PROVE  ValueInv' /\ CountInv' /\ OnlyFirstItems'
<1> USE DEF HeldInv
<1>1. UNCHANGED <<call, code>>
      BY DEF InDataBase, DB!Proceed, DB!ExecLock, DB!ExecFail, DB!ExecStart,
             DB!ExecEnd, DB!ReadLock
<1>2. \A u \in Threads : Pending(u)' => Pending(u)
      BY DEF EmptyInv, LockInv, Pending, InDataBase, DB!Proceed, DB!ExecLock,
         DB!ExecFail, DB!ExecStart, DB!ExecEnd, DB!ReadLock, DB!Return
<1>3. ValueInv'
      BY <1>1, <1>2 DEF ValueInv
<1>4. CASE UNCHANGED rows
      BY <1>3, <1>4 DEF CountInv, OnlyFirstItems
<1>5. CASE rows' \in DB!After(call[t]) /\ Pending(t)
           /\ call[t].op \in {"create", "insert", "remove"}
  <2> DEFINE c == call[t]
  <2>1. /\ CountInv' /\ DOMAIN rows \subseteq DOMAIN rows'
        /\ \A table \in DOMAIN rows, v \in Data :
              ~(v = c.value /\ c.op = "insert") => rows'[table][v] <= rows[table][v]
        /\ \A table \in DOMAIN rows' \ DOMAIN rows : rows'[table] = DB!NoRows
        BY <1>5, StatementRows DEF EmptyInv
  <2> SUFFICES ASSUME NEW table \in DOMAIN rows', NEW v \in Data, rows'[table][v] > 0
               PROVE  \E m \in Messages : m # <<>> /\ v = Encode[m[1]]
      BY <1>3, <2>1 DEF OnlyFirstItems, Data
  <2>2. table \in DOMAIN rows
        BY <2>1 DEF DB!NoRows, Data
  <2>3. CASE v = c.value /\ c.op = "insert"
        BY <1>5, <2>3 DEF ValueInv
  <2>4. CASE ~(v = c.value /\ c.op = "insert")
    <3>1. rows'[table][v] <= rows[table][v] /\ rows[table][v] \in Nat /\ rows'[table][v] \in Nat
          BY <2>1, <2>2, <2>4 DEF CountInv
    <3>2. rows[table][v] > 0
          BY <3>1
    <3>3. QED
          BY <2>2, <3>2 DEF OnlyFirstItems, Data
  <2>5. QED
        BY <2>3, <2>4
<1>6. QED
      BY <1>4, <1>5, StatementEnds DEF InDataBase

\* A call that begins, with what it stores and on whose account it deletes.
LEMMA CallHeldInv ==
    ASSUME HeldInv, NEW t \in Threads, NEW c, DB!Begins(t, c),
           \A h \in Handlers \ {t} : code'[h] = code[h],
           c.op = "insert" =>
               \E m \in Messages : m # <<>> /\ c.value = Encode[m[1]],
           c.op = "remove" => t \in Handlers /\ code'[t] = "SavedFailed"
    PROVE  ValueInv' /\ CountInv' /\ OnlyFirstItems'
<1> USE DEF HeldInv
<1>1. UNCHANGED rows
      BY DEF DB!Begins, DB!Begin, DB!Refuse
<1>2. call' = [call EXCEPT ![t] = c]
      BY DEF DB!Begins, DB!Begin, DB!Refuse
<1>3. pc[t] = "idle" /\ \A u \in Threads \ {t} : pc'[u] = pc[u]
      BY DEF EmptyInv, LockInv, DB!Begins, DB!Begin, DB!Refuse
<1>4. ValueInv'
  <2> SUFFICES ASSUME NEW u \in Threads, Pending(u)'
               PROVE  /\ call'[u].op = "insert" =>
                            \E m \in Messages : m # <<>> /\ call'[u].value = Encode[m[1]]
                      /\ call'[u].op = "remove" => u \in Handlers /\ code'[u] = "SavedFailed"
      BY DEF ValueInv
  <2>1. CASE u = t
        BY <1>2, <2>1 DEF EmptyInv
  <2>2. CASE u # t
        BY <1>2, <1>3, <2>2 DEF EmptyInv, ValueInv, Pending
  <2>3. QED
        BY <2>1, <2>2
<1>5. QED
      BY <1>1, <1>4 DEF CountInv, OnlyFirstItems

LEMMA NextHeldInv == HeldInv /\ [Next]_vars => HeldInv'
<1> SUFFICES ASSUME HeldInv, [Next]_vars
             PROVE  ValueInv' /\ CountInv' /\ OnlyFirstItems'
    BY NextEmptyInv, NextModuleTypes DEF HeldInv
<1> USE WriterIsThread
<1>1. CASE CreateTable
  <2>1. UNCHANGED code
        BY <1>1 DEF CreateTable
  <2>2. PICK c : DB!Begins(WriterThread, c) /\ c.op = "create"
        BY <1>1 DEF CreateTable, DB!Begins, DB!CallOf
  <2>3. QED
        BY <2>1, <2>2, CallHeldInv
<1>2. CASE InsertItem
  <2>1. UNCHANGED code
        BY <1>2 DEF InsertItem
  <2>2. PICK c : DB!Begins(WriterThread, c) /\ c.op = "insert" /\ c.value = Encode[message[1]]
        BY <1>2 DEF InsertItem, DB!CallOf
  <2>3. message \in Messages /\ message # <<>>
    <3>1. message # <<>>
      <4>1. Len(message) \in Nat /\ next \in 1 .. Len(message) + 1
        <5>1. ModuleTypes
              BY DEF HeldInv
        <5>2. QED
              BY <5>1, MessageLength DEF ModuleTypes
      <4>2. next <= Len(message)
            BY <1>2 DEF InsertItem, Writing
      <4>3. Len(message) > 0
            BY <4>1, <4>2
      <4>4. Len(<<>>) = 0
            OBVIOUS
      <4>5. QED
            BY <4>3, <4>4
    <3>2. QED
          BY <3>1 DEF HeldInv, ModuleTypes
  <2>4. QED
        BY <2>1, <2>2, <2>3, CallHeldInv
<1>3. ASSUME NEW t \in Collectors, Collect(t)
      PROVE  ValueInv' /\ CountInv' /\ OnlyFirstItems'
  <2>1. t \in Threads /\ UNCHANGED code
        BY <1>3 DEF Collect, Threads
  <2>2. PICK c : DB!Begins(t, c) /\ c.op = "read"
        BY <1>3 DEF Collect, DB!CallOf
  <2>3. QED
        BY <2>1, <2>2, CallHeldInv
<1>4. ASSUME NEW t \in Handlers, NEW d \in Codes, NEW origin \in Origins, Delete(t, d, origin)
      PROVE  ValueInv' /\ CountInv' /\ OnlyFirstItems'
  <2>1. /\ t \in Threads /\ d = "SavedFailed"
        /\ code' = [code EXCEPT ![t] = d] /\ code \in [Handlers -> Codes]
        BY <1>4 DEF Delete, NeedsDeletion, Threads, HeldInv, ModuleTypes
  <2>2. PICK c : DB!Begins(t, c) /\ c.op = "remove"
        BY <1>4 DEF Delete, DB!CallOf
  <2>3. code'[t] = "SavedFailed" /\ \A h \in Handlers \ {t} : code'[h] = code[h]
        BY <2>1
  <2>4. QED
        BY <1>4, <2>1, <2>2, <2>3, CallHeldInv
<1>5. ASSUME NEW t \in Handlers, NEW c \in Codes, Ignore(t, c)
      PROVE  ValueInv' /\ CountInv' /\ OnlyFirstItems'
      BY <1>5 DEF Ignore, dbVars, HeldInv, ModuleTypes, ValueInv, CountInv, OnlyFirstItems, Pending
<1>6. CASE SaveTable \/ PopMessage \/ Disconnect \/ UNCHANGED vars
      BY <1>6 DEF SaveTable, PopMessage, Disconnect, DB!Close, vars, dbVars,
                  HeldInv, ValueInv, CountInv, OnlyFirstItems, Pending
<1>7. QED
      BY <1>1, <1>2, <1>3, <1>4, <1>5, <1>6, ProceedHeldInv DEF Next, Writer

(***************************************************************************)
(* Whatever is written, deleted and closed at the same time, a row holds   *)
(* the first item of some message and never a later one.                   *)
(***************************************************************************)
THEOREM HoldsFirstItems == Spec => []OnlyFirstItems
<1>1. HeldInv => OnlyFirstItems
      BY DEF HeldInv
<1>2. QED
      BY <1>1, InitHeldInv, NextHeldInv, PTL DEF Spec

(***************************************************************************)
(* Whose statement takes rows away, and which: the one of a call-back that *)
(* was told WriteResultSavedFailed, and those that hold its origin, unless *)
(* sqlite takes the origin for an expression.                              *)
(***************************************************************************)
DeletedOnAccount ==
    [][\A table \in DOMAIN rows, v \in Texts :
           Rows(table)'[v] < Rows(table)[v] =>
               \E h \in Handlers : /\ pc[h] = "running" /\ code[h] = "SavedFailed"
                                   /\ call[h].value \in {v} \cup Expressions]_vars

(***************************************************************************)
(* Rows go only on account of the result for which they need not go, after *)
(* define.h:51 and the comment on it at writer.cc:411: for any threads and *)
(* messages every delete is one that, by these, is not needed.             *)
(***************************************************************************)
THEOREM DeletesOnlySaved == Spec => DeletedOnAccount
<1> DEFINE Accounted ==
        \A table \in DOMAIN rows, v \in Texts :
           Rows(table)'[v] < Rows(table)[v] =>
               \E h \in Handlers : /\ pc[h] = "running" /\ code[h] = "SavedFailed"
                                   /\ call[h].value \in {v} \cup Expressions
<1>1. HeldInv /\ [Next]_vars => [Accounted]_vars
  <2> SUFFICES ASSUME HeldInv, [Next]_vars, NEW table \in DOMAIN rows, NEW v \in Texts,
                      Rows(table)'[v] < Rows(table)[v]
               PROVE  \E h \in Handlers : /\ pc[h] = "running" /\ code[h] = "SavedFailed"
                                          /\ call[h].value \in {v} \cup Expressions
      OBVIOUS
  <2>1. v \in Data /\ rows[table][v] \in Nat
        BY DEF HeldInv, CountInv, Data
  <2>2. CASE UNCHANGED rows
        BY <2>1, <2>2 DEF Rows
  <2>3. ASSUME NEW t \in Threads, DB!Proceed(t), ~UNCHANGED rows
        PROVE  \E h \in Handlers : /\ pc[h] = "running" /\ code[h] = "SavedFailed"
                                   /\ call[h].value \in {v} \cup Expressions
    <3>1. /\ pc[t] = "running" /\ Pending(t) /\ rows' \in DB!After(call[t])
          /\ call[t].op \in {"create", "insert", "remove"}
          BY <2>3, StatementEnds DEF HeldInv
    <3>2. /\ table \in DOMAIN rows'
          /\ rows'[table][v] < rows[table][v] =>
                call[t].op = "remove" /\ (call[t].value = v \/ call[t].value \in Expressions)
          BY <2>1, <3>1, StatementRows DEF HeldInv, EmptyInv
    <3>3. rows'[table][v] < rows[table][v]
          BY <3>2 DEF Rows
    <3>4. QED
          BY <3>1, <3>2, <3>3 DEF HeldInv, ValueInv
  <2>4. ASSUME NEW t \in Threads, NEW c, DB!Begins(t, c)
        PROVE  UNCHANGED rows
        BY <2>4 DEF DB!Begins, DB!Begin, DB!Refuse
  <2>5. QED
        BY <2>2, <2>3, <2>4, StepKinds
<1>2. QED
      BY <1>1, InitHeldInv, NextHeldInv, PTL DEF Spec, DeletedOnAccount
==============================================================================
