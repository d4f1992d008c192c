---------------------------- MODULE ApplicationProofs ----------------------------
(***************************************************************************)
(* Proofs about Application, for any number of processes, signals and      *)
(* calls of Stop.                                                          *)
(***************************************************************************)
EXTENDS Application, SequenceTheorems, TLAPS

Places == {"begin", "wait", "stuck", "ended", "cancelled"}
Bound == Len(threads_)

JobAt(i) == (resp_vec \o col_vec)[i]

LEMMA Vectors ==
    /\ resp_vec \in Seq(Jobs) /\ Len(resp_vec) = 3
    /\ col_vec \in Seq(Jobs) /\ Len(col_vec) = 3
    /\ resp_vec[1] = "explan" /\ resp_vec[2] = "web" /\ resp_vec[3] = "network"
    /\ col_vec[1] = "hardware" /\ col_vec[2] = "database" /\ col_vec[3] = "app"
BY DEF resp_vec, col_vec, Jobs

\* Both vectors, one behind the other.
LEMMA Order ==
    /\ \A i \in 1..3 : resp_vec[i] = JobAt(i) /\ col_vec[i] = JobAt(i + 3)
    /\ JobAt(1) = "explan" /\ JobAt(2) = "web" /\ JobAt(3) = "network"
    /\ JobAt(4) = "hardware" /\ JobAt(5) = "database" /\ JobAt(6) = "app"
<1>1. /\ \A i \in 1 .. Len(resp_vec) + Len(col_vec) :
            JobAt(i) = IF i <= Len(resp_vec) THEN resp_vec[i] ELSE col_vec[i - Len(resp_vec)]
      BY ConcatProperties, Vectors, Zenon DEF JobAt
<1>2. \A i \in 1..6 : JobAt(i) = IF i <= 3 THEN resp_vec[i] ELSE col_vec[i - 3]
      BY <1>1, Vectors
<1>3. ASSUME NEW i \in 1..3 PROVE resp_vec[i] = JobAt(i) /\ col_vec[i] = JobAt(i + 3)
  <2>1. i \in 1..6 /\ i <= 3 /\ i + 3 \in 1..6 /\ ~(i + 3 <= 3) /\ (i + 3) - 3 = i
        OBVIOUS
  <2>2. QED
        BY <1>2, <2>1
<1>4. /\ JobAt(1) = resp_vec[1] /\ JobAt(2) = resp_vec[2] /\ JobAt(3) = resp_vec[3]
      /\ JobAt(4) = col_vec[1] /\ JobAt(5) = col_vec[2] /\ JobAt(6) = col_vec[3]
      BY <1>2
<1>5. QED
      BY <1>3, <1>4, Vectors

LEMMA AfterIs ==
    /\ After("config") = "resp" /\ After("resp") = "writer" /\ After("writer") = "collector"
    /\ After("collector") = IF host = "main" THEN "join" ELSE "run"
<1>1. Phases[1] = "config" /\ Phases[2] = "resp" /\ Phases[3] = "writer"
      /\ Phases[4] = "collector"
      BY DEF Phases
<1>2. (CHOOSE i \in 1..3 : Phases[i] = "config") = 1
      BY <1>1
<1>3. (CHOOSE i \in 1..3 : Phases[i] = "resp") = 2
      BY <1>1
<1>4. (CHOOSE i \in 1..3 : Phases[i] = "writer") = 3
      BY <1>1
<1>5. QED
      BY <1>1, <1>2, <1>3, <1>4 DEF After

------------------------------------------------------------------------------
(* What the actions do to the threads *)

ThreadsType ==
    /\ threads_ \in Seq(ThreadType) /\ Bound <= 6
    /\ \A i \in 1..Bound : threads_[i].job = JobAt(i)

\* one thread is somewhere else, the others are where they were
Moved(i, at) ==
    /\ threads_' \in Seq(ThreadType) /\ Bound' = Bound
    /\ \A k \in 1..Bound :
          /\ threads_'[k].job = threads_[k].job /\ threads_'[k].cancel = threads_[k].cancel
          /\ threads_'[k].at = IF k = i THEN at ELSE threads_[k].at

LEMMA ToMoves ==
    ASSUME ThreadsType, NEW i \in 1..Bound, NEW at \in Places, To(i, at)
    PROVE  Moved(i, at)
<1>1. threads_ \in [1..Bound -> ThreadType] /\ Bound \in Nat
      BY DEF ThreadsType, Bound
<1>2. threads_' = [threads_ EXCEPT ![i] = [threads_[i] EXCEPT !.at = at]]
      BY DEF To
<1>3. threads_[i] \in ThreadType
      BY <1>1
<1>4. [threads_[i] EXCEPT !.at = at] \in ThreadType
      BY <1>3 DEF ThreadType, Places
<1>5. threads_' \in Seq(ThreadType) /\ Bound' = Bound
      BY <1>1, <1>2, <1>4 DEF ThreadsType, Bound
<1>6. ASSUME NEW k \in 1..Bound
      PROVE  /\ threads_'[k].job = threads_[k].job /\ threads_'[k].cancel = threads_[k].cancel
             /\ threads_'[k].at = IF k = i THEN at ELSE threads_[k].at
      BY <1>1, <1>2, <1>3 DEF ThreadType
<1>7. QED
      BY <1>5, <1>6 DEF Moved

\* where a thread may go by itself
Allowed(i, at) ==
    /\ threads_[i].at \in {"begin", "wait"}
    /\ at = "wait" => i \in {1, 3}
    /\ at = "stuck" => i = 5
    /\ at = "ended" => i \in {2, 4, 6} \/ (i = 5 /\ ~db_open)
    /\ at = "cancelled" => threads_[i].cancel

LEMMA StepMoves ==
    ASSUME ThreadsType, NEW i \in 1..Bound, Step(i)
    PROVE  \E at \in Places : Moved(i, at) /\ Allowed(i, at)
<1>1. i \in 1..6 /\ threads_[i].job = JobAt(i)
      BY DEF ThreadsType, Bound
<1>2. \/ i = 1 /\ threads_[i].job = "explan"
      \/ i = 2 /\ threads_[i].job = "web"
      \/ i = 3 /\ threads_[i].job = "network"
      \/ i = 4 /\ threads_[i].job = "hardware"
      \/ i = 5 /\ threads_[i].job = "database"
      \/ i = 6 /\ threads_[i].job = "app"
  <2>1. i = 1 \/ i = 2 \/ i = 3 \/ i = 4 \/ i = 5 \/ i = 6
        BY <1>1
  <2>2. QED
        BY <1>1, <2>1, Order
<1>3. \E at \in Places : To(i, at) /\ Allowed(i, at)
      BY <1>2 DEF Step, Finish, Wait, Read, Cancelled, Allowed, Places
<1>4. QED
      BY <1>3, ToMoves

LEMMA CreateAdds ==
    ASSUME ThreadsType, Bound < 6, NEW job \in Jobs, job = JobAt(Bound + 1),
           threads_' = Append(threads_, Create(job))
    PROVE  /\ ThreadsType' /\ Bound' = Bound + 1
           /\ \A k \in 1..Bound : threads_'[k] = threads_[k]
           /\ threads_'[Bound + 1] = Create(job)
<1>1. Create(job) \in ThreadType
      BY DEF Create, ThreadType
<1>2. Bound \in Nat
      BY DEF ThreadsType, Bound
<1>3. /\ threads_' \in Seq(ThreadType) /\ Bound' = Bound + 1
      /\ \A k \in 1..Bound : threads_'[k] = threads_[k]
      /\ threads_'[Bound + 1] = Create(job)
  <2>1. threads_ \in Seq(ThreadType)
        BY DEF ThreadsType
  <2>2. QED
        BY <1>1, <1>2, <2>1, AppendProperties DEF Bound
<1>4. ASSUME NEW k \in 1..Bound' PROVE threads_'[k].job = JobAt(k)
  <2>1. CASE k = Bound + 1
    <3>1. threads_'[k] = Create(job)
          BY <1>3, <2>1, Zenon
    <3>2. Create(job).job = JobAt(k)
          BY <2>1 DEF Create
    <3>3. QED
          BY <3>1, <3>2, Zenon
  <2>2. CASE k \in 1..Bound
        BY <1>3, <2>2 DEF ThreadsType
  <2>3. QED
    <3>1. Bound' = Bound + 1
          BY <1>3, Zenon
    <3>2. k = Bound + 1 \/ k \in 1..Bound
          BY <1>2, <3>1
    <3>3. QED
          BY <2>1, <2>2, <3>2, Zenon
<1>5. Bound' <= 6
      BY <1>2, <1>3
<1>6. QED
      BY <1>3, <1>4, <1>5 DEF ThreadsType

------------------------------------------------------------------------------
(* The inductive invariant *)

Scalars ==
    /\ host \in {"main", "plugin"} /\ alive \in BOOLEAN /\ process \in 1..MaxProcesses
    /\ db_open \in BOOLEAN /\ blocked_ \in BOOLEAN /\ experience_enable \in BOOLEAN
    /\ exported \in BOOLEAN
    /\ stops \in 0..MaxStops /\ signals \in 0..MaxSignals
    /\ wish \in 0..MaxProcesses

\* how many threads there are while the main thread is somewhere, and that
\* nothing is on the bus before the first
Shape ==
    /\ pc \in {"idle", "config", "resp", "writer", "collector", "run", "stop", "join", "gone"}
    /\ n \in 1..6
    /\ pc \in {"idle", "config"} => Bound = 0
    /\ pc = "resp" => n \in 1..3 /\ Bound = n - 1
    /\ pc = "writer" => Bound = 3
    /\ pc = "collector" => n \in 1..3 /\ Bound = n + 2
    /\ pc \in {"run", "stop", "join", "gone"} => Bound = 6
    /\ exported => Bound # 0

\* only the plan and the network wait, only the database gets stuck, and
\* nothing is cancelled without stop()
Fates ==
    \A i \in 1..Bound :
        /\ threads_[i].at = "wait" => i \in {1, 3}
        /\ threads_[i].at = "stuck" => i = 5
        /\ i = 5 /\ threads_[i].at = "ended" => ~db_open
        /\ stops = 0 => ~threads_[i].cancel /\ threads_[i].at # "cancelled"

\* each thread that ended a wait took a signal of its own
EndedAt(i) == i \in 1..Bound /\ threads_[i].at = "ended"

Taken ==
    /\ EndedAt(1) \/ EndedAt(3) => signals >= 1
    /\ EndedAt(1) /\ EndedAt(3) => signals >= 2

\* the destructor has joined the threads it has passed
Joined ==
    /\ pc = "stop" => stops >= 1
    /\ pc = "join" => \A i \in 1..n-1 : Over(threads_[i])
    /\ pc = "gone" => \A i \in 1..Bound : Over(threads_[i])

\* the plan is off until this process was told otherwise
Plan ==
    /\ pc \in {"idle", "config"} => blocked_
    /\ wish <= process
    /\ PlanIsForgotten

IInv == ThreadsType /\ Scalars /\ Shape /\ Fates /\ Taken /\ Joined /\ Plan

\* a process that begins, with a wish of an earlier one
Fresh ==
    \E h \in {"main", "plugin"}, p \in 1..MaxProcesses :
        /\ Begin(h, p)
        /\ wish \in 0..MaxProcesses /\ wish < p

LEMMA FreshInv == Fresh => IInv
<1> SUFFICES ASSUME NEW h \in {"main", "plugin"}, NEW p \in 1..MaxProcesses, Begin(h, p),
                    wish \in 0..MaxProcesses, wish < p
             PROVE  IInv
    BY DEF Fresh
<1>1. threads_ = <<>> /\ Bound = 0
      BY DEF Begin, Bound
<1>2. ThreadsType
      BY <1>1 DEF ThreadsType
<1>3. Scalars
  <2>1. stops \in 0..MaxStops /\ signals \in 0..MaxSignals
        BY BoundsAssumption DEF Begin
  <2>2. /\ host = h /\ alive = TRUE /\ process = p
        /\ db_open = FALSE /\ blocked_ = TRUE /\ experience_enable = FALSE /\ exported = FALSE
        BY DEF Begin
  <2>3. QED
        BY <2>1, <2>2, Zenon DEF Scalars
<1>4. Shape
      BY <1>1 DEF Begin, Shape
<1>5. Fates /\ Taken
      BY <1>1 DEF Fates, Taken, EndedAt
<1>6. Joined
      BY DEF Begin, Joined
<1>7. Plan
      BY DEF Begin, Plan, PlanIsForgotten
<1>8. QED
      BY <1>2, <1>3, <1>4, <1>5, <1>6, <1>7 DEF IInv

LEMMA InitInv == Init => IInv
<1> SUFFICES ASSUME Init PROVE IInv
    OBVIOUS
<1>1. PICK h \in {"main", "plugin"} : Begin(h, 1)
      BY DEF Init
<1>2. 1 \in 1..MaxProcesses
      BY BoundsAssumption
<1>3. wish \in 0..MaxProcesses /\ wish < 1
      BY BoundsAssumption DEF Init
<1>4. QED
      BY <1>1, <1>2, <1>3, FreshInv DEF Fresh

------------------------------------------------------------------------------
(* The threads keep it *)

LEMMA MovedInv ==
    ASSUME IInv, NEW i \in 1..Bound, NEW at \in Places, Moved(i, at),
           threads_[i].at \in {"begin", "wait"},
           at = "wait" => i \in {1, 3}, at = "stuck" => i = 5,
           i = 5 /\ at = "ended" => ~db_open, at = "cancelled" => threads_[i].cancel,
           UNCHANGED <<pc, n, db_open, stops, exported>>
    PROVE  ThreadsType' /\ Shape' /\ Fates' /\ Joined'
<1>1. threads_' \in Seq(ThreadType) /\ Bound' = Bound /\ Bound \in Nat /\ Bound <= 6
      BY DEF Moved, IInv, ThreadsType, Bound
<1>2. \A k \in 1..Bound :
          /\ threads_'[k].job = threads_[k].job /\ threads_'[k].cancel = threads_[k].cancel
          /\ threads_'[k].at = IF k = i THEN at ELSE threads_[k].at
      BY DEF Moved
<1>3. ThreadsType'
      BY <1>1, <1>2 DEF IInv, ThreadsType
<1>4. Shape'
      BY <1>1 DEF IInv, Shape
<1>5. Fates'
  <2> SUFFICES ASSUME NEW k \in 1..Bound
               PROVE  /\ threads_'[k].at = "wait" => k \in {1, 3}
                      /\ threads_'[k].at = "stuck" => k = 5
                      /\ k = 5 /\ threads_'[k].at = "ended" => ~db_open
                      /\ stops = 0 => ~threads_'[k].cancel /\ threads_'[k].at # "cancelled"
      BY <1>1 DEF Fates
  <2>1. CASE k = i
        BY <1>2, <2>1 DEF IInv, Fates
  <2>2. CASE k # i
        BY <1>2, <2>2 DEF IInv, Fates
  <2>3. QED
        BY <2>1, <2>2
<1>6. ASSUME NEW k \in 1..Bound, Over(threads_[k]) PROVE Over(threads_'[k])
      BY <1>2, <1>6 DEF Over
<1>7. Joined'
  <2>1. pc = "join" => \A k \in 1..n-1 : k \in 1..Bound
        BY DEF IInv, Shape
  <2>2. QED
        BY <1>1, <1>6, <2>1 DEF IInv, Joined
<1>8. QED
      BY <1>3, <1>4, <1>5, <1>7

LEMMA ThreadInv == ASSUME IInv, Thread PROVE IInv'
<1>1. UNCHANGED <<host, process, exported, alive, pc, n, db_open, stops, blocked_, experience_enable,
                  wish, signals>>
      BY DEF Thread, world, main, plan
<1>2. PICK i \in 1..Bound : Step(i)
  <2>1. DOMAIN threads_ = 1..Bound
        BY DEF IInv, ThreadsType, Bound
  <2>2. QED
        BY <2>1 DEF Thread
<1>3. PICK at \in Places : Moved(i, at) /\ Allowed(i, at)
      BY <1>2, StepMoves DEF IInv
<1>4. ThreadsType' /\ Shape' /\ Fates' /\ Joined'
      BY <1>1, <1>3, MovedInv DEF Allowed
<1>5. Taken'
  <2>1. ASSUME NEW k \in {1, 3}, EndedAt(k)' PROVE EndedAt(k)
        BY <1>3, <2>1 DEF EndedAt, Moved, Allowed
  <2>2. QED
        BY <1>1, <2>1 DEF IInv, Taken
<1>6. Scalars' /\ Plan'
      BY <1>1 DEF IInv, Scalars, Plan, PlanIsForgotten
<1>7. QED
      BY <1>4, <1>5, <1>6 DEF IInv

LEMMA InterruptInv == ASSUME IInv, Interrupt PROVE IInv'
<1>1. UNCHANGED <<host, process, exported, pc, n, db_open, stops, blocked_, experience_enable, wish>>
      BY DEF Interrupt, world, main, plan
<1>2. Plan'
      BY <1>1 DEF IInv, Plan, PlanIsForgotten
<1>3. Scalars'
  <2>1. alive' = FALSE \/ alive' = alive
        BY DEF Interrupt
  <2>2. signals' = signals \/ (signals < MaxSignals /\ signals' = signals + 1)
        BY DEF Interrupt
  <2>3. signals' \in 0..MaxSignals
        BY <2>2, BoundsAssumption DEF IInv, Scalars
  <2>4. QED
        BY <1>1, <2>1, <2>3 DEF IInv, Scalars
<1>4. CASE UNCHANGED <<threads_, signals>>
      BY <1>1, <1>2, <1>3, <1>4
      DEF IInv, ThreadsType, Bound, Shape, Fates, Taken, EndedAt, Joined
<1>5. CASE signals' = signals + 1
           /\ \E i \in DOMAIN threads_ : threads_[i].at = "wait" /\ To(i, "ended")
  <2>1. DOMAIN threads_ = 1..Bound
        BY DEF IInv, ThreadsType, Bound
  <2>2. PICK i \in 1..Bound : threads_[i].at = "wait" /\ To(i, "ended")
        BY <1>5, <2>1
  <2>3. Moved(i, "ended")
        BY <2>2, ToMoves DEF IInv, Places
  <2>4. i \in {1, 3}
        BY <2>2 DEF IInv, Fates
  <2>5. ThreadsType' /\ Shape' /\ Fates' /\ Joined'
        BY <1>1, <2>2, <2>3, <2>4, MovedInv DEF Places
  <2>6. Taken'
    <3>1. ASSUME NEW k \in {1, 3}, EndedAt(k)', k # i PROVE EndedAt(k)
          BY <2>3, <3>1 DEF EndedAt, Moved
    <3>2. signals \in Nat /\ signals' = signals + 1
          BY <1>5, BoundsAssumption DEF IInv, Scalars
    <3>3. EndedAt(1)' /\ EndedAt(3)' => signals >= 1
          BY <2>4, <3>1 DEF IInv, Taken
    <3>4. QED
          BY <3>2, <3>3 DEF Taken
  <2>7. QED
        BY <1>2, <1>3, <2>5, <2>6 DEF IInv
<1>6. QED
      BY <1>4, <1>5 DEF Interrupt

------------------------------------------------------------------------------
(* The main thread, the user and the next process keep it *)

LEMMA AddedInv ==
    ASSUME IInv, Bound < 6, NEW job \in Jobs, job = JobAt(Bound + 1),
           threads_' = Append(threads_, Create(job)), UNCHANGED <<db_open, stops, signals>>
    PROVE  ThreadsType' /\ Bound' = Bound + 1 /\ Fates' /\ Taken'
<1>1. /\ ThreadsType' /\ Bound' = Bound + 1
      /\ \A k \in 1..Bound : threads_'[k] = threads_[k]
      /\ threads_'[Bound + 1] = Create(job)
      BY CreateAdds DEF IInv
<1> HIDE DEF Create
<1>2. Bound \in Nat
      BY DEF IInv, ThreadsType, Bound
<1>3. Create(job).at = "begin" /\ Create(job).cancel = FALSE
      BY DEF Create
<1>4. ASSUME NEW k \in 1..Bound'
      PROVE  \/ k \in 1..Bound /\ threads_'[k] = threads_[k]
             \/ threads_'[k].at = "begin" /\ threads_'[k].cancel = FALSE
  <2>1. k \in 1..Bound \/ k = Bound + 1
        BY <1>1, <1>2
  <2>2. QED
        BY <1>1, <1>3, <2>1, Zenon
<1>5. ASSUME NEW k \in 1..Bound'
      PROVE  /\ threads_'[k].at = "wait" => k \in {1, 3}
             /\ threads_'[k].at = "stuck" => k = 5
             /\ k = 5 /\ threads_'[k].at = "ended" => ~db_open'
             /\ stops' = 0 => ~threads_'[k].cancel /\ threads_'[k].at # "cancelled"
  <2>1. CASE k \in 1..Bound /\ threads_'[k] = threads_[k]
        BY <2>1, Zenon DEF IInv, Fates
  <2>2. CASE threads_'[k].at = "begin" /\ threads_'[k].cancel = FALSE
        BY <2>2
  <2>3. QED
        BY <1>4, <2>1, <2>2
<1>6. ASSUME NEW k \in {1, 3}, EndedAt(k)' PROVE EndedAt(k)
      BY <1>4, <1>6 DEF EndedAt
<1>7. Taken'
      BY <1>6 DEF IInv, Taken
<1>8. QED
      BY <1>1, <1>5, <1>7 DEF Fates

LEMMA InitRespInv ==
    ASSUME IInv, InitResp, UNCHANGED <<host, process, exported, alive, signals>> PROVE IInv'
<1>1. /\ pc = "resp" /\ threads_' = Append(threads_, Create(resp_vec[n]))
      /\ IF n < 3 THEN n' = n + 1 /\ UNCHANGED pc ELSE pc' = "writer" /\ n' = 1
      /\ UNCHANGED <<db_open, blocked_, experience_enable, wish, stops>>
      BY Vectors, AfterIs DEF InitResp, CreateIn, Go, plan
<1>2. n \in 1..3 /\ Bound = n - 1
      BY <1>1 DEF IInv, Shape
<1>3. resp_vec[n] = JobAt(Bound + 1) /\ resp_vec[n] \in Jobs /\ Bound < 6
  <2>1. Bound + 1 = n /\ Bound < 6
        BY <1>2
  <2>2. resp_vec[n] = JobAt(n)
        BY <1>2, Order
  <2>3. resp_vec[n] \in Jobs
    <3>1. n = 1 \/ n = 2 \/ n = 3
          BY <1>2
    <3>2. QED
          BY <3>1, Vectors DEF Jobs
  <2>4. QED
        BY <2>1, <2>2, <2>3, Zenon
<1>4. ThreadsType' /\ Bound' = Bound + 1 /\ Fates' /\ Taken'
      BY <1>1, <1>3, AddedInv
<1>5. Shape' /\ Joined'
      BY <1>1, <1>2, <1>4 DEF Shape, Joined
<1>6. Scalars' /\ Plan'
      BY <1>1 DEF IInv, Scalars, Plan, PlanIsForgotten
<1>7. QED
      BY <1>4, <1>5, <1>6 DEF IInv

LEMMA InitCollectorInv ==
    ASSUME IInv, InitCollector, UNCHANGED <<host, process, exported, alive, signals>> PROVE IInv'
<1>1. /\ pc = "collector" /\ threads_' = Append(threads_, Create(col_vec[n]))
      /\ IF n < 3 THEN n' = n + 1 /\ UNCHANGED pc
         ELSE pc' \in {"join", "run"} /\ n' = 1
      /\ UNCHANGED <<db_open, blocked_, experience_enable, wish, stops>>
      BY Vectors, AfterIs DEF InitCollector, CreateIn, Go, plan
<1>2. n \in 1..3 /\ Bound = n + 2
      BY <1>1 DEF IInv, Shape
<1>3. col_vec[n] = JobAt(Bound + 1) /\ col_vec[n] \in Jobs /\ Bound < 6
  <2>1. Bound + 1 = n + 3 /\ Bound < 6
        BY <1>2
  <2>2. col_vec[n] = JobAt(n + 3)
        BY <1>2, Order
  <2>3. col_vec[n] \in Jobs
    <3>1. n = 1 \/ n = 2 \/ n = 3
          BY <1>2
    <3>2. QED
          BY <3>1, Vectors DEF Jobs
  <2>4. QED
        BY <2>1, <2>2, <2>3, Zenon
<1>4. ThreadsType' /\ Bound' = Bound + 1 /\ Fates' /\ Taken'
      BY <1>1, <1>3, AddedInv
<1>5. Shape' /\ Joined'
      BY <1>1, <1>2, <1>4 DEF Shape, Joined
<1>6. Scalars' /\ Plan'
      BY <1>1 DEF IInv, Scalars, Plan, PlanIsForgotten
<1>7. QED
      BY <1>4, <1>5, <1>6 DEF IInv

\* what Main does without the threads
LEMMA QuietInv ==
    ASSUME IInv, Start \/ InitConfig \/ InitWriter \/ Stop \/ Exit \/ Join,
           UNCHANGED <<host, process, exported, alive, signals>>
    PROVE  IInv'
<1>1. threads_' = threads_ /\ Bound' = Bound /\ ThreadsType' /\ Bound \in Nat
      BY DEF Start, InitConfig, InitWriter, Stop, Exit, Join, plan, IInv, ThreadsType, Bound
<1>2. db_open' = db_open \/ (Bound = 3 /\ db_open' \in BOOLEAN)
      BY DEF Start, InitConfig, InitWriter, Stop, Exit, Join, IInv, Shape
<1>3. stops' = stops \/ (stops' = stops + 1 /\ stops + process <= MaxStops /\ stops \in Nat
                           /\ process \in Nat /\ process >= 1)
      BY BoundsAssumption DEF Start, InitConfig, InitWriter, Stop, Exit, Join, IInv, Scalars
<1>4. Taken'
      BY <1>1 DEF IInv, Taken, EndedAt
<1>5. Fates'
  <2> SUFFICES ASSUME NEW k \in 1..Bound
               PROVE  /\ threads_[k].at = "wait" => k \in {1, 3}
                      /\ threads_[k].at = "stuck" => k = 5
                      /\ k = 5 /\ threads_[k].at = "ended" => ~db_open'
                      /\ stops' = 0 => ~threads_[k].cancel /\ threads_[k].at # "cancelled"
      BY <1>1 DEF Fates
  <2>1. k = 5 => db_open' = db_open
        BY <1>2
  <2>2. stops' = 0 => stops = 0
        BY <1>3
  <2>3. QED
        BY <2>1, <2>2 DEF IInv, Fates
<1>6. UNCHANGED <<blocked_, wish>> /\ experience_enable' = FALSE
      BY DEF Start, InitConfig, InitWriter, Stop, Exit, Join, plan, IInv, Scalars, Plan,
             PlanIsForgotten
<1>7. Scalars'
  <2>1. stops' \in 0..MaxStops
        BY <1>3, BoundsAssumption DEF IInv, Scalars
  <2>2. QED
        BY <1>2, <1>6, <2>1 DEF IInv, Scalars
<1>8. Shape' /\ Joined' /\ (pc' \in {"idle", "config"} => pc = "idle")
  <2>1. CASE Start
        BY <1>1, <2>1 DEF Start, Go, Phases, IInv, Shape, Joined
  <2>2. CASE InitConfig
        BY <1>1, <2>2, AfterIs DEF InitConfig, Go, IInv, Shape, Joined
  <2>3. CASE InitWriter
        BY <1>1, <2>3, AfterIs DEF InitWriter, Go, IInv, Shape, Joined
  <2>4. CASE Stop
        BY <1>1, <2>4, BoundsAssumption DEF Stop, Go, IInv, Shape, Joined, Scalars
  <2>5. CASE Exit
        BY <1>1, <2>5 DEF Exit, Go, IInv, Shape, Joined
  <2>6. CASE Join
    <3>1. pc = "join" /\ Over(threads_[n]) /\ n \in 1..6 /\ Bound = 6
          BY <2>6 DEF Join, IInv, Shape
    <3>2. \A i \in 1..n : Over(threads_[i])
      <4>1. \A i \in 1..n-1 : Over(threads_[i])
            BY <3>1 DEF IInv, Joined
      <4>2. QED
            BY <3>1, <4>1
    <3>3. \/ n < 6 /\ n' = n + 1 /\ pc' = "join"
          \/ n = 6 /\ n' = 1 /\ pc' = "gone"
          BY <2>6, <3>1 DEF Join, Go, Bound
    <3>4. QED
          BY <1>1, <3>1, <3>2, <3>3 DEF Shape, Joined
  <2>7. QED
        BY <2>1, <2>2, <2>3, <2>4, <2>5, <2>6
<1>9. Plan'
      BY <1>6, <1>8 DEF IInv, Plan, PlanIsForgotten
<1>10. QED
      BY <1>1, <1>4, <1>5, <1>7, <1>8, <1>9 DEF IInv

\* stop() marks one thread that is not over.
LEMMA StopThreadInv ==
    ASSUME IInv, StopThread, UNCHANGED <<host, process, exported, alive, signals>> PROVE IInv'
<1>0. threads_ \in [1..Bound -> ThreadType] /\ Bound \in Nat
      BY DEF IInv, ThreadsType, Bound
<1>1. pc = "stop" /\ n \in 1..Bound /\ Bound = 6 /\ stops # 0 /\ stops >= 1
      BY DEF StopThread, IInv, Shape, Joined
<1>2. UNCHANGED <<db_open, blocked_, experience_enable, wish, stops>>
      BY DEF StopThread, plan
<1>3. threads_[n] \in ThreadType
      BY <1>0, <1>1
<1>4. PICK c \in BOOLEAN : threads_' = [threads_ EXCEPT ![n] = [threads_[n] EXCEPT !.cancel = c]]
  <2>1. threads_' = [threads_ EXCEPT ![n].cancel = @ \/ ~Over(threads_[n])]
        BY DEF StopThread
  <2>2. (threads_[n].cancel \/ ~Over(threads_[n])) \in BOOLEAN
        OBVIOUS
  <2>3. QED
        BY <2>1, <2>2
<1>5. [threads_[n] EXCEPT !.cancel = c] \in ThreadType
      BY <1>3 DEF ThreadType
<1>6. /\ threads_' \in Seq(ThreadType) /\ Bound' = Bound
      /\ \A k \in 1..Bound : threads_'[k].job = threads_[k].job /\ threads_'[k].at = threads_[k].at
  <2>1. threads_' \in Seq(ThreadType) /\ Bound' = Bound
    <3>1. n \in 1..Bound
          BY <1>1
    <3>2. QED
          BY <1>0, <1>4, <1>5, <3>1 DEF Bound
  <2>2. ASSUME NEW k \in 1..Bound
        PROVE  threads_'[k].job = threads_[k].job /\ threads_'[k].at = threads_[k].at
        BY <1>0, <1>1, <1>3, <1>4 DEF ThreadType
  <2>3. QED
        BY <2>1, <2>2
<1>7. ThreadsType'
      BY <1>6 DEF IInv, ThreadsType
<1>8. Fates'
      BY <1>1, <1>2, <1>6 DEF IInv, Fates
<1>9. Taken'
      BY <1>6 DEF IInv, Taken, EndedAt
<1>10. \/ n < 6 /\ n' = n + 1 /\ pc' = "stop"
       \/ n = 6 /\ n' = 1 /\ pc' = "run"
       BY <1>1 DEF StopThread, Go, Bound
<1>11. Shape' /\ Joined'
       BY <1>1, <1>2, <1>6, <1>10 DEF Shape, Joined
<1>12. Scalars' /\ Plan'
       BY <1>1, <1>2, <1>10 DEF IInv, Scalars, Plan, PlanIsForgotten
<1>13. QED
       BY <1>7, <1>8, <1>9, <1>11, <1>12 DEF IInv

LEMMA MainInv == ASSUME IInv, Main PROVE IInv'
<1>1. UNCHANGED <<host, process, exported, alive, signals>>
      BY DEF Main, world
<1>2. QED
      BY <1>1, QuietInv, InitRespInv, InitCollectorInv, StopThreadInv DEF Main, Goes

LEMMA EnableInv ==
    ASSUME IInv, NEW on \in BOOLEAN, Enable(on) PROVE IInv'
<1>1. UNCHANGED <<host, process, exported, alive, pc, n, threads_, db_open, stops, signals,
                  experience_enable>>
      BY DEF Enable, world, main
<1>2. Bound # 0
      BY DEF Enable, IInv, Shape
<1>3. /\ process \in 1..MaxProcesses /\ process \in Nat /\ process >= 1 /\ MaxProcesses \in Nat
      BY BoundsAssumption DEF IInv, Scalars
<1>4. \/ blocked_' = FALSE /\ wish' = process
      \/ blocked_' = TRUE /\ wish' = 0
  <2>1. CASE on = TRUE
        BY <2>1 DEF Enable
  <2>2. CASE on = FALSE
        BY <2>2 DEF Enable
  <2>3. QED
        BY <2>1, <2>2
<1>5. Plan'
  <2>1. wish' <= process' /\ (~blocked_' <=> wish' = process')
        BY <1>1, <1>3, <1>4
  <2>2. ~experience_enable'
        BY <1>1 DEF IInv, Plan, PlanIsForgotten
  <2>3. pc' \notin {"idle", "config"}
        BY <1>1, <1>2 DEF IInv, Shape
  <2>4. QED
        BY <2>1, <2>2, <2>3 DEF Plan, PlanIsForgotten
<1>6. Scalars'
  <2>1. blocked_' \in BOOLEAN
        BY <1>4
  <2>2. wish' \in 0..MaxProcesses
        BY <1>3, <1>4
  <2>3. QED
        BY <1>1, <2>1, <2>2 DEF IInv, Scalars
<1>7. ThreadsType' /\ Shape' /\ Fates' /\ Taken' /\ Joined'
      BY <1>1 DEF IInv, ThreadsType, Bound, Shape, Fates, Taken, EndedAt, Joined
<1>8. QED
      BY <1>5, <1>6, <1>7 DEF IInv

LEMMA ExportInv == ASSUME IInv, Export PROVE IInv'
<1>1. /\ exported' = TRUE
      /\ UNCHANGED <<host, process, alive, pc, n, db_open, stops, threads_, blocked_,
                     experience_enable, wish, signals>>
      BY DEF Export, main, plan
<1>2. Bound # 0 /\ Bound' = Bound
  <2>1. DOMAIN threads_ # {} /\ threads_ \in Seq(ThreadType)
        BY DEF Export, IInv, ThreadsType
  <2>2. QED
        BY <1>1, <2>1 DEF Bound
<1>3. Shape'
      BY <1>1, <1>2 DEF IInv, Shape
<1>4. Scalars'
      BY <1>1 DEF IInv, Scalars
<1>5. QED
      BY <1>1, <1>3, <1>4 DEF IInv, ThreadsType, Bound, Fates, Taken, EndedAt, Joined,
                              Plan, PlanIsForgotten

LEMMA RestartInv == ASSUME IInv, Restart PROVE IInv'
<1>1. process + 1 \in 1..MaxProcesses /\ host \in {"main", "plugin"}
      BY BoundsAssumption DEF Restart, IInv, Scalars
<1>2. wish < process + 1 /\ wish \in 0..MaxProcesses
      BY BoundsAssumption DEF IInv, Scalars, Plan
<1>3. Fresh'
      BY <1>1, <1>2 DEF Restart, Begin, Fresh
<1>4. (Fresh => IInv)'
      BY FreshInv, PTL
<1>5. QED
      BY <1>3, <1>4

LEMMA DieInv == ASSUME IInv, Die PROVE IInv'
<1>1. alive' = FALSE
      /\ UNCHANGED <<host, process, exported, pc, n, db_open, stops, threads_, blocked_,
                     experience_enable, wish, signals>>
      BY DEF Die, world, main, plan
<1>2. Scalars'
      BY <1>1 DEF IInv, Scalars
<1>3. QED
      BY <1>1, <1>2 DEF IInv, ThreadsType, Bound, Shape, Fates, Taken, EndedAt, Joined,
                        Plan, PlanIsForgotten

THEOREM InvHolds == Spec => []IInv
<1>1. ASSUME IInv, [Next]_vars PROVE IInv'
  <2>1. CASE UNCHANGED vars
        BY <1>1, <2>1 DEF vars, IInv, ThreadsType, Bound, Scalars, Shape, Fates, Taken,
                          EndedAt, Joined, Plan, PlanIsForgotten
  <2>2. CASE Next
        BY <1>1, <2>2, ThreadInv, DieInv, InterruptInv, MainInv, EnableInv, ExportInv,
           RestartInv DEF Next
  <2>3. QED
        BY <1>1, <2>1, <2>2
<1>2. QED
      BY <1>1, InitInv, PTL DEF Spec

------------------------------------------------------------------------------
(* What follows from it *)

(***************************************************************************)
(* The state of the application has its types, and the threads are those   *)
(* of start(), in its order.                                               *)
(***************************************************************************)
THEOREM TypeCorrect == Spec => []TypeOK
<1>1. ASSUME IInv PROVE TypeOK
  <2>1. DOMAIN threads_ = 1..Bound
        BY <1>1 DEF IInv, ThreadsType, Bound
  <2>2. QED
        BY <1>1, <2>1 DEF IInv, ThreadsType, Bound, JobAt, Scalars, Shape, TypeOK
<1>2. QED
      BY <1>1, InvHolds, PTL

(***************************************************************************)
(* When the destructor of the application is done, none of its threads is  *)
(* left, whatever was stopped, interrupted or stuck before.                *)
(***************************************************************************)
THEOREM NoneOutlives == Spec => []NoThreadOutlives
<1>1. ASSUME IInv PROVE NoThreadOutlives
  <2>1. DOMAIN threads_ = 1..Bound
        BY <1>1 DEF IInv, ThreadsType, Bound
  <2>2. QED
        BY <1>1, <2>1 DEF IInv, Joined, NoThreadOutlives
<1>2. QED
      BY <1>1, InvHolds, PTL

(***************************************************************************)
(* An application that nobody stops is destroyed only after two signals,   *)
(* one for each of the two threads that wait for one.                      *)
(***************************************************************************)
THEOREM TwoSignals == Spec => []GoesOnlyByTwoSignals
<1>1. ASSUME IInv, pc = "gone", stops = 0 PROVE signals >= 2
  <2>1. Bound = 6
        BY <1>1 DEF IInv, Shape
  <2>2. threads_[1].at = "ended" /\ threads_[3].at = "ended"
    <3>1. ASSUME NEW k \in {1, 3} PROVE threads_[k].at = "ended"
      <4>1. k \in 1..Bound
            BY <2>1
      <4>2. Over(threads_[k]) /\ threads_[k].at # "cancelled"
            BY <1>1, <4>1 DEF IInv, Joined, Fates
      <4>3. QED
            BY <4>2 DEF Over
    <3>2. QED
          BY <3>1
  <2>3. EndedAt(1) /\ EndedAt(3)
        BY <2>1, <2>2 DEF EndedAt
  <2>4. QED
        BY <1>1, <2>3 DEF IInv, Taken
<1>2. IInv => GoesOnlyByTwoSignals
      BY <1>1 DEF GoesOnlyByTwoSignals
<1>3. QED
      BY <1>2, InvHolds, PTL

(***************************************************************************)
(* Both together: whenever the application is gone, its threads have       *)
(* ended, and without stop() it took two signals.                          *)
(***************************************************************************)
THEOREM GoesInOrder == Spec => []GoneInOrder
<1>1. NoThreadOutlives /\ GoesOnlyByTwoSignals => GoneInOrder
      BY DEF GoneInOrder
<1>2. QED
      BY <1>1, NoneOutlives, TwoSignals, PTL

(***************************************************************************)
(* The collector of the database that has ended found no database: it      *)
(* never runs before connect().                                            *)
(***************************************************************************)
THEOREM ReadsWhatIsConnected == Spec => []ReadsConnected
<1>1. ASSUME IInv PROVE ReadsConnected
  <2>1. DOMAIN threads_ = 1..Bound /\ Bound \in Nat /\ Bound <= 6
        BY <1>1 DEF IInv, ThreadsType, Bound
  <2>2. ASSUME NEW i \in 1..Bound, threads_[i].job = "database" PROVE i = 5
    <3>1. JobAt(i) = "database"
          BY <1>1, <2>2 DEF IInv, ThreadsType
    <3>2. i = 1 \/ i = 2 \/ i = 3 \/ i = 4 \/ i = 5 \/ i = 6
          BY <2>1
    <3>3. QED
          BY <3>1, <3>2, Order
  <2>3. QED
        BY <1>1, <2>1, <2>2 DEF IInv, Fates, ReadsConnected
<1>2. QED
      BY <1>1, InvHolds, PTL

(***************************************************************************)
(* A plan that was switched on is off in every later process, and the flag *)
(* set from it at a start is never true.                                   *)
(***************************************************************************)
THEOREM Forgotten == Spec => []PlanIsForgotten
<1>1. IInv => PlanIsForgotten
      BY DEF IInv, Plan
<1>2. QED
      BY <1>1, InvHolds, PTL

\* No step of the process takes a thread out of the lock it waits for.
LEMMA StuckAtStays ==
    ASSUME IInv, Next, process' = process, NEW s \in 1..Bound, threads_[s].at = "stuck"
    PROVE  s \in 1..Bound' /\ threads_'[s].at = "stuck"
<1>1. ThreadsType /\ DOMAIN threads_ = 1..Bound /\ Bound \in Nat
      BY DEF IInv, ThreadsType, Bound
<1>2. CASE Thread
  <2>1. PICK i \in 1..Bound : Step(i)
        BY <1>1, <1>2 DEF Thread
  <2>2. PICK at \in Places : Moved(i, at) /\ Allowed(i, at)
        BY <1>1, <2>1, StepMoves
  <2>3. i # s
        BY <2>2 DEF Allowed
  <2>4. QED
        BY <2>2, <2>3 DEF Moved
<1>3. CASE Interrupt
  <2>1. CASE \E i \in DOMAIN threads_ : threads_[i].at = "wait" /\ To(i, "ended")
    <3>1. PICK i \in 1..Bound : threads_[i].at = "wait" /\ To(i, "ended")
          BY <1>1, <2>1
    <3>2. Moved(i, "ended") /\ i # s
          BY <1>1, <3>1, ToMoves DEF Places
    <3>3. QED
          BY <3>2 DEF Moved
  <2>2. CASE threads_' = threads_
        BY <2>2 DEF Bound
  <2>3. QED
        BY <1>3, <2>1, <2>2 DEF Interrupt
<1>4. CASE InitResp \/ InitCollector
  <2>1. PICK t : threads_' = Append(threads_, Create(t))
        BY <1>4 DEF InitResp, InitCollector, CreateIn
  <2>2. Len(threads_') = Len(threads_) + 1 /\ threads_'[s] = threads_[s]
        BY <1>1, <2>1 DEF Bound
  <2>3. QED
        BY <1>1, <2>2 DEF Bound
<1>5. CASE StopThread
  <2>1. threads_' = [threads_ EXCEPT ![n].cancel = @ \/ ~Over(threads_[n])]
        BY <1>5 DEF StopThread
  <2>2. threads_ \in [1..Bound -> ThreadType]
        BY <1>1 DEF ThreadsType, Bound
  <2>3. threads_'[s].at = threads_[s].at
        BY <2>1, <2>2 DEF ThreadType
  <2>4. Bound' = Bound
        BY <1>1, <2>1, <2>2 DEF Bound
  <2>5. QED
        BY <2>3, <2>4
<1>6. CASE threads_' = threads_
      BY <1>6 DEF Bound
<1>7. ~Restart
      BY BoundsAssumption DEF Restart, IInv, Scalars
<1>8. QED
      BY <1>2, <1>3, <1>4, <1>5, <1>6, <1>7
      DEF Next, Main, Goes, Start, InitConfig, InitWriter, Stop, Exit, Join, Die, Enable, Export

(***************************************************************************)
(* Once the collector of the database waits for its own lock it does so    *)
(* until the process ends, and the destructor is not done: no stop() and   *)
(* no signal changes that.                                                 *)
(***************************************************************************)
THEOREM StaysStuck == Spec => StuckStays
<1>1. ASSUME IInv, IInv', [Next]_vars, Stuck, process' = process PROVE Stuck' /\ pc' # "gone"
  <2>1. DOMAIN threads_ = 1..Bound /\ DOMAIN threads_' = 1..Bound'
        BY <1>1 DEF IInv, ThreadsType, Bound
  <2>2. PICK s \in 1..Bound : threads_[s].at = "stuck"
        BY <1>1, <2>1 DEF Stuck
  <2>3. s \in 1..Bound' /\ threads_'[s].at = "stuck"
    <3>1. CASE Next
          BY <1>1, <2>2, <3>1, StuckAtStays
    <3>2. CASE UNCHANGED vars
          BY <2>2, <3>2 DEF vars, Bound
    <3>3. QED
          BY <1>1, <3>1, <3>2
  <2>4. Stuck'
        BY <2>1, <2>3 DEF Stuck
  <2>5. ~Over(threads_[s])'
        BY <2>3 DEF Over
  <2>6. QED
        BY <1>1, <2>3, <2>4, <2>5 DEF IInv, Joined
<1>2. QED
      BY <1>1, InvHolds, PTL DEF Spec, StuckStays
==============================================================================
