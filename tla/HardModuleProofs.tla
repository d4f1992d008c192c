---------------------------- MODULE HardModuleProofs ----------------------------
(***************************************************************************)
(* Proofs about HardModule, for any ids.                                   *)
(***************************************************************************)
EXTENDS HardModule, TLAPS

\* The types without the clause about a process that is down.
Types ==
    /\ up \in BOOLEAN
    /\ info_ \in Messages /\ message \in Messages
    /\ unid \in Texts /\ hw_info \in Texts /\ answer \in Answers
    /\ file \in Files
    /\ collector \in CollectorAt /\ handler \in HandlerAt
    /\ known \in SUBSET Texts
    /\ raced \in BOOLEAN
    /\ committed \in {{}} \cup {{u} : u \in Answers}

LEMMA EmptyIsMessage == Empty \in Messages /\ Empty.uni_id = NoId
BY DEF Empty, Messages, Texts

LEMMA LoadsAreMessages ==
    ASSUME NEW f \in Files PROVE Loads(f) \subseteq Messages
<1>1. f.uni_id \in Texts /\ f.devices \in BOOLEAN
  <2>1. CASE f = Torn
        BY <2>1 DEF Torn, Texts
  <2>2. CASE f \in {File(m) : m \in Messages}
    <3>1. PICK m \in Messages : f = File(m)
          BY <2>2
    <3>2. QED
          BY <3>1 DEF File, Messages
  <2>3. QED
        BY <2>1, <2>2 DEF Files
<1>2. [uni_id |-> f.uni_id, devices |-> f.devices] \in Messages
      BY <1>1 DEF Messages
<1>3. [uni_id : {NoId, Fragment}, devices : {FALSE}] \subseteq Messages
      BY DEF Messages, Texts
<1>4. QED
      BY <1>2, <1>3 DEF Loads

\* What a racing read sees is a text if what it may see are texts.
LEMMA SeenIsText ==
    ASSUME NEW x \in Texts, NEW y \in Texts, NEW b
    PROVE  Seen(x, b, y) \subseteq Texts
BY DEF Seen, Texts

LEMMA InitTypes == Init => Types /\ (~up => Down)
BY EmptyIsMessage DEF Init, Down, Types, Messages, Texts, Answers, Files, File, Empty,
   CollectorAt, HandlerAt

LEMMA CollectTypes ==
    ASSUME Types, Collect PROVE Types'
<1> USE DEF Types
<1>1. raced' \in BOOLEAN /\ UNCHANGED <<up, file, handler, answer, message, known, committed>>
      BY DEF Collect, hanVars, history
<1>2. answer \in Texts
      BY DEF Answers, Texts
<1>3. CASE Generate
      BY <1>1, <1>3 DEF Generate, CollectorAt
<1>4. CASE ReadUnid
      BY <1>1, <1>2, <1>4, SeenIsText DEF ReadUnid, CollectorAt
<1>5. CASE TestUnid
      BY <1>1, <1>5 DEF TestUnid, CollectorAt
<1>6. CASE Compare
      BY <1>1, <1>6 DEF Compare, CollectorAt
<1>7. CASE Clear
      BY <1>1, <1>7, EmptyIsMessage DEF Clear, CollectorAt
<1>8. CASE Merge
  <2>1. PICK u \in IF hw_info = NoId THEN {info_.uni_id}
                   ELSE Seen(hw_info, handler = "info", answer) :
              info_' = [info_ EXCEPT !.uni_id = u]
        BY <1>8 DEF Merge
  <2>2. u \in Texts
        BY <2>1, <1>2, SeenIsText DEF Messages
  <2>3. info_' \in Messages
        BY <2>1, <2>2 DEF Messages
  <2>4. QED
        BY <1>1, <1>8, <2>3 DEF Merge, CollectorAt
<1>9. QED
      BY <1>3, <1>4, <1>5, <1>6, <1>7, <1>8 DEF Collect

LEMMA HandleTypes ==
    ASSUME Types, Handle PROVE Types'
<1> USE DEF Types, history
<1>1. raced' \in BOOLEAN /\ UNCHANGED <<up, collector, hw_info>>
      BY DEF Handle, colVars, Working
<1>2. CASE \E u \in Answers : Call(u)
      BY <1>1, <1>2 DEF Call, HandlerAt, Answers, Texts
<1>3. CASE SetInfo
  <2>1. PICK u \in Seen(answer, Working, Fragment) : info_' = [info_ EXCEPT !.uni_id = u]
        BY <1>3 DEF SetInfo
  <2>2. u \in Texts
        BY <2>1 DEF Seen, Texts, Answers
  <2>3. info_' \in Messages
        BY <2>1, <2>2 DEF Messages
  <2>4. QED
        BY <1>1, <1>3, <2>3 DEF SetInfo, HandlerAt
<1>4. CASE SetGlobal
      BY <1>1, <1>4 DEF SetGlobal, HandlerAt, Answers, Texts
<1>5. CASE Serialize
  <2>1. PICK u \in Seen(info_.uni_id, Working, hw_info) : message' = [info_ EXCEPT !.uni_id = u]
        BY <1>5 DEF Serialize
  <2>2. u \in Texts
        BY <2>1, SeenIsText DEF Messages
  <2>3. message' \in Messages
        BY <2>1, <2>2 DEF Messages
  <2>4. QED
        BY <1>1, <1>5, <2>3 DEF Serialize, HandlerAt
<1>6. CASE Open
      BY <1>1, <1>6, EmptyIsMessage DEF Open, HandlerAt, Files
<1>7. CASE WritePart
      BY <1>1, <1>7 DEF WritePart, HandlerAt, Files
<1>8. CASE Write
      BY <1>1, <1>8 DEF Write, HandlerAt, Files
<1>9. QED
      BY <1>2, <1>3, <1>4, <1>5, <1>6, <1>7, <1>8 DEF Handle

LEMMA NextTypes ==
    ASSUME Types, [Next]_vars PROVE Types'
<1>1. CASE Start
  <2>1. info_' \in Messages
        BY <1>1, LoadsAreMessages DEF Start, Types
  <2>2. info_'.uni_id \in Texts
        BY <2>1 DEF Messages
  <2>3. QED
        BY <1>1, <2>1, <2>2 DEF Types, Start, colVars, hanVars
<1>2. CASE Crash \/ Post
      BY <1>2, EmptyIsMessage DEF Types, Crash, Post, Texts, Answers, CollectorAt, HandlerAt
<1>3. CASE Collect
      BY <1>3, CollectTypes
<1>4. CASE Handle
      BY <1>4, HandleTypes
<1>5. CASE UNCHANGED vars
      BY <1>5 DEF vars, Types
<1>6. QED
      BY <1>1, <1>2, <1>3, <1>4, <1>5 DEF Next

\* A process that is down has the state of the next start.
LEMMA NextDown ==
    ASSUME Types, ~up => Down, [Next]_vars PROVE ~up' => Down'
<1>1. CASE Start
      BY <1>1 DEF Start
<1>2. CASE Crash \/ Post
      BY <1>2 DEF Crash, Post, Down
<1>3. CASE Collect \/ Handle
      BY <1>3 DEF Collect, Handle
<1>4. CASE UNCHANGED vars
      BY <1>4, Zenon DEF vars, Down
<1>5. QED
      BY <1>1, <1>2, <1>3, <1>4 DEF Next

\* The two parts of the type invariant, as the proofs below use them.
THEOREM TypesHold == Spec => [](Types /\ (~up => Down))
<1>1. Init => Types /\ (~up => Down)
      BY InitTypes
<1>2. Types /\ (~up => Down) /\ [Next]_vars => Types' /\ (~up' => Down')
      BY NextTypes, NextDown
<1>3. QED
      BY <1>1, <1>2, PTL DEF Spec

(***************************************************************************)
(* The state of the module has its types, and a process that is down has   *)
(* left nothing behind but the file.                                       *)
(***************************************************************************)
THEOREM TypeCorrect == Spec => []TypeOK
<1>1. Types /\ (~up => Down) => TypeOK
      BY DEF Types, TypeOK
<1>2. QED
      BY <1>1, TypesHold, PTL

------------------------------------------------------------------------------
(* Which ids a process may hold *)

Posts == {"clearPost", "mergePost", "post"}
Heard == known \cup {NoId, Fragment}

\* Every id in the memory of a process was found by it or given to it, or is
\* none or a Fragment; the global unid and an answer are never a Fragment
\* made up by a race, and a post is asked for only if there is an id that is
\* none.
KnownInv ==
    /\ up => unid \in known
    /\ handler # "idle" => answer \in known
    /\ info_.uni_id \in Heard /\ hw_info \in Heard
    /\ message.uni_id \in Heard
    /\ collector \in Posts => NoId \in known

LEMMA InitKnownInv == Init => KnownInv
BY DEF Init, Down, KnownInv, Posts, Heard, Empty

LEMMA CollectKnownInv ==
    ASSUME Types, KnownInv, Collect PROVE KnownInv'
<1> USE DEF KnownInv, Heard
<1>1. up /\ UNCHANGED <<up, handler, answer, message, known>>
      BY DEF Collect, hanVars, history
<1>2. CASE Generate
      BY <1>1, <1>2 DEF Generate, Posts
<1>3. CASE ReadUnid
      BY <1>1, <1>3 DEF ReadUnid, Seen, Posts
<1>4. CASE TestUnid
      BY <1>1, <1>4, IdAssumption DEF TestUnid, Seen, Posts
<1>5. CASE Compare
      BY <1>1, <1>5 DEF Compare, Posts
<1>6. CASE Clear
      BY <1>1, <1>6 DEF Clear, Posts, Empty
<1>7. CASE Merge
      BY <1>1, <1>7 DEF Merge, Seen, Posts, Types, Messages
<1>8. QED
      BY <1>2, <1>3, <1>4, <1>5, <1>6, <1>7 DEF Collect

LEMMA HandleKnownInv ==
    ASSUME Types, KnownInv, Handle PROVE KnownInv'
<1> USE DEF KnownInv, Heard, history
<1>1. UNCHANGED <<up, collector, hw_info>>
      BY DEF Handle, colVars
<1>2. CASE \E u \in Answers : Call(u)
      BY <1>1, <1>2 DEF Call
<1>3. CASE SetInfo
      BY <1>1, <1>3 DEF SetInfo, Seen, Types, Messages
<1>4. CASE SetGlobal
      BY <1>1, <1>4 DEF SetGlobal
<1>5. CASE Serialize
      BY <1>1, <1>5 DEF Serialize, Seen, Types, Messages
<1>6. CASE Open \/ WritePart \/ Write
      BY <1>1, <1>6 DEF Open, WritePart, Write
<1>7. QED
      BY <1>2, <1>3, <1>4, <1>5, <1>6 DEF Handle

LEMMA NextKnownInv ==
    ASSUME Types, ~up => Down, KnownInv, [Next]_vars PROVE KnownInv'
<1>1. CASE Start
  <2>1. info_'.uni_id = unid' /\ known' = {unid'}
        BY <1>1 DEF Start
  <2>2. UNCHANGED <<collector, hw_info, handler, answer, message>>
        BY <1>1 DEF Start, colVars, hanVars
  <2>3. collector = "generate" /\ hw_info = NoId /\ handler = "idle" /\ message = Empty
        BY <1>1 DEF Start, Down
  <2>4. QED
        BY <2>1, <2>2, <2>3 DEF KnownInv, Heard, Posts, Empty
<1>2. CASE Crash \/ Post
      BY <1>2 DEF Crash, Post, KnownInv, Heard, Posts, Empty
<1>3. CASE Collect
      BY <1>3, CollectKnownInv
<1>4. CASE Handle
      BY <1>4, HandleKnownInv
<1>5. CASE UNCHANGED vars
      BY <1>5 DEF vars, KnownInv, Heard
<1>6. QED
      BY <1>1, <1>2, <1>3, <1>4, <1>5 DEF Next

THEOREM KnownHolds == Spec => []KnownInv
<1>1. QED
      BY InitKnownInv, NextKnownInv, TypesHold, PTL DEF Spec

(***************************************************************************)
(* need_update() asks for a post only in a process that found no id, or    *)
(* was once given none: hardware that differs is not posted.               *)
(***************************************************************************)
THEOREM PostsOnly == Spec => []PostsOnlyWithoutId
<1>1. KnownInv => PostsOnlyWithoutId
      BY DEF KnownInv, PostsOnlyWithoutId, Posts
<1>2. QED
      BY <1>1, KnownHolds, PTL

------------------------------------------------------------------------------
(* The unid store *)

FoundIn(f) == {x.uni_id : x \in Loads(f)}

\* What a start may find in a file that is cut or that cuts itself short ...
LEMMA FoundInCut ==
    ASSUME NEW f, Loads(f) = [uni_id : {NoId, Fragment}, devices : {FALSE}]
    PROVE  FoundIn(f) = {NoId, Fragment}
<1>1. ASSUME NEW x \in Loads(f) PROVE x.uni_id \in {NoId, Fragment}
      BY <1>1
<1>2. ASSUME NEW u \in {NoId, Fragment} PROVE u \in FoundIn(f)
  <2>1. [uni_id |-> u, devices |-> FALSE] \in Loads(f)
        OBVIOUS
  <2>2. QED
        BY <2>1 DEF FoundIn
<1>3. QED
      BY <1>1, <1>2 DEF FoundIn

\* ... and in one whose message comes back.
LEMMA FoundInWhole ==
    ASSUME NEW m, m.uni_id \notin Blanks \cup {Fragment}
    PROVE  FoundIn(File(m)) = {m.uni_id}
BY DEF FoundIn, Loads, File

LEMMA FoundInTorn == FoundIn(Torn) = {NoId, Fragment}
BY FoundInCut DEF Loads, Torn

LEMMA FoundInMessage ==
    ASSUME NEW H, NEW m, m.uni_id \in H, {NoId, Fragment} \subseteq H
    PROVE  FoundIn(File(m)) \in (SUBSET H) \ {{}}
<1>1. CASE m.uni_id \in Blanks \cup {Fragment}
  <2>1. FoundIn(File(m)) = {NoId, Fragment}
        BY <1>1, FoundInCut DEF Loads, File
  <2>2. QED
        BY <2>1
<1>2. CASE m.uni_id \notin Blanks \cup {Fragment}
      BY <1>2, FoundInWhole
<1>3. QED
      BY <1>1, <1>2

LEMMA FoundIsFoundIn == Found = FoundIn(file)
BY DEF Found, FoundIn

LEMMA FoundIsFoundInNext == Found' = FoundIn(file')
BY DEF Found, FoundIn

LEMMA InitStore == Init => US!Init
<1>1. ASSUME Init PROVE Found = {NoId}
  <2>1. PICK m : m.uni_id = NoId /\ file = File(m)
    <3>1. Empty.uni_id = NoId /\ [Empty EXCEPT !.devices = TRUE].uni_id = NoId
          BY DEF Empty
    <3>2. QED
          BY <1>1, <3>1 DEF Init
  <2>2. NoId \notin Blanks \cup {Fragment}
        BY IdAssumption
  <2>3. QED
        BY <2>1, <2>2, FoundInWhole, FoundIsFoundIn
<1>2. QED
      BY <1>1 DEF Init, Down, US!Init

LEMMA StartStore ==
    ASSUME Start PROVE US!Start
<1>1. info_' \in Loads(file) /\ file' = file
      BY DEF Start
<1>2. info_'.uni_id \in Found
      BY <1>1 DEF Found
<1>3. Found' = Found
      BY <1>1 DEF Found
<1>4. QED
      BY <1>2, <1>3 DEF Start, US!Start

LEMMA HandleStore ==
    ASSUME Types, KnownInv, Handle PROVE [US!Next]_US!vars
<1> USE DEF history
<1>1. up /\ up' = up
      BY DEF Handle
<1>2. ASSUME file' = file PROVE Found' = Found
      BY <1>2 DEF Found
<1>3. CASE \E u \in Answers : Call(u)
  <2>1. PICK u \in Answers : Call(u)
        BY <1>3
  <2>2. US!Hear(u)
        BY <2>1, <1>1, <1>2 DEF Call, US!Hear
  <2>3. QED
        BY <2>2 DEF US!Next
<1>4. CASE SetInfo \/ Serialize
      BY <1>1, <1>2, <1>4 DEF SetInfo, Serialize, US!vars
<1>5. CASE SetGlobal
  <2>1. unid' \in known /\ file' = file /\ known' = known
        BY <1>5 DEF SetGlobal, KnownInv
  <2>2. US!Learn
        BY <2>1, <1>1, <1>2 DEF US!Learn
  <2>3. QED
        BY <2>2 DEF US!Next
<1>6. CASE Open \/ WritePart \/ Write
  <2>1. unid' = unid /\ known' = known
        BY <1>6 DEF Open, WritePart, Write
  <2>2. CASE file' = file
        BY <1>1, <1>2, <2>1, <2>2 DEF US!vars
  <2>3. CASE file' = Torn
        BY <1>1, <2>1, <2>3, FoundIsFoundInNext, FoundInTorn DEF US!Store, US!Next
  <2>4. CASE file' = File(Empty)
    <3>1. FoundIn(File(Empty)) \in (SUBSET Heard) \ {{}}
          BY FoundInMessage, EmptyIsMessage DEF Heard
    <3>2. US!Store
          BY <1>1, <2>1, <2>4, <3>1, FoundIsFoundInNext DEF US!Store, Heard
    <3>3. QED
          BY <3>2 DEF US!Next
  <2>5. CASE file' = File(message)
    <3>0. message.uni_id \in Heard /\ {NoId, Fragment} \subseteq Heard
          BY DEF KnownInv, Heard
    <3>1. FoundIn(File(message)) \in (SUBSET Heard) \ {{}}
          BY <3>0, FoundInMessage
    <3>2. US!Store
          BY <1>1, <2>1, <2>5, <3>1, FoundIsFoundInNext DEF US!Store, Heard
    <3>3. QED
          BY <3>2 DEF US!Next
  <2>6. QED
        BY <1>6, <2>2, <2>3, <2>4, <2>5 DEF Open, WritePart, Write
<1>7. QED
      BY <1>3, <1>4, <1>5, <1>6 DEF Handle

LEMMA NextStore ==
    ASSUME Types, KnownInv, [Next]_vars PROVE [US!Next]_US!vars
<1>1. CASE Start
      BY <1>1, StartStore DEF US!Next
<1>2. CASE Crash \/ Post
  <2>1. Found' = Found
        BY <1>2 DEF Crash, Post, Found
  <2>2. US!Stop
        BY <1>2, <2>1 DEF Crash, Post, US!Stop
  <2>3. QED
        BY <2>2 DEF US!Next
<1>3. CASE Collect
  <2>1. UNCHANGED <<up, unid, file, known>>
        BY <1>3 DEF Collect, history, Generate, ReadUnid, TestUnid, Compare, Clear, Merge
  <2>2. QED
        BY <2>1 DEF US!vars, Found
<1>4. CASE Handle
      BY <1>4, HandleStore
<1>5. CASE UNCHANGED vars
      BY <1>5 DEF vars, US!vars, Found
<1>6. QED
      BY <1>1, <1>2, <1>3, <1>4, <1>5 DEF Next

(***************************************************************************)
(* The module implements the unid store: whatever the ids are, and         *)
(* wherever a process ends in the middle of a save or of a race, a restart *)
(* finds an id the writing process knew, or none, or a Fragment.           *)
(***************************************************************************)
THEOREM Implements == Spec => ImplementsUnidStore
<1>1. QED
      BY InitStore, NextStore, TypesHold, KnownHolds, PTL
      DEF Spec, ImplementsUnidStore, US!Spec

------------------------------------------------------------------------------
(* Two threads at rest *)

\* Where the two threads leave the id, step by step, if they do not overlap.
AgreeInv == ~raced =>
    /\ handler # "idle" => ~Working
    /\ handler = "idle" /\ ~Working => info_.uni_id = unid
    /\ handler \notin {"idle", "info"} => info_.uni_id = answer
    /\ handler \in {"serialize", "open", "write"} => unid = answer
    /\ handler \in {"open", "write"} => message.uni_id = answer
    /\ Working /\ collector # "read" => hw_info = unid
    /\ collector \in {"merge", "mergePost"} => info_.uni_id = NoId

LEMMA CollectAgreeInv ==
    ASSUME Types, AgreeInv, Collect PROVE AgreeInv'
<1> SUFFICES ASSUME ~raced' PROVE AgreeInv'
    BY DEF AgreeInv
<1>1. UNCHANGED <<handler, answer, message>> /\ ~raced /\ (handler = "idle" \/ ~Working')
      BY DEF Collect, hanVars
<1>2. Working'
      \/ (collector \in {"compare", "merge"} /\ collector' = "done")
      BY DEF Collect, Generate, ReadUnid, TestUnid, Compare, Clear, Merge, Working
<1>3. handler = "idle"
      BY <1>1, <1>2 DEF AgreeInv, Working
<1> USE <1>1, <1>3 DEF AgreeInv, Working, Seen
<1>4. CASE Generate
      BY <1>4 DEF Generate
<1>5. CASE ReadUnid
      BY <1>5 DEF ReadUnid
<1>6. CASE TestUnid
      BY <1>6 DEF TestUnid
<1>7. CASE Compare
      BY <1>7 DEF Compare
<1>8. CASE Clear
      BY <1>8 DEF Clear, Empty
<1>9. CASE Merge
  <2>1. info_'.uni_id = hw_info
        BY <1>9 DEF Merge, Types, Messages
  <2>2. collector' \in {"done", "post"} /\ UNCHANGED <<unid, hw_info>>
        BY <1>9 DEF Merge
  <2>3. hw_info = unid
        BY <1>9 DEF Merge
  <2>4. QED
        BY <2>1, <2>2, <2>3
<1>10. QED
      BY <1>4, <1>5, <1>6, <1>7, <1>8, <1>9 DEF Collect

LEMMA HandleAgreeInv ==
    ASSUME Types, AgreeInv, Handle PROVE AgreeInv'
<1> SUFFICES ASSUME ~raced' PROVE AgreeInv'
    BY DEF AgreeInv
<1>1. UNCHANGED <<collector, hw_info>> /\ ~Working
      BY DEF Handle, colVars, Working
<1>2. ~Working'
      BY <1>1 DEF Working
<1>3. collector \notin {"merge", "mergePost"}
      BY <1>1 DEF Working
<1> USE <1>1, <1>2, <1>3 DEF AgreeInv, history
<1>4. CASE \E u \in Answers : Call(u)
      BY <1>4 DEF Call
<1>5. CASE (SetInfo \/ SetGlobal \/ Serialize \/ Open \/ WritePart \/ Write) /\ ~raced
  <2>1. CASE SetInfo
        BY <1>5, <2>1 DEF SetInfo, Seen, Types, Messages
  <2>2. CASE SetGlobal
        BY <1>5, <2>2 DEF SetGlobal
  <2>3. CASE Serialize
        BY <1>5, <2>3 DEF Serialize, Seen, Types, Messages
  <2>4. CASE Open
        BY <1>5, <2>4 DEF Open
  <2>5. CASE WritePart \/ Write
        BY <1>5, <2>5 DEF WritePart, Write
  <2>6. QED
        BY <1>5, <2>1, <2>2, <2>3, <2>4, <2>5
<1>6. QED
      BY <1>4, <1>5 DEF Handle

LEMMA DownAgrees == Down => AgreeInv
BY DEF Down, AgreeInv, Working, Empty

LEMMA NextAgreeInv ==
    ASSUME Types, ~up => Down, AgreeInv, [Next]_vars PROVE AgreeInv'
<1>1. CASE Start
  <2>1. UNCHANGED <<collector, hw_info, handler, answer, message, raced>>
        BY <1>1 DEF Start, colVars, hanVars
  <2>2. info_'.uni_id = unid' /\ handler = "idle" /\ collector = "generate"
        BY <1>1 DEF Start, Down
  <2>3. QED
        BY <2>1, <2>2 DEF AgreeInv, Working
<1>2. CASE Crash \/ Post
      BY <1>2 DEF Crash, Post, AgreeInv, Working, Empty
<1>3. CASE Collect
      BY <1>3, CollectAgreeInv
<1>4. CASE Handle
      BY <1>4, HandleAgreeInv
<1>5. CASE UNCHANGED vars
      BY <1>5 DEF vars, AgreeInv, Working
<1>6. QED
      BY <1>1, <1>2, <1>3, <1>4, <1>5 DEF Next

THEOREM AgreeInvHolds == Spec => []AgreeInv
<1>1. Init => AgreeInv
      BY DownAgrees DEF Init
<1>2. QED
      BY <1>1, NextAgreeInv, TypesHold, PTL DEF Spec

(***************************************************************************)
(* info_ and the global unid, copied into each other by two threads        *)
(* without a lock, name the same id once both threads are at rest, unless  *)
(* the collector was at work during the last handler().                    *)
(***************************************************************************)
THEOREM Agree == Spec => []AgreeUnlessRaced
<1>1. AgreeInv => AgreeUnlessRaced
      BY DEF AgreeInv, AgreeUnlessRaced
<1>2. QED
      BY <1>1, AgreeInvHolds, PTL

------------------------------------------------------------------------------
(* What was saved is found *)

\* The file holds the id of the last full save; no later truncation.
SavedInv ==
    /\ \A u : committed = {u} => u \in Answers /\ file.whole /\ file.uni_id = u
    /\ handler = "write" => committed = {}

LEMMA NextSavedInv ==
    ASSUME Types, ~up => Down, AgreeInv, SavedInv, [Next]_vars PROVE SavedInv'
<1>1. CASE UNCHANGED <<file, committed, handler>>
      BY <1>1 DEF SavedInv
<1>2. CASE Crash \/ Post
      BY <1>2 DEF Crash, Post, SavedInv
<1>3. CASE Handle
  <2>1. CASE \E u \in Answers : Call(u)
        BY <2>1 DEF Call, SavedInv
  <2>2. CASE SetInfo \/ SetGlobal \/ Serialize
        BY <2>2 DEF SetInfo, SetGlobal, Serialize, history, SavedInv
  <2>3. CASE Open
        BY <2>3 DEF Open, SavedInv
  <2>4. CASE WritePart
        BY <2>4 DEF WritePart, history, SavedInv
  <2>5. CASE Write
    <3>1. file' = File(message) /\ handler' = "idle"
          /\ committed' = IF raced THEN {} ELSE {answer}
          BY <2>5 DEF Write
    <3>2. ~raced => message.uni_id = answer
          BY <2>5 DEF Write, AgreeInv
    <3>3. file'.whole /\ file'.uni_id = message.uni_id
          BY <3>1 DEF File
    <3>4. QED
          BY <3>1, <3>2, <3>3 DEF SavedInv, Types
  <2>6. QED
        BY <1>3, <2>1, <2>2, <2>3, <2>4, <2>5 DEF Handle
<1>4. CASE Start
      BY <1>1, <1>4 DEF Start, hanVars, Down, SavedInv
<1>5. QED
      BY <1>1, <1>2, <1>3, <1>4 DEF Next, Collect, history, hanVars, vars

(***************************************************************************)
(* The id of the last handler() that wrote its whole message is the one    *)
(* the next start finds, unless a race or a white-space byte spoils it: no *)
(* crash after the save, and no handler() that cannot open the file,       *)
(* changes that.                                                           *)
(***************************************************************************)
THEOREM Saved == Spec => []SavedIsFound
<1>1. Init => SavedInv
      BY DEF Init, SavedInv, Down
<1>2. Spec => []SavedInv
      BY <1>1, NextSavedInv, TypesHold, AgreeInvHolds, PTL DEF Spec
<1>3. Types /\ SavedInv => SavedIsFound
  <2> SUFFICES ASSUME Types, SavedInv, committed # {}, committed \cap Blanks = {}
               PROVE  Found = committed
      BY DEF SavedIsFound
  <2>1. PICK u \in Answers : committed = {u}
        BY DEF Types
  <2>2. file.whole /\ file.uni_id = u /\ u \notin Blanks
        BY <2>1 DEF SavedInv
  <2>3. u # Fragment
        BY IdAssumption DEF Answers
  <2>4. Loads(file) = {[uni_id |-> u, devices |-> file.devices]}
        BY <2>2, <2>3 DEF Loads
  <2>5. QED
        BY <2>1, <2>4 DEF Found
<1>4. QED
      BY <1>2, <1>3, TypesHold, PTL
==============================================================================
