------------------------------- MODULE HardModule -------------------------------
(***************************************************************************)
(* class HardModule (src/src/config.h, config.cc) with FileUtils: the      *)
(* hardware message info_ in memory, the file it is loaded from and saved  *)
(* to, and the global unid of SystemInfo, over crashes and restarts.       *)
(*                                                                         *)
(* A start loads the file before any thread runs.  The collector's thread  *)
(* then compares what it finds with info_ and may replace it (need_update, *)
(* collect), while the thread of a writer may call handler() with the id   *)
(* the web service has given: no lock protects info_ or the unid.  Of a    *)
(* message the id and whether it lists devices are kept.  Fragment stands  *)
(* for every text that is part of an id; a thread at a label is about to   *)
(* do what the label says or in the middle of it, so that an access that   *)
(* overlaps with it may see the old value, the new one or a Fragment.      *)
(*                                                                         *)
(* No writer of the repository calls handler() yet; it is modelled as the  *)
(* public call-back it is.  The operators named Fault... are not part of   *)
(* the model: each is an action as a plausible bug would change it.        *)
(***************************************************************************)
CONSTANTS Ids,       \* the ids the web service gives out
          Blanks,    \* those whose encoding has a white-space byte
          NoId,      \* the empty id, also of an answer that does not parse
          Fragment   \* an id that nobody gave out

ASSUME IdAssumption ==
    Blanks \subseteq Ids /\ {NoId, Fragment} \cap Ids = {} /\ NoId # Fragment

Answers == Ids \cup {NoId}
Texts == Ids \cup {NoId, Fragment}
Messages == [uni_id : Texts, devices : BOOLEAN]

VARIABLES up,        \* the process runs
          info_,     \* the hardware message
          unid,      \* the global unid
          file,      \* the hardware file: a message, whole or cut anywhere
          collector, \* where the collector's thread is
          hw_info,   \* the id in the message need_update() builds
          handler,   \* where the writer's thread is in handler()
          answer,    \* the id handler() was called with
          message,   \* the serialized message save_to_file() holds
          known,     \* history: the ids this process loaded or was given
          raced,     \* history: the collector was at work during handler()
          committed  \* history: {id} from a full save to the next truncation

vars == <<up, info_, unid, file, collector, hw_info, handler, answer,
          message, known, raced, committed>>

Empty == [uni_id |-> NoId, devices |-> FALSE]

(***************************************************************************)
(* What load_from_file may make of a file: `file >> msg' stops at the      *)
(* first white space, and a message that was cut fails to parse with the   *)
(* fields read so far kept.                                                *)
(***************************************************************************)
Loads(f) ==
    IF f.whole /\ f.uni_id \notin Blanks \cup {Fragment}
    THEN {[uni_id |-> f.uni_id, devices |-> f.devices]}
    ELSE [uni_id : {NoId, Fragment}, devices : {FALSE}]

\* An empty file is the same as none: both leave info_ as it is.
File(m) == [whole |-> TRUE, uni_id |-> m.uni_id, devices |-> m.devices]
Torn == [whole |-> FALSE, uni_id |-> Fragment, devices |-> FALSE]
Files == {File(m) : m \in Messages} \cup {Torn}

Down ==
    /\ up = FALSE
    /\ info_ = Empty /\ unid = NoId
    /\ collector = "generate" /\ hw_info = NoId
    /\ handler = "idle" /\ answer = NoId /\ message = Empty
    /\ known = {} /\ raced = FALSE

\* The first start finds no file, or one of a version that listed devices.
Init ==
    /\ Down
    /\ file \in {File(Empty), File([Empty EXCEPT !.devices = TRUE])}
    /\ committed = {}

\* the parts of the state that change together
colVars  == <<collector, hw_info>>
hanVars  == <<handler, answer, message>>
history  == <<known, committed>>

Working == collector \notin {"generate", "done"}

\* what a read of x gives while the other thread may be storing y to it
Seen(x, storing, y) == IF storing THEN {x, y, Fragment} ELSE {x}

------------------------------------------------------------------------------
(* Start and crash *)

\* Fault: the id of the file stays out of the global unid.
FaultStart ==
    /\ ~up
    /\ up' = TRUE
    /\ info_' \in Loads(file)
    /\ unid' = IF file.whole THEN NoId ELSE Fragment
    /\ known' = {unid'}
    /\ UNCHANGED <<file, colVars, hanVars, raced, committed>>

\* Module::load_from_file, then SystemInfo::set_unid(info_.uni_id())
Start ==
    /\ ~up
    /\ up' = TRUE
    /\ info_' \in Loads(file)
    /\ unid' = info_'.uni_id
    /\ known' = {unid'}
    /\ UNCHANGED <<file, colVars, hanVars, raced, committed>>

\* The process ends anywhere; generate() ends it for most answers it gets.
Crash ==
    /\ up
    /\ up' = FALSE
    /\ info_' = Empty /\ unid' = NoId
    /\ collector' = "generate" /\ hw_info' = NoId
    /\ handler' = "idle" /\ answer' = NoId /\ message' = Empty
    /\ known' = {} /\ raced' = FALSE
    /\ UNCHANGED <<file, committed>>

------------------------------------------------------------------------------
(* need_update() and collect(): the collector's thread *)

\* the six device lists come back empty, or generate() ends the process
Generate ==
    /\ collector = "generate"
    /\ collector' = "read"
    /\ UNCHANGED <<info_, unid, hw_info>>

\* hw_info.set_uni_id(SystemInfo::get_unid())
ReadUnid ==
    /\ collector = "read"
    /\ hw_info' \in Seen(unid, handler = "global", answer)
    /\ collector' = "test"
    /\ UNCHANGED <<info_, unid>>

\* SystemInfo::get_unid() == ""
TestUnid ==
    /\ collector = "test"
    /\ \E u \in Seen(unid, handler = "global", answer) :
          collector' = IF u = NoId THEN "clearPost" ELSE "compare"
    /\ UNCHANGED <<info_, unid, hw_info>>

\* Fault: changed hardware is posted, as the log message says.
FaultCompare ==
    /\ collector = "compare"
    /\ \E u \in Seen(info_.uni_id, handler = "info", answer) :
          collector' = IF u = hw_info /\ ~info_.devices
                       THEN "done" ELSE "clearPost"
    /\ UNCHANGED <<info_, unid, hw_info>>

\* util::Equals(hw_info, info_): the lists of hw_info are empty.
Compare ==
    /\ collector = "compare"
    /\ \E u \in Seen(info_.uni_id, handler = "info", answer) :
          collector' = IF u = hw_info /\ ~info_.devices
                       THEN "done" ELSE "clear"
    /\ UNCHANGED <<info_, unid, hw_info>>

\* info_ = hw_info clears the message first ...
Clear ==
    /\ collector \in {"clear", "clearPost"}
    /\ info_' = Empty
    /\ collector' = IF collector = "clear" THEN "merge" ELSE "mergePost"
    /\ UNCHANGED <<unid, hw_info>>

\* ... and then merges: an empty id is not set.
Merge ==
    /\ collector \in {"merge", "mergePost"}
    /\ \E u \in IF hw_info = NoId THEN {info_.uni_id}
                ELSE Seen(hw_info, handler = "info", answer) :
          info_' = [info_ EXCEPT !.uni_id = u]
    /\ collector' = IF collector = "merge" THEN "done" ELSE "post"
    /\ UNCHANGED <<unid, hw_info>>

Collect ==
    /\ up
    /\ Generate \/ ReadUnid \/ TestUnid \/ Compare \/ Clear \/ Merge
    /\ raced' = (raced \/ (handler # "idle" /\ Working'))
    /\ UNCHANGED <<up, file, hanVars, history>>

\* collect() writes through a null ReqMessage pointer.
Post ==
    /\ collector = "post"
    /\ Crash

------------------------------------------------------------------------------
(* handler() and save_to_file(): the writer's thread *)

\* A result without success changes nothing and is no step.
Call(u) ==
    /\ handler = "idle"
    /\ handler' = "info"
    /\ answer' = u
    /\ known' = known \cup {u}
    /\ UNCHANGED <<info_, unid, file, message, committed>>

\* Fault: info_ keeps the id it has.
FaultSetInfo ==
    /\ handler = "info"
    /\ handler' = "global"
    /\ UNCHANGED <<info_, unid, file, answer, message, history>>

\* info_.set_uni_id(uni.unid())
SetInfo ==
    /\ handler = "info"
    /\ \E u \in Seen(answer, Working, Fragment) :
          info_' = [info_ EXCEPT !.uni_id = u]
    /\ handler' = "global"
    /\ UNCHANGED <<unid, file, answer, message, history>>

SetGlobal ==
    /\ handler = "global"
    /\ unid' = answer
    /\ handler' = "serialize"
    /\ UNCHANGED <<info_, file, answer, message, history>>

Serialize ==
    /\ handler = "serialize"
    /\ \E u \in Seen(info_.uni_id, Working, hw_info) :
          message' = [info_ EXCEPT !.uni_id = u]
    /\ handler' = "open"
    /\ UNCHANGED <<info_, unid, file, answer, history>>

\* std::ofstream truncates the file; if it cannot be opened nothing changes.
Open ==
    /\ handler = "open"
    /\ \/ /\ handler' = "idle"
          /\ UNCHANGED <<file, committed>>
       \/ /\ handler' = "write"
          /\ file' = File(Empty)
          /\ committed' = {}
    /\ UNCHANGED <<info_, unid, answer, message, known>>

\* A part of the message is in the file; the rest may never follow, and
\* save_to_file does not notice.
WritePart ==
    /\ handler = "write"
    /\ file' = Torn
    /\ handler' \in {"write", "idle"}
    /\ UNCHANGED <<info_, unid, answer, message, history>>

Write ==
    /\ handler = "write"
    /\ file' = File(message)
    /\ handler' = "idle"
    /\ committed' = IF raced THEN {} ELSE {answer}
    /\ UNCHANGED <<info_, unid, answer, message, known>>

Handle ==
    /\ up
    /\ \/ (\E u \in Answers : Call(u)) /\ raced' = Working
       \/ /\ SetInfo \/ SetGlobal \/ Serialize \/ Open \/ WritePart \/ Write
          /\ raced' = (raced \/ Working)
    /\ UNCHANGED <<up, colVars>>

------------------------------------------------------------------------------
Next == Start \/ Crash \/ Post \/ Collect \/ Handle

Spec == Init /\ [][Next]_vars

------------------------------------------------------------------------------
(* Properties *)

CollectorAt == {"generate", "read", "test", "compare", "clear", "clearPost",
                "merge", "mergePost", "post", "done"}
HandlerAt == {"idle", "info", "global", "serialize", "open", "write"}

TypeOK ==
    /\ up \in BOOLEAN
    /\ info_ \in Messages /\ message \in Messages
    /\ unid \in Texts /\ hw_info \in Texts /\ answer \in Answers
    /\ file \in Files
    /\ collector \in CollectorAt /\ handler \in HandlerAt
    /\ known \in SUBSET Texts
    /\ raced \in BOOLEAN
    /\ committed \in {{}} \cup {{u} : u \in Answers}
    /\ ~up => Down

Found == {m.uni_id : m \in Loads(file)}

(***************************************************************************)
(* The id of the last handler() that could write its whole message is the  *)
(* id the next start finds, whenever the process ends after that, unless   *)
(* the collector was at work at the same time or the encoding of the id    *)
(* has a white-space byte, which the word-wise load takes for its end.     *)
(***************************************************************************)
SavedIsFound ==
    committed # {} /\ committed \cap Blanks = {} => Found = committed

(***************************************************************************)
(* info_ and the global unid are set one after the other by one thread and *)
(* copied into each other by another.  With both at rest they name the     *)
(* same id, unless the collector was at work during the last handler().    *)
(***************************************************************************)
AgreeUnlessRaced ==
    handler = "idle" /\ ~Working /\ ~raced => info_.uni_id = unid

(***************************************************************************)
(* need_update() asks for a post only when the id is missing.  Hardware    *)
(* that differs is not posted, though the log says "need to post req"      *)
(* (config.cc:147): a process that has always known an id never posts.     *)
(***************************************************************************)
PostsOnlyWithoutId ==
    collector \in {"clearPost", "mergePost", "post"} => NoId \in known

(***************************************************************************)
(* The module keeps the promise of the unid store: no id is made up, and a *)
(* restart finds what the writing process knew, nothing, or a Fragment.    *)
(***************************************************************************)
US == INSTANCE UnidStore
      WITH Id <- Answers, on <- up, mem <- unid, disk <- Found

ImplementsUnidStore == US!Spec
==============================================================================
