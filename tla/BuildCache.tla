------------------------------ MODULE BuildCache ------------------------------
(***************************************************************************)
(* BuildCache (buildcache.cpp): a database with one record per output, and *)
(* a directory with one file per distinct content, named by its hash.      *)
(* A store or a forget takes several steps, any of which can fail, between *)
(* any two of which the process can be killed or the machine lose power.   *)
(*                                                                         *)
(* A content stands for its bytes and for their hash: two contents never   *)
(* share a hash.  A record is the content it names; what else it holds     *)
(* (the rule, the time, the inputs) is BuildDirectoryTree's matter, which  *)
(* here only decides, freely, which records still hold.                    *)
(***************************************************************************)
EXTENDS Naturals, FiniteSets

CONSTANTS Outputs,      \* what can be recorded
          Contents,     \* what an output can hold
          NoContent,    \* no record; no content served
          Caches,       \* BuildCache objects on one directory, in any process
          Callers,      \* the threads that use them
          cache_of,     \* the cache each caller uses
          version_of,   \* the schema version each cache was compiled with
          MaxUnsynced   \* how many commits a power loss can undo

ASSUME CacheAssumption ==
  /\ NoContent \notin Contents
  /\ cache_of \in [Callers -> Caches]
  /\ version_of \in [Caches -> Nat]
  /\ MaxUnsynced \in Nat

VARIABLES db,           \* the tables as the connection sees them
          older,        \* earlier versions of them a power loss may bring back
          objects,      \* the file under each content's name
          scratch,      \* the contents with a scratch file
          unsettled,    \* contents whose files have not all reached the disk
          open,         \* the caches that hold the directory
          restored,     \* those that have restored their records
          call,         \* what each caller is doing
          served,       \* what restoring found for each output
          lost,         \* outputs whose content a power loss took
          litter        \* something failed since garbage was last collected

vars == <<db, older, objects, scratch, unsettled, open, restored, call, served,
          lost, litter>>
files == <<objects, scratch, unsettled>>
process == <<open, restored, served>>

Databases == [version : Nat, records : [Outputs -> Contents \cup {NoContent}]]

Steps == {"none", "write", "rename", "commit", "forget", "drop", "collect"}

\* `outputs` are those stored or forgotten, `content` what is stored, `drops`
\* the contents to delete unless a record names them, and `collects` says that
\* garbage collection follows.
Calls == [step : Steps, outputs : SUBSET Outputs,
          content : Contents \cup {NoContent}, drops : SUBSET Contents,
          collects : BOOLEAN]

NoCall == [step |-> "none", outputs |-> {}, content |-> NoContent, drops |-> {},
           collects |-> FALSE]

Init ==
  /\ db = [version |-> 0, records |-> [o \in Outputs |-> NoContent]]
  /\ older = {}
  /\ objects = [c \in Contents |-> "absent"]
  /\ scratch = {}
  /\ unsettled = {}
  /\ open = {}
  /\ restored = {}
  /\ call = [p \in Callers |-> NoCall]
  /\ served = [o \in Outputs |-> "absent"]
  /\ lost = {}
  /\ litter = FALSE

Busy(p) == call[p].step # "none"

Recorded == {o \in Outputs : db.records[o] # NoContent}

Referenced == {db.records[o] : o \in Recorded}

\* A mutant: store() takes the mutex for its transaction only.
MutexOfTransaction(k) ==
  \A p \in Callers : cache_of[p] = k => call[p].step \notin {"forget", "drop"}

\* m_mutex, which serialises the callers of one cache.
MutexFree(k) == \A p \in Callers : cache_of[p] = k => ~Busy(p)

-----------------------------------------------------------------------------
\* A transaction that commits.  A commit that would leave more than MaxUnsynced
\* to lose waits until the database has reached the disk.
Commit(tables) ==
  /\ Cardinality(older) < MaxUnsynced
  /\ older' = older \cup {db}
  /\ db' = tables

WithRecords(outputs, c) ==
  [db EXCEPT !.records = [o \in Outputs |-> IF o \in outputs THEN c ELSE @[o]]]

\* The constructor.  The exclusive lock keeps a second cache out, which fails
\* at once; tables of another version are emptied, their contents left behind.
Open(k) ==
  /\ open = {}
  /\ open' = {k}
  /\ IF db.version = version_of[k]
     THEN UNCHANGED <<db, older, lost, litter>>
     ELSE /\ Commit([version |-> version_of[k],
                     records |-> [o \in Outputs |-> NoContent]])
          /\ lost' = {}
          /\ litter' = TRUE
  /\ UNCHANGED <<files, restored, call, served>>

\* The destructor, once nothing uses the cache.
Close(k) ==
  /\ k \in open
  /\ MutexFree(k)
  /\ open' = open \ {k}
  /\ restored' = restored \ {k}
  /\ served' = [o \in Outputs |-> "absent"]
  /\ UNCHANGED <<db, older, files, call, lost, litter>>

\* A mutant: the hash is not checked.
read_unchecked(c) == objects[c]

\* A content file that does not match its name reads as missing.
read(c) == IF objects[c] = "whole" THEN "whole" ELSE "absent"

\* restore_from_cache(): records() and read() of each, then forget() of those
\* that do not hold, and collect_garbage().  A record whose content is missing
\* never holds; any other may not.
Restore(p) ==
  LET found(o) == IF o \in Recorded THEN read(db.records[o]) ELSE "absent"
  IN  \E dropped \in SUBSET Recorded :
        /\ cache_of[p] \in open \ restored
        /\ MutexFree(cache_of[p])
        /\ \A o \in Recorded : found(o) = "absent" => o \in dropped
        /\ restored' = restored \cup {cache_of[p]}
        /\ served' = [o \in Outputs |-> IF o \in dropped THEN "absent"
                                                         ELSE found(o)]
        /\ call' = [call EXCEPT ![p] = [NoCall EXCEPT !.step = "forget",
                                                      !.outputs = dropped,
                                                      !.collects = TRUE]]
        /\ UNCHANGED <<db, older, files, open, lost, litter>>

\* A call enters: its cache is in use and nobody holds m_mutex.
Enters(p) == cache_of[p] \in restored /\ MutexFree(cache_of[p])

\* What is left once a call has returned or thrown.
Leave(p) == call' = [call EXCEPT ![p] = NoCall]

Advance(p, step) == call' = [call EXCEPT ![p] = [@ EXCEPT !.step = step]]

\* What is left to do is to delete those of `contents` that no record names.
GoOnToDrop(p, contents) ==
  call' = [call EXCEPT ![p] = [@ EXCEPT !.step = "drop", !.drops = contents]]

-----------------------------------------------------------------------------
\* store(): creates the scratch file and begins to write it.
BeginStore(p, o, c) ==
  /\ Enters(p)
  /\ call' = [call EXCEPT ![p] = [NoCall EXCEPT !.step = "write",
                                                !.outputs = {o},
                                                !.content = c]]
  /\ scratch' = scratch \cup {c}
  /\ unsettled' = unsettled \cup {c}
  /\ UNCHANGED <<db, older, objects, process, lost, litter>>

\* The scratch file holds all of the content.
WriteScratch(p) ==
  /\ call[p].step = "write"
  /\ Advance(p, "rename")
  /\ UNCHANGED <<db, older, files, process, lost, litter>>

\* Writing or renaming fails: store() removes the scratch file, if it can, and
\* throws.  Whatever record the output had stays.
WriteFails(p) ==
  \E removed \in BOOLEAN :
    /\ call[p].step \in {"write", "rename"}
    /\ scratch' = IF removed THEN scratch \ {call[p].content} ELSE scratch
    /\ unsettled' = unsettled \cup {call[p].content}
    /\ litter' = (litter \/ ~removed)
    /\ Leave(p)
    /\ UNCHANGED <<db, older, objects, process, lost>>

\* The scratch file is renamed to the content's name, over any file there.
RenameObject(p) ==
  /\ call[p].step = "rename"
  /\ scratch' = scratch \ {call[p].content}
  /\ objects' = [objects EXCEPT ![call[p].content] = "whole"]
  /\ unsettled' = unsettled \cup {call[p].content}
  /\ Advance(p, "commit")
  /\ UNCHANGED <<db, older, process, lost, litter>>

\* The contents that replacing the records of `outputs` by `c` may leave unused.
Replaced(outputs, c) ==
  {db.records[o] : o \in outputs} \ {c, NoContent}

\* The record is replaced in one transaction.
CommitStore(p) ==
  /\ call[p].step = "commit"
  /\ Commit(WithRecords(call[p].outputs, call[p].content))
  /\ GoOnToDrop(p, Replaced(call[p].outputs, call[p].content))
  /\ lost' = lost \ call[p].outputs
  /\ UNCHANGED <<files, process, litter>>

\* A mutant: a failed transaction leaves the content it came for.
CommitFailsKeeping(p) ==
  /\ call[p].step = "commit"
  /\ Leave(p)
  /\ UNCHANGED <<db, older, files, process, lost, litter>>

\* The transaction fails and rolls back: the new content goes, unless a record
\* names it all the same.
CommitFails(p) ==
  /\ call[p].step = "commit"
  /\ GoOnToDrop(p, {call[p].content})
  /\ UNCHANGED <<db, older, files, process, lost, litter>>

\* forget() of some outputs.
BeginForget(p) ==
  \E outputs \in SUBSET Outputs \ {{}} :
    /\ Enters(p)
    /\ call' = [call EXCEPT ![p] = [NoCall EXCEPT !.step = "forget",
                                                  !.outputs = outputs]]
    /\ UNCHANGED <<db, older, files, process, lost, litter>>

\* Their records go in one transaction; with none to forget there is none.
CommitForget(p) ==
  /\ call[p].step = "forget"
  /\ GoOnToDrop(p, Replaced(call[p].outputs, NoContent))
  /\ IF call[p].outputs = {}
     THEN UNCHANGED <<db, older>>
     ELSE Commit(WithRecords(call[p].outputs, NoContent))
  /\ lost' = lost \ call[p].outputs
  /\ UNCHANGED <<files, process, litter>>

\* It fails and rolls back, and forget() throws.
ForgetFails(p) ==
  /\ call[p].step = "forget"
  /\ call[p].outputs # {}
  /\ Leave(p)
  /\ UNCHANGED <<db, older, files, process, lost, litter>>

\* Whether drop_if_unreferenced() deletes a content.
Droppable(c) == c \notin Referenced

\* drop_if_unreferenced() of the next content; deleting it may fail unnoticed.
drop_if_unreferenced(p, c) ==
  \E removed \in BOOLEAN :
    /\ call[p].step = "drop"
    /\ c \in call[p].drops
    /\ call' = [call EXCEPT ![p].drops = @ \ {c}]
    /\ IF Droppable(c)
       THEN /\ objects' = IF removed THEN [objects EXCEPT ![c] = "absent"]
                                     ELSE objects
            /\ unsettled' = unsettled \cup {c}
            /\ litter' = (litter \/ ~removed)
       ELSE UNCHANGED <<objects, unsettled, litter>>
    /\ UNCHANGED <<db, older, scratch, process, lost>>

\* Its query fails: the call throws, leaving the other contents too.
DropThrows(p) ==
  /\ call[p].step = "drop"
  /\ call[p].drops # {}
  /\ Leave(p)
  /\ litter' = TRUE
  /\ UNCHANGED <<db, older, files, process, lost>>

\* Nothing is left to drop: the call returns, or garbage collection follows.
Return(p) ==
  /\ call[p].step = "drop"
  /\ call[p].drops = {}
  /\ IF call[p].collects THEN Advance(p, "collect") ELSE Leave(p)
  /\ UNCHANGED <<db, older, files, process, lost, litter>>

\* collect_garbage(): deletes what no record names, `left` excepted, which it
\* could not.  Scratch files never have a name that a record holds.
collect_garbage(p) ==
  LET garbage == {c \in Contents : objects[c] # "absent"} \ Referenced
  IN  \E left \in SUBSET garbage, scratched \in SUBSET scratch :
        /\ call[p].step = "collect"
        /\ objects' = [c \in Contents |-> IF c \in garbage \ left
                                          THEN "absent" ELSE objects[c]]
        /\ scratch' = scratched
        /\ unsettled' = unsettled \cup garbage \cup scratch
        /\ litter' = (left # {} \/ scratched # {})
        /\ Leave(p)
        /\ UNCHANGED <<db, older, process, lost>>

-----------------------------------------------------------------------------
\* The process is killed: what it committed and wrote stays, its lock goes.
Kill(k) ==
  /\ k \in open
  /\ open' = open \ {k}
  /\ restored' = restored \ {k}
  /\ served' = [o \in Outputs |-> "absent"]
  /\ call' = [p \in Callers |-> IF cache_of[p] = k THEN NoCall ELSE call[p]]
  /\ litter' = TRUE
  /\ UNCHANGED <<db, older, files, lost>>

\* With write-ahead logging at synchronous = NORMAL the last commits can be
\* lost, and the files themselves are never synced: those that have not reached
\* the disk can be missing, cut short, or back after they were deleted.
PowerLoss ==
  \E version \in older \cup {db},
     present \in [unsettled -> {"absent", "torn", "whole"}],
     scratched \in SUBSET unsettled :
    /\ db' = version
    /\ older' = {}
    /\ objects' = [c \in Contents |-> IF c \in unsettled THEN present[c]
                                                         ELSE objects[c]]
    /\ scratch' = (scratch \ unsettled) \cup scratched
    /\ unsettled' = {}
    /\ open' = {}
    /\ restored' = {}
    /\ call' = [p \in Callers |-> NoCall]
    /\ served' = [o \in Outputs |-> "absent"]
    /\ lost' = {o \in Outputs : /\ db'.records[o] # NoContent
                                /\ objects'[db'.records[o]] # "whole"}
    /\ litter' = TRUE

\* The database reaches the disk; so do a content's files, at another time.
SyncDatabase ==
  /\ older # {}
  /\ older' = {}
  /\ UNCHANGED <<db, files, process, call, lost, litter>>

SyncObject(c) ==
  /\ c \in unsettled
  /\ unsettled' = unsettled \ {c}
  /\ UNCHANGED <<db, older, objects, scratch, process, call, lost, litter>>

Next ==
  \/ \E k \in Caches : Open(k) \/ Close(k) \/ Kill(k)
  \/ \E p \in Callers :
       \/ Restore(p)
       \/ \E o \in Outputs, c \in Contents : BeginStore(p, o, c)
       \/ WriteScratch(p)
       \/ WriteFails(p)
       \/ RenameObject(p)
       \/ CommitStore(p)
       \/ CommitFails(p)
       \/ BeginForget(p)
       \/ CommitForget(p)
       \/ ForgetFails(p)
       \/ \E c \in Contents : drop_if_unreferenced(p, c)
       \/ DropThrows(p)
       \/ Return(p)
       \/ collect_garbage(p)
  \/ PowerLoss
  \/ SyncDatabase
  \/ \E c \in Contents : SyncObject(c)

Spec == Init /\ [][Next]_vars

-----------------------------------------------------------------------------
Files == {"absent", "torn", "whole"}

\* The types of the variables: the tables of buildcache.cpp, its directory of
\* contents, and the calls of its members.
TypeOK ==
  /\ db \in Databases
  /\ older \in SUBSET Databases
  /\ objects \in [Contents -> Files]
  /\ scratch \in SUBSET Contents
  /\ unsettled \in SUBSET Contents
  /\ open \in SUBSET Caches
  /\ restored \in SUBSET open
  /\ call \in [Callers -> Calls]
  /\ served \in [Outputs -> Files]
  /\ lost \in SUBSET Outputs
  /\ litter \in BOOLEAN

\* "A content file is in place before any record names it" (buildcache.hpp:30),
\* and for as long: a record whose content no power loss has taken names a file
\* that holds all of it, with any other caller in the middle of storing or
\* forgetting outputs with the same content, whatever failed, and whoever was
\* killed where.
ContentInPlace ==
  \A o \in Recorded \ lost : objects[db.records[o]] = "whole"

\* "A crash at any point leaves nothing that a later run would take for a good
\* build" (buildcache.hpp:31): a content served from the cache is all there,
\* although its file may have been cut short and its record brought back.
ServedWhole ==
  \A o \in Outputs : served[o] # "torn"

\* store() and forget() delete "the content only they held" (buildcache.hpp:109):
\* with no call under way there is no file that no record names, unless a step
\* has failed or a process died since garbage was last collected.
NoGarbage ==
  (~litter /\ \A p \in Callers : ~Busy(p)) =>
     /\ scratch = {}
     /\ \A c \in Contents : objects[c] # "absent" => c \in Referenced
=============================================================================
