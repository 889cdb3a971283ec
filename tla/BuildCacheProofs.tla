-------------------------- MODULE BuildCacheProofs --------------------------
(***************************************************************************)
(* The safety of BuildCache for any outputs, contents, caches and callers. *)
(*                                                                         *)
(* That a record's content stays in place is not inductive by itself: it   *)
(* rests on the file a store has renamed still being there when its record *)
(* is committed, which rests on no other caller being between two steps of *)
(* its own; that needs the mutex within a cache and the exclusive lock     *)
(* between caches.                                                         *)
(***************************************************************************)
EXTENDS BuildCache, TLAPS

(* One cache holds the directory, and one of its callers is in a call.     *)
Exclusive ==
  /\ \A j, k \in open : j = k
  /\ \A p \in Callers : Busy(p) => cache_of[p] \in open
  /\ \A p, q \in Callers : Busy(p) /\ Busy(q) => p = q

(* What a store knows of its content at each step.                         *)
Storing ==
  \A p \in Callers :
    /\ call[p].step \in {"write", "rename", "commit"} =>
         call[p].content \in Contents /\ call[p].outputs # {}
    /\ call[p].step = "commit" => objects[call[p].content] = "whole"

(* A file that no record names is one that the call under way put there or *)
(* is about to delete, unless something went wrong.                        *)
Tracked ==
  ~litter =>
    /\ \A c \in scratch : \E p \in Callers :
         call[p].step \in {"write", "rename"} /\ call[p].content = c
    /\ \A c \in Contents : objects[c] # "absent" =>
         \/ c \in Referenced
         \/ \E p \in Callers :
              \/ call[p].step = "commit" /\ call[p].content = c
              \/ call[p].step = "drop" /\ c \in call[p].drops

Inv == TypeOK /\ Exclusive /\ Storing /\ ContentInPlace /\ ServedWhole /\
   Tracked

-----------------------------------------------------------------------------

(* A caller moves to a call of the right type.                             *)
LEMMA CallTyped ==
  ASSUME TypeOK, NEW p \in Callers, NEW x \in Calls,
         call' = [call EXCEPT ![p] = x]
  PROVE  call' \in [Callers -> Calls]
BY DEF TypeOK

(* It moves on within its call.                                            *)
LEMMA AdvanceTyped ==
  ASSUME TypeOK, NEW p \in Callers, NEW s \in Steps, Advance(p, s)
  PROVE  call' \in [Callers -> Calls]
<1>1. [call[p] EXCEPT !.step = s] \in Calls
  BY DEF TypeOK, Calls
<1> QED BY <1>1 DEF TypeOK, Advance

(* It moves on to deleting contents.                                       *)
LEMMA DropTyped ==
  ASSUME TypeOK, NEW p \in Callers, NEW D \in SUBSET Contents,
         GoOnToDrop(p, D)
  PROVE  call' \in [Callers -> Calls]
<1>1. [call[p] EXCEPT !.step = "drop", !.drops = D] \in Calls
  BY DEF TypeOK, Calls, Steps
<1> QED BY <1>1 DEF TypeOK, GoOnToDrop

(* The lock lets in one cache; emptying the tables leaves no record. *)
LEMMA OpenStep ==
  ASSUME Inv, NEW k \in Caches, Open(k)
  PROVE  Inv'
<1>1. TypeOK'
  <2>1. db' \in Databases /\ older' \in SUBSET Databases
    BY CacheAssumption DEF Inv, TypeOK, Open, Commit, Databases
  <2> QED BY <2>1 DEF Inv, TypeOK, Open, files
<1>2. Exclusive' /\ Storing'
  BY CacheAssumption DEF Inv, TypeOK, Exclusive, Storing, Open, Busy, Commit,
     files
<1>3. ContentInPlace' /\ ServedWhole'
  BY CacheAssumption DEF Inv, TypeOK, ContentInPlace, ServedWhole, Open,
     Commit, Recorded, files
<1>4. Tracked'
  BY DEF Inv, TypeOK, Storing, Tracked, Open, Commit, Recorded, Referenced,
     files
<1> QED BY <1>1, <1>2, <1>3, <1>4 DEF Inv

(* Closing ends no call. *)
LEMMA CloseStep ==
  ASSUME Inv, NEW k \in Caches, Close(k)
  PROVE  Inv'
<1>1. TypeOK'
  BY DEF Inv, TypeOK, Close, Calls, Databases, Files, Steps, files
<1>2. Exclusive' /\ Storing'
  BY DEF Inv, TypeOK, Exclusive, Storing, Close, Busy, MutexFree, files
<1>3. ContentInPlace' /\ ServedWhole'
  BY DEF Inv, TypeOK, ContentInPlace, ServedWhole, Close, Recorded, files
<1>4. Tracked'
  BY DEF Inv, TypeOK, Storing, Tracked, Close, Recorded, Referenced, files
<1> QED BY <1>1, <1>2, <1>3, <1>4 DEF Inv

(* What a killed process held stays as it was, as litter. *)
LEMMA KillStep ==
  ASSUME Inv, NEW k \in Caches, Kill(k)
  PROVE  Inv'
<1>1. TypeOK'
  BY DEF Inv, TypeOK, Kill, Calls, Databases, Files, NoCall, Steps, files
<1>2. Exclusive' /\ Storing'
  BY DEF Inv, TypeOK, Exclusive, Storing, Kill, Busy, NoCall, files
<1>3. ContentInPlace' /\ ServedWhole'
  BY DEF Inv, TypeOK, ContentInPlace, ServedWhole, Kill, Recorded, files
<1>4. Tracked'
  BY DEF Inv, TypeOK, Storing, Tracked, Kill, Recorded, Referenced, files
<1> QED BY <1>1, <1>2, <1>3, <1>4 DEF Inv

(* Only contents that are all there are served. *)
LEMMA RestoreStep ==
  ASSUME Inv, NEW p \in Callers, Restore(p)
  PROVE  Inv'
<1>1. TypeOK'
  <2>1. PICK dropped \in SUBSET Outputs :
          call' = [call EXCEPT ![p] = [NoCall EXCEPT !.step = "forget",
                                                     !.outputs = dropped,
                                                     !.collects = TRUE]]
    BY DEF Restore, Recorded
  <2>2. call' \in [Callers -> Calls]
    BY <2>1 DEF Inv, TypeOK, Calls, Steps, NoCall
  <2>3. served' \in [Outputs -> Files]
    BY DEF Restore, read, Files
  <2> QED BY <2>2, <2>3 DEF Inv, TypeOK, Restore, files
<1>2. Exclusive'
  BY CacheAssumption DEF Inv, TypeOK, Exclusive, Restore, Busy, MutexFree,
     NoCall, Recorded, files, read
<1>3. Storing'
  BY DEF Inv, TypeOK, Storing, Restore, Recorded, files
<1>4. ContentInPlace' /\ ServedWhole'
  BY DEF Inv, TypeOK, ContentInPlace, ServedWhole, Restore, MutexFree,
     NoCall, Recorded, files, read
<1>5. Tracked'
  BY DEF Inv, TypeOK, Exclusive, Storing, Tracked, Restore, Busy, MutexFree,
     NoCall, Recorded, Referenced, files, read
<1> QED BY <1>1, <1>2, <1>3, <1>4, <1>5 DEF Inv

(* A scratch file belongs to the call that created it. *)
LEMMA BeginStoreStep ==
  ASSUME Inv, NEW p \in Callers, NEW o \in Outputs, NEW c \in Contents,
     BeginStore(p, o, c)
  PROVE  Inv'
<1>1. TypeOK'
  BY DEF Inv, TypeOK, BeginStore, Calls, Databases, Files, NoCall, Steps,
     process
<1>2. Exclusive' /\ Storing'
  BY DEF Inv, TypeOK, Exclusive, Storing, BeginStore, Busy, Enters,
     MutexFree, NoCall, process
<1>3. ContentInPlace' /\ ServedWhole'
  BY DEF Inv, TypeOK, ContentInPlace, ServedWhole, BeginStore, Enters,
     MutexFree, NoCall, Recorded, process
<1>4. Tracked'
  BY DEF Inv, TypeOK, Exclusive, Storing, Tracked, BeginStore, Busy, Enters,
     MutexFree, NoCall, Recorded, Referenced, process
<1> QED BY <1>1, <1>2, <1>3, <1>4 DEF Inv

(* The scratch file is written. *)
LEMMA WriteScratchStep ==
  ASSUME Inv, NEW p \in Callers, WriteScratch(p)
  PROVE  Inv'
<1>1. TypeOK'
  BY DEF Inv, TypeOK, WriteScratch, Advance, Calls, Databases, Files, Steps,
     files, process
<1>2. Exclusive' /\ Storing'
  BY DEF Inv, TypeOK, Exclusive, Storing, WriteScratch, Advance, Busy, files,
     process
<1>3. ContentInPlace' /\ ServedWhole'
  BY DEF Inv, TypeOK, ContentInPlace, ServedWhole, WriteScratch, Advance,
     Recorded, files, process
<1>4. Tracked'
  BY DEF Inv, TypeOK, Storing, Tracked, WriteScratch, Advance, Recorded,
     Referenced, files, process
<1> QED BY <1>1, <1>2, <1>3, <1>4 DEF Inv

(* A store that fails leaves no scratch file, or litter. *)
LEMMA WriteFailsStep ==
  ASSUME Inv, NEW p \in Callers, WriteFails(p)
  PROVE  Inv'
<1>1. TypeOK'
  <2>1. call' \in [Callers -> Calls]
    BY DEF Inv, TypeOK, WriteFails, Leave, NoCall, Calls, Steps
  <2>2. scratch' \in SUBSET Contents /\ unsettled' \in SUBSET Contents
    BY DEF Inv, TypeOK, Storing, WriteFails
  <2> QED BY <2>1, <2>2 DEF Inv, TypeOK, WriteFails, process
<1>2. Exclusive' /\ Storing'
  BY DEF Inv, TypeOK, Exclusive, Storing, WriteFails, Busy, Leave, NoCall,
     process
<1>3. ContentInPlace' /\ ServedWhole'
  BY DEF Inv, TypeOK, Storing, ContentInPlace, ServedWhole, WriteFails,
     Leave, NoCall, Recorded, process
<1>4. Tracked'
  <2>1. ~litter' => ~litter /\ scratch' = scratch \ {call[p].content}
    BY DEF Inv, TypeOK, WriteFails
  <2>2. call[p].step \in {"write", "rename"} /\ Leave(p)
        /\ objects' = objects /\ Referenced' = Referenced
    BY DEF WriteFails, Referenced, Recorded
  <2>3. ~litter' => scratch' = {}
    BY <2>1, <2>2 DEF Inv, TypeOK, Exclusive, Tracked, Busy
  <2>4. \A q \in Callers : call[q].step \notin {"commit", "drop"}
    BY <2>2 DEF Inv, TypeOK, Exclusive, Busy
  <2> QED BY <2>1, <2>2, <2>3, <2>4 DEF Inv, Tracked
<1> QED BY <1>1, <1>2, <1>3, <1>4 DEF Inv

(* The content is in place before the record is committed. *)
LEMMA RenameObjectStep ==
  ASSUME Inv, NEW p \in Callers, RenameObject(p)
  PROVE  Inv'
<1>1. TypeOK'
  <2>1. call' \in [Callers -> Calls]
    <3>1. [call[p] EXCEPT !.step = "commit"] \in Calls
      BY DEF Inv, TypeOK, Calls, Steps
    <3> QED BY <3>1 DEF Inv, TypeOK, RenameObject, Advance
  <2>2. /\ scratch' \in SUBSET Contents
        /\ unsettled' \in SUBSET Contents
        /\ objects' \in [Contents -> Files]
    BY DEF Inv, TypeOK, Storing, RenameObject, Files
  <2> QED BY <2>1, <2>2 DEF Inv, TypeOK, RenameObject, process
<1>2. Exclusive' /\ Storing'
  BY DEF Inv, TypeOK, Exclusive, Storing, RenameObject, Advance, Busy,
     process
<1>3. ContentInPlace' /\ ServedWhole'
  BY DEF Inv, TypeOK, Storing, ContentInPlace, ServedWhole, RenameObject,
     Advance, Recorded, process
<1>4. Tracked'
  BY DEF Inv, TypeOK, Storing, Tracked, RenameObject, Advance, Recorded,
     Referenced, process
<1> QED BY <1>1, <1>2, <1>3, <1>4 DEF Inv

(* The content a record names is in place; the one it named before is to be
dropped. *)
LEMMA CommitStoreStep ==
  ASSUME Inv, NEW p \in Callers, CommitStore(p)
  PROVE  Inv'
<1>1. TypeOK'
  <2>1. Replaced(call[p].outputs, call[p].content) \in SUBSET Contents
    BY DEF Inv, TypeOK, Replaced, Databases, Calls
  <2>2. call' \in [Callers -> Calls]
    BY <2>1, DropTyped DEF Inv, CommitStore
  <2>3. db' \in Databases /\ older' \in SUBSET Databases
    BY DEF Inv, TypeOK, CommitStore, Commit, WithRecords, Databases, Calls
  <2> QED BY <2>2, <2>3 DEF Inv, TypeOK, CommitStore, files, process
<1>2. Exclusive' /\ Storing'
  BY DEF Inv, TypeOK, Exclusive, Storing, CommitStore, Busy, Commit,
     GoOnToDrop, Replaced, WithRecords, files, process
<1>3. ContentInPlace' /\ ServedWhole'
  BY DEF Inv, TypeOK, Storing, ContentInPlace, ServedWhole, CommitStore,
     Commit, GoOnToDrop, Recorded, Replaced, WithRecords, files, process
<1>4. Tracked'
  <2> SUFFICES ASSUME ~litter' PROVE Tracked'
    BY DEF Tracked
  <2>1. \A q \in Callers \ {p} : call[q].step = "none"
    BY DEF Inv, Exclusive, Busy, CommitStore
  <2>2. ~litter /\ scratch' = {}
    BY <2>1 DEF Inv, Tracked, CommitStore, files
  <2>3. ASSUME NEW c \in Contents, objects'[c] # "absent", c \notin
     Referenced'
        PROVE  call'[p].step = "drop" /\ c \in call'[p].drops
    <3>1. /\ call[p].step = "commit"
          /\ call[p].outputs \in SUBSET Outputs
          /\ call[p].outputs # {}
          /\ call[p].content \in Contents
      BY DEF Inv, TypeOK, Storing, CommitStore, Calls
    <3>2. /\ call'[p].step = "drop"
          /\ call'[p].drops = Replaced(call[p].outputs, call[p].content)
      BY DEF Inv, TypeOK, CommitStore, GoOnToDrop
    <3>3. \A o \in Outputs :
            db'.records[o] = IF o \in call[p].outputs THEN call[p].content
                                                       ELSE db.records[o]
      BY DEF Inv, TypeOK, CommitStore, Commit, WithRecords
    <3>4. c # call[p].content
      BY <2>3, <3>1, <3>3, CacheAssumption DEF Referenced, Recorded
    <3>5. c \in Referenced
      BY <2>1, <2>2, <2>3, <3>1, <3>4 DEF Inv, Tracked, CommitStore, files
    <3>6. PICK o \in Outputs : db.records[o] = c
      BY <3>5 DEF Referenced, Recorded
    <3>7. o \in call[p].outputs
      BY <2>3, <3>3, <3>6, CacheAssumption DEF Referenced, Recorded
    <3> QED BY <3>2, <3>4, <3>6, <3>7, CacheAssumption DEF Replaced
  <2> QED BY <2>2, <2>3 DEF Tracked
<1> QED BY <1>1, <1>2, <1>3, <1>4 DEF Inv

(* A failed transaction leaves a content to be dropped. *)
LEMMA CommitFailsStep ==
  ASSUME Inv, NEW p \in Callers, CommitFails(p)
  PROVE  Inv'
<1>1. TypeOK'
  <2>1. call' \in [Callers -> Calls]
    BY DropTyped DEF Inv, Storing, CommitFails
  <2> QED BY <2>1 DEF Inv, TypeOK, CommitFails, files, process
<1>2. Exclusive' /\ Storing'
  BY DEF Inv, TypeOK, Exclusive, Storing, CommitFails, Busy, GoOnToDrop,
     files, process
<1>3. ContentInPlace' /\ ServedWhole'
  BY DEF Inv, TypeOK, ContentInPlace, ServedWhole, CommitFails, GoOnToDrop,
     Recorded, files, process
<1>4. Tracked'
  <2>1. \A q \in Callers \ {p} : call[q].step = "none"
    BY DEF Inv, Exclusive, Busy, CommitFails
  <2>2. call'[p].step = "drop" /\ call'[p].drops = {call[p].content}
    BY DEF Inv, TypeOK, CommitFails, GoOnToDrop
  <2>3. call[p].step = "commit" /\ Referenced' = Referenced
        /\ UNCHANGED <<objects, scratch, litter>>
    BY DEF CommitFails, files, Referenced, Recorded
  <2> QED BY <2>1, <2>2, <2>3 DEF Inv, Tracked
<1> QED BY <1>1, <1>2, <1>3, <1>4 DEF Inv

(* A forget begins. *)
LEMMA BeginForgetStep ==
  ASSUME Inv, NEW p \in Callers, BeginForget(p)
  PROVE  Inv'
<1>1. TypeOK'
  <2>1. call' \in [Callers -> Calls]
    BY CallTyped DEF Inv, BeginForget, NoCall, Calls, Steps
  <2> QED BY <2>1 DEF Inv, TypeOK, BeginForget, files, process
<1>2. Exclusive' /\ Storing'
  BY DEF Inv, TypeOK, Exclusive, Storing, BeginForget, Busy, Enters,
     MutexFree, NoCall, files, process
<1>3. ContentInPlace' /\ ServedWhole'
  BY DEF Inv, TypeOK, ContentInPlace, ServedWhole, BeginForget, Enters,
     MutexFree, NoCall, Recorded, files, process
<1>4. Tracked'
  BY DEF Inv, TypeOK, Exclusive, Storing, Tracked, BeginForget, Busy, Enters,
     MutexFree, NoCall, Recorded, Referenced, files, process
<1> QED BY <1>1, <1>2, <1>3, <1>4 DEF Inv

(* The contents of forgotten records are to be dropped. *)
LEMMA CommitForgetStep ==
  ASSUME Inv, NEW p \in Callers, CommitForget(p)
  PROVE  Inv'
<1>1. TypeOK'
  <2>1. Replaced(call[p].outputs, NoContent) \in SUBSET Contents
    BY DEF Inv, TypeOK, Replaced, Databases, Calls
  <2>2. call' \in [Callers -> Calls]
    BY <2>1, DropTyped DEF Inv, CommitForget
  <2>3. db' \in Databases /\ older' \in SUBSET Databases
    BY DEF Inv, TypeOK, CommitForget, Commit, WithRecords, Databases, Calls
  <2> QED BY <2>2, <2>3 DEF Inv, TypeOK, CommitForget, files, process
<1>2. Exclusive' /\ Storing'
  BY DEF Inv, TypeOK, Exclusive, Storing, CommitForget, Busy, Commit,
     GoOnToDrop, Replaced, WithRecords, files, process
<1>3. ContentInPlace' /\ ServedWhole'
  BY DEF Inv, TypeOK, ContentInPlace, ServedWhole, CommitForget, Calls,
     Commit, Databases, Files, GoOnToDrop, Recorded, Replaced, Steps,
     WithRecords, files, process
<1>4. Tracked'
  <2> SUFFICES ASSUME ~litter' PROVE Tracked'
    BY DEF Tracked
  <2>1. \A q \in Callers \ {p} : call[q].step = "none"
    BY DEF Inv, Exclusive, Busy, CommitForget
  <2>2. ~litter /\ scratch' = {}
    BY <2>1 DEF Inv, Tracked, CommitForget, files
  <2>3. ASSUME NEW c \in Contents, objects'[c] # "absent", c \notin
     Referenced'
        PROVE  call'[p].step = "drop" /\ c \in call'[p].drops
    <3>1. /\ call'[p].step = "drop"
          /\ call'[p].drops = Replaced(call[p].outputs, NoContent)
      BY DEF Inv, TypeOK, CommitForget, GoOnToDrop
    <3>2. \A o \in Outputs \ call[p].outputs : db'.records[o] = db.records[o]
      BY DEF Inv, TypeOK, CommitForget, Commit, WithRecords, Databases
    <3>3. c \in Referenced
      BY <2>1, <2>2, <2>3 DEF Inv, Tracked, CommitForget, files
    <3>4. PICK o \in Outputs : db.records[o] = c
      BY <3>3 DEF Referenced, Recorded
    <3>5. o \in call[p].outputs
      BY <2>3, <3>2, <3>4, CacheAssumption DEF Referenced, Recorded
    <3> QED BY <3>1, <3>4, <3>5, CacheAssumption DEF Replaced
  <2> QED BY <2>2, <2>3 DEF Tracked
<1> QED BY <1>1, <1>2, <1>3, <1>4 DEF Inv

(* A failed forget changes nothing. *)
LEMMA ForgetFailsStep ==
  ASSUME Inv, NEW p \in Callers, ForgetFails(p)
  PROVE  Inv'
<1>1. TypeOK'
  BY DEF Inv, TypeOK, ForgetFails, Calls, Databases, Files, Leave, NoCall,
     Steps, files, process
<1>2. Exclusive' /\ Storing'
  BY DEF Inv, TypeOK, Exclusive, Storing, ForgetFails, Busy, Leave, NoCall,
     files, process
<1>3. ContentInPlace' /\ ServedWhole'
  BY DEF Inv, TypeOK, ContentInPlace, ServedWhole, ForgetFails, Leave,
     NoCall, Recorded, files, process
<1>4. Tracked'
  BY DEF Inv, TypeOK, Exclusive, Storing, Tracked, ForgetFails, Busy,
     Recorded, Referenced, files
<1> QED BY <1>1, <1>2, <1>3, <1>4 DEF Inv

(* A content that is deleted is one that no record names. *)
LEMMA DropStep ==
  ASSUME Inv, NEW p \in Callers, NEW c \in Contents, drop_if_unreferenced(p,
     c)
  PROVE  Inv'
<1>1. TypeOK'
  <2>1. call' \in [Callers -> Calls]
    BY DEF Inv, TypeOK, drop_if_unreferenced, Calls, Steps
  <2>2. objects' \in [Contents -> Files] /\ unsettled' \in SUBSET Contents
        /\ litter' \in BOOLEAN
    BY DEF Inv, TypeOK, drop_if_unreferenced, Files
  <2> QED BY <2>1, <2>2 DEF Inv, TypeOK, drop_if_unreferenced, process
<1>2. Exclusive' /\ Storing'
  BY DEF Inv, TypeOK, Exclusive, Storing, drop_if_unreferenced, Busy,
     Droppable, Recorded, Referenced, process
<1>3. ContentInPlace' /\ ServedWhole'
  BY DEF Inv, TypeOK, Storing, ContentInPlace, ServedWhole,
     drop_if_unreferenced, Calls, Databases, Droppable, Files, Recorded,
     Referenced, Steps, process
<1>4. Tracked'
  <2> SUFFICES ASSUME ~litter' PROVE Tracked'
    BY DEF Tracked
  <2>1. /\ call[p].step = "drop"
        /\ call'[p].step = "drop"
        /\ call'[p].drops = call[p].drops \ {c}
        /\ Referenced' = Referenced
        /\ scratch' = scratch
    BY DEF Inv, TypeOK, drop_if_unreferenced, Referenced, Recorded
  <2>2. \A q \in Callers \ {p} : call[q].step = "none"
    BY <2>1 DEF Inv, Exclusive, Busy
  <2>3. /\ ~litter
        /\ \A d \in Contents \ {c} : objects'[d] = objects[d]
        /\ c \in Referenced \/ objects'[c] = "absent"
    BY DEF Inv, TypeOK, drop_if_unreferenced, Droppable
  <2>4. scratch' = {}
    BY <2>1, <2>2, <2>3 DEF Inv, Tracked
  <2>5. ASSUME NEW d \in Contents, objects'[d] # "absent", d \notin
     Referenced'
        PROVE  d \in call'[p].drops
    BY <2>1, <2>2, <2>3, <2>5 DEF Inv, Tracked
  <2> QED BY <2>1, <2>4, <2>5 DEF Tracked
<1> QED BY <1>1, <1>2, <1>3, <1>4 DEF Inv

(* What is not dropped is litter. *)
LEMMA DropThrowsStep ==
  ASSUME Inv, NEW p \in Callers, DropThrows(p)
  PROVE  Inv'
<1>1. TypeOK'
  BY DEF Inv, TypeOK, DropThrows, Calls, Databases, Files, Leave, NoCall,
     Steps, files, process
<1>2. Exclusive' /\ Storing'
  BY DEF Inv, TypeOK, Exclusive, Storing, DropThrows, Busy, Leave, NoCall,
     files, process
<1>3. ContentInPlace' /\ ServedWhole'
  BY DEF Inv, TypeOK, ContentInPlace, ServedWhole, DropThrows, Leave, NoCall,
     Recorded, files, process
<1>4. Tracked'
  BY DEF Inv, TypeOK, Storing, Tracked, DropThrows, Recorded, Referenced,
     files
<1> QED BY <1>1, <1>2, <1>3, <1>4 DEF Inv

(* A call that returns has dropped all it had to. *)
LEMMA ReturnStep ==
  ASSUME Inv, NEW p \in Callers, Return(p)
  PROVE  Inv'
<1>1. TypeOK'
  <2>1. call' \in [Callers -> Calls]
    BY CallTyped, AdvanceTyped DEF Inv, Return, Leave, NoCall, Calls, Steps
  <2> QED BY <2>1 DEF Inv, TypeOK, Return, files, process
<1>2. Exclusive'
  <2>1. \A q \in Callers : Busy(q)' => Busy(q)
    BY DEF Inv, TypeOK, Return, Leave, Advance, NoCall, Busy
  <2>2. open' = open
    BY DEF Return, process
  <2> QED BY <2>1, <2>2 DEF Inv, Exclusive
<1>3. Storing'
  BY DEF Inv, TypeOK, Storing, Return, Advance, Calls, Databases, Files,
     Leave, NoCall, Steps, files, process
<1>4. ContentInPlace' /\ ServedWhole'
  BY DEF Inv, TypeOK, ContentInPlace, ServedWhole, Return, Advance, Leave,
     NoCall, Recorded, files, process
<1>5. Tracked'
  <2>1. \A q \in Callers \ {p} : call[q].step = "none"
    BY DEF Inv, Exclusive, Busy, Return
  <2>2. /\ call[p].step = "drop" /\ call[p].drops = {}
        /\ Referenced' = Referenced
        /\ UNCHANGED <<objects, scratch, litter>>
    BY DEF Return, files, Referenced, Recorded
  <2>3. ~litter => /\ scratch = {}
                   /\ \A c \in Contents : objects[c] # "absent" => c \in
                      Referenced
    BY <2>1, <2>2 DEF Inv, Tracked
  <2> QED BY <2>2, <2>3 DEF Tracked
<1> QED BY <1>1, <1>2, <1>3, <1>4, <1>5 DEF Inv

(* Garbage collection deletes only what no record names. *)
LEMMA CollectStep ==
  ASSUME Inv, NEW p \in Callers, collect_garbage(p)
  PROVE  Inv'
<1>1. TypeOK'
  BY DEF Inv, TypeOK, collect_garbage, Calls, Databases, Files, Leave,
     NoCall, Recorded, Steps, process
<1>2. Exclusive' /\ Storing'
  BY DEF Inv, TypeOK, Exclusive, Storing, collect_garbage, Busy, Leave,
     NoCall, Recorded, Referenced, process
<1>3. ContentInPlace' /\ ServedWhole'
  BY DEF Inv, TypeOK, ContentInPlace, ServedWhole, collect_garbage, Calls,
     Databases, Files, Leave, NoCall, Recorded, Referenced, Steps, process
<1>4. Tracked'
  BY DEF Inv, TypeOK, Exclusive, Storing, Tracked, collect_garbage, Busy,
     Recorded, Referenced
<1> QED BY <1>1, <1>2, <1>3, <1>4 DEF Inv

(* Whatever a power loss takes counts as lost. *)
LEMMA PowerLossStep ==
  ASSUME Inv, PowerLoss
  PROVE  Inv'
<1>1. TypeOK'
  BY DEF Inv, TypeOK, PowerLoss, Calls, Databases, Files, NoCall, Steps
<1>2. Exclusive' /\ Storing'
  BY DEF Inv, TypeOK, Exclusive, Storing, PowerLoss, Busy, NoCall
<1>3. ContentInPlace' /\ ServedWhole'
  BY DEF Inv, TypeOK, ContentInPlace, ServedWhole, PowerLoss, Recorded
<1>4. Tracked'
  BY DEF Inv, TypeOK, Storing, Tracked, PowerLoss, Recorded, Referenced
<1> QED BY <1>1, <1>2, <1>3, <1>4 DEF Inv

(* The database reaches the disk. *)
LEMMA SyncDatabaseStep ==
  ASSUME Inv, SyncDatabase
  PROVE  Inv'
<1>1. TypeOK'
  BY DEF Inv, TypeOK, SyncDatabase, files, process
<1>2. Exclusive' /\ Storing'
  BY DEF Inv, TypeOK, Exclusive, Storing, SyncDatabase, Busy, files, process
<1>3. ContentInPlace' /\ ServedWhole'
  BY DEF Inv, TypeOK, ContentInPlace, ServedWhole, SyncDatabase, Recorded,
     files, process
<1>4. Tracked'
  BY DEF Inv, TypeOK, Storing, Tracked, SyncDatabase, Recorded, Referenced,
     files
<1> QED BY <1>1, <1>2, <1>3, <1>4 DEF Inv

(* So do a content's files. *)
LEMMA SyncObjectStep ==
  ASSUME Inv, NEW c \in Contents, SyncObject(c)
  PROVE  Inv'
<1>1. TypeOK'
  BY DEF Inv, TypeOK, SyncObject, process
<1>2. Exclusive' /\ Storing'
  BY DEF Inv, TypeOK, Exclusive, Storing, SyncObject, Busy, process
<1>3. ContentInPlace' /\ ServedWhole'
  BY DEF Inv, TypeOK, ContentInPlace, ServedWhole, SyncObject, Recorded,
     process
<1>4. Tracked'
  BY DEF Inv, TypeOK, Storing, Tracked, SyncObject, Recorded, Referenced
<1> QED BY <1>1, <1>2, <1>3, <1>4 DEF Inv

-----------------------------------------------------------------------------

(* A new directory has no records and no files.                            *)
LEMMA InitInv == Init => Inv
<1> SUFFICES ASSUME Init PROVE Inv
  OBVIOUS
<1>1. TypeOK
  BY CacheAssumption DEF Init, TypeOK, Databases, Files, Calls, Steps, NoCall
<1>2. Exclusive /\ Storing
  BY DEF Init, Exclusive, Storing, Busy, NoCall
<1>3. ContentInPlace /\ ServedWhole /\ Tracked
  BY DEF Init, ContentInPlace, ServedWhole, Tracked, Recorded
<1> QED BY <1>1, <1>2, <1>3 DEF Inv

(* A step that changes nothing.                                            *)
LEMMA StutterStep == ASSUME Inv, UNCHANGED vars PROVE Inv'
<1>1. TypeOK' /\ ServedWhole' /\ ContentInPlace'
  BY DEF Inv, vars, TypeOK, ServedWhole, ContentInPlace, Recorded
<1>2. Exclusive' /\ Storing' /\ Tracked'
  BY DEF Inv, vars, Exclusive, Storing, Tracked, Busy, Recorded, Referenced
<1> QED BY <1>1, <1>2 DEF Inv

(* Every step of a caller or of the machine keeps the invariant.           *)
LEMMA NextInv == ASSUME Inv, [Next]_vars PROVE Inv'
<1>1. CASE \E k \in Caches : Open(k) \/ Close(k) \/ Kill(k)
  BY <1>1, OpenStep, CloseStep, KillStep
<1>2. CASE PowerLoss \/ SyncDatabase \/ \E c \in Contents : SyncObject(c)
  BY <1>2, PowerLossStep, SyncDatabaseStep, SyncObjectStep
<1>3. ASSUME NEW p \in Callers,
             \/ Restore(p)
             \/ \E o \in Outputs, c \in Contents : BeginStore(p, o, c)
             \/ WriteScratch(p) \/ WriteFails(p) \/ RenameObject(p)
             \/ CommitStore(p) \/ CommitFails(p)
      PROVE  Inv'
  BY <1>3, RestoreStep, BeginStoreStep, WriteScratchStep, WriteFailsStep,
     RenameObjectStep, CommitStoreStep, CommitFailsStep
<1>4. ASSUME NEW p \in Callers,
             \/ BeginForget(p) \/ CommitForget(p) \/ ForgetFails(p)
             \/ \E c \in Contents : drop_if_unreferenced(p, c)
             \/ DropThrows(p) \/ Return(p) \/ collect_garbage(p)
      PROVE  Inv'
  BY <1>4, BeginForgetStep, CommitForgetStep, ForgetFailsStep,
     DropStep, DropThrowsStep, ReturnStep, CollectStep
<1> QED BY <1>1, <1>2, <1>3, <1>4, StutterStep DEF Next

(* The invariant holds in every reachable state of the cache, for any      *)
(* number of outputs, contents, processes and threads.                     *)
THEOREM CacheInvariance == Spec => []Inv
<1>1. Init => Inv
  BY InitInv
<1>2. Inv /\ [Next]_vars => Inv'
  BY NextInv
<1> QED BY <1>1, <1>2, PTL DEF Spec

(* The tables, the files and the calls of buildcache.cpp have their types. *)
THEOREM CacheTypes == Spec => []TypeOK
<1>1. Inv => TypeOK
  BY DEF Inv
<1> QED BY <1>1, CacheInvariance, PTL

(* A record that no power loss has robbed of its content names a file that *)
(* holds all of it: store() and forget() of outputs that share contents    *)
(* may interleave, fail and be killed anywhere.                            *)
THEOREM ContentStaysInPlace == Spec => []ContentInPlace
<1>1. Inv => ContentInPlace
  BY DEF Inv
<1> QED BY <1>1, CacheInvariance, PTL

(* restore_from_cache() never serves a content that a power loss cut short. *)
THEOREM NothingTornIsServed == Spec => []ServedWhole
<1>1. Inv => ServedWhole
  BY DEF Inv
<1> QED BY <1>1, CacheInvariance, PTL

(* With no call under way, store() and forget() have left no file that no  *)
(* record names, unless one of their steps failed or the process died.     *)
THEOREM NothingIsLeft == Spec => []NoGarbage
<1>1. Inv => NoGarbage
  <2> SUFFICES ASSUME Inv, ~litter, \A p \in Callers : ~Busy(p)
               PROVE  /\ scratch = {}
                      /\ \A c \in Contents :
                           objects[c] # "absent" => c \in Referenced
    BY DEF NoGarbage
  <2> QED BY DEF Inv, Tracked, Busy
<1> QED BY <1>1, CacheInvariance, PTL
=============================================================================
