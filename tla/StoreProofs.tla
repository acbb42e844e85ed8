----------------------------- MODULE StoreProofs -----------------------------
(***************************************************************************)
(* Proof that StoragePipeline implements ObjectStore, for every instance   *)
(* in which no client uses the key of the recycling object.                *)
(***************************************************************************)
EXTENDS RowProofs, StoreRefinement

USE DEF NoId

(* Every object is in a bucket, and the ids of buckets are fresh too.      *)
BucketInv ==
    /\ \A n \in Names : buckets[n] < nextId
    /\ \A o \in objects : o.bucket \in Live

(* A recycling object is empty, and only such an object has its key.       *)
RecycleInv == \A o \in objects : o.key = RecycleKey => o.data = <<>>

(* The key that a request names is a client's.                             *)
KeyInv ==
    \A c \in Clients :
        pc[c] \in {"wait"} \cup PipelineLabels => req[c].key \in Keys

(* No object has the id NoId, so none that was deleted has.                *)
NoIdInv == \A o \in objects : o.id # NoId

DoomedInv == NoId \notin doomed

StoreInv == BucketInv /\ RecycleInv /\ NoIdInv /\ KeyInv /\ DoomedInv

-----------------------------------------------------------------------------
(* What a step does to buckets and objects.                                *)
TableStep ==
    \/ UNCHANGED <<buckets, objects>> /\ nextId' \in {nextId, nextId + 1}
    \/ \E n \in Names : InsertBucket(n)
    \/ \E b : DeleteBucketRow(b)
    \/ \E id : DeleteObjectRow(id)
    \/ \E b : InsertObject(b, RecycleKey, <<>>)
    \/ \E b, d : \E k \in Keys : InsertObject(b, k, d)

(* These statements keep objects in buckets, and recycling objects empty,  *)
(* and ids are not NoId.                                                   *)
LEMMA TableStepInv ==
    ASSUME DBTypeOK, BucketInv, RecycleInv, NoIdInv, TableStep
    PROVE  BucketInv' /\ RecycleInv' /\ NoIdInv'
  <1>a. buckets \in [Names -> Nat] /\ nextId \in Nat /\ nextId # 0
    BY DEF DBTypeOK
  <1>1. CASE UNCHANGED <<buckets, objects>> /\ nextId' \in {nextId, nextId + 1}
    BY <1>a, <1>1 DEF BucketInv, RecycleInv, NoIdInv, Live
  <1>2. ASSUME NEW n \in Names, InsertBucket(n) PROVE BucketInv' /\ RecycleInv' /\ NoIdInv'
    BY <1>a, <1>2 DEF InsertBucket, CanInsertBucket, BucketInv, RecycleInv, NoIdInv, Live
  <1>3. ASSUME NEW b, DeleteBucketRow(b) PROVE BucketInv' /\ RecycleInv' /\ NoIdInv'
    BY <1>a, <1>3 DEF DeleteBucketRow, BucketInv, RecycleInv, NoIdInv, Live
  <1>4. ASSUME NEW id, DeleteObjectRow(id) PROVE BucketInv' /\ RecycleInv' /\ NoIdInv'
    BY <1>a, <1>4 DEF DeleteObjectRow, BucketInv, RecycleInv, NoIdInv, Live
  <1>5. ASSUME NEW b, NEW k, NEW d, InsertObject(b, k, d),
               k \in Keys \/ d = <<>>
        PROVE  BucketInv' /\ RecycleInv' /\ NoIdInv'
    <2> DEFINE new == [id |-> nextId, bucket |-> b, key |-> k, data |-> d]
    <2>1. /\ objects' = objects \cup {new} /\ buckets' = buckets
          /\ nextId' = nextId + 1 /\ BucketExists(b)
      BY <1>5 DEF InsertObject, CanInsertObject
    <2>2. new.id = nextId /\ new.bucket = b /\ new.key = k /\ new.data = d
      OBVIOUS
    <2> HIDE DEF new
    <2>3. b \in Live
      BY <2>1 DEF BucketExists, Live
    <2> QED
      BY <1>a, <1>5, <2>1, <2>2, <2>3, RecycleKeyAssumption
         DEF BucketInv, RecycleInv, NoIdInv, Live
  <1> QED
    BY <1>1, <1>2, <1>3, <1>4, <1>5 DEF TableStep

(* Every step runs one of them, or leaves buckets and objects alone.       *)
LEMMA NextTableStep ==
    ASSUME TypeInv, KeyInv, [Next]_vars
    PROVE  TableStep
  <1>a. UNCHANGED dbVars => TableStep
    BY DEF dbVars, TableStep
  <1>b. \A rows : DeleteChunkRows(rows) => TableStep
    BY DEF DeleteChunkRows, TableStep
  <1>c. RecycleBin \in Names /\ BucketNames \subseteq Names
    BY DEF Names
  <1>1. ASSUME NEW c \in Clients, NewRequest(c) PROVE TableStep
    BY <1>a, <1>1 DEF NewRequest, DeleteBucket, PutObject, GetObject, DeleteObject,
                      CopyObject, Issue
  <1>2. ASSUME NEW c \in Clients, DeleteStep(c) PROVE TableStep
    <2>1. CASE BinMakeBucket(c)
      BY <1>a, <1>c, <2>1 DEF BinMakeBucket, TableStep
    <2>2. CASE BinMakeObject(c)
      BY <1>a, <2>2 DEF BinMakeObject, TableStep
    <2>3. CASE BinMoveRow(c)
      BY <1>a, <2>3 DEF BinMoveRow, MoveChunk, TableStep
    <2>4. CASE DeleteRows(c)
      BY <1>b, <2>4 DEF DeleteRows
    <2>5. CASE DeleteVictim(c)
      BY <2>5 DEF DeleteVictim, TableStep
    <2> QED
      BY <1>a, <1>2, <2>1, <2>2, <2>3, <2>4, <2>5
         DEF DeleteStep, FindVictim, DeleteListRows, DeleteNextRow, BinFindBucket,
             BinFindObject
  <1>3. ASSUME NEW c \in Clients, UploadStep(c) PROVE TableStep
    <2>1. CASE UploadInsertObject(c)
      <3>1. req[c].key \in Keys
        BY <2>1 DEF UploadInsertObject, KeyInv, PipelineLabels, UploadLabels
      <3> QED
        BY <1>a, <2>1, <3>1 DEF UploadInsertObject, TableStep
    <2>2. CASE UploadDropFreeRow(c)
      BY <1>b, <2>2 DEF UploadDropFreeRow
    <2>3. CASE UploadRecord(c)
      BY <1>a, <2>3 DEF UploadRecord, InsertChunk, TableStep
    <2> QED
      BY <1>a, <1>3, <2>1, <2>2, <2>3
         DEF UploadStep, UploadDedup, UploadFindFree, UploadCreateDraft,
             UploadDeleteDraft, UploadDone
  <1>4. ASSUME NEW c \in Clients, DownloadStep(c) \/ FaultStep(c) PROVE TableStep
    BY <1>a, <1>4 DEF DownloadStep, DownloadListRows, DownloadFetch, DownloadDone,
                      FaultStep, FailDelete, FailIgnored, FailAfterAppend, Abandon
  <1>5. ASSUME NEW c \in Clients, HandlerStep(c) PROVE TableStep
    <2>1. CASE RemoveBucket(c)
      BY <2>1 DEF RemoveBucket, TableStep
    <2> QED
      BY <1>a, <1>2, <1>3, <1>4, <1>5, <2>1 DEF HandlerStep, CopyDestination, Lock
  <1>6. ASSUME NEW n \in BucketNames, CreateBucket(n) PROVE TableStep
    BY <1>c, <1>6 DEF CreateBucket, TableStep
  <1> QED
    BY <1>a, <1>1, <1>4, <1>5, <1>6 DEF Next, Restart, vars

-----------------------------------------------------------------------------
(* Requests name the keys of clients.                                      *)

KeepsKeys ==
    \A x \in Clients :
        pc'[x] \in {"wait"} \cup PipelineLabels =>
            \/ pc[x] \in {"wait"} \cup PipelineLabels /\ req'[x] = req[x]
            \/ req'[x].key \in Keys

LEMMA LeaveKeepsKeys ==
    ASSUME ClientTypeOK, NEW c \in Clients, Leave(c)
    PROVE  KeepsKeys
  BY LabelFacts DEF Leave, Goto, KeepsKeys, ClientTypeOK

(* A handler keeps its request from the wait for the mutex to its end.     *)
LEMMA NextKeepsKeys ==
    ASSUME TypeInv, [Next]_vars
    PROVE  KeepsKeys
  <1>a. ClientTypeOK
    BY DEF TypeInv, TypeOK
  <1>b. \A c \in Clients : \A label :
           /\ pc[c] \in {"wait"} \cup PipelineLabels
           /\ Goto(c, label) \/ UNCHANGED pc
           /\ UNCHANGED req
           => KeepsKeys
    BY <1>a DEF Goto, KeepsKeys, ClientTypeOK
  <1>c. \A c \in Clients :
           pc[c] \in {"wait"} \cup PipelineLabels /\ AfterDelete(c) => KeepsKeys
    BY <1>a, <1>b, LeaveKeepsKeys DEF AfterDelete
  <1>1. ASSUME NEW c \in Clients, NewRequest(c) PROVE KeepsKeys
    <2>1. \A request, label :
             /\ Issue(c, request, label)
             /\ label \notin {"wait"} \cup PipelineLabels \/ request.key \in Keys
             => KeepsKeys
      BY <1>a DEF Issue, Goto, KeepsKeys, ClientTypeOK
    <2>2. {"rm_bucket", "copy_dest"} \cap ({"wait"} \cup PipelineLabels) = {}
      BY LabelFacts
    <2> QED
      BY <1>1, <2>1, <2>2 DEF NewRequest, DeleteBucket, PutObject, GetObject,
                              DeleteObject, CopyObject
  <1>2. ASSUME NEW c \in Clients, NEW n \in BucketNames, NEW k \in Keys,
               CopyDestination(c, n, k)
        PROVE  KeepsKeys
    <2>1. CASE /\ Goto(c, "wait")
               /\ req' = [req EXCEPT ![c].bucket = buckets[n], ![c].key = k]
      <3>1. req'[c].key = k /\ \A x \in Clients \ {c} : req'[x] = req[x]
        BY <1>a, <2>1 DEF ClientTypeOK, Request
      <3> QED
        BY <1>a, <2>1, <3>1 DEF Goto, KeepsKeys, ClientTypeOK
    <2> QED
      BY <1>a, <1>2, <2>1, LeaveKeepsKeys DEF CopyDestination
  <1>3. ASSUME NEW c \in Clients, RemoveBucket(c) \/ Lock(c) PROVE KeepsKeys
    BY <1>a, <1>b, <1>3, LeaveKeepsKeys DEF RemoveBucket, Lock
  <1>4. ASSUME NEW c \in Clients, DeleteStep(c) PROVE KeepsKeys
    <2>1. pc[c] \in PipelineLabels
      BY <1>4 DEF DeleteStep, FindVictim, DeleteListRows, DeleteNextRow, BinFindBucket,
             BinMakeBucket, BinFindObject, BinMakeObject, BinMoveRow, DeleteRows,
             DeleteVictim, DeleteLabels, PipelineLabels
    <2> QED
      BY <1>b, <1>c, <1>4, <2>1
         DEF DeleteStep, FindVictim, DeleteListRows, DeleteNextRow, BinFindBucket,
             BinMakeBucket, BinFindObject, BinMakeObject, BinMoveRow, DeleteRows,
             DeleteVictim
  <1>5. ASSUME NEW c \in Clients, UploadStep(c) PROVE KeepsKeys
    <2>1. pc[c] \in PipelineLabels
      BY <1>5 DEF UploadStep, UploadInsertObject, UploadDedup, UploadFindFree,
             UploadCreateDraft, UploadDeleteDraft, UploadDropFreeRow, UploadRecord,
             UploadDone, UploadLabels, PipelineLabels
    <2> QED
      BY <1>a, <1>b, <1>5, <2>1, LeaveKeepsKeys
         DEF UploadStep, UploadInsertObject, UploadDedup, UploadFindFree,
             UploadCreateDraft, UploadDeleteDraft, UploadDropFreeRow, UploadRecord,
             UploadDone
  <1>6. ASSUME NEW c \in Clients, DownloadStep(c) PROVE KeepsKeys
    <2>1. pc[c] \in PipelineLabels
      BY <1>6 DEF DownloadStep, DownloadListRows, DownloadFetch, DownloadDone,
             DownloadLabels, PipelineLabels
    <2> QED
      BY <1>a, <1>b, <1>6, <2>1, LeaveKeepsKeys
         DEF DownloadStep, DownloadListRows, DownloadFetch, DownloadDone
  <1>7. ASSUME NEW c \in Clients, FaultStep(c) PROVE KeepsKeys
    <2>1. FailDelete(c) \/ FailIgnored(c) => pc[c] \in PipelineLabels
      BY DEF FailDelete, FailIgnored, UploadLabels, PipelineLabels
    <2> QED
      BY <1>a, <1>b, <1>c, <1>7, <2>1, LeaveKeepsKeys
         DEF FaultStep, FailDelete, FailIgnored, FailAfterAppend, Abandon
  <1>8. ASSUME Restart PROVE KeepsKeys
    BY <1>8, LabelFacts DEF Restart, KeepsKeys
  <1>9. ASSUME UNCHANGED <<pc, req>> PROVE KeepsKeys
    BY <1>9 DEF KeepsKeys
  <1> QED
    BY <1>1, <1>2, <1>3, <1>4, <1>5, <1>6, <1>7, <1>8, <1>9
       DEF Next, HandlerStep, CreateBucket, vars, clientVars

(* delete is only called on objects.                                       *)
LEMMA NextDoomed ==
    ASSUME [Next]_vars
    PROVE  doomed' = doomed \/ \E o \in objects : doomed' = doomed \cup {o.id}
  <1>1. ASSUME NEW c \in Clients, FindVictim(c)
        PROVE  doomed' = doomed \/ \E o \in objects : doomed' = doomed \cup {o.id}
    BY <1>1 DEF FindVictim, ObjectsAt
  <1>2. ASSUME NEW c \in Clients, NewRequest(c) \/ DownloadStep(c) \/ FaultStep(c)
        PROVE  doomed' = doomed
    BY <1>2 DEF NewRequest, DeleteBucket, PutObject, GetObject, DeleteObject,
                CopyObject, Issue, DownloadStep, DownloadListRows, DownloadFetch,
                DownloadDone, FaultStep, FailDelete, FailIgnored, FailAfterAppend,
                Abandon, history
  <1>3. ASSUME NEW c \in Clients, DeleteStep(c), ~FindVictim(c)
        PROVE  doomed' = doomed
    BY <1>3 DEF DeleteStep, DeleteListRows, DeleteNextRow, BinFindBucket,
                BinMakeBucket, BinFindObject, BinMakeObject, BinMoveRow, DeleteRows,
                DeleteVictim, history
  <1>4. ASSUME NEW c \in Clients, UploadStep(c) PROVE doomed' = doomed
    BY <1>4 DEF UploadStep, UploadInsertObject, UploadDedup, UploadFindFree,
                UploadCreateDraft, UploadDeleteDraft, UploadDropFreeRow,
                UploadRecord, UploadDone, history
  <1> QED
    BY <1>1, <1>2, <1>3, <1>4
       DEF Next, HandlerStep, CopyDestination, RemoveBucket, Lock, CreateBucket,
           Restart, vars, history

(* StoreInv holds of the pipeline.                                         *)
LEMMA StoreInvHolds == Spec => []StoreInv
  <1>1. Init => StoreInv
    <2> SUFFICES ASSUME Init PROVE StoreInv
      OBVIOUS
    <2>1. KeyInv
      BY LabelFacts DEF Init, KeyInv
    <2> QED
      BY <2>1 DEF Init, DBInit, StoreInv, BucketInv, RecycleInv, NoIdInv, DoomedInv
  <1>2. TypeInv /\ StoreInv /\ [Next]_vars => StoreInv'
    <2> SUFFICES ASSUME TypeInv, StoreInv, [Next]_vars PROVE StoreInv'
      OBVIOUS
    <2>1. BucketInv' /\ RecycleInv' /\ NoIdInv'
      BY NextTableStep, TableStepInv DEF StoreInv, TypeInv, TypeOK
    <2>2. KeyInv'
      BY NextKeepsKeys DEF KeepsKeys, KeyInv, StoreInv
    <2>3. DoomedInv'
      BY NextDoomed DEF DoomedInv, NoIdInv, StoreInv
    <2> QED
      BY <2>1, <2>2, <2>3 DEF StoreInv
  <1> QED
    BY <1>1, <1>2, TypeInvHolds, PTL DEF Spec

-----------------------------------------------------------------------------
(* Refinement.  StoreStep is what a step must be, seen through the mapping. *)

StoreStep == Store!Next \/ UNCHANGED Store!vars

(* Nothing happens to the store, or its activity is given up.              *)
LEMMA StutterOrGiveUp ==
    ASSUME UNCHANGED <<Live, Catalog, Stored, acked, doomed>>,
           \/ UNCHANGED <<Writing, Deleting>>
           \/ Writing' = NoId /\ Deleting' = NoId
    PROVE  StoreStep
  BY DEF StoreStep, Store!vars, Store!objectVars, Store!activity, Store!Next,
         Store!GiveUp

(* The labels at which an object is being written, or deleted.             *)
LEMMA ActivityLabels ==
    /\ WritingLabels = LoopLabels /\ DeletingLabels = VictimLabels
    /\ WritingLabels \subseteq PipelineLabels
    /\ DeletingLabels \subseteq PipelineLabels
    /\ WritingLabels \cap DeletingLabels = {}
  BY DEF WritingLabels, DeletingLabels, LoopLabels, VictimLabels, ChunkLabels,
         PipelineLabels, DeleteLabels, DownloadLabels, UploadLabels

(* What the holder of the mutex does is the activity of the store.         *)
LEMMA HolderActivity ==
    ASSUME LockInv, NEW c \in Clients, holder \in {c, NoClient},
           holder = NoClient => pc[c] \notin PipelineLabels
    PROVE  /\ Writing = IF pc[c] \in WritingLabels THEN frame.obj ELSE NoId
           /\ Deleting = IF pc[c] \in DeletingLabels THEN frame.victim ELSE NoId
  <1>1. \A x \in Clients : pc[x] \in PipelineLabels => x = c
    BY PipelineAssumption DEF LockInv
  <1> QED
    BY <1>1, ActivityLabels DEF Writing, Deleting, At

LEMMA HolderActivityNext ==
    ASSUME LockInv', NEW c \in Clients, holder' \in {c, NoClient},
           holder' = NoClient => pc'[c] \notin PipelineLabels
    PROVE  /\ Writing' = IF pc'[c] \in WritingLabels THEN frame'.obj ELSE NoId
           /\ Deleting' = IF pc'[c] \in DeletingLabels THEN frame'.victim ELSE NoId
  <1>1. \A x \in Clients : pc'[x] \in PipelineLabels => x = c
    BY PipelineAssumption DEF LockInv
  <1> QED
    BY <1>1, ActivityLabels DEF Writing, Deleting, At

(* A free mutex: no activity.                                              *)
LEMMA NoActivityNext ==
    ASSUME LockInv', holder' = NoClient
    PROVE  Writing' = NoId /\ Deleting' = NoId
  <1>1. \A x \in Clients : pc'[x] \notin PipelineLabels
    BY PipelineAssumption DEF LockInv
  <1> QED
    BY <1>1, ActivityLabels DEF Writing, Deleting, At

(* A step outside the pipeline keeps the activity.                         *)
LEMMA OutsideActivity ==
    ASSUME UNCHANGED frame,
           \A x \in Clients : \/ pc'[x] = pc[x]
                              \/ /\ pc[x] \notin PipelineLabels
                                 /\ pc'[x] \notin PipelineLabels
    PROVE  UNCHANGED <<Writing, Deleting>>
  <1>1. \A labels : labels \subseteq PipelineLabels => (At(labels)' <=> At(labels))
    BY DEF At
  <1> QED
    BY <1>1, ActivityLabels DEF Writing, Deleting

-----------------------------------------------------------------------------
(* What each statement does to the store.                                  *)

(* Active rows belong to clients' objects.                                 *)
LEMMA StoredInCatalog ==
    ASSUME TypeInv, RowsInv, StoreInv, NEW r \in chunks, r.status = "active",
           NEW o \in objects, o.id = r.object
    PROVE  o \in Catalog
  <1>1. r \in ActiveRows(o.id)
    BY DEF ActiveRows, ChunksOf
  <1>2. r.index < Len(o.data) /\ r.index \in Nat
    BY <1>1 DEF RowsInv, TableInv, RowsMatchObject, TypeInv, TypeOK, DBTypeOK, ChunkRow
  <1>3. o.data # <<>>
    BY <1>2
  <1> QED
    BY <1>3 DEF Catalog, StoreInv, RecycleInv

(* Statements that do not show.                                            *)
LEMMA HiddenStatements ==
    ASSUME TypeInv, RowsInv, StoreInv
    PROVE  /\ UNCHANGED dbVars => UNCHANGED <<Live, Catalog, Stored>>
           /\ \A b, d : InsertObject(b, RecycleKey, d) =>
                 UNCHANGED <<Live, Catalog, Stored>>
           /\ \A rows : /\ \A r \in rows : r.status = "free"
                        /\ DeleteChunkRows(rows)
                        => UNCHANGED <<Live, Catalog, Stored>>
  <1>1. UNCHANGED dbVars => UNCHANGED <<Live, Catalog, Stored>>
    BY DEF dbVars, Live, Catalog, Stored, ActiveChunks
  <1>2. ASSUME NEW b, NEW d, InsertObject(b, RecycleKey, d)
        PROVE  UNCHANGED <<Live, Catalog, Stored>>
    BY <1>2 DEF InsertObject, Live, Catalog, Stored, ActiveChunks
  <1>3. ASSUME NEW rows, \A r \in rows : r.status = "free", DeleteChunkRows(rows)
        PROVE  UNCHANGED <<Live, Catalog, Stored>>
    <2>1. ActiveChunks' = ActiveChunks
      BY <1>3 DEF DeleteChunkRows, ActiveChunks
    <2> QED
      BY <1>3, <2>1 DEF DeleteChunkRows, Live, Catalog, Stored
  <1> QED
    BY <1>1, <1>2, <1>3

(* Buckets come and go.                                                    *)
LEMMA BucketStatements ==
    ASSUME TypeInv, RowsInv, StoreInv, UNCHANGED <<Writing, Deleting, acked, doomed>>
    PROVE  /\ \A n \in Names : InsertBucket(n) => StoreStep
           /\ \A b : DeleteBucketRow(b) => StoreStep
  <1>a. /\ buckets \in [Names -> Nat] /\ nextId \in Nat /\ nextId # 0
        /\ BucketInv
    BY DEF TypeInv, TypeOK, DBTypeOK, StoreInv
  <1>1. ASSUME NEW n \in Names, InsertBucket(n) PROVE StoreStep
    <2>1. Live' = Live \cup {nextId} /\ nextId \notin Live
      BY <1>a, <1>1 DEF InsertBucket, CanInsertBucket, Live, BucketInv
    <2>2. UNCHANGED <<Catalog, Stored>>
      BY <1>1 DEF InsertBucket, Catalog, Stored, ActiveChunks
    <2> QED
      BY <2>1, <2>2 DEF StoreStep, Store!Next, Store!CreateBucket,
                        Store!objectVars, Store!activity
  <1>2. ASSUME NEW b, DeleteBucketRow(b), b \notin Live PROVE StoreStep
    <2>1. objects' = objects
      BY <1>a, <1>2 DEF DeleteBucketRow, BucketInv
    <2>2. chunks' = chunks
      BY <1>2, <2>1 DEF DeleteBucketRow, RowsInv, TableInv, RefInv
    <2>3. Live' = Live
      BY <1>a, <1>2 DEF DeleteBucketRow, Live
    <2> QED
      BY <2>1, <2>2, <2>3, StutterOrGiveUp DEF Catalog, Stored, ActiveChunks
  <1>3. ASSUME NEW b \in Live, DeleteBucketRow(b) PROVE StoreStep
    <2>1. Live' = Live \ {b}
      BY <1>a, <1>3 DEF DeleteBucketRow, Live
    <2>2. Catalog' = {o \in Catalog : o.bucket # b}
      BY <1>3 DEF DeleteBucketRow, Catalog
    <2>3. Stored' = {s \in Stored : \E o \in Catalog' : s[1] = o.id}
      <3>1. ActiveChunks' = {r \in ActiveChunks : \E o \in objects' : o.id = r.object}
        BY <1>3 DEF DeleteBucketRow, ActiveChunks
      <3>2. \A r \in ActiveChunks : \A o \in objects' :
               o.id = r.object => o \in Catalog'
        BY <1>3, <2>2, StoredInCatalog DEF ActiveChunks, DeleteBucketRow
      <3>3. Catalog' \subseteq objects'
        BY DEF Catalog
      <3> QED
        BY <3>1, <3>2, <3>3 DEF Stored
    <2> QED
      BY <2>1, <2>2, <2>3 DEF StoreStep, Store!Next, Store!DropBucket, Store!activity
  <1> QED
    BY <1>1, <1>2, <1>3

(* The INSERT of a client's object begins its writing.                     *)
LEMMA BeginStatement ==
    ASSUME TypeInv, RowsInv, StoreInv, NEW b, NEW k \in Keys, NEW d,
           InsertObject(b, k, d), Writing = NoId, Deleting = NoId,
           Writing' = nextId, Deleting' = NoId, UNCHANGED <<acked, doomed>>
    PROVE  StoreStep
  <1> DEFINE new == [id |-> nextId, bucket |-> b, key |-> k, data |-> d]
  <1>1. /\ objects' = objects \cup {new} /\ UNCHANGED <<buckets, chunks>>
        /\ BucketExists(b) /\ ObjectsAt(b, k) = {}
    BY DEF InsertObject, CanInsertObject
  <1>2. new.id = nextId /\ new.bucket = b /\ new.key = k
    OBVIOUS
  <1> HIDE DEF new
  <1>3. nextId \in Nat /\ nextId # NoId /\ nextId \notin acked
    BY DEF TypeInv, TypeOK, DBTypeOK, RowsInv, HistoryInv
  <1>4. Catalog' = Catalog \cup {new} /\ UNCHANGED <<Live, Stored>>
    BY <1>1, <1>2, RecycleKeyAssumption DEF Catalog, Live, Stored, ActiveChunks
  <1>5. b \in Live
    BY <1>1 DEF BucketExists, Live
  <1>6. \A o \in objects : o.id # nextId /\ (o.bucket = b => o.key # k)
    BY <1>1, <1>3 DEF ObjectsAt, RowsInv, TableInv, IdInv, TypeInv, TypeOK,
                      DBTypeOK, ObjectRow
  <1>7. \A s \in Stored : s[1] # nextId
    BY <1>6 DEF Stored, ActiveChunks, RowsInv, TableInv, RefInv
  <1>8. Catalog \subseteq objects
    BY DEF Catalog
  <1>9. Store!Begin(new)
    BY <1>2, <1>3, <1>4, <1>5, <1>6, <1>7, <1>8 DEF Store!Begin
  <1> QED
    BY <1>4, <1>9 DEF StoreStep, Store!Next

(* The INSERT of a chunk row stores the next position, if the object is    *)
(* still there.                                                            *)
LEMMA ExtendStatement ==
    ASSUME TypeInv, RowsInv, StoreInv, NEW c \in Clients, pc[c] = "up_record",
           InsertChunk(CurrentRow), UNCHANGED <<Writing, Deleting, acked, doomed>>
    PROVE  StoreStep
  <1>1. pc[c] \in LoopLabels \cap ChunkLabels
    BY DEF LoopLabels, ChunkLabels
  <1>2. holder = c /\ Written /\ frame.pos \in Nat /\ frame.pos < Len(frame.body)
    BY <1>1, InLoop DEF TypeInv, PosInv, At, Frame
  <1>3. Writing = frame.obj
    BY <1>1, <1>2, HolderActivity, ActivityLabels, PipelineAssumption DEF TypeInv
  <1>4. PICK o \in objects : o.id = frame.obj
    BY DEF InsertChunk, CanInsertChunk, CurrentRow
  <1>5. /\ o.data = frame.body
        /\ \A r \in ActiveRows(o.id) : r.index < frame.pos
        /\ \A i \in 0 .. frame.pos - 1 : \E r \in ActiveRows(o.id) : r.index = i
    BY <1>2, <1>4 DEF Written
  <1>6. o \in Catalog
    <2>1. o.data # <<>>
      BY <1>2, <1>5
    <2> QED
      BY <2>1 DEF Catalog, StoreInv, RecycleInv
  <1>7. frame.pos \in Store!Positions(o)
    BY <1>2, <1>5 DEF Store!Positions
  <1>8. \A q \in Store!Positions(o) : Store!Has(o, q) <=> q < frame.pos
    <2>1. \A q : Store!Has(o, q) <=> \E r \in ActiveRows(o.id) : r.index = q
      BY DEF Store!Has, Stored, ActiveChunks, ActiveRows, ChunksOf
    <2>2. \A q \in Store!Positions(o) : q < frame.pos => q \in 0 .. frame.pos - 1
      BY <1>2 DEF Store!Positions
    <2> QED
      BY <1>2, <1>5, <2>1, <2>2 DEF Store!Positions
  <1>9. Stored' = Stored \cup {<<o.id, frame.pos>>}
    <2>1. /\ CurrentRow.object = frame.obj /\ CurrentRow.index = frame.pos
          /\ CurrentRow.status = "active"
      BY DEF CurrentRow
    <2>2. ActiveChunks' = ActiveChunks \cup {CurrentRow}
      BY <2>1 DEF InsertChunk, ActiveChunks
    <2> QED
      BY <1>4, <2>1, <2>2 DEF Stored
  <1>10. UNCHANGED <<Live, Catalog>>
    BY DEF InsertChunk, Live, Catalog
  <1>11. Store!Extend
    BY <1>3, <1>4, <1>6, <1>7, <1>8, <1>9, <1>10 DEF Store!Extend, Store!activity
  <1> QED
    BY <1>11 DEF StoreStep, Store!Next

(* 200 OK acknowledges a whole object, or one that went with its bucket.   *)
LEMMA AcknowledgeStep ==
    ASSUME TypeInv, TypeInv', RowsInv, StoreInv, NEW c \in Clients, UploadDone(c)
    PROVE  StoreStep
  <1>1. pc[c] \in LoopLabels /\ frame.pos = Len(frame.body)
    BY DEF UploadDone, LoopLabels
  <1>2. holder = c /\ Written
    BY <1>1, InLoop
  <1>3. Writing = frame.obj /\ Deleting = NoId
    BY <1>1, <1>2, HolderActivity, ActivityLabels, PipelineAssumption DEF TypeInv
  <1>4. Writing' = NoId /\ Deleting' = NoId
    BY <1>2, NoActivityNext DEF UploadDone, Leave, TypeInv
  <1>5. ASSUME NEW o \in Catalog, o.id = Writing PROVE Store!Whole(o)
    <2>1. /\ o.data = frame.body
          /\ \A i \in 0 .. frame.pos - 1 : \E r \in ActiveRows(o.id) : r.index = i
      BY <1>2, <1>3, <1>5 DEF Written, Catalog
    <2>2. Store!Positions(o) = 0 .. frame.pos - 1
      BY <1>1, <2>1 DEF Store!Positions
    <2> QED
      BY <2>1, <2>2 DEF Store!Whole, Store!Has, Stored, ActiveChunks, ActiveRows, ChunksOf
  <1>6. /\ acked' = acked \cup {Writing} /\ UNCHANGED doomed
        /\ UNCHANGED <<Live, Catalog, Stored>>
    BY <1>3, HiddenStatements DEF UploadDone
  <1>7. Store!Acknowledge
    BY <1>2, <1>3, <1>4, <1>5, <1>6 DEF Written, Store!Acknowledge, Store!objectVars
  <1> QED
    BY <1>7 DEF StoreStep, Store!Next

(* What the statements of delete take from the object being deleted.       *)
LEMMA ShrinkStatements ==
    ASSUME TypeInv, NEW id, Deleting = id, id # NoId, UNCHANGED <<acked, doomed>>
    PROVE  /\ /\ DeleteChunkRows(ChunksOf(id))
              /\ UNCHANGED <<Writing, Deleting>>
              => StoreStep
           /\ \A row \in ChunkRow : \A bin :
                 /\ MoveChunk(row, bin, nextId) /\ row.object = id
                 /\ UNCHANGED <<Writing, Deleting>>
                 => StoreStep
           /\ DeleteObjectRow(id) /\ UNCHANGED Writing /\ Deleting' = NoId => StoreStep
  <1>1. ASSUME ActiveChunks' \subseteq ActiveChunks,
               \A r \in ActiveChunks \ ActiveChunks' : r.object = id,
               UNCHANGED <<buckets, objects, Writing, Deleting>>
        PROVE  StoreStep
    <2>1. Stored' \subseteq Stored /\ \A s \in Stored \ Stored' : s[1] = id
      BY <1>1 DEF Stored
    <2>2. UNCHANGED <<Live, Catalog>>
      BY <1>1 DEF Live, Catalog
    <2>3. Store!Shrink
      BY <1>1, <2>1, <2>2 DEF Store!Shrink, Store!activity
    <2> QED
      BY <2>3 DEF StoreStep, Store!Next
  <1>2. ASSUME DeleteChunkRows(ChunksOf(id)), UNCHANGED <<Writing, Deleting>>
        PROVE  StoreStep
    BY <1>1, <1>2 DEF DeleteChunkRows, ChunksOf, ActiveChunks
  <1>3. ASSUME NEW row \in ChunkRow, NEW bin, MoveChunk(row, bin, nextId),
               row.object = id, UNCHANGED <<Writing, Deleting>>
        PROVE  StoreStep
    <2> DEFINE moved == [row EXCEPT !.object = bin, !.index = nextId,
                                    !.status = "free"]
    <2>1. moved.status = "free"
      BY DEF ChunkRow
    <2>2. chunks' = (chunks \ {row}) \cup {moved} /\ UNCHANGED <<buckets, objects>>
      BY <1>3 DEF MoveChunk
    <2> HIDE DEF moved
    <2> QED
      BY <1>1, <1>3, <2>1, <2>2 DEF ActiveChunks
  <1>4. ASSUME DeleteObjectRow(id), UNCHANGED Writing, Deleting' = NoId
        PROVE  StoreStep
    <2>1. Catalog' = {o \in Catalog : o.id # id} /\ Live' = Live
      BY <1>4 DEF DeleteObjectRow, Catalog, Live
    <2>2. Stored' = {s \in Stored : s[1] # id}
      <3>1. ActiveChunks' = {r \in ActiveChunks : r.object # id}
        BY <1>4 DEF DeleteObjectRow, ActiveChunks, ChunksOf
      <3> QED
        BY <3>1 DEF Stored
    <2>3. Store!Remove
      BY <1>4, <2>1, <2>2 DEF Store!Remove
    <2> QED
      BY <2>3 DEF StoreStep, Store!Next
  <1> QED
    BY <1>2, <1>3, <1>4

-----------------------------------------------------------------------------
(* Steps.                                                                  *)

(* A handler that ends gives up what it was doing, if anything.            *)
LEMMA EndStep ==
    ASSUME TypeInv, TypeInv', RowsInv, StoreInv, NEW c \in Clients, Leave(c),
           UNCHANGED <<dbVars, history>>
    PROVE  StoreStep
  <1>1. UNCHANGED <<Live, Catalog, Stored, acked, doomed>>
    BY HiddenStatements DEF history
  <1>2. CASE holder = c
    BY <1>1, <1>2, NoActivityNext, StutterOrGiveUp DEF Leave, TypeInv
  <1>3. CASE holder # c
    <2>1. UNCHANGED frame /\ pc' = [pc EXCEPT ![c] = "idle"]
      BY <1>3 DEF Leave, Goto
    <2>2. pc[c] \notin PipelineLabels
      BY <1>3 DEF TypeInv, LockInv
    <2>3. UNCHANGED <<Writing, Deleting>>
      BY <2>1, <2>2, LabelFacts, OutsideActivity DEF TypeInv, TypeOK, ClientTypeOK
    <2> QED
      BY <1>1, <2>3, StutterOrGiveUp
  <1> QED
    BY <1>2, <1>3

(* delete returns: nothing is being deleted, nor written yet.              *)
LEMMA AfterDeleteActivity ==
    ASSUME TypeInv, TypeInv', RowsInv, NEW c \in Clients,
           pc[c] \in DeleteLabels, AfterDelete(c)
    PROVE  Writing' = NoId /\ Deleting' = NoId
  <1>1. holder = c
    BY InDelete
  <1>2. CASE Leave(c)
    BY <1>1, <1>2, NoActivityNext DEF Leave, TypeInv
  <1>3. CASE Goto(c, "up_insert") /\ holder' = holder
    <2>1. pc'[c] = "up_insert"
      BY <1>3 DEF Goto, TypeInv, TypeOK, ClientTypeOK
    <2> QED
      BY <1>1, <1>3, <2>1, HolderActivityNext, ActivityLabels, RowLabels,
         PipelineAssumption DEF TypeInv
  <1> QED
    BY <1>2, <1>3 DEF AfterDelete

(* New requests, and what handlers do outside the pipeline.                *)
LEMMA RequestStep ==
    ASSUME TypeInv, TypeInv', RowsInv, StoreInv, NEW c \in Clients
    PROVE  /\ NewRequest(c) => StoreStep
           /\ \A n \in BucketNames : CreateBucket(n) => StoreStep
           /\ \A n \in BucketNames, k \in Keys : CopyDestination(c, n, k) => StoreStep
           /\ RemoveBucket(c) => StoreStep
           /\ Lock(c) => StoreStep
  <1>a. pc \in [Clients -> Labels]
    BY DEF TypeInv, TypeOK, ClientTypeOK
  <1>b. {"idle", "wait", "copy_dest", "rm_bucket"} \cap PipelineLabels = {}
    BY LabelFacts
  <1>1. ASSUME NEW request, NEW label \in {"wait", "copy_dest", "rm_bucket"},
               Issue(c, request, label)
        PROVE  StoreStep
    <2>1. UNCHANGED <<Writing, Deleting>>
      BY <1>a, <1>b, <1>1, OutsideActivity DEF Issue, Goto
    <2> QED
      BY <1>1, <2>1, HiddenStatements, StutterOrGiveUp DEF Issue, history
  <1>2. ASSUME NewRequest(c) PROVE StoreStep
    BY <1>1, <1>2 DEF NewRequest, DeleteBucket, PutObject, GetObject,
                      DeleteObject, CopyObject
  <1>3. ASSUME NEW n \in BucketNames, CreateBucket(n) PROVE StoreStep
    <2>1. UNCHANGED <<Writing, Deleting>>
      BY <1>3, OutsideActivity DEF CreateBucket, clientVars
    <2> QED
      BY <1>3, <2>1, BucketStatements DEF CreateBucket, history, Names
  <1>4. ASSUME NEW n \in BucketNames, NEW k \in Keys, CopyDestination(c, n, k)
        PROVE  StoreStep
    <2>1. CASE Leave(c)
      BY <1>4, <2>1, EndStep DEF CopyDestination
    <2>2. CASE Goto(c, "wait") /\ UNCHANGED frame
      <3>1. UNCHANGED <<Writing, Deleting>>
        BY <1>a, <1>b, <1>4, <2>2, OutsideActivity DEF Goto, CopyDestination
      <3> QED
        BY <1>4, <3>1, HiddenStatements, StutterOrGiveUp DEF CopyDestination, history
    <2> QED
      BY <1>4, <2>1, <2>2 DEF CopyDestination
  <1>5. ASSUME RemoveBucket(c) PROVE StoreStep
    <2>1. holder # c
      BY <1>b, <1>5 DEF RemoveBucket, TypeInv, LockInv
    <2>2. UNCHANGED <<Writing, Deleting>>
      BY <1>a, <1>b, <1>5, <2>1, OutsideActivity DEF RemoveBucket, Leave, Goto
    <2> QED
      BY <1>5, <2>2, BucketStatements DEF RemoveBucket, history
  <1>6. ASSUME Lock(c) PROVE StoreStep
    <2>1. holder = NoClient /\ pc[c] \notin PipelineLabels
      BY <1>b, <1>6 DEF Lock
    <2>2. holder' = c /\ pc'[c] \in {"dl_rows", "find"}
      BY <1>a, <1>6 DEF Lock, Goto
    <2>3. {"dl_rows", "find"} \cap (WritingLabels \cup DeletingLabels) = {}
      BY ActivityLabels, RowLabels DEF DownloadLabels
    <2>4. Writing' = NoId /\ Deleting' = NoId
      BY <2>2, <2>3, HolderActivityNext, PipelineAssumption DEF TypeInv
    <2> QED
      BY <1>6, <2>4, HiddenStatements, StutterOrGiveUp DEF Lock, history
  <1> QED
    BY <1>2, <1>3, <1>4, <1>5, <1>6

(* A step of delete that goes on deleting its victim.                      *)
LEMMA StaysDeleting ==
    ASSUME TypeInv, TypeInv', RowsInv, StoreInv, NEW c \in Clients,
           pc[c] \in VictimLabels, holder' = holder,
           NEW label \in VictimLabels, Goto(c, label),
           frame'.victim = frame.victim
    PROVE  UNCHANGED <<Writing, Deleting>>
  <1>1. pc[c] \in DeleteLabels /\ pc'[c] = label
    BY DEF VictimLabels, Goto, TypeInv, TypeOK, ClientTypeOK
  <1>2. holder = c
    BY <1>1, InDelete
  <1> QED
    BY <1>1, <1>2, HolderActivity, HolderActivityNext, ActivityLabels,
       PipelineAssumption DEF TypeInv

(* The steps of delete.                                                    *)
LEMMA DeleteStoreStep ==
    ASSUME TypeInv, TypeInv', RowsInv, StoreInv, NEW c \in Clients, DeleteStep(c)
    PROVE  StoreStep
  <1>a. frame \in Frame /\ pc \in [Clients -> Labels]
    BY DEF TypeInv, TypeOK, ClientTypeOK
  <1>b. UNCHANGED dbVars => UNCHANGED <<Live, Catalog, Stored>>
    BY HiddenStatements
  <1>c. pc[c] \in VictimLabels =>
           /\ Writing = NoId /\ Deleting = frame.victim /\ frame.victim # NoId
           /\ \A r \in frame.row : pc[c] \in BinLabels => r.object = frame.victim
    <2> SUFFICES ASSUME pc[c] \in VictimLabels
                 PROVE  /\ Writing = NoId /\ Deleting = frame.victim
                        /\ frame.victim # NoId
                        /\ \A r \in frame.row :
                              pc[c] \in BinLabels => r.object = frame.victim
      OBVIOUS
    <2>1. pc[c] \in DeleteLabels /\ pc[c] # "find"
      BY DEF VictimLabels
    <2>2. /\ holder = c /\ frame.victim \in doomed
          /\ \A r \in frame.row : pc[c] \in BinLabels => r.object = frame.victim
      BY <2>1, InDelete
    <2>3. Writing = NoId /\ Deleting = frame.victim
      BY <2>2, HolderActivity, ActivityLabels, PipelineAssumption DEF TypeInv
    <2> QED
      BY <2>2, <2>3 DEF StoreInv, DoomedInv
  <1>1. CASE FindVictim(c)
    <2>1. pc[c] = "find" /\ pc[c] \in DeleteLabels /\ UNCHANGED <<dbVars, acked>>
      BY <1>1 DEF FindVictim, DeleteLabels
    <2>2. CASE AfterDelete(c) /\ UNCHANGED doomed
      BY <1>b, <2>1, <2>2, AfterDeleteActivity, StutterOrGiveUp
    <2>3. ASSUME NEW o \in ObjectsAt(req[c].bucket, req[c].key),
                 Goto(c, "del_rows"), UNCHANGED holder,
                 frame' = [frame EXCEPT !.victim = o.id],
                 doomed' = doomed \cup {o.id}
          PROVE  StoreStep
      <3>1. holder = c
        BY <2>1, InDelete
      <3>2. Writing = NoId /\ Deleting = NoId
        BY <2>1, <3>1, HolderActivity, ActivityLabels, RowLabels,
           PipelineAssumption DEF TypeInv
      <3>3. pc'[c] = "del_rows" /\ frame'.victim = o.id
        BY <1>a, <2>3 DEF Goto, Frame
      <3>4. "del_rows" \in DeletingLabels
        BY DEF DeletingLabels, DeleteLabels
      <3>5. Writing' = NoId /\ Deleting' = o.id
        BY <2>3, <3>1, <3>3, <3>4, HolderActivityNext, ActivityLabels,
           PipelineAssumption DEF TypeInv
      <3>6. o \in Catalog
        BY <2>1, <2>3, RecycleKeyAssumption, LabelFacts
           DEF ObjectsAt, Catalog, StoreInv, KeyInv, PipelineLabels
      <3>7. Store!BeginDelete
        BY <1>b, <2>1, <2>3, <3>2, <3>5, <3>6 DEF Store!BeginDelete, Store!objectVars
      <3> QED
        BY <3>7 DEF StoreStep, Store!Next
    <2> QED
      BY <1>1, <2>2, <2>3 DEF FindVictim
  <1>2. ASSUME DeleteListRows(c) \/ DeleteNextRow(c) \/ BinFindBucket(c)
                  \/ BinFindObject(c)
        PROVE  StoreStep
    <2>1. /\ pc[c] \in VictimLabels /\ holder' = holder
          /\ frame'.victim = frame.victim
          /\ UNCHANGED <<dbVars, acked, doomed>>
      BY <1>a, <1>2 DEF DeleteListRows, DeleteNextRow, BinFindBucket, BinFindObject,
                  VictimLabels, DeleteLabels, Frame, history
    <2>2. \E label \in VictimLabels : Goto(c, label)
      <3>1. CASE DeleteNextRow(c) /\ UNCHANGED pc
        <4>1. Goto(c, "del_next")
          BY <1>a, <3>1 DEF DeleteNextRow, Goto
        <4> QED
          BY <4>1, RowLabels
      <3>2. {"del_next", "bin_bucket", "bin_object", "bin_mkbucket", "bin_move",
             "bin_mkobject"} \subseteq VictimLabels
        BY DEF VictimLabels, DeleteLabels
      <3>3. CASE BinFindBucket(c)
        <4>1. Goto(c, "bin_object") \/ Goto(c, "bin_mkbucket")
          BY <3>3 DEF BinFindBucket
        <4> QED
          BY <3>2, <4>1
      <3> QED
        BY <1>2, <3>1, <3>2, <3>3 DEF DeleteListRows, DeleteNextRow, BinFindObject
    <2>3. UNCHANGED <<Writing, Deleting>>
      BY <2>1, <2>2, StaysDeleting
    <2> QED
      BY <1>b, <2>1, <2>3, StutterOrGiveUp
  <1>3. CASE BinMakeBucket(c)
    <2>1. pc[c] \in VictimLabels \cap DeleteLabels /\ "bin_object" \in VictimLabels
      BY <1>3 DEF BinMakeBucket, VictimLabels, DeleteLabels
    <2>2. CASE InsertBucket(RecycleBin) /\ Goto(c, "bin_object") /\ UNCHANGED holder
               /\ frame' = [frame EXCEPT !.bin = nextId]
      <3>1. UNCHANGED <<Writing, Deleting>>
        BY <1>a, <2>1, <2>2, StaysDeleting DEF Frame
      <3> QED
        BY <1>3, <2>2, <3>1, BucketStatements DEF BinMakeBucket, history, Names
    <2>3. CASE AfterDelete(c) /\ UNCHANGED dbVars
      BY <1>b, <1>3, <2>1, <2>3, AfterDeleteActivity, StutterOrGiveUp
         DEF BinMakeBucket, history
    <2> QED
      BY <1>3, <2>2, <2>3 DEF BinMakeBucket
  <1>4. CASE BinMakeObject(c)
    <2>1. pc[c] \in VictimLabels \cap DeleteLabels /\ "bin_move" \in VictimLabels
      BY <1>4 DEF BinMakeObject, VictimLabels, DeleteLabels
    <2>2. CASE /\ InsertObject(frame.bin, RecycleKey, <<>>)
               /\ Goto(c, "bin_move") /\ UNCHANGED holder
               /\ frame' = [frame EXCEPT !.bin = nextId]
      <3>1. UNCHANGED <<Writing, Deleting>>
        BY <1>a, <2>1, <2>2, StaysDeleting DEF Frame
      <3> QED
        BY <1>4, <2>2, <3>1, HiddenStatements, StutterOrGiveUp
           DEF BinMakeObject, history
    <2>3. CASE AfterDelete(c) /\ UNCHANGED dbVars
      BY <1>b, <1>4, <2>1, <2>3, AfterDeleteActivity, StutterOrGiveUp
         DEF BinMakeObject, history
    <2> QED
      BY <1>4, <2>2, <2>3 DEF BinMakeObject
  <1>5. CASE BinMoveRow(c)
    <2>1. pc[c] \in VictimLabels \cap DeleteLabels \cap BinLabels
      BY <1>5 DEF BinMoveRow, VictimLabels, DeleteLabels, BinLabels
    <2>2. PICK r \in frame.row :
            \/ /\ MoveChunk(r, frame.bin, nextId)
               /\ Goto(c, "del_next")
               /\ frame' = [frame EXCEPT !.row = {}, !.bin = NoId]
               /\ UNCHANGED holder
            \/ AfterDelete(c) /\ UNCHANGED dbVars
      BY <1>5 DEF BinMoveRow
    <2>3. CASE MoveChunk(r, frame.bin, nextId) /\ Goto(c, "del_next")
               /\ frame' = [frame EXCEPT !.row = {}, !.bin = NoId]
               /\ UNCHANGED holder
      <3>1. UNCHANGED <<Writing, Deleting>>
        BY <1>a, <2>1, <2>3, RowLabels, StaysDeleting DEF Frame
      <3>2. r \in ChunkRow
        BY <1>a DEF Frame
      <3> QED
        BY <1>5, <1>c, <2>1, <2>3, <3>1, <3>2, ShrinkStatements DEF BinMoveRow, history
    <2>4. CASE AfterDelete(c) /\ UNCHANGED dbVars
      BY <1>b, <1>5, <2>1, <2>4, AfterDeleteActivity, StutterOrGiveUp
         DEF BinMoveRow, history
    <2> QED
      BY <2>2, <2>3, <2>4
  <1>6. CASE DeleteRows(c)
    <2>1. pc[c] \in VictimLabels /\ "del_object" \in VictimLabels
      BY <1>6 DEF DeleteRows, VictimLabels, DeleteLabels
    <2>2. UNCHANGED <<Writing, Deleting>>
      BY <1>6, <2>1, StaysDeleting DEF DeleteRows
    <2> QED
      BY <1>6, <1>c, <2>1, <2>2, ShrinkStatements DEF DeleteRows, history
  <1>7. CASE DeleteVictim(c)
    <2>1. pc[c] \in VictimLabels \cap DeleteLabels
      BY <1>7 DEF DeleteVictim, VictimLabels, DeleteLabels
    <2>2. Writing' = NoId /\ Deleting' = NoId
      BY <1>7, <2>1, AfterDeleteActivity DEF DeleteVictim
    <2> QED
      BY <1>7, <1>c, <2>1, <2>2, ShrinkStatements DEF DeleteVictim, history
  <1> QED
    BY <1>1, <1>2, <1>3, <1>4, <1>5, <1>6, <1>7 DEF DeleteStep

(* upload inserts its object, or ends.                                     *)
LEMMA InsertStoreStep ==
    ASSUME TypeInv, TypeInv', RowsInv, StoreInv, NEW c \in Clients,
           UploadInsertObject(c)
    PROVE  StoreStep
  <1>a. frame \in Frame /\ pc \in [Clients -> Labels]
    BY DEF TypeInv, TypeOK, ClientTypeOK
  <1>1. pc[c] \in PipelineLabels /\ pc[c] \notin LoopLabels \cup VictimLabels
    BY RowLabels DEF UploadInsertObject, PipelineLabels, UploadLabels
  <1>2. holder = c
    BY <1>1, HolderFact DEF TypeInv
  <1>3. Writing = NoId /\ Deleting = NoId
    BY <1>1, <1>2, HolderActivity, ActivityLabels, PipelineAssumption DEF TypeInv
  <1>4. CASE Leave(c) /\ UNCHANGED dbVars
    BY <1>4, EndStep DEF UploadInsertObject
  <1>5. CASE /\ InsertObject(req[c].bucket, req[c].key, frame.body)
             /\ Goto(c, "up_next")
             /\ frame' = [frame EXCEPT !.obj = nextId]
             /\ UNCHANGED holder
    <2>1. pc'[c] = "up_next" /\ frame'.obj = nextId
      BY <1>a, <1>5 DEF Goto, Frame
    <2>2. "up_next" \in LoopLabels /\ LoopLabels \cap VictimLabels = {}
      BY RowLabels DEF LoopLabels
    <2>3. Writing' = nextId /\ Deleting' = NoId
      BY <1>2, <1>5, <2>1, <2>2, HolderActivityNext, ActivityLabels,
         PipelineAssumption DEF TypeInv
    <2>4. req[c].key \in Keys
      BY <1>1 DEF StoreInv, KeyInv
    <2> QED
      BY <1>3, <1>5, <2>3, <2>4, BeginStatement DEF UploadInsertObject, history
  <1> QED
    BY <1>4, <1>5 DEF UploadInsertObject

(* A step within the loop, at the same object, keeps the activity.         *)
LEMMA StaysWriting ==
    ASSUME TypeInv, TypeInv', RowsInv, NEW c \in Clients, pc[c] \in LoopLabels,
           pc'[c] \in LoopLabels, holder' = holder, frame'.obj = frame.obj
    PROVE  UNCHANGED <<Writing, Deleting>>
  <1>1. holder = c
    BY InLoop
  <1> QED
    BY <1>1, HolderActivity, HolderActivityNext, ActivityLabels,
       PipelineAssumption DEF TypeInv

(* upload records a chunk, or ends.                                        *)
LEMMA RecordStoreStep ==
    ASSUME TypeInv, TypeInv', RowsInv, StoreInv, NEW c \in Clients, UploadRecord(c)
    PROVE  StoreStep
  <1>a. frame \in Frame /\ pc \in [Clients -> Labels]
    BY DEF TypeInv, TypeOK, ClientTypeOK
  <1>1. pc[c] \in LoopLabels /\ "up_next" \in LoopLabels
    BY DEF UploadRecord, LoopLabels, ChunkLabels
  <1>2. CASE Leave(c) /\ UNCHANGED dbVars
    BY <1>2, EndStep DEF UploadRecord
  <1>3. CASE /\ InsertChunk(CurrentRow)
             /\ Goto(c, "up_next")
             /\ frame' = [frame EXCEPT !.pos = @ + 1, !.uid = 0, !.row = {}]
             /\ UNCHANGED holder
    <2>1. pc'[c] = "up_next" /\ frame'.obj = frame.obj
      BY <1>a, <1>3 DEF Goto, Frame
    <2>2. UNCHANGED <<Writing, Deleting>>
      BY <1>1, <1>3, <2>1, StaysWriting
    <2> QED
      BY <1>3, <2>2, ExtendStatement DEF UploadRecord, history
  <1> QED
    BY <1>2, <1>3 DEF UploadRecord

(* The other steps of the loop do not show: they talk to the mailbox, and  *)
(* drop the row of a free slot.                                            *)
LEMMA LoopStoreStep ==
    ASSUME TypeInv, TypeInv', RowsInv, StoreInv, NEW c \in Clients, LoopStep(c),
           ~UploadRecord(c), ~FailAfterAppend(c)
    PROVE  StoreStep
  <1>1. pc[c] \in LoopLabels /\ UNCHANGED history
    BY DEF LoopStep, UploadDedup, UploadFindFree, UploadCreateDraft,
           UploadDeleteDraft, UploadDropFreeRow, FailIgnored, LoopLabels, ChunkLabels
  <1>2. /\ frame \in Frame /\ pc \in [Clients -> Labels]
        /\ pc[c] \in SlotLabels => \A r \in frame.row : r.status = "free"
    BY <1>1, InLoop
  <1>3. UNCHANGED <<Live, Catalog, Stored>>
    <2>1. CASE UploadDropFreeRow(c)
      <3>1. \A r \in frame.row : r.status = "free"
        BY <1>2, <2>1 DEF UploadDropFreeRow, SlotLabels
      <3> QED
        BY <2>1, <3>1, HiddenStatements DEF UploadDropFreeRow
    <2>2. CASE UNCHANGED dbVars
      BY <2>2, HiddenStatements
    <2> QED
      BY <2>1, <2>2 DEF LoopStep, UploadDedup, UploadFindFree, UploadCreateDraft,
                        UploadDeleteDraft, FailIgnored
  <1>4. holder' = holder /\ frame'.obj = frame.obj /\ pc'[c] \in LoopLabels
    BY <1>2
       DEF LoopStep, UploadDedup, UploadFindFree, UploadCreateDraft,
           UploadDeleteDraft, UploadDropFreeRow, FailIgnored, Goto, Frame,
           LoopLabels, ChunkLabels
  <1>5. UNCHANGED <<Writing, Deleting>>
    BY <1>1, <1>4, StaysWriting
  <1> QED
    BY <1>1, <1>3, <1>5, StutterOrGiveUp DEF history

(* download does not show, unless it ends.                                 *)
LEMMA DownloadStoreStep ==
    ASSUME TypeInv, TypeInv', RowsInv, StoreInv, NEW c \in Clients, DownloadStep(c)
    PROVE  StoreStep
  <1>1. pc[c] \in DownloadLabels /\ UNCHANGED <<dbVars, history>>
    BY DEF DownloadStep, DownloadListRows, DownloadFetch, DownloadDone,
           DownloadLabels
  <1>2. \/ Leave(c)
        \/ pc'[c] \in {"dl_fetch", "find"} /\ holder' = holder
    BY DEF DownloadStep, DownloadListRows, DownloadFetch, DownloadDone, Goto,
           TypeInv, TypeOK, ClientTypeOK
  <1>3. CASE pc'[c] \in {"dl_fetch", "find"} /\ holder' = holder
    <2>1. holder = c
      BY <1>1, HolderFact DEF TypeInv, PipelineLabels
    <2>2. pc'[c] \notin LoopLabels \cup VictimLabels
      BY <1>3, RowLabels DEF DownloadLabels
    <2>3. Writing' = NoId /\ Deleting' = NoId
      BY <1>3, <2>1, <2>2, HolderActivityNext, ActivityLabels,
         PipelineAssumption DEF TypeInv
    <2> QED
      BY <1>1, <2>3, HiddenStatements, StutterOrGiveUp DEF history
  <1> QED
    BY <1>1, <1>2, <1>3, EndStep

(* Failures give the activity up.                                          *)
LEMMA EndingFaultStoreStep ==
    ASSUME TypeInv, TypeInv', RowsInv, StoreInv
    PROVE  /\ \A c \in Clients : FailDelete(c) => StoreStep
           /\ \A c \in Clients : FailAfterAppend(c) \/ Abandon(c) => StoreStep
           /\ Restart => StoreStep
  <1>1. UNCHANGED dbVars => UNCHANGED <<Live, Catalog, Stored>>
    BY HiddenStatements
  <1>2. ASSUME NEW c \in Clients, FailDelete(c) PROVE StoreStep
    <2>1. Writing' = NoId /\ Deleting' = NoId
      BY <1>2, AfterDeleteActivity DEF FailDelete
    <2> QED
      BY <1>1, <1>2, <2>1, StutterOrGiveUp DEF FailDelete, history
  <1>3. ASSUME NEW c \in Clients, FailAfterAppend(c) \/ Abandon(c) PROVE StoreStep
    BY <1>3, EndStep DEF FailAfterAppend, Abandon
  <1>4. ASSUME Restart PROVE StoreStep
    <2>1. Writing' = NoId /\ Deleting' = NoId
      BY <1>4, NoActivityNext DEF Restart, TypeInv
    <2> QED
      BY <1>1, <1>4, <2>1, StutterOrGiveUp DEF Restart, history
  <1> QED
    BY <1>2, <1>3, <1>4

(* Every step of the pipeline is a step of the store, or none.             *)
LEMMA NextStoreStep ==
    ASSUME TypeInv, TypeInv', RowsInv, StoreInv, [Next]_vars
    PROVE  StoreStep
  <1>1. CASE UNCHANGED vars
    <2>1. UNCHANGED <<Writing, Deleting>>
      BY <1>1, OutsideActivity DEF vars, clientVars
    <2> QED
      BY <1>1, <2>1, HiddenStatements, StutterOrGiveUp DEF vars, history
  <1>2. CASE \E n \in BucketNames : CreateBucket(n)
    <2>1. PICK n \in BucketNames : CreateBucket(n)
      BY <1>2
    <2>2. UNCHANGED <<Writing, Deleting>>
      BY <2>1, OutsideActivity DEF CreateBucket, clientVars
    <2> QED
      BY <2>1, <2>2, BucketStatements DEF CreateBucket, history, Names
  <1>3. ASSUME NEW c \in Clients, NewRequest(c) \/ HandlerStep(c) \/ FaultStep(c)
        PROVE  StoreStep
    <2>1. CASE UploadStep(c) \/ FailIgnored(c)
      BY <2>1, InsertStoreStep, RecordStoreStep, AcknowledgeStep, LoopStoreStep,
         EndingFaultStoreStep
         DEF UploadStep, LoopStep
    <2> QED
      BY <1>3, <2>1, RequestStep, DeleteStoreStep, DownloadStoreStep,
         EndingFaultStoreStep
         DEF HandlerStep, FaultStep
  <1> QED
    BY <1>1, <1>2, <1>3, EndingFaultStoreStep DEF Next

(* Nothing is in the empty tables, and nobody is at work.                  *)
LEMMA InitialStore ==
    ASSUME Init
    PROVE  Store!Init
  <1>1. \A labels : labels \subseteq PipelineLabels => ~At(labels)
    BY LabelFacts DEF Init, At
  <1>2. Writing = NoId /\ Deleting = NoId
    BY <1>1, ActivityLabels DEF Writing, Deleting
  <1>3. Live = {} /\ Catalog = {} /\ Stored = {}
    BY DEF Init, DBInit, Live, Catalog, Stored, ActiveChunks
  <1> QED
    BY <1>2, <1>3 DEF Init, Store!Init

-----------------------------------------------------------------------------
(* Seen as a catalog of objects and their stored parts, the pipeline and   *)
(* the bucket handlers do nothing but what ObjectStore allows: every step  *)
(* of pipeline.rs, object.rs and bucket.rs, failures and restarts included, *)
(* is one of its steps or does not show.                                   *)
THEOREM PipelineImplementsStore == Spec => ImplementsStore
  <1>1. Init => Store!Init
    BY InitialStore
  <1>2. TypeInv /\ TypeInv' /\ RowsInv /\ StoreInv /\ [Next]_vars
           => [Store!Next]_(Store!vars)
    BY NextStoreStep DEF StoreStep
  <1> QED
    BY <1>1, <1>2, TypeInvHolds, RowsInvHolds, StoreInvHolds, PTL
       DEF Spec, ImplementsStore, Store!Spec
=============================================================================
