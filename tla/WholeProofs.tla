----------------------------- MODULE WholeProofs -----------------------------
(***************************************************************************)
(* Proofs about whole objects: what download returns, and that no object   *)
(* stays half written or half deleted when no call failed.                 *)
(*                                                                         *)
(* Both are about a bucket that clients leave to the pipeline: the         *)
(* theorems assume that no client names the bucket "recycling-bin".  The   *)
(* code does not stop a client from deleting that bucket between two       *)
(* statements of delete(), which then gives up halfway.                    *)
(***************************************************************************)
EXTENDS RowProofs, SequenceTheorems

USE DEF NoId

(* Buckets have fresh ids, and the clients' are not the recycling bin.     *)
BucketInv ==
    /\ \A n \in Names : buckets[n] < nextId
    /\ \A n \in BucketNames : buckets[n] # NoId => buckets[n] # buckets[RecycleBin]

(* Objects of the bin have no bytes, and free rows are theirs.             *)
BinInv ==
    /\ \A o \in objects :
          /\ o.bucket # NoId /\ o.bucket < nextId
          /\ o.bucket = buckets[RecycleBin] => o.data = <<>>
    /\ \A r \in chunks : r.status = "free" =>
          /\ r.index < nextId
          /\ \E o \in objects : o.id = r.object /\ o.bucket = buckets[RecycleBin]

(* The unique index on (object_id, chunk_index).                           *)
IndexInv ==
    \A r, s \in chunks : r.object = s.object /\ r.index = s.index => r = s

PoolInv == BucketInv /\ BinInv /\ IndexInv

(* A request keeps what its look-ups found: a bucket other than the bin,   *)
(* and the bytes of an object outside the bin, for as long as the row is   *)
(* there.                                                                  *)
Sane(q) ==
    /\ q.bucket # NoId => q.bucket < nextId /\ q.bucket # buckets[RecycleBin]
    /\ q.op \in {"get", "copy"} =>
          /\ q.source < nextId
          /\ \A o \in objects : o.id = q.source =>
                o.data = q.header /\ o.bucket # buckets[RecycleBin]

RequestInv == \A x \in Clients : Sane(req[x])

(* get_or_create_recycling_object: each answer still holds when the next   *)
(* statement runs.                                                         *)
BinStage(x) ==
    /\ pc[x] = "bin_mkbucket" => buckets[RecycleBin] = NoId
    /\ pc[x] \in {"bin_object", "bin_mkobject"} =>
          frame.bin = buckets[RecycleBin] /\ frame.bin # NoId
    /\ pc[x] = "bin_mkobject" => ObjectsAt(frame.bin, RecycleKey) = {}
    /\ pc[x] = "bin_move" =>
          \E o \in objects : o.id = frame.bin /\ o.bucket = buckets[RecycleBin]

(* delete: the rows listed are there until they are moved, unless the      *)
(* victim went with its bucket.                                            *)
Listed(rows) ==
    (\E o \in objects : o.id = frame.victim) => rows \subseteq chunks

VictimStage(x) ==
    /\ pc[x] \in VictimLabels => frame.victim < nextId
    /\ pc[x] \in {"del_next"} \cup BinLabels => Listed(frame.todo)
    /\ pc[x] \in BinLabels => Listed(frame.row) /\ frame.row \cap frame.todo = {}

(* upload never writes to the bin.                                         *)
LoopStage(x) ==
    pc[x] \in LoopLabels =>
        \A o \in objects : o.id = frame.obj => o.bucket # buckets[RecycleBin]

(* download: the bytes in hand are chunks of the header, in order and all  *)
(* before the rows to come; those agree with the header, and so do their   *)
(* drafts.                                                                 *)
Placed(place, header) ==
    /\ place \in [DOMAIN frame.body -> DOMAIN header]
    /\ \A i, j \in DOMAIN frame.body : i < j => place[i] < place[j]
    /\ \A i \in DOMAIN frame.body : frame.body[i] = header[place[i]]
    /\ \A i \in DOMAIN frame.body : \A r \in frame.todo : place[i] <= r.index

Ahead(header) ==
    /\ \A r \in frame.todo :
          /\ r.index < Len(header) /\ r.hash = header[r.index + 1]
          /\ \A d \in DraftsWithUid(r.uid) : d.data = r.hash
    /\ \A r, s \in frame.todo : r.index = s.index => r = s

Complete(header) ==
    /\ Len(frame.body) <= Len(header)
    /\ \A i \in DOMAIN frame.body : frame.body[i] = header[i]
    /\ \A i \in Len(frame.body) .. Len(header) - 1 :
          \E r \in frame.todo : r.index = i
    /\ \A r \in frame.todo : Len(frame.body) <= r.index

Fetching(q) ==
    /\ \E place : Placed(place, q.header)
    /\ Ahead(q.header)
    /\ q.source \in acked \ doomed => Complete(q.header)

FetchStage(x) ==
    /\ pc[x] \in DownloadLabels => req[x].op \in {"get", "copy"}
    /\ pc[x] = "dl_rows" => frame.body = <<>>
    /\ pc[x] = "dl_fetch" => Fetching(req[x])

Stage(x) == BinStage(x) /\ VictimStage(x) /\ LoopStage(x) /\ FetchStage(x)

StageInv == \A x \in Clients : Stage(x)

(* The object that the holder of the mutex is uploading or deleting.       *)
InProgress(id) ==
    \/ At(LoopLabels) /\ id = frame.obj
    \/ At(VictimLabels) /\ id = frame.victim

WholeInv == faults = 0 => \A o \in objects : IsWhole(o) \/ InProgress(o.id)

-----------------------------------------------------------------------------
(* Tables.  What the statements of the pipeline do to rows, the bin, and   *)
(* what a request knows of them.                                           *)

(* Rows and buckets go, but not the bin, nor rows of objects that stay.    *)
TakesAway ==
    /\ nextId' = nextId
    /\ \A n \in Names : buckets'[n] = buckets[n] \/ buckets'[n] = NoId
    /\ buckets'[RecycleBin] = buckets[RecycleBin]
    /\ objects' \subseteq objects /\ chunks' \subseteq chunks
    /\ RefInv'

AddsBucket(n) == n \in Names /\ InsertBucket(n)

AddsObject(b, k, d) ==
    /\ b \in Nat /\ (b = buckets[RecycleBin] => d = <<>>)
    /\ InsertObject(b, k, d)

AddsRow(row) == row \in ChunkRow /\ row.status = "active" /\ InsertChunk(row)

Recycles(row) ==
    /\ row \in ChunkRow
    /\ \E o \in objects : o.id = frame.bin /\ o.bucket = buckets[RecycleBin]
    /\ MoveChunk(row, frame.bin, nextId)
    /\ nextId' = nextId + 1

TableStep ==
    \/ TakesAway
    \/ \E n : AddsBucket(n)
    \/ \E b, k, d : AddsObject(b, k, d)
    \/ \E row : AddsRow(row)
    \/ \E row : Recycles(row)

(* The statements that take away.                                          *)
LEMMA TakingAway ==
    ASSUME DBTypeOK, RefInv
    PROVE  /\ UNCHANGED dbVars => TakesAway
           /\ \A rows : DeleteChunkRows(rows) => TakesAway
           /\ \A id : DeleteObjectRow(id) => TakesAway
           /\ \A b : (b # NoId => b # buckets[RecycleBin]) /\ DeleteBucketRow(b)
                        => TakesAway
  <1>1. UNCHANGED dbVars => TakesAway
    BY DEF dbVars, TakesAway, RefInv
  <1>2. ASSUME NEW rows, DeleteChunkRows(rows) PROVE TakesAway
    BY <1>2 DEF DeleteChunkRows, TakesAway, RefInv
  <1>3. ASSUME NEW id, DeleteObjectRow(id) PROVE TakesAway
    <2>1. RefInv'
      BY <1>3 DEF DeleteObjectRow, ChunksOf, RefInv
    <2> QED
      BY <1>3, <2>1 DEF DeleteObjectRow, TakesAway
  <1>4. ASSUME NEW b, b # NoId => b # buckets[RecycleBin], DeleteBucketRow(b)
        PROVE  TakesAway
    <2>1. RefInv'
      BY <1>4 DEF DeleteBucketRow, RefInv
    <2>2. RecycleBin \in Names
      BY DEF Names
    <2> QED
      BY <1>4, <2>1, <2>2 DEF DeleteBucketRow, TakesAway
  <1> QED
    BY <1>1, <1>2, <1>3, <1>4

LEMMA TakingAwayKeepsPool ==
    ASSUME DBTypeOK, TableInv, PoolInv, TakesAway
    PROVE  PoolInv'
  <1>1. BucketInv'
    <2>1. \A n \in Names : buckets'[n] < nextId
      BY DEF PoolInv, BucketInv, TakesAway, DBTypeOK
    <2>2. BucketNames \subseteq Names
      BY DEF Names
    <2> QED
      BY <2>1, <2>2 DEF PoolInv, BucketInv, TakesAway
  <1>2. IndexInv'
    BY DEF PoolInv, IndexInv, TakesAway
  <1>3. BinInv'
    <2>1. ASSUME NEW r \in chunks', r.status = "free"
          PROVE  \E o \in objects' : o.id = r.object /\ o.bucket = buckets[RecycleBin]
      <3>1. PICK p \in objects' : p.id = r.object
        BY DEF TakesAway, RefInv
      <3>2. PICK o \in objects : o.id = r.object /\ o.bucket = buckets[RecycleBin]
        BY <2>1 DEF PoolInv, BinInv, TakesAway
      <3> QED
        BY <3>1, <3>2 DEF TableInv, IdInv, TakesAway
    <2> QED
      BY <2>1 DEF PoolInv, BinInv, TakesAway
  <1> QED
    BY <1>1, <1>2, <1>3 DEF PoolInv

LEMMA AddingBucketKeepsPool ==
    ASSUME DBTypeOK, TableInv, PoolInv, NEW n, AddsBucket(n),
           RecycleBin \notin BucketNames
    PROVE  PoolInv'
  <1>1. /\ n \in Names /\ buckets[n] = NoId /\ RecycleBin \in Names
        /\ buckets' = [buckets EXCEPT ![n] = nextId]
        /\ nextId' = nextId + 1 /\ objects' = objects /\ chunks' = chunks
        /\ nextId \in Nat \ {0}
    BY DEF AddsBucket, InsertBucket, CanInsertBucket, DBTypeOK, Names
  <1>2. /\ \A m \in Names : buckets[m] \in Nat /\ buckets[m] < nextId
        /\ \A m \in Names : buckets'[m] = IF m = n THEN nextId ELSE buckets[m]
    BY <1>1 DEF DBTypeOK, PoolInv, BucketInv
  <1>3. BucketInv'
    <2>1. \A m \in Names : buckets'[m] < nextId'
      BY <1>1, <1>2
    <2>2. ASSUME NEW m \in BucketNames, buckets'[m] # NoId
          PROVE  buckets'[m] # buckets'[RecycleBin]
      <3>1. m \in Names /\ m # RecycleBin
        BY DEF Names
      <3> QED
        BY <1>1, <1>2, <2>2, <3>1 DEF PoolInv, BucketInv
    <2> QED
      BY <2>1, <2>2 DEF BucketInv
  <1>4. IndexInv'
    BY <1>1 DEF PoolInv, IndexInv
  <1>5. BinInv'
    <2>1. ASSUME NEW o \in objects
          PROVE  /\ o.bucket # NoId /\ o.bucket < nextId /\ o.bucket \in Nat
                 /\ o.bucket = buckets[RecycleBin] => o.bucket = buckets'[RecycleBin]
                 /\ o.bucket = buckets'[RecycleBin] => o.bucket = buckets[RecycleBin]
      <3>1. o.bucket # NoId /\ o.bucket < nextId /\ o.bucket \in Nat
        BY DEF PoolInv, BinInv, DBTypeOK, ObjectRow
      <3> QED
        BY <1>1, <1>2, <3>1
    <2>2. \A r \in chunks : r.index \in Nat
      BY DEF DBTypeOK, ChunkRow
    <2> QED
      BY <1>1, <2>1, <2>2 DEF PoolInv, BinInv
  <1> QED
    BY <1>3, <1>4, <1>5 DEF PoolInv

LEMMA AddingObjectKeepsPool ==
    ASSUME DBTypeOK, TableInv, PoolInv, NEW b, NEW k, NEW d, AddsObject(b, k, d)
    PROVE  PoolInv'
  <1> DEFINE new == [id |-> nextId, bucket |-> b, key |-> k, data |-> d]
  <1>1. /\ objects' = objects \cup {new} /\ chunks' = chunks
        /\ nextId' = nextId + 1 /\ buckets' = buckets
        /\ nextId \in Nat /\ b # NoId /\ b \in Nat
        /\ b = buckets[RecycleBin] => d = <<>>
        /\ \E n \in Names : buckets[n] = b
    BY DEF AddsObject, InsertObject, CanInsertObject, BucketExists, DBTypeOK
  <1>2. new.bucket = b /\ new.data = d
    OBVIOUS
  <1> HIDE DEF new
  <1>3. \A n \in Names : buckets[n] \in Nat /\ buckets[n] < nextId
    BY DEF DBTypeOK, PoolInv, BucketInv
  <1>4. BucketInv'
    BY <1>1, <1>3 DEF PoolInv, BucketInv
  <1>5. IndexInv'
    BY <1>1 DEF PoolInv, IndexInv
  <1>6. BinInv'
    <2>1. \A r \in chunks : r.index \in Nat
      BY DEF DBTypeOK, ChunkRow
    <2>2. \A o \in objects : o.bucket \in Nat
      BY DEF DBTypeOK, ObjectRow
    <2> QED
      BY <1>1, <1>2, <1>3, <2>1, <2>2 DEF PoolInv, BinInv
  <1> QED
    BY <1>4, <1>5, <1>6 DEF PoolInv

LEMMA AddingRowKeepsPool ==
    ASSUME DBTypeOK, PoolInv, NEW row, AddsRow(row)
    PROVE  PoolInv'
  <1>1. /\ chunks' = chunks \cup {row} /\ row.status = "active"
        /\ UNCHANGED <<buckets, objects, nextId>>
        /\ \A r \in chunks : r.object = row.object => r.index # row.index
    BY DEF AddsRow, InsertChunk, CanInsertChunk, ChunksOf
  <1> QED
    BY <1>1 DEF PoolInv, BucketInv, BinInv, IndexInv

LEMMA RecyclingKeepsPool ==
    ASSUME DBTypeOK, PoolInv, NEW row, Recycles(row)
    PROVE  PoolInv'
  <1> DEFINE moved == [row EXCEPT !.object = frame.bin, !.index = nextId,
                                  !.status = "free"]
  <1>1. moved.object = frame.bin /\ moved.index = nextId /\ moved.status = "free"
    BY DEF Recycles, ChunkRow
  <1>2. /\ chunks' = (chunks \ {row}) \cup {moved}
        /\ UNCHANGED <<buckets, objects>> /\ nextId' = nextId + 1
        /\ \A r \in chunks : r.object = frame.bin => r.index # nextId
        /\ \E o \in objects : o.id = frame.bin /\ o.bucket = buckets[RecycleBin]
    BY DEF Recycles, MoveChunk, CanMoveChunk, CanInsertChunk, ChunksOf
  <1> HIDE DEF moved
  <1>3. /\ nextId \in Nat
        /\ \A n \in Names : buckets[n] \in Nat
        /\ \A o \in objects : o.bucket \in Nat
        /\ \A r \in chunks : r.index \in Nat
    BY DEF DBTypeOK, ObjectRow, ChunkRow
  <1>4. BucketInv'
    BY <1>2, <1>3 DEF PoolInv, BucketInv
  <1>5. IndexInv'
    BY <1>1, <1>2 DEF PoolInv, IndexInv
  <1>6. BinInv'
    BY <1>1, <1>2, <1>3 DEF PoolInv, BinInv
  <1> QED
    BY <1>4, <1>5, <1>6 DEF PoolInv

LEMMA TableStepKeepsPool ==
    ASSUME DBTypeOK, TableInv, PoolInv, TableStep, RecycleBin \notin BucketNames
    PROVE  PoolInv'
  BY TakingAwayKeepsPool, AddingBucketKeepsPool, AddingObjectKeepsPool,
     AddingRowKeepsPool, RecyclingKeepsPool DEF TableStep

(* What a request knows stays true.                                        *)
LEMMA TableStepKeepsSane ==
    ASSUME DBTypeOK, TableInv, PoolInv, TableStep, NEW q \in Request, Sane(q)
    PROVE  Sane(q)'
  <1>1. /\ q.bucket \in Nat /\ q.source \in Nat /\ nextId \in Nat
        /\ RecycleBin \in Names /\ buckets \in [Names -> Nat]
        /\ \A o \in objects : o.bucket \in Nat /\ o.bucket < nextId
    BY DEF Request, DBTypeOK, ObjectRow, Names, PoolInv, BinInv
  <1>2. CASE TakesAway
    BY <1>1, <1>2 DEF Sane, TakesAway
  <1>3. ASSUME NEW n, AddsBucket(n) PROVE Sane(q)'
    <2>1. /\ objects' = objects /\ nextId' = nextId + 1
          /\ buckets'[RecycleBin] \in {buckets[RecycleBin], nextId}
      BY <1>1, <1>3 DEF AddsBucket, InsertBucket
    <2> QED
      BY <1>1, <2>1 DEF Sane
  <1>4. ASSUME NEW b, NEW k, NEW d, AddsObject(b, k, d) PROVE Sane(q)'
    <2> DEFINE new == [id |-> nextId, bucket |-> b, key |-> k, data |-> d]
    <2>1. /\ objects' = objects \cup {new} /\ nextId' = nextId + 1
          /\ buckets' = buckets
      BY <1>4 DEF AddsObject, InsertObject
    <2>2. new.id = nextId
      OBVIOUS
    <2> HIDE DEF new
    <2> QED
      BY <1>1, <2>1, <2>2 DEF Sane
  <1>5. ASSUME NEW row, AddsRow(row) PROVE Sane(q)'
    BY <1>5 DEF AddsRow, InsertChunk, Sane
  <1>6. ASSUME NEW row, Recycles(row) PROVE Sane(q)'
    BY <1>1, <1>6 DEF Recycles, MoveChunk, Sane
  <1> QED
    BY <1>2, <1>3, <1>4, <1>5, <1>6 DEF TableStep

-----------------------------------------------------------------------------
(* Every statement that a step runs is one of these.                       *)

(* What PipelineProofs and RowProofs show.                                 *)
Base == TypeInv /\ RowsInv /\ UidsInv

WholeObjectsInv == PoolInv /\ RequestInv /\ StageInv

LEMMA BaseFacts ==
    ASSUME Base
    PROVE  /\ DBTypeOK /\ RefInv /\ IdInv /\ TableInv /\ HistoryInv /\ FrameInv
           /\ ClientTypeOK /\ LockInv /\ TypeInv /\ RowsInv /\ UidsInv
           /\ pc \in [Clients -> Labels] /\ req \in [Clients -> Request]
           /\ frame \in Frame
  BY DEF Base, TypeInv, TypeOK, ClientTypeOK, RowsInv, TableInv

LEMMA NextTableStep ==
    ASSUME Base, WholeObjectsInv, [Next]_vars
    PROVE  TableStep
  <1>0. DBTypeOK /\ RefInv /\ frame \in Frame /\ req \in [Clients -> Request]
        /\ chunks \subseteq ChunkRow
    BY BaseFacts DEF DBTypeOK
  <1>a. UNCHANGED dbVars => TakesAway
    BY <1>0, TakingAway
  <1>b. \A x \in Clients : Sane(req[x]) /\ BinStage(x)
    BY DEF WholeObjectsInv, RequestInv, StageInv, Stage
  <1>1. CASE UNCHANGED vars \/ Restart
    BY <1>a, <1>1 DEF vars, dbVars, Restart, TableStep
  <1>2. ASSUME NEW n \in BucketNames, CreateBucket(n) PROVE TableStep
    BY <1>2 DEF CreateBucket, AddsBucket, Names, TableStep
  <1>3. ASSUME NEW c \in Clients, NewRequest(c) \/ FaultStep(c) PROVE TableStep
    BY <1>a, <1>3
       DEF NewRequest, DeleteBucket, PutObject, GetObject, DeleteObject,
           CopyObject, Issue, FaultStep, FailDelete, FailIgnored,
           FailAfterAppend, Abandon, TableStep
  <1>4. ASSUME NEW c \in Clients, RemoveBucket(c) PROVE TableStep
    <2>1. req[c].bucket # NoId => req[c].bucket # buckets[RecycleBin]
      BY <1>b DEF Sane
    <2>2. PICK b : b = req[c].bucket
      OBVIOUS
    <2>3. TakesAway
      BY <1>0, <1>4, <2>1, <2>2, TakingAway DEF RemoveBucket
    <2> QED
      BY <2>3 DEF TableStep
  <1>5. ASSUME NEW c \in Clients, BinMakeBucket(c) PROVE TableStep
    BY <1>a, <1>5 DEF BinMakeBucket, AddsBucket, Names, TableStep
  <1>6. ASSUME NEW c \in Clients, BinMakeObject(c) PROVE TableStep
    <2>1. InsertObject(frame.bin, RecycleKey, <<>>) =>
             AddsObject(frame.bin, RecycleKey, <<>>)
      BY <1>0 DEF AddsObject, Frame
    <2> QED
      BY <1>a, <1>6, <2>1 DEF BinMakeObject, TableStep
  <1>7. ASSUME NEW c \in Clients, BinMoveRow(c) PROVE TableStep
    <2>1. ASSUME NEW r \in frame.row, MoveChunk(r, frame.bin, nextId),
                 nextId' = nextId + 1
          PROVE  Recycles(r)
      BY <1>0, <1>b, <1>7, <2>1 DEF BinMoveRow, BinStage, Recycles, Frame
    <2> QED
      BY <1>a, <1>7, <2>1 DEF BinMoveRow, TableStep
  <1>8. ASSUME NEW c \in Clients, DeleteRows(c) \/ DeleteVictim(c)
        PROVE  TableStep
    BY <1>0, <1>8, TakingAway DEF DeleteRows, DeleteVictim, TableStep
  <1>9. ASSUME NEW c \in Clients, UploadInsertObject(c) PROVE TableStep
    <2>1. req[c].bucket \in Nat
      BY <1>0 DEF Request
    <2>2. InsertObject(req[c].bucket, req[c].key, frame.body) =>
             AddsObject(req[c].bucket, req[c].key, frame.body)
      BY <1>b, <2>1 DEF AddsObject, InsertObject, CanInsertObject, BucketExists, Sane
    <2> QED
      BY <1>a, <1>9, <2>2 DEF UploadInsertObject, TableStep
  <1>10. ASSUME NEW c \in Clients, UploadRecord(c) PROVE TableStep
    <2>1. CurrentRow \in ChunkRow
      BY <1>10, BaseFacts, CurrentTypes DEF UploadRecord, ChunkLabels
    <2>2. CurrentRow.status = "active"
      BY DEF CurrentRow
    <2>3. InsertChunk(CurrentRow) => AddsRow(CurrentRow)
      BY <2>1, <2>2 DEF AddsRow
    <2> QED
      BY <1>a, <1>10, <2>3 DEF UploadRecord, TableStep
  <1>11. ASSUME NEW c \in Clients, UploadDropFreeRow(c) PROVE TableStep
    BY <1>0, <1>11, TakingAway DEF UploadDropFreeRow, TableStep
  <1>12. ASSUME NEW c \in Clients, HandlerStep(c) PROVE TableStep
    <2>1. CASE UNCHANGED dbVars
      BY <1>a, <2>1 DEF TableStep
    <2>2. CASE \E n \in BucketNames, k \in Keys : CopyDestination(c, n, k)
      BY <2>1, <2>2 DEF CopyDestination
    <2>3. CASE Lock(c) \/ DownloadStep(c)
      BY <2>1, <2>3 DEF Lock, DownloadStep, DownloadListRows, DownloadFetch,
                        DownloadDone
    <2>4. CASE DeleteStep(c)
      BY <1>5, <1>6, <1>7, <1>8, <2>1, <2>4
         DEF DeleteStep, FindVictim, DeleteListRows, DeleteNextRow,
             BinFindBucket, BinFindObject
    <2>5. CASE UploadStep(c)
      BY <1>9, <1>10, <1>11, <2>1, <2>5
         DEF UploadStep, UploadDedup, UploadFindFree, UploadCreateDraft,
             UploadDeleteDraft, UploadDone
    <2> QED
      BY <1>4, <1>12, <2>2, <2>3, <2>4, <2>5 DEF HandlerStep
  <1> QED
    BY <1>1, <1>2, <1>3, <1>12 DEF Next

-----------------------------------------------------------------------------
(* Requests.                                                               *)

(* A request is new, and its look-ups have just been made, or it is over,  *)
(* or it is as it was.                                                     *)
RequestStep ==
    \A x \in Clients :
        \/ req'[x] \in {req[x], NoRequest}
        \/ UNCHANGED dbVars /\ Sane(req'[x])

LEMMA LookUps ==
    ASSUME Base, WholeObjectsInv, NEW c \in Clients, NewRequest(c)
    PROVE  RequestStep
  <1>1. PICK n \in BucketNames :
          \/ DeleteBucket(c, n)
          \/ \E k \in Keys :
               \/ \E d \in Bodies : PutObject(c, n, k, d)
               \/ GetObject(c, n, k)
               \/ DeleteObject(c, n, k)
               \/ CopyObject(c, n, k)
    BY DEF NewRequest
  <1>2. /\ buckets[n] < nextId
        /\ buckets[n] # NoId => buckets[n] # buckets[RecycleBin]
    BY DEF WholeObjectsInv, PoolInv, BucketInv, Names
  <1>3. ASSUME NEW o \in objects, o.bucket = buckets[n]
        PROVE  /\ o.id < nextId /\ o.bucket # buckets[RecycleBin]
               /\ \A p \in objects : p.id = o.id => p = o
    <2>1. o.bucket # NoId
      BY DEF WholeObjectsInv, PoolInv, BinInv
    <2> QED
      BY <1>2, <1>3, <2>1, BaseFacts DEF IdInv
  <1>4. ASSUME NEW request, NEW label, Issue(c, request, label), Sane(request)
        PROVE  RequestStep
    <2>1. UNCHANGED dbVars /\ req' = [req EXCEPT ![c] = request]
      BY <1>4 DEF Issue
    <2>2. \A x \in Clients : req'[x] = IF x = c THEN request ELSE req[x]
      BY <2>1, BaseFacts
    <2> QED
      BY <1>4, <2>1, <2>2 DEF RequestStep
  <1>5. CASE DeleteBucket(c, n)
    <2> DEFINE request == [op |-> "rm", bucket |-> buckets[n], key |-> RecycleKey,
                           header |-> <<>>, source |-> NoId]
    <2>1. Sane(request)
      BY <1>2 DEF Sane
    <2> QED
      BY <1>4, <1>5, <2>1 DEF DeleteBucket
  <1>6. ASSUME NEW k \in Keys, NEW d \in Bodies, PutObject(c, n, k, d)
        PROVE  RequestStep
    <2> DEFINE request == [op |-> "put", bucket |-> buckets[n], key |-> k,
                           header |-> d, source |-> NoId]
    <2>1. Sane(request)
      BY <1>2 DEF Sane
    <2> QED
      BY <1>4, <1>6, <2>1 DEF PutObject
  <1>7. ASSUME NEW k \in Keys, DeleteObject(c, n, k) PROVE RequestStep
    <2> DEFINE request == [op |-> "delete", bucket |-> buckets[n], key |-> k,
                           header |-> <<>>, source |-> NoId]
    <2>1. Sane(request)
      BY <1>2 DEF Sane
    <2> QED
      BY <1>4, <1>7, <2>1 DEF DeleteObject
  <1>8. ASSUME NEW k \in Keys, GetObject(c, n, k) PROVE RequestStep
    <2>1. PICK o \in ObjectsAt(buckets[n], k) :
            Issue(c, [op |-> "get", bucket |-> buckets[n], key |-> k,
                      header |-> o.data, source |-> o.id], "wait")
      BY <1>8 DEF GetObject
    <2> DEFINE request == [op |-> "get", bucket |-> buckets[n], key |-> k,
                           header |-> o.data, source |-> o.id]
    <2>2. o \in objects /\ o.bucket = buckets[n]
      BY DEF ObjectsAt
    <2>3. Sane(request)
      BY <1>2, <1>3, <2>2 DEF Sane
    <2> QED
      BY <1>4, <2>1, <2>3
  <1>9. ASSUME NEW k \in Keys, CopyObject(c, n, k) PROVE RequestStep
    <2>1. PICK o \in ObjectsAt(buckets[n], k) :
            Issue(c, [op |-> "copy", bucket |-> NoId, key |-> k,
                      header |-> o.data, source |-> o.id], "copy_dest")
      BY <1>9 DEF CopyObject
    <2> DEFINE request == [op |-> "copy", bucket |-> NoId, key |-> k,
                           header |-> o.data, source |-> o.id]
    <2>2. o \in objects /\ o.bucket = buckets[n]
      BY DEF ObjectsAt
    <2>3. Sane(request)
      BY <1>3, <2>2 DEF Sane
    <2> QED
      BY <1>4, <2>1, <2>3
  <1> QED
    BY <1>1, <1>5, <1>6, <1>7, <1>8, <1>9

LEMMA NextRequestStep ==
    ASSUME Base, WholeObjectsInv, [Next]_vars
    PROVE  RequestStep
  <1>0. req \in [Clients -> Request]
    BY BaseFacts
  <1>1. req' = req => RequestStep
    BY DEF RequestStep
  <1>2. ASSUME NEW c \in Clients, Leave(c) PROVE RequestStep
    BY <1>0, <1>2 DEF Leave, RequestStep
  <1>3. ASSUME NEW c \in Clients, AfterDelete(c) PROVE RequestStep
    BY <1>1, <1>2, <1>3 DEF AfterDelete
  <1>4. CASE UNCHANGED vars \/ Restart \/ \E n \in BucketNames : CreateBucket(n)
    BY <1>1, <1>4 DEF vars, clientVars, Restart, CreateBucket, RequestStep
  <1>5. ASSUME NEW c \in Clients, NEW n \in BucketNames, NEW k \in Keys,
               CopyDestination(c, n, k)
        PROVE  RequestStep
    <2>1. CASE /\ req' = [req EXCEPT ![c].bucket = buckets[n], ![c].key = k]
               /\ UNCHANGED dbVars
      <3>1. /\ req'[c].bucket = buckets[n] /\ req'[c].op = req[c].op
            /\ req'[c].source = req[c].source /\ req'[c].header = req[c].header
            /\ \A x \in Clients : x # c => req'[x] = req[x]
        BY <1>0, <2>1 DEF Request
      <3>2. /\ buckets[n] < nextId
            /\ buckets[n] # NoId => buckets[n] # buckets[RecycleBin]
        BY DEF WholeObjectsInv, PoolInv, BucketInv, Names
      <3>3. Sane(req[c])
        BY DEF WholeObjectsInv, RequestInv
      <3>4. Sane(req'[c])
        BY <3>1, <3>2, <3>3 DEF Sane
      <3> QED
        BY <2>1, <3>1, <3>4 DEF RequestStep
    <2> QED
      BY <1>2, <1>5, <2>1 DEF CopyDestination
  <1>6. ASSUME NEW c \in Clients, FaultStep(c) PROVE RequestStep
    BY <1>1, <1>2, <1>3, <1>6
       DEF FaultStep, FailDelete, FailIgnored, FailAfterAppend, Abandon
  <1>7. ASSUME NEW c \in Clients, DeleteStep(c) PROVE RequestStep
    BY <1>1, <1>3, <1>7
       DEF DeleteStep, FindVictim, DeleteListRows, DeleteNextRow, BinFindBucket,
           BinMakeBucket, BinFindObject, BinMakeObject, BinMoveRow, DeleteRows,
           DeleteVictim
  <1>8. ASSUME NEW c \in Clients, UploadStep(c) \/ DownloadStep(c) PROVE RequestStep
    BY <1>1, <1>2, <1>8
       DEF UploadStep, UploadInsertObject, UploadDedup, UploadFindFree,
           UploadCreateDraft, UploadDeleteDraft, UploadDropFreeRow, UploadRecord,
           UploadDone, DownloadStep, DownloadListRows, DownloadFetch, DownloadDone
  <1>9. ASSUME NEW c \in Clients, HandlerStep(c) PROVE RequestStep
    BY <1>1, <1>2, <1>5, <1>7, <1>8, <1>9 DEF HandlerStep, RemoveBucket, Lock
  <1> QED
    BY <1>4, <1>6, <1>9, LookUps DEF Next

(* No look-up goes stale: a bucket may be deleted, but its id names no     *)
(* other; an object may be deleted or overwritten, but not changed.        *)
LEMMA NextRequestInv ==
    ASSUME Base, Base', WholeObjectsInv, [Next]_vars
    PROVE  RequestInv'
  <1> SUFFICES ASSUME NEW x \in Clients PROVE Sane(req[x])'
    BY DEF RequestInv
  <1>1. PICK q : q = req'[x]
    OBVIOUS
  <1>2. q \in Request
    BY <1>1 DEF Base, TypeInv, TypeOK, ClientTypeOK
  <1>3. Sane(q)'
    <2>1. CASE Sane(q)
      <3>1. TableStep /\ DBTypeOK /\ TableInv /\ PoolInv
        BY NextTableStep, BaseFacts DEF WholeObjectsInv
      <3> QED
        BY <1>2, <2>1, <3>1, TableStepKeepsSane
    <2>2. CASE q = NoRequest
      BY <2>2 DEF NoRequest, Sane
    <2> QED
      BY <1>1, <2>1, <2>2, NextRequestStep DEF RequestStep, WholeObjectsInv, RequestInv
  <1> QED
    BY <1>1, <1>3 DEF Sane

-----------------------------------------------------------------------------
(* Stages.  Only the holder of the mutex is at a label of Stage, so its    *)
(* own steps have one stage to look at, and the steps of all others leave  *)
(* its locals, the folder and the bin alone.                               *)

LEMMA StageLabels ==
    ASSUME NEW x \in Clients, pc[x] \notin PipelineLabels
    PROVE  Stage(x)
  BY RowLabels, LabelFacts
     DEF Stage, BinStage, VictimStage, LoopStage, FetchStage, BinLabels,
         VictimLabels, DownloadLabels, PipelineLabels, DeleteLabels

LEMMA HolderStage ==
    ASSUME LockInv', NEW c \in Clients, holder' = c, Stage(c)'
    PROVE  StageInv'
  <1>1. \A x \in Clients : x # c => pc'[x] \notin PipelineLabels
    BY DEF LockInv
  <1>2. \A x \in Clients : pc'[x] \notin PipelineLabels => Stage(x)'
    BY RowLabels, LabelFacts
       DEF Stage, BinStage, VictimStage, LoopStage, FetchStage, BinLabels,
           VictimLabels, DownloadLabels, PipelineLabels, DeleteLabels
  <1> QED
    BY <1>1, <1>2 DEF StageInv

LEMMA FreeStage ==
    ASSUME LockInv', holder' = NoClient
    PROVE  StageInv'
  <1>1. \A x \in Clients : pc'[x] \notin PipelineLabels
    BY PipelineAssumption DEF LockInv
  <1>2. \A x \in Clients : pc'[x] \notin PipelineLabels => Stage(x)'
    BY RowLabels, LabelFacts
       DEF Stage, BinStage, VictimStage, LoopStage, FetchStage, BinLabels,
           VictimLabels, DownloadLabels, PipelineLabels, DeleteLabels
  <1> QED
    BY <1>1, <1>2 DEF StageInv

(* The rows of an object that stays, stay.                                 *)
KeepsLive == \A r \in chunks : (\E o \in objects' : o.id = r.object) => r \in chunks'

(* What a step does that is not of the holder.                             *)
Outside ==
    /\ UNCHANGED <<frame, mailboxVars, history, holder>>
    /\ \A x \in Clients : pc'[x] \in PipelineLabels =>
          pc'[x] = pc[x] /\ req'[x] = req[x]
    /\ buckets'[RecycleBin] = buckets[RecycleBin]
    /\ nextId' \in Nat /\ nextId <= nextId'
    /\ objects' \subseteq objects /\ chunks' \subseteq chunks
    /\ \A o \in objects : o.bucket = buckets[RecycleBin] => o \in objects'
    /\ KeepsLive

LEMMA OutsideKeepsStage ==
    ASSUME Base, StageInv, Outside
    PROVE  StageInv'
  <1> SUFFICES ASSUME NEW x \in Clients, pc'[x] \in PipelineLabels
               PROVE  Stage(x)'
    <2>1. \A x \in Clients : pc'[x] \notin PipelineLabels => Stage(x)'
      BY RowLabels, LabelFacts
         DEF Stage, BinStage, VictimStage, LoopStage, FetchStage, BinLabels,
             VictimLabels, DownloadLabels, PipelineLabels, DeleteLabels
    <2> QED
      BY <2>1 DEF StageInv
  <1>1. /\ pc'[x] = pc[x] /\ req'[x] = req[x] /\ frame' = frame
        /\ drafts' = drafts /\ acked' = acked /\ doomed' = doomed
    BY DEF Outside, mailboxVars, history
  <1>2. Stage(x)
    BY DEF StageInv
  <1>3. BinStage(x)'
    BY <1>1, <1>2 DEF Stage, BinStage, ObjectsAt, Outside
  <1>4. VictimStage(x)'
    <2>1. pc[x] \in VictimLabels => frame.victim < nextId'
      BY <1>2, BaseFacts DEF Stage, VictimStage, Outside, DBTypeOK, Frame
    <2>2. /\ pc[x] \in {"del_next"} \cup BinLabels =>
                \A r \in frame.todo : r.object = frame.victim
          /\ pc[x] \in BinLabels => \A r \in frame.row : r.object = frame.victim
      BY BaseFacts DEF FrameInv, DeletingInv, At
    <2>3. ASSUME NEW rows, Listed(rows), \A r \in rows : r.object = frame.victim
          PROVE  Listed(rows)'
      <3>1. (\E o \in objects' : o.id = frame.victim) => rows \subseteq chunks'
        BY <1>1, <2>3 DEF Listed, Outside, KeepsLive
      <3> QED
        BY <1>1, <3>1 DEF Listed
    <2>4. pc[x] \in {"del_next"} \cup BinLabels => Listed(frame.todo)'
      <3>1. PICK rows : rows = frame.todo
        OBVIOUS
      <3>2. pc[x] \in {"del_next"} \cup BinLabels => Listed(rows)'
        BY <1>2, <2>2, <2>3, <3>1 DEF Stage, VictimStage
      <3> QED
        BY <1>1, <3>1, <3>2 DEF Listed
    <2>5. pc[x] \in BinLabels => Listed(frame.row)'
      <3>1. PICK rows : rows = frame.row
        OBVIOUS
      <3>2. pc[x] \in BinLabels => Listed(rows)'
        BY <1>2, <2>2, <2>3, <3>1 DEF Stage, VictimStage
      <3> QED
        BY <1>1, <3>1, <3>2 DEF Listed
    <2> QED
      BY <1>1, <1>2, <2>1, <2>4, <2>5 DEF Stage, VictimStage
  <1>5. LoopStage(x)'
    BY <1>1, <1>2 DEF Stage, LoopStage, Outside
  <1>6. FetchStage(x)'
    BY <1>1, <1>2 DEF Stage, FetchStage, Fetching, Placed, Ahead, Complete,
                      DraftsWithUid
  <1> QED
    BY <1>3, <1>4, <1>5, <1>6 DEF Stage

(* The statements of handlers that do not hold the mutex.                  *)
LEMMA OutsideTables ==
    ASSUME DBTypeOK, PoolInv
    PROVE  LET T == /\ buckets'[RecycleBin] = buckets[RecycleBin]
                    /\ nextId' \in Nat /\ nextId <= nextId'
                    /\ objects' \subseteq objects /\ chunks' \subseteq chunks
                    /\ \A o \in objects :
                          o.bucket = buckets[RecycleBin] => o \in objects'
                    /\ KeepsLive
           IN  /\ UNCHANGED dbVars => T
               /\ \A n \in BucketNames :
                     RecycleBin \notin BucketNames /\ InsertBucket(n) => T
               /\ \A b : (b # NoId => b # buckets[RecycleBin]) /\ DeleteBucketRow(b)
                            => T
  <1>0. nextId \in Nat /\ RecycleBin \in Names
        /\ \A o \in objects : o.bucket # NoId
    BY DEF DBTypeOK, Names, PoolInv, BinInv
  <1> QED
    BY <1>0 DEF dbVars, InsertBucket, DeleteBucketRow, KeepsLive, DBTypeOK, Names

(* Which steps are not of the holder.                                      *)
LEMMA OutsideSteps ==
    ASSUME Base, WholeObjectsInv, RecycleBin \notin BucketNames
    PROVE  /\ UNCHANGED vars => Outside
           /\ \A n \in BucketNames : CreateBucket(n) => Outside
           /\ \A c \in Clients : NewRequest(c) => Outside
           /\ \A c \in Clients : \A n \in BucketNames, k \in Keys :
                 CopyDestination(c, n, k) => Outside
           /\ \A c \in Clients : RemoveBucket(c) => Outside
           /\ \A c \in Clients : Abandon(c) /\ holder # c => Outside
  <1>0. /\ DBTypeOK /\ PoolInv /\ LockInv /\ pc \in [Clients -> Labels]
        /\ req \in [Clients -> Request]
    BY BaseFacts DEF WholeObjectsInv
  <1>a. {"idle", "wait", "copy_dest", "rm_bucket"} \cap PipelineLabels = {}
    BY LabelFacts
  <1>1. ASSUME UNCHANGED vars PROVE Outside
    BY <1>0, <1>1, OutsideTables DEF vars, clientVars, Outside
  <1>2. ASSUME NEW n \in BucketNames, CreateBucket(n) PROVE Outside
    BY <1>0, <1>2, OutsideTables DEF CreateBucket, clientVars, Outside
  <1>3. ASSUME NEW c \in Clients, NEW request,
               NEW label \in {"wait", "copy_dest", "rm_bucket"},
               Issue(c, request, label)
        PROVE  Outside
    <2>1. /\ pc' = [pc EXCEPT ![c] = label] /\ req' = [req EXCEPT ![c] = request]
          /\ UNCHANGED <<dbVars, frame, mailboxVars, history, holder>>
      BY <1>3 DEF Issue, Goto
    <2>2. \A x \in Clients : pc'[x] \in PipelineLabels =>
             pc'[x] = pc[x] /\ req'[x] = req[x]
      BY <1>0, <1>a, <2>1
    <2> QED
      BY <1>0, <2>1, <2>2, OutsideTables DEF Outside
  <1>4. ASSUME NEW c \in Clients, NewRequest(c) PROVE Outside
    BY <1>3, <1>4 DEF NewRequest, DeleteBucket, PutObject, GetObject,
                      DeleteObject, CopyObject
  <1>5. ASSUME NEW c \in Clients, Leave(c), holder # c
        PROVE  /\ UNCHANGED <<frame, holder>>
               /\ \A x \in Clients : pc'[x] \in PipelineLabels =>
                     pc'[x] = pc[x] /\ req'[x] = req[x]
    BY <1>0, <1>a, <1>5 DEF Leave, Goto
  <1>6. ASSUME NEW c \in Clients, NEW n \in BucketNames, NEW k \in Keys,
               CopyDestination(c, n, k)
        PROVE  Outside
    <2>1. holder # c
      BY <1>0, <1>a, <1>6 DEF CopyDestination, LockInv
    <2>2. UNCHANGED <<frame, holder>> /\ \A x \in Clients :
            pc'[x] \in PipelineLabels => pc'[x] = pc[x] /\ req'[x] = req[x]
      <3>1. CASE Leave(c)
        BY <1>5, <2>1, <3>1
      <3>2. CASE /\ Goto(c, "wait")
                 /\ req' = [req EXCEPT ![c].bucket = buckets[n], ![c].key = k]
                 /\ UNCHANGED <<holder, frame>>
        BY <1>0, <1>a, <3>2 DEF Goto
      <3> QED
        BY <1>6, <3>1, <3>2 DEF CopyDestination
    <2> QED
      BY <1>0, <1>6, <2>2, OutsideTables DEF CopyDestination, Outside
  <1>7. ASSUME NEW c \in Clients, RemoveBucket(c) PROVE Outside
    <2>1. holder # c
      BY <1>0, <1>a, <1>7 DEF RemoveBucket, LockInv
    <2>2. req[c].bucket # NoId => req[c].bucket # buckets[RecycleBin]
      BY DEF WholeObjectsInv, RequestInv, Sane
    <2>3. PICK b : b = req[c].bucket
      OBVIOUS
    <2> QED
      BY <1>0, <1>5, <1>7, <2>1, <2>2, <2>3, OutsideTables DEF RemoveBucket, Outside
  <1>8. ASSUME NEW c \in Clients, Abandon(c), holder # c PROVE Outside
    BY <1>0, <1>5, <1>8, OutsideTables DEF Abandon, Outside
  <1> QED
    BY <1>1, <1>2, <1>4, <1>6, <1>7, <1>8

-----------------------------------------------------------------------------
(* The holder's own steps: delete.                                         *)

LEMMA VacantStage ==
    ASSUME LockInv', NEW c \in Clients, holder' = c,
           pc'[c] \in {"find", "up_insert"}
    PROVE  StageInv'
  <1>1. pc'[c] \notin LoopLabels \cup VictimLabels \cup DownloadLabels
    BY RowLabels DEF DownloadLabels
  <1>2. Stage(c)'
    BY <1>1, RowLabels
       DEF Stage, BinStage, VictimStage, LoopStage, FetchStage, DownloadLabels,
           BinLabels
  <1> QED
    BY <1>2, HolderStage

LEMMA DeletingStage ==
    ASSUME LockInv', NEW c \in Clients, holder' = c, pc'[c] \in VictimLabels,
           BinStage(c)', VictimStage(c)'
    PROVE  StageInv'
  <1>1. pc'[c] \notin LoopLabels \cup DownloadLabels
    BY RowLabels
  <1>2. Stage(c)'
    BY <1>1 DEF Stage, LoopStage, FetchStage, DownloadLabels
  <1> QED
    BY <1>2, HolderStage

LEMMA AfterDeleteStage ==
    ASSUME Base, Base', NEW c \in Clients, pc[c] \in DeleteLabels, AfterDelete(c)
    PROVE  StageInv'
  <1>1. holder = c
    BY BaseFacts, InDelete
  <1>2. LockInv'
    BY DEF Base, TypeInv
  <1>3. CASE Leave(c)
    BY <1>1, <1>2, <1>3, FreeStage DEF Leave
  <1>4. CASE Goto(c, "up_insert") /\ holder' = holder
    <2>1. pc'[c] = "up_insert"
      BY <1>4, BaseFacts DEF Goto
    <2> QED
      BY <1>1, <1>2, <1>4, <2>1, VacantStage
  <1> QED
    BY <1>3, <1>4 DEF AfterDelete

(* What delete knows besides InDelete.                                     *)
LEMMA InDeleteStage ==
    ASSUME Base, WholeObjectsInv, NEW c \in Clients, pc[c] \in VictimLabels
    PROVE  /\ holder = c /\ frame \in Frame /\ pc \in [Clients -> Labels]
           /\ DBTypeOK /\ IdInv /\ PoolInv /\ pc[c] \in DeleteLabels
           /\ BinStage(c) /\ VictimStage(c)
           /\ nextId \in Nat \ {0} /\ frame.victim < nextId /\ frame.victim \in Nat
           /\ buckets[RecycleBin] \in Nat
           /\ \A o \in objects : o.id \in Nat
           /\ BucketExists(buckets[RecycleBin]) <=> buckets[RecycleBin] # NoId
  <1>1. pc[c] \in DeleteLabels
    BY DEF VictimLabels
  <1>2. frame \in Frame /\ DBTypeOK /\ RecycleBin \in Names
    BY BaseFacts DEF Names
  <1> QED
    BY <1>1, <1>2, BaseFacts, InDelete
       DEF WholeObjectsInv, StageInv, Stage, VictimStage, Frame, DBTypeOK,
           ObjectRow, BucketExists

LEMMA ListingStages ==
    ASSUME Base, Base', WholeObjectsInv, NEW c \in Clients,
           FindVictim(c) \/ DeleteListRows(c) \/ DeleteNextRow(c)
    PROVE  StageInv'
  <1>0. LockInv' /\ DBTypeOK /\ IdInv /\ pc \in [Clients -> Labels] /\ frame \in Frame
    BY BaseFacts DEF Base, TypeInv
  <1>1. CASE FindVictim(c)
    <2>1. pc[c] \in DeleteLabels /\ holder = c
      BY <1>1, BaseFacts, InDelete DEF FindVictim, DeleteLabels
    <2>2. CASE AfterDelete(c)
      BY <2>1, <2>2, AfterDeleteStage
    <2>3. ASSUME NEW o \in objects, Goto(c, "del_rows"), UNCHANGED holder,
                 frame' = [frame EXCEPT !.victim = o.id]
          PROVE  StageInv'
      <3>1. pc'[c] = "del_rows" /\ frame'.victim = o.id
        BY <1>0, <2>3 DEF Goto, Frame
      <3>2. nextId' = nextId /\ o.id < nextId
        BY <1>0, <1>1 DEF FindVictim, dbVars, IdInv
      <3>3. pc'[c] \in VictimLabels /\ BinStage(c)' /\ VictimStage(c)'
        BY <3>1, <3>2
           DEF BinStage, VictimStage, VictimLabels, DeleteLabels, BinLabels
      <3> QED
        BY <1>0, <2>1, <2>3, <3>3, DeletingStage
    <2> QED
      BY <1>1, <2>2, <2>3 DEF FindVictim, ObjectsAt
  <1>2. CASE DeleteListRows(c)
    <2>1. pc[c] = "del_rows" /\ pc[c] \in VictimLabels /\ UNCHANGED <<dbVars, holder>>
      BY <1>2 DEF DeleteListRows, VictimLabels, DeleteLabels
    <2>2. /\ pc'[c] = "del_next" /\ frame'.victim = frame.victim
          /\ frame'.todo = ChunksOf(frame.victim)
      BY <1>0, <1>2 DEF DeleteListRows, Goto, Frame
    <2>3. frame.victim < nextId /\ holder = c
      BY <2>1, InDeleteStage
    <2>4. pc'[c] \in VictimLabels /\ BinStage(c)' /\ VictimStage(c)'
      BY <2>1, <2>2, <2>3
         DEF BinStage, VictimStage, Listed, ChunksOf, dbVars, VictimLabels,
             DeleteLabels, BinLabels
    <2> QED
      BY <1>0, <2>1, <2>3, <2>4, DeletingStage
  <1>3. CASE DeleteNextRow(c)
    <2>1. pc[c] = "del_next" /\ pc[c] \in VictimLabels /\ UNCHANGED <<dbVars, holder>>
      BY <1>3, RowLabels DEF DeleteNextRow
    <2>2. PICK r \in frame.todo :
            \/ /\ Goto(c, "bin_bucket")
               /\ frame' = [frame EXCEPT !.todo = @ \ {r}, !.row = {r}]
            \/ /\ frame' = [frame EXCEPT !.todo = @ \ {r}]
               /\ UNCHANGED pc
      BY <1>3 DEF DeleteNextRow
    <2>3. /\ frame'.victim = frame.victim /\ frame'.todo = frame.todo \ {r}
          /\ \/ pc'[c] = "bin_bucket" /\ frame'.row = {r}
             \/ pc'[c] = "del_next"
      BY <1>0, <2>1, <2>2 DEF Goto, Frame
    <2>4. frame.victim < nextId /\ holder = c /\ Listed(frame.todo)
      BY <2>1, InDeleteStage DEF VictimStage
    <2>5. pc'[c] \in VictimLabels /\ BinStage(c)'
      BY <2>3 DEF BinStage, VictimLabels, DeleteLabels
    <2>6. Listed(frame.todo)' /\ (pc'[c] = "bin_bucket" => Listed(frame.row)')
      BY <2>1, <2>3, <2>4 DEF Listed, dbVars
    <2>7. VictimStage(c)'
      BY <2>1, <2>3, <2>4, <2>6 DEF VictimStage, dbVars, BinLabels
    <2> QED
      BY <1>0, <2>1, <2>4, <2>5, <2>7, DeletingStage
  <1> QED
    BY <1>1, <1>2, <1>3

(* A step of get_or_create_recycling_object that goes on.                  *)
LEMMA BinGoesOn ==
    ASSUME Base, Base', WholeObjectsInv, NEW c \in Clients, pc[c] \in BinLabels,
           holder' = holder, NEW label \in BinLabels, Goto(c, label),
           NEW bin, frame' = [frame EXCEPT !.bin = bin],
           chunks' = chunks, nextId' \in Nat, nextId <= nextId',
           \A o \in objects' : o.id = frame.victim => o \in objects,
           BinStage(c)'
    PROVE  StageInv'
  <1>1. pc[c] \in VictimLabels /\ LockInv' /\ label \in VictimLabels
    BY RowLabels DEF Base, TypeInv
  <1>2. /\ holder = c /\ VictimStage(c) /\ frame \in Frame
        /\ pc \in [Clients -> Labels]
        /\ nextId \in Nat /\ frame.victim \in Nat /\ frame.victim < nextId
    BY <1>1, InDeleteStage
  <1>3. /\ frame'.victim = frame.victim /\ frame'.todo = frame.todo
        /\ frame'.row = frame.row /\ pc'[c] = label
    BY <1>2 DEF Goto, Frame
  <1>4. \A rows : Listed(rows) =>
           ((\E o \in objects' : o.id = frame'.victim) => rows \subseteq chunks')
    BY <1>3 DEF Listed
  <1>5. VictimStage(c)'
    <2>1. frame'.victim < nextId'
      BY <1>2, <1>3
    <2>2. Listed(frame.todo)' /\ Listed(frame.row)'
      BY <1>2, <1>3, <1>4 DEF Listed, VictimStage
    <2>3. frame'.row \cap frame'.todo = {}
      BY <1>2, <1>3 DEF VictimStage
    <2> QED
      BY <2>1, <2>2, <2>3 DEF VictimStage
  <1> QED
    BY <1>1, <1>2, <1>3, <1>5, DeletingStage

LEMMA BinStages ==
    ASSUME Base, Base', WholeObjectsInv, NEW c \in Clients,
           BinFindBucket(c) \/ BinMakeBucket(c) \/ BinFindObject(c) \/ BinMakeObject(c)
    PROVE  StageInv'
  <1>0. /\ pc[c] \in BinLabels /\ pc[c] \in VictimLabels
        /\ pc \in [Clients -> Labels] /\ frame \in Frame
    BY RowLabels, BaseFacts DEF BinFindBucket, BinMakeBucket, BinFindObject,
                                BinMakeObject, BinLabels
  <1>a. /\ pc[c] \in DeleteLabels /\ BinStage(c)
        /\ nextId \in Nat \ {0} /\ frame.victim < nextId /\ frame.victim \in Nat
        /\ BucketExists(buckets[RecycleBin]) <=> buckets[RecycleBin] # NoId
        /\ buckets \in [Names -> Nat] /\ RecycleBin \in Names
    BY <1>0, InDeleteStage DEF DBTypeOK, Names
  <1>b. AfterDelete(c) => StageInv'
    BY <1>a, AfterDeleteStage
  <1>1. CASE BinFindBucket(c)
    <2>1. /\ UNCHANGED <<dbVars, holder>>
          /\ frame' = [frame EXCEPT !.bin = buckets[RecycleBin]]
      BY <1>1 DEF BinFindBucket
    <2>2. PICK label \in {"bin_object", "bin_mkbucket"} :
             /\ Goto(c, label)
             /\ label = "bin_object" <=> buckets[RecycleBin] # NoId
      BY <1>1, <1>a DEF BinFindBucket
    <2>3. pc'[c] = label /\ frame'.bin = buckets[RecycleBin]
      BY <1>0, <2>1, <2>2 DEF Goto, Frame
    <2>4. BinStage(c)'
      BY <2>1, <2>2, <2>3 DEF BinStage, dbVars
    <2>5. label \in BinLabels
      BY DEF BinLabels
    <2> QED
      BY <1>0, <1>a, <2>1, <2>2, <2>4, <2>5, BinGoesOn DEF dbVars
  <1>2. CASE BinMakeBucket(c)
    <2>1. CASE InsertBucket(RecycleBin) /\ Goto(c, "bin_object")
               /\ frame' = [frame EXCEPT !.bin = nextId] /\ UNCHANGED holder
      <3>1. /\ pc'[c] = "bin_object" /\ frame'.bin = nextId
            /\ buckets'[RecycleBin] = nextId
            /\ nextId' = nextId + 1 /\ UNCHANGED <<objects, chunks>>
        BY <1>0, <1>a, <2>1 DEF Goto, Frame, InsertBucket
      <3>2. BinStage(c)'
        BY <1>a, <3>1 DEF BinStage
      <3>3. "bin_object" \in BinLabels
        BY DEF BinLabels
      <3> QED
        BY <1>0, <1>a, <2>1, <3>1, <3>2, <3>3, BinGoesOn
    <2> QED
      BY <1>2, <1>b, <2>1 DEF BinMakeBucket
  <1>3. CASE BinFindObject(c)
    <2>0. pc[c] = "bin_object" /\ UNCHANGED <<dbVars, holder>>
      BY <1>3 DEF BinFindObject
    <2>1. frame.bin = buckets[RecycleBin] /\ frame.bin # NoId
      BY <1>a, <2>0 DEF BinStage
    <2>2. ASSUME NEW o \in ObjectsAt(frame.bin, RecycleKey), Goto(c, "bin_move"),
                 frame' = [frame EXCEPT !.bin = o.id]
          PROVE  StageInv'
      <3>1. pc'[c] = "bin_move" /\ frame'.bin = o.id
        BY <1>0, <2>2 DEF Goto, Frame
      <3>2. BinStage(c)'
        BY <2>0, <2>1, <2>2, <3>1 DEF BinStage, ObjectsAt, dbVars
      <3>3. "bin_move" \in BinLabels
        BY DEF BinLabels
      <3> QED
        BY <1>0, <1>a, <2>0, <2>2, <3>2, <3>3, BinGoesOn DEF dbVars
    <2>3. CASE ObjectsAt(frame.bin, RecycleKey) = {} /\ Goto(c, "bin_mkobject")
               /\ UNCHANGED frame
      <3>1. pc'[c] = "bin_mkobject" /\ frame' = [frame EXCEPT !.bin = frame.bin]
        BY <1>0, <2>3 DEF Goto, Frame
      <3>2. BinStage(c)'
        BY <2>0, <2>1, <2>3, <3>1 DEF BinStage, ObjectsAt, dbVars
      <3>3. "bin_mkobject" \in BinLabels /\ Goto(c, "bin_mkobject")
        BY <2>3 DEF BinLabels
      <3>4. PICK bin : bin = frame.bin
        OBVIOUS
      <3>5. /\ frame' = [frame EXCEPT !.bin = bin]
            /\ chunks' = chunks /\ nextId' \in Nat /\ nextId <= nextId'
            /\ objects' = objects /\ holder' = holder
        BY <1>a, <2>0, <3>1, <3>4 DEF dbVars
      <3> QED
        BY <1>0, <3>2, <3>3, <3>5, BinGoesOn
    <2> QED
      BY <1>3, <2>2, <2>3 DEF BinFindObject
  <1>4. CASE BinMakeObject(c)
    <2>1. CASE InsertObject(frame.bin, RecycleKey, <<>>) /\ Goto(c, "bin_move")
               /\ frame' = [frame EXCEPT !.bin = nextId] /\ UNCHANGED holder
      <3> DEFINE new == [id |-> nextId, bucket |-> frame.bin, key |-> RecycleKey,
                         data |-> <<>>]
      <3>0. frame.bin = buckets[RecycleBin]
        BY <1>4, <1>a DEF BinMakeObject, BinStage
      <3>1. /\ pc'[c] = "bin_move" /\ frame'.bin = nextId
            /\ objects' = objects \cup {new} /\ buckets' = buckets
            /\ nextId' = nextId + 1 /\ chunks' = chunks
        BY <1>0, <2>1 DEF Goto, Frame, InsertObject
      <3>2. new.id = nextId /\ new.bucket = frame.bin
        OBVIOUS
      <3> HIDE DEF new
      <3>3. BinStage(c)'
        BY <3>0, <3>1, <3>2 DEF BinStage
      <3>4. "bin_move" \in BinLabels
        BY DEF BinLabels
      <3>5. \A o \in objects' : o.id = frame.victim => o \in objects
        BY <1>a, <3>1, <3>2
      <3>6. nextId' \in Nat /\ nextId <= nextId'
        BY <1>a, <3>1
      <3>7. /\ frame' = [frame EXCEPT !.bin = nextId] /\ holder' = holder
            /\ Goto(c, "bin_move") /\ chunks' = chunks
        BY <2>1, <3>1
      <3>8. PICK bin : bin = nextId
        OBVIOUS
      <3> QED
        BY <1>0, <3>3, <3>4, <3>5, <3>6, <3>7, <3>8, BinGoesOn
    <2> QED
      BY <1>4, <1>b, <2>1 DEF BinMakeObject
  <1> QED
    BY <1>1, <1>2, <1>3, <1>4

LEMMA MovingStages ==
    ASSUME Base, Base', WholeObjectsInv, NEW c \in Clients,
           BinMoveRow(c) \/ DeleteRows(c) \/ DeleteVictim(c)
    PROVE  StageInv'
  <1>0. /\ pc[c] \in VictimLabels /\ LockInv'
        /\ pc \in [Clients -> Labels] /\ frame \in Frame
    BY BaseFacts DEF BinMoveRow, DeleteRows, DeleteVictim, VictimLabels,
                     DeleteLabels, Base, TypeInv
  <1>a. /\ pc[c] \in DeleteLabels /\ holder = c /\ VictimStage(c)
        /\ nextId \in Nat /\ frame.victim < nextId /\ frame.victim \in Nat
    BY <1>0, InDeleteStage
  <1>b. AfterDelete(c) => StageInv'
    BY <1>a, AfterDeleteStage
  <1>1. CASE BinMoveRow(c)
    <2>1. ASSUME NEW r \in frame.row, MoveChunk(r, frame.bin, nextId),
                 nextId' = nextId + 1, Goto(c, "del_next"), UNCHANGED holder,
                 frame' = [frame EXCEPT !.row = {}, !.bin = NoId]
          PROVE  StageInv'
      <3>1. /\ frame'.victim = frame.victim /\ frame'.todo = frame.todo
            /\ pc'[c] = "del_next"
        BY <1>0, <2>1 DEF Goto, Frame
      <3>2. chunks \ {r} \subseteq chunks' /\ objects' = objects
        BY <2>1 DEF MoveChunk
      <3>3. Listed(frame.todo) /\ r \notin frame.todo
        BY <1>1, <1>a, <2>1 DEF BinMoveRow, VictimStage, BinLabels
      <3>4. Listed(frame.todo)'
        BY <3>1, <3>2, <3>3 DEF Listed
      <3>5. pc'[c] \in VictimLabels /\ BinStage(c)' /\ VictimStage(c)'
        BY <1>a, <2>1, <3>1, <3>4
           DEF BinStage, VictimStage, VictimLabels, DeleteLabels, BinLabels
      <3> QED
        BY <1>0, <1>a, <2>1, <3>5, DeletingStage
    <2> QED
      BY <1>1, <1>b, <2>1 DEF BinMoveRow
  <1>2. CASE DeleteRows(c)
    <2>1. pc'[c] = "del_object" /\ UNCHANGED <<frame, nextId, holder>>
      BY <1>0, <1>2 DEF DeleteRows, DeleteChunkRows, Goto
    <2>2. pc'[c] \in VictimLabels /\ BinStage(c)' /\ VictimStage(c)'
      BY <1>a, <2>1
         DEF BinStage, VictimStage, VictimLabels, DeleteLabels, BinLabels
    <2> QED
      BY <1>0, <1>a, <2>1, <2>2, DeletingStage
  <1>3. CASE DeleteVictim(c)
    BY <1>3, <1>b DEF DeleteVictim
  <1> QED
    BY <1>1, <1>2, <1>3

-----------------------------------------------------------------------------
(* The holder's own steps: upload.                                         *)

LEMMA LockStage ==
    ASSUME Base, Base', NEW c \in Clients, Lock(c)
    PROVE  StageInv'
  <1>0. LockInv' /\ holder' = c /\ pc \in [Clients -> Labels] /\ req' = req
    BY BaseFacts DEF Lock, Base, TypeInv
  <1>1. CASE req[c].op \in {"get", "copy"}
    <2>1. pc'[c] = "dl_rows" /\ frame'.body = <<>>
      BY <1>0, <1>1 DEF Lock, Goto, NoFrame
    <2>2. Stage(c)'
      BY <1>0, <1>1, <2>1
         DEF Stage, BinStage, VictimStage, LoopStage, FetchStage, VictimLabels,
             DeleteLabels, BinLabels, LoopLabels, ChunkLabels
    <2> QED
      BY <1>0, <2>2, HolderStage
  <1>2. CASE req[c].op \notin {"get", "copy"}
    <2>1. pc'[c] = "find"
      BY <1>0, <1>2 DEF Lock, Goto
    <2> QED
      BY <1>0, <2>1, VacantStage
  <1> QED
    BY <1>1, <1>2

LEMMA LoopingStage ==
    ASSUME LockInv', NEW c \in Clients, holder' = c, pc'[c] \in LoopLabels,
           \A o \in objects' : o.id = frame'.obj => o.bucket # buckets'[RecycleBin]
    PROVE  StageInv'
  <1>1. pc'[c] \notin VictimLabels \cup DownloadLabels
    BY RowLabels
  <1>2. Stage(c)'
    BY <1>1, RowLabels
       DEF Stage, BinStage, VictimStage, LoopStage, FetchStage, DownloadLabels,
           BinLabels
  <1> QED
    BY <1>2, HolderStage

LEMMA UploadStages ==
    ASSUME Base, Base', WholeObjectsInv, NEW c \in Clients,
           UploadStep(c) \/ FailIgnored(c)
    PROVE  StageInv'
  <1>0. /\ pc[c] \in PipelineLabels /\ LockInv' /\ frame \in Frame
        /\ pc \in [Clients -> Labels] /\ DBTypeOK /\ IdInv
    BY BaseFacts
       DEF UploadStep, UploadInsertObject, UploadDedup, UploadFindFree,
           UploadCreateDraft, UploadDeleteDraft, UploadDropFreeRow, UploadRecord,
           UploadDone, FailIgnored, PipelineLabels, UploadLabels, Base, TypeInv
  <1>a. holder = c
    BY <1>0, BaseFacts, HolderFact
  <1>b. Leave(c) => StageInv'
    BY <1>0, <1>a, FreeStage DEF Leave
  <1>1. CASE UploadInsertObject(c)
    <2>1. CASE InsertObject(req[c].bucket, req[c].key, frame.body)
               /\ Goto(c, "up_next") /\ UNCHANGED holder
               /\ frame' = [frame EXCEPT !.obj = nextId]
      <3> DEFINE new == [id |-> nextId, bucket |-> req[c].bucket,
                         key |-> req[c].key, data |-> frame.body]
      <3>1. /\ objects' = objects \cup {new} /\ buckets' = buckets
            /\ pc'[c] = "up_next" /\ frame'.obj = nextId
            /\ req[c].bucket # NoId
        BY <1>0, <2>1 DEF InsertObject, CanInsertObject, BucketExists, Goto, Frame
      <3>2. new.id = nextId /\ new.bucket = req[c].bucket
        OBVIOUS
      <3> HIDE DEF new
      <3>3. req[c].bucket # buckets[RecycleBin]
        BY <3>1 DEF WholeObjectsInv, RequestInv, Sane
      <3>4. \A o \in objects : o.id # nextId
        BY <1>0 DEF IdInv, DBTypeOK, ObjectRow
      <3>5. pc'[c] \in LoopLabels
        BY <3>1 DEF LoopLabels
      <3> QED
        BY <1>0, <1>a, <2>1, <3>1, <3>2, <3>3, <3>4, <3>5, LoopingStage
    <2> QED
      BY <1>1, <1>b, <2>1 DEF UploadInsertObject
  <1>2. CASE UploadDone(c)
    BY <1>2, <1>b DEF UploadDone
  <1>3. CASE ~UploadInsertObject(c) /\ ~UploadDone(c)
    <2>1. /\ pc[c] \in LoopLabels
          /\ UNCHANGED <<objects, buckets>>
      BY <1>3 DEF UploadStep, UploadDedup, UploadFindFree,
           UploadCreateDraft, UploadDeleteDraft, UploadDropFreeRow, UploadRecord,
           FailIgnored, LoopLabels, ChunkLabels, dbVars, InsertChunk,
           DeleteChunkRows
    <2>2. \/ Leave(c)
          \/ pc'[c] \in LoopLabels /\ frame'.obj = frame.obj /\ holder' = holder
      BY <1>0, <1>3 DEF UploadStep, UploadDedup, UploadFindFree,
           UploadCreateDraft, UploadDeleteDraft, UploadDropFreeRow, UploadRecord,
           FailIgnored, LoopLabels, ChunkLabels, Goto, Frame
    <2>3. \A o \in objects : o.id = frame.obj => o.bucket # buckets[RecycleBin]
      BY <2>1 DEF WholeObjectsInv, StageInv, Stage, LoopStage
    <2> QED
      BY <1>0, <1>a, <1>b, <2>1, <2>2, <2>3, LoopingStage
  <1> QED
    BY <1>1, <1>2, <1>3

-----------------------------------------------------------------------------
(* The holder's own steps: download.                                       *)

(* One more chunk, that lies behind those in hand.                         *)
Placing(place, body, header, k) ==
    /\ place \in [DOMAIN body -> DOMAIN header]
    /\ \A i, j \in DOMAIN body : i < j => place[i] < place[j]
    /\ \A i \in DOMAIN body : body[i] = header[place[i]]
    /\ \A i \in DOMAIN body : place[i] <= k

LEMMA PlaceMore ==
    ASSUME NEW body \in Seq(Contents), NEW header \in Seq(Contents),
           NEW k \in Nat, k < Len(header),
           NEW place, Placing(place, body, header, k),
           NEW longer, longer = Append(body, header[k + 1])
    PROVE  \E p : Placing(p, longer, header, k + 1)
  <1>0. /\ place \in [DOMAIN body -> DOMAIN header]
        /\ \A i, j \in DOMAIN body : i < j => place[i] < place[j]
        /\ \A i \in DOMAIN body : body[i] = header[place[i]]
        /\ \A i \in DOMAIN body : place[i] <= k
    BY DEF Placing
  <1> DEFINE n == Len(body)
             p == [i \in 1 .. n + 1 |-> IF i <= n THEN place[i] ELSE k + 1]
  <1>1. n \in Nat /\ DOMAIN body = 1 .. n /\ DOMAIN header = 1 .. Len(header)
    OBVIOUS
  <1>2. k + 1 \in DOMAIN header /\ header[k + 1] \in Contents
    BY <1>1
  <1>3. /\ DOMAIN longer = 1 .. n + 1
        /\ \A i \in 1 .. n : longer[i] = body[i]
        /\ longer[n + 1] = header[k + 1]
    BY <1>1, <1>2
  <1>4. /\ \A i \in 1 .. n : p[i] = place[i] /\ p[i] \in DOMAIN header /\ p[i] <= k
        /\ p[n + 1] = k + 1
        /\ p \in [1 .. n + 1 -> DOMAIN header]
    <2>1. \A i \in 1 .. n : place[i] \in DOMAIN header /\ place[i] <= k
      BY <1>0, <1>1
    <2>2. n + 1 \in 1 .. n + 1 /\ ~(n + 1 <= n)
          /\ \A i \in 1 .. n : i \in 1 .. n + 1 /\ i <= n
      BY <1>1
    <2>3. \A i \in 1 .. n + 1 : i <= n => i \in 1 .. n
      BY <1>1
    <2> HIDE DEF n
    <2>4. /\ \A i \in 1 .. n : p[i] = place[i]
          /\ p[n + 1] = k + 1
      BY <2>2
    <2>5. p \in [1 .. n + 1 -> DOMAIN header]
      BY <1>2, <2>1, <2>3
    <2> QED
      BY <2>1, <2>4, <2>5
  <1> HIDE DEF n, p
  <1>5. \A i \in 1 .. n + 1 : i \in 1 .. n \/ i = n + 1
    BY <1>1
  <1>6. \A i, j \in 1 .. n + 1 : i < j => p[i] < p[j]
    <2>1. SUFFICES ASSUME NEW i \in 1 .. n + 1, NEW j \in 1 .. n + 1, i < j
                   PROVE  p[i] < p[j]
      OBVIOUS
    <2>2. i \in 1 .. n
      BY <1>1, <2>1
    <2>3. CASE j \in 1 .. n
      BY <1>0, <1>1, <1>4, <2>1, <2>2, <2>3
    <2>4. CASE j = n + 1
      BY <1>1, <1>4, <2>2, <2>4
    <2> QED
      BY <1>5, <2>3, <2>4
  <1>7. \A i \in 1 .. n + 1 : longer[i] = header[p[i]]
    BY <1>0, <1>1, <1>3, <1>4, <1>5
  <1>8. \A i \in 1 .. n + 1 : p[i] <= k + 1
    BY <1>1, <1>4, <1>5
  <1> QED
    BY <1>3, <1>4, <1>6, <1>7, <1>8 DEF Placing

(* get_draft on the next row: the rows are visited in the order of their   *)
(* indices, and a complete list has every index.                           *)
LEMMA FetchMore ==
    ASSUME frame \in Frame, drafts \subseteq Draft, NEW q \in Request, Fetching(q),
           NEW r \in frame.todo, IsFirst(r, frame.todo),
           NEW d \in DraftsWithUid(r.uid),
           frame' = [frame EXCEPT !.todo = @ \ {r}, !.body = Append(@, d.data)],
           UNCHANGED <<drafts, history>>
    PROVE  Fetching(q)'
  <1> DEFINE header == q.header
             body == frame.body
             k == r.index
  <1>1. /\ header \in Seq(Contents) /\ body \in Seq(Contents)
        /\ k \in Nat /\ k < Len(header) /\ d.data = header[k + 1]
        /\ \A s \in frame.todo : s.index \in Nat
    BY DEF Fetching, Ahead, Request, Frame, ChunkRow
  <1>2. /\ frame'.todo = frame.todo \ {r}
        /\ frame'.body = Append(body, header[k + 1])
    BY <1>1 DEF Frame
  <1>3. \A s \in frame'.todo : k + 1 <= s.index
    BY <1>1, <1>2 DEF Fetching, Ahead, IsFirst
  <1>4. \E place : Placed(place, header)'
    <2>1. PICK place : Placed(place, header)
      BY DEF Fetching
    <2>2. PICK longer : longer = frame'.body
      OBVIOUS
    <2>3. PICK p : Placing(p, longer, header, k + 1)
      <3>1. Placing(place, body, header, k)
        BY <2>1 DEF Placed, Placing
      <3>2. longer = Append(body, header[k + 1])
        BY <1>2, <2>2
      <3>3. PICK b, h, n : b = body /\ h = header /\ n = k
        OBVIOUS
      <3> HIDE DEF header, body, k
      <3>4. b \in Seq(Contents) /\ h \in Seq(Contents) /\ n \in Nat /\ n < Len(h)
        BY <1>1, <3>3
      <3>5. Placing(place, b, h, n) /\ longer = Append(b, h[n + 1])
        BY <3>1, <3>2, <3>3
      <3>6. \E p : Placing(p, longer, h, n + 1)
        BY <3>4, <3>5, PlaceMore
      <3> QED
        BY <3>3, <3>6
    <2>4. \A i \in DOMAIN longer : p[i] \in Int
      BY <1>1, <2>3 DEF Placing
    <2>5. \A i \in DOMAIN longer : \A s \in frame'.todo : p[i] <= s.index
      BY <1>1, <1>2, <1>3, <2>3, <2>4 DEF Placing
    <2>6. Placed(p, header)'
      BY <2>2, <2>3, <2>5 DEF Placed, Placing
    <2> QED
      BY <2>6
  <1>5. Ahead(header)'
    BY <1>2 DEF Fetching, Ahead, DraftsWithUid
  <1>6. ASSUME q.source \in acked' \ doomed'
        PROVE  Complete(header)'
    <2>1. Complete(header)
      BY <1>6 DEF Fetching, history
    <2>2. k = Len(body)
      <3>1. Len(body) \in Nat /\ Len(header) \in Nat /\ Len(body) <= k
        BY <1>1, <2>1 DEF Complete
      <3>2. Len(body) \in Len(body) .. Len(header) - 1
        BY <1>1, <3>1
      <3>3. PICK s \in frame.todo : s.index = Len(body)
        BY <2>1, <3>2 DEF Complete
      <3> QED
        BY <1>1, <3>1, <3>3 DEF IsFirst
    <2>3. /\ Len(frame'.body) = k + 1 /\ DOMAIN frame'.body = 1 .. k + 1
          /\ \A i \in 1 .. k : frame'.body[i] = body[i] /\ i \in DOMAIN body
          /\ frame'.body[k + 1] = header[k + 1]
      <3>1. header[k + 1] \in Contents
        BY <1>1
      <3> HIDE DEF header
      <3> QED
        BY <1>1, <1>2, <2>2, <3>1
    <2>4. \A i \in 1 .. k + 1 : frame'.body[i] = header[i]
      <3>1. \A i \in 1 .. k + 1 : i \in 1 .. k \/ i = k + 1
        BY <1>1
      <3> QED
        BY <2>1, <2>3, <3>1 DEF Complete
    <2>5. ASSUME NEW i \in k + 1 .. Len(header) - 1
          PROVE  \E s \in frame'.todo : s.index = i
      <3>1. i \in Len(body) .. Len(header) - 1 /\ i # k
        BY <1>1, <2>2, <2>5
      <3> QED
        BY <1>2, <2>1, <3>1 DEF Complete
    <2> QED
      BY <1>1, <1>3, <2>3, <2>4, <2>5 DEF Complete
  <1> QED
    BY <1>4, <1>5, <1>6 DEF Fetching

(* SELECT on the chunks of the object that was looked up.                  *)
LEMMA FetchStart ==
    ASSUME Base, WholeObjectsInv, NEW q \in Request, Sane(q),
           q.op \in {"get", "copy"}, ChunksOf(q.source) # {}, frame.body = <<>>,
           frame' = [frame EXCEPT !.todo = ChunksOf(q.source)],
           UNCHANGED <<drafts, history>>
    PROVE  Fetching(q)'
  <1> DEFINE header == q.header
             rows == ChunksOf(q.source)
  <1>0. frame \in Frame /\ RefInv /\ TableInv /\ DBTypeOK
    BY BaseFacts
  <1>1. frame'.todo = rows /\ frame'.body = <<>> /\ header \in Seq(Contents)
    BY <1>0 DEF Frame, Request
  <1>2. PICK o \in objects : o.id = q.source
    BY <1>0 DEF RefInv, ChunksOf
  <1>3. o.data = header /\ \A p \in objects : p.id = q.source => p.bucket # buckets[RecycleBin]
    BY <1>2 DEF Sane
  <1>4. \A r \in rows : r.status = "active" /\ r \in ActiveRows(o.id) /\ r \in chunks
    <2>1. \A r \in rows : r.status # "free"
      BY <1>3 DEF ChunksOf, WholeObjectsInv, PoolInv, BinInv
    <2> QED
      BY <1>0, <1>2, <2>1 DEF ChunksOf, ActiveRows, DBTypeOK, ChunkRow
  <1>5. Ahead(header)'
    <2>1. \A r \in rows : r.index < Len(header) /\ r.hash = header[r.index + 1]
      BY <1>0, <1>3, <1>4 DEF TableInv, RowsMatchObject
    <2>2. \A r \in rows : \A d \in DraftsWithUid(r.uid) : d.data = r.hash
      BY <1>4, BaseFacts DEF UidsInv, DraftMatchesRow
    <2>3. \A r, s \in rows : r.index = s.index => r = s
      BY DEF ChunksOf, WholeObjectsInv, PoolInv, IndexInv
    <2> HIDE DEF rows, header
    <2> QED
      BY <1>1, <2>1, <2>2, <2>3 DEF Ahead, DraftsWithUid
  <1>6. \E place : Placed(place, header)'
    <2> DEFINE none == [i \in {} |-> 0]
    <2>1. DOMAIN frame'.body = {}
      BY <1>1
    <2>2. none \in [{} -> DOMAIN header]
      OBVIOUS
    <2>3. Placed(none, header)'
      BY <2>1, <2>2 DEF Placed
    <2> QED
      BY <2>3
  <1>7. ASSUME q.source \in acked' \ doomed'
        PROVE  Complete(header)'
    <2>1. IsWhole(o)
      BY <1>2, <1>7, BaseFacts DEF HistoryInv, AckedWhole, history
    <2>2. Len(header) \in Nat /\ \A r \in rows : r.index \in Nat
      BY <1>0, <1>1, <1>4 DEF DBTypeOK, ChunkRow
    <2>3. ASSUME NEW i \in 0 .. Len(header) - 1
          PROVE  \E r \in rows : r.index = i
      <3>1. i + 1 \in 1 .. Len(header) /\ (i + 1) - 1 = i
        BY <2>2, <2>3
      <3>2. PICK r \in ActiveRows(o.id) : r.index = (i + 1) - 1
        BY <1>3, <2>1, <3>1 DEF IsWhole
      <3> QED
        BY <1>2, <3>1, <3>2 DEF ActiveRows
    <2>4. Len(frame'.body) = 0 /\ DOMAIN frame'.body = {}
      BY <1>1
    <2> HIDE DEF rows, header
    <2> QED
      BY <1>1, <2>2, <2>3, <2>4 DEF Complete
  <1> QED
    BY <1>5, <1>6, <1>7 DEF Fetching

LEMMA DownloadStages ==
    ASSUME Base, Base', WholeObjectsInv, NEW c \in Clients, DownloadStep(c)
    PROVE  StageInv'
  <1>0. /\ pc[c] \in DownloadLabels /\ LockInv' /\ frame \in Frame
        /\ pc \in [Clients -> Labels] /\ req \in [Clients -> Request]
        /\ UNCHANGED <<dbVars, drafts, history>> /\ drafts \subseteq Draft
    BY BaseFacts
       DEF DownloadStep, DownloadListRows, DownloadFetch, DownloadDone,
           DownloadLabels, Base, TypeInv, TypeOK, mailboxVars
  <1>a. /\ holder = c /\ FetchStage(c) /\ Sane(req[c]) /\ req[c] \in Request
    BY <1>0, BaseFacts, HolderFact
       DEF PipelineLabels, WholeObjectsInv, StageInv, Stage, RequestInv
  <1>b. Leave(c) => StageInv'
    BY <1>0, <1>a, FreeStage DEF Leave
  <1>c. PICK q : q = req[c]
    OBVIOUS
  <1>d. ASSUME pc'[c] = "dl_fetch", Fetching(q)', req' = req, holder' = holder
        PROVE  StageInv'
    <2>1. Fetching(req[c])'
      BY <1>c, <1>d DEF Fetching
    <2>2. FetchStage(c)'
      BY <1>0, <1>a, <1>d, <2>1 DEF FetchStage
    <2>3. Stage(c)'
      BY <1>d, <2>2 DEF Stage, BinStage, VictimStage, LoopStage, VictimLabels,
                        DeleteLabels, BinLabels, LoopLabels, ChunkLabels
    <2> QED
      BY <1>0, <1>a, <1>d, <2>3, HolderStage
  <1>1. CASE DownloadListRows(c)
    <2>1. CASE ChunksOf(req[c].source) # {} /\ Goto(c, "dl_fetch")
               /\ frame' = [frame EXCEPT !.todo = ChunksOf(req[c].source)]
               /\ UNCHANGED <<req, holder>>
      <3>1. pc'[c] = "dl_fetch"
        BY <1>0, <2>1 DEF Goto
      <3>2. q.op \in {"get", "copy"} /\ frame.body = <<>>
        BY <1>0, <1>1, <1>a, <1>c DEF FetchStage, DownloadListRows
      <3>3. Fetching(q)'
        BY <1>0, <1>a, <1>c, <2>1, <3>2, FetchStart
      <3> QED
        BY <1>d, <2>1, <3>1, <3>3
    <2> QED
      BY <1>1, <1>b, <2>1 DEF DownloadListRows
  <1>2. CASE DownloadFetch(c)
    <2>1. pc[c] = "dl_fetch" /\ Fetching(q)
      BY <1>2, <1>a, <1>c DEF DownloadFetch, FetchStage
    <2>2. ASSUME NEW r \in frame.todo, IsFirst(r, frame.todo),
                 NEW d \in DraftsWithUid(r.uid),
                 frame' = [frame EXCEPT !.todo = @ \ {r}, !.body = Append(@, d.data)],
                 UNCHANGED <<pc, req, holder>>
          PROVE  StageInv'
      <3>1. Fetching(q)'
        BY <1>0, <1>a, <1>c, <2>1, <2>2, FetchMore
      <3> QED
        BY <1>d, <2>1, <2>2, <3>1
    <2> QED
      BY <1>2, <1>b, <2>2 DEF DownloadFetch
  <1>3. CASE DownloadDone(c)
    <2>1. CASE Goto(c, "find") /\ UNCHANGED holder
      <3>1. pc'[c] = "find"
        BY <1>0, <2>1 DEF Goto
      <3> QED
        BY <1>0, <1>a, <2>1, <3>1, VacantStage
    <2> QED
      BY <1>3, <1>b, <2>1 DEF DownloadDone
  <1> QED
    BY <1>1, <1>2, <1>3 DEF DownloadStep

(* Every step leaves the holder's answers true.                            *)
LEMMA NextStageInv ==
    ASSUME Base, Base', WholeObjectsInv, [Next]_vars, RecycleBin \notin BucketNames
    PROVE  StageInv'
  <1>0. LockInv' /\ StageInv
    BY DEF Base, TypeInv, WholeObjectsInv
  <1>1. Outside => StageInv'
    BY <1>0, OutsideKeepsStage
  <1>2. CASE UNCHANGED vars \/ \E n \in BucketNames : CreateBucket(n)
    BY <1>1, <1>2, OutsideSteps
  <1>3. CASE Restart
    BY <1>0, <1>3, FreeStage DEF Restart
  <1>4. ASSUME NEW c \in Clients, NewRequest(c) PROVE StageInv'
    BY <1>1, <1>4, OutsideSteps
  <1>5. ASSUME NEW c \in Clients, HandlerStep(c) PROVE StageInv'
    <2>1. CASE DeleteStep(c)
      BY <2>1, ListingStages, BinStages, MovingStages DEF DeleteStep
    <2>2. CASE Lock(c) \/ UploadStep(c) \/ DownloadStep(c)
      BY <2>2, LockStage, UploadStages, DownloadStages
    <2> QED
      BY <1>1, <1>5, <2>1, <2>2, OutsideSteps DEF HandlerStep
  <1>6. ASSUME NEW c \in Clients, FaultStep(c) PROVE StageInv'
    <2>1. CASE FailDelete(c)
      BY <2>1, AfterDeleteStage DEF FailDelete
    <2>2. CASE FailIgnored(c)
      BY <2>2, UploadStages
    <2>3. CASE FailAfterAppend(c)
      <3>1. pc[c] \in PipelineLabels
        BY <2>3 DEF FailAfterAppend, PipelineLabels, UploadLabels
      <3>2. holder = c
        BY <3>1, BaseFacts, HolderFact
      <3> QED
        BY <1>0, <2>3, <3>2, FreeStage DEF FailAfterAppend, Leave
    <2>4. CASE Abandon(c)
      <3>1. CASE holder = c
        BY <1>0, <2>4, <3>1, FreeStage DEF Abandon, Leave
      <3>2. CASE holder # c
        BY <1>1, <2>4, <3>2, OutsideSteps
      <3> QED
        BY <3>1, <3>2
    <2> QED
      BY <1>6, <2>1, <2>2, <2>3, <2>4 DEF FaultStep
  <1> QED
    BY <1>2, <1>3, <1>4, <1>5, <1>6 DEF Next

LEMMA BaseHolds == Spec => []Base
  <1>1. TypeInv /\ RowsInv /\ UidsInv => Base
    BY DEF Base
  <1> QED
    BY <1>1, TypeInvHolds, RowsInvHolds, UidsInvHolds, PTL

LEMMA WholeObjectsInvHolds ==
    ASSUME RecycleBin \notin BucketNames
    PROVE  Spec => []WholeObjectsInv
  <1>1. Init => WholeObjectsInv
    <2> SUFFICES ASSUME Init PROVE WholeObjectsInv
      OBVIOUS
    <2>1. PoolInv
      BY DEF Init, DBInit, PoolInv, BucketInv, BinInv, IndexInv, Names
    <2>2. RequestInv
      BY DEF Init, RequestInv, Sane, NoRequest
    <2>3. StageInv
      BY StageLabels, LabelFacts DEF Init, StageInv
    <2> QED
      BY <2>1, <2>2, <2>3 DEF WholeObjectsInv
  <1>2. Base /\ Base' /\ WholeObjectsInv /\ [Next]_vars => WholeObjectsInv'
    <2> SUFFICES ASSUME Base, Base', WholeObjectsInv, [Next]_vars
                 PROVE  WholeObjectsInv'
      OBVIOUS
    <2>1. PoolInv'
      BY NextTableStep, TableStepKeepsPool, BaseFacts DEF WholeObjectsInv
    <2> QED
      BY <2>1, NextRequestInv, NextStageInv DEF WholeObjectsInv
  <1> QED
    BY <1>1, <1>2, BaseHolds, PTL DEF Spec

-----------------------------------------------------------------------------
(* What download returns.                                                  *)

LEMMA FetchedAll ==
    ASSUME NEW b \in Seq(Contents), NEW h \in Seq(Contents), Len(b) <= Len(h),
           \A i \in DOMAIN b : b[i] = h[i],
           \A i \in Len(b) .. Len(h) - 1 : FALSE
    PROVE  b = h
  <1>1. Len(b) \in Nat /\ Len(h) \in Nat /\ DOMAIN b = 1 .. Len(b)
    OBVIOUS
  <1>2. Len(b) = Len(h)
    <2>1. Len(b) < Len(h) => Len(b) \in Len(b) .. Len(h) - 1
      BY <1>1
    <2> QED
      BY <1>1, <2>1
  <1> QED
    BY <1>1, <1>2, SeqEqual

(* download() never returns bytes of another object or in another order,   *)
(* and returns every byte of an acknowledged object that nobody deleted    *)
(* since it was looked up, although the look-up is made before the mutex   *)
(* is taken and rows are recycled and deleted in between.                  *)
THEOREM DownloadsAreFaithful ==
    ASSUME RecycleBin \notin BucketNames
    PROVE  Spec => []FaithfulFetch
  <1>1. Base /\ WholeObjectsInv => FaithfulFetch
    <2> SUFFICES ASSUME Base, WholeObjectsInv, NEW c \in Clients, Fetched(c)
                 PROVE  /\ IsSubsequence(frame.body, req[c].header)
                        /\ req[c].source \in acked \ doomed =>
                              frame.body = req[c].header
      BY DEF FaithfulFetch
    <2>1. Fetching(req[c]) /\ frame.todo = {}
      BY DEF Fetched, WholeObjectsInv, StageInv, Stage, FetchStage
    <2>2. frame.body \in Seq(Contents) /\ req[c].header \in Seq(Contents)
      BY BaseFacts DEF Frame, Request
    <2>3. IsSubsequence(frame.body, req[c].header)
      BY <2>1 DEF Fetching, Placed, IsSubsequence
    <2>4. ASSUME req[c].source \in acked \ doomed
          PROVE  frame.body = req[c].header
      <3>1. PICK b, h : b = frame.body /\ h = req[c].header
        OBVIOUS
      <3>2. /\ b \in Seq(Contents) /\ h \in Seq(Contents) /\ Len(b) <= Len(h)
            /\ \A i \in DOMAIN b : b[i] = h[i]
            /\ \A i \in Len(b) .. Len(h) - 1 : FALSE
        BY <2>1, <2>2, <2>4, <3>1 DEF Fetching, Complete
      <3> QED
        BY <3>1, <3>2, FetchedAll
    <2> QED
      BY <2>3, <2>4
  <1> QED
    BY <1>1, BaseHolds, WholeObjectsInvHolds, PTL

-----------------------------------------------------------------------------
(* No object stays half written or half deleted.                           *)

AllWhole == \A o \in objects : IsWhole(o) \/ InProgress(o.id)

(* Which object is in progress is for the holder to say.                   *)
LEMMA HolderProgress ==
    ASSUME Base, NEW c \in Clients, holder = c, NEW id
    PROVE  InProgress(id) <=> \/ pc[c] \in LoopLabels /\ id = frame.obj
                              \/ pc[c] \in VictimLabels /\ id = frame.victim
  <1>1. \A x \in Clients : pc[x] \in PipelineLabels => x = c
    BY BaseFacts DEF LockInv
  <1> QED
    BY <1>1, RowLabels DEF InProgress, At

LEMMA HolderProgressNext ==
    ASSUME Base', NEW c \in Clients, holder' = c, NEW id
    PROVE  InProgress(id)' <=> \/ pc'[c] \in LoopLabels /\ id = frame'.obj
                               \/ pc'[c] \in VictimLabels /\ id = frame'.victim
  <1>1. \A x \in Clients : pc'[x] \in PipelineLabels => x = c
    BY DEF Base, TypeInv, LockInv
  <1> QED
    BY <1>1, RowLabels DEF InProgress, At

LEMMA NothingInProgress ==
    ASSUME Base, holder = NoClient, NEW id
    PROVE  ~InProgress(id)
  <1>1. \A x \in Clients : pc[x] \notin PipelineLabels
    BY BaseFacts, PipelineAssumption DEF LockInv
  <1> QED
    BY <1>1, RowLabels DEF InProgress, At

(* A step that takes rows only from what it goes on deleting.              *)
LEMMA ShrinkingKeepsWhole ==
    ASSUME Base, AllWhole, NEW X, Shrinks(X),
           \A o \in objects' :
              o.id \in X \/ InProgress(o.id) => InProgress(o.id)' \/ IsWhole(o)'
    PROVE  AllWhole'
  <1> SUFFICES ASSUME NEW o \in objects', o.id \notin X, ~InProgress(o.id)
               PROVE  IsWhole(o)'
    BY DEF AllWhole
  <1>1. IsWhole(o)
    BY DEF AllWhole, Shrinks
  <1>2. ActiveRows(o.id)' = ActiveRows(o.id)
    BY ShrinkingKeepsRows, BaseFacts
  <1> QED
    BY <1>1, <1>2 DEF IsWhole

LEMMA QuietKeepsWhole ==
    ASSUME Base, AllWhole, UNCHANGED dbVars,
           \A o \in objects : InProgress(o.id) => InProgress(o.id)' \/ IsWhole(o)
    PROVE  AllWhole'
  <1>1. /\ objects' = objects
        /\ \A o \in objects : IsWhole(o)' <=> IsWhole(o)
    BY DEF dbVars, IsWhole, ActiveRows, ChunksOf
  <1> QED
    BY <1>1 DEF AllWhole

(* One more object, or one more row: nothing that was whole loses a row.   *)
LEMMA GrowingKeepsWhole ==
    ASSUME AllWhole, chunks \subseteq chunks',
           \A o \in objects' : (o \in objects /\ ~InProgress(o.id))
                                  \/ IsWhole(o)' \/ InProgress(o.id)'
    PROVE  AllWhole'
  <1>1. \A o \in objects : IsWhole(o) => IsWhole(o)'
    BY DEF IsWhole, ActiveRows, ChunksOf
  <1> QED
    BY <1>1 DEF AllWhole

(* The steps that are not of the holder.                                   *)
LEMMA OutsideWhole ==
    ASSUME Base, Base', AllWhole, Outside
    PROVE  AllWhole'
  <1>1. Shrinks({})
    <2>1. RefInv'
      BY DEF Base, RowsInv, TableInv
    <2> QED
      BY <2>1 DEF Outside, KeepsLive, Shrinks
  <1>2. \A x \in Clients : pc[x] \in PipelineLabels => pc'[x] = pc[x]
    <2>1. LockInv /\ LockInv' /\ holder' = holder
      BY BaseFacts DEF Base, TypeInv, Outside
    <2> QED
      BY <2>1 DEF LockInv, Outside
  <1>3. \A id : InProgress(id) => InProgress(id)'
    BY <1>2, RowLabels DEF InProgress, At, Outside
  <1> QED
    BY <1>1, <1>3, ShrinkingKeepsWhole

LEMMA ListingWhole ==
    ASSUME Base, Base', WholeObjectsInv, AllWhole, NEW c \in Clients,
           FindVictim(c) \/ DeleteListRows(c) \/ DeleteNextRow(c)
    PROVE  AllWhole'
  <1>0. /\ pc[c] \in DeleteLabels /\ holder = c /\ pc \in [Clients -> Labels]
        /\ frame \in Frame /\ UNCHANGED dbVars
    BY BaseFacts, InDelete
       DEF FindVictim, DeleteListRows, DeleteNextRow, DeleteLabels
  <1>1. CASE FindVictim(c)
    <2>1. pc[c] \notin LoopLabels \cup VictimLabels
      BY <1>1, RowLabels DEF FindVictim
    <2>2. \A o \in objects : ~InProgress(o.id)
      BY <1>0, <2>1, HolderProgress
    <2> QED
      BY <1>0, <2>2, QuietKeepsWhole
  <1>2. CASE DeleteListRows(c) \/ DeleteNextRow(c)
    <2>1. /\ pc[c] \in VictimLabels /\ pc'[c] \in VictimLabels
          /\ frame'.victim = frame.victim /\ holder' = c
      BY <1>0, <1>2 DEF DeleteListRows, DeleteNextRow, Goto, Frame, VictimLabels,
                        DeleteLabels
    <2>2. pc[c] \notin LoopLabels
      BY <2>1, RowLabels
    <2>3. \A o \in objects : InProgress(o.id) => InProgress(o.id)'
      BY <1>0, <2>1, <2>2, HolderProgress, HolderProgressNext
    <2> QED
      BY <1>0, <2>3, QuietKeepsWhole
  <1> QED
    BY <1>1, <1>2

LEMMA BinWhole ==
    ASSUME Base, Base', WholeObjectsInv, AllWhole, NEW c \in Clients,
           BinFindBucket(c) \/ BinMakeBucket(c) \/ BinFindObject(c) \/ BinMakeObject(c)
    PROVE  AllWhole'
  <1>0. /\ pc[c] \in VictimLabels /\ pc[c] \notin LoopLabels
        /\ pc \in [Clients -> Labels] /\ frame \in Frame
    BY RowLabels, BaseFacts DEF BinFindBucket, BinMakeBucket, BinFindObject,
                                BinMakeObject, BinLabels
  <1>a. /\ holder = c /\ BinStage(c) /\ RecycleBin \in Names
        /\ BucketExists(buckets[RecycleBin]) <=> buckets[RecycleBin] # NoId
    BY <1>0, InDeleteStage DEF Names
  <1>b. ASSUME pc'[c] \in VictimLabels, frame'.victim = frame.victim, holder' = holder
        PROVE  \A id : InProgress(id) => InProgress(id)'
    BY <1>0, <1>a, <1>b, HolderProgress, HolderProgressNext
  <1>1. CASE BinFindBucket(c) \/ BinFindObject(c)
    <2>1. /\ pc'[c] \in VictimLabels /\ frame'.victim = frame.victim
          /\ holder' = holder /\ UNCHANGED dbVars
      BY <1>0, <1>1 DEF BinFindBucket, BinFindObject, Goto, Frame, VictimLabels,
                        DeleteLabels
    <2> QED
      BY <1>b, <2>1, QuietKeepsWhole
  <1>2. CASE BinMakeBucket(c)
    <2>1. CanInsertBucket(RecycleBin)
      BY <1>2, <1>a DEF BinMakeBucket, BinStage, CanInsertBucket
    <2>2. /\ InsertBucket(RecycleBin) /\ Goto(c, "bin_object")
          /\ frame' = [frame EXCEPT !.bin = nextId] /\ holder' = holder
      BY <1>2, <2>1 DEF BinMakeBucket
    <2>3. /\ pc'[c] \in VictimLabels /\ frame'.victim = frame.victim
          /\ UNCHANGED <<objects, chunks>>
      BY <1>0, <2>2 DEF InsertBucket, Goto, Frame, VictimLabels, DeleteLabels
    <2>4. chunks \subseteq chunks'
      BY <2>3
    <2>5. \A o \in objects' : (o \in objects /\ ~InProgress(o.id))
                                  \/ IsWhole(o)' \/ InProgress(o.id)'
      BY <1>b, <2>2, <2>3
    <2> QED
      BY <2>4, <2>5, GrowingKeepsWhole
  <1>3. CASE BinMakeObject(c)
    <2>1. CanInsertObject(frame.bin, RecycleKey)
      BY <1>3, <1>a DEF BinMakeObject, BinStage, CanInsertObject
    <2>2. /\ InsertObject(frame.bin, RecycleKey, <<>>) /\ Goto(c, "bin_move")
          /\ frame' = [frame EXCEPT !.bin = nextId] /\ holder' = holder
      BY <1>3, <2>1 DEF BinMakeObject
    <2> DEFINE new == [id |-> nextId, bucket |-> frame.bin, key |-> RecycleKey,
                       data |-> <<>>]
    <2>3. /\ pc'[c] \in VictimLabels /\ frame'.victim = frame.victim
          /\ chunks' = chunks /\ objects' = objects \cup {new}
      BY <1>0, <2>2 DEF InsertObject, Goto, Frame, VictimLabels, DeleteLabels
    <2>4. ASSUME NEW o, o = new PROVE IsWhole(o)'
      BY <2>4 DEF IsWhole
    <2>5. chunks \subseteq chunks'
      BY <2>3
    <2> HIDE DEF new
    <2>6. \A o \in objects' : (o \in objects /\ ~InProgress(o.id))
                                  \/ IsWhole(o)' \/ InProgress(o.id)'
      BY <1>b, <2>2, <2>3, <2>4
    <2> QED
      BY <2>5, <2>6, GrowingKeepsWhole
  <1> QED
    BY <1>1, <1>2, <1>3

(* Moving a row cannot fail but for a victim that is gone: the bin's rows  *)
(* are free, and their indices have been used before.                      *)
LEMMA MoveWhole ==
    ASSUME Base, Base', WholeObjectsInv, AllWhole, NEW c \in Clients, BinMoveRow(c)
    PROVE  AllWhole'
  <1>0. /\ pc[c] = "bin_move" /\ pc[c] \in VictimLabels /\ pc[c] \in BinLabels
        /\ pc[c] \notin LoopLabels /\ pc \in [Clients -> Labels] /\ frame \in Frame
    BY RowLabels, BaseFacts DEF BinMoveRow, BinLabels
  <1>a. /\ holder = c /\ BinStage(c) /\ VictimStage(c) /\ DBTypeOK /\ PoolInv
        /\ TableInv /\ nextId \in Nat
        /\ \A r \in frame.row : r.object = frame.victim /\ r \in ChunkRow
    BY <1>0, InDeleteStage, BaseFacts, InDelete DEF Frame
  <1>1. PICK r \in frame.row :
          \/ /\ MoveChunk(r, frame.bin, nextId)
             /\ nextId' = nextId + 1
             /\ Goto(c, "del_next")
             /\ frame' = [frame EXCEPT !.row = {}, !.bin = NoId]
             /\ UNCHANGED holder
          \/ /\ ~CanMoveChunk(r, frame.bin, nextId)
             /\ UNCHANGED dbVars
    BY <1>0 DEF BinMoveRow
  <1>2. CASE MoveChunk(r, frame.bin, nextId) /\ nextId' = nextId + 1
             /\ Goto(c, "del_next") /\ UNCHANGED holder
             /\ frame' = [frame EXCEPT !.row = {}, !.bin = NoId]
    <2>0. PICK v : v = frame.victim
      OBVIOUS
    <2>1. Shrinks({v})
      BY <1>0, <1>2, <1>a, <2>0, BaseFacts, StatementsShrink DEF Frame
    <2>2. pc'[c] = "del_next" /\ frame'.victim = v
      BY <1>0, <1>2, <2>0 DEF Goto, Frame
    <2>3. InProgress(v)' /\ \A id : InProgress(id) => id = v
      BY <1>0, <1>2, <1>a, <2>0, <2>2, RowLabels, HolderProgress, HolderProgressNext
    <2> QED
      BY <2>1, <2>3, ShrinkingKeepsWhole
  <1>3. CASE ~CanMoveChunk(r, frame.bin, nextId) /\ UNCHANGED dbVars
    <2>1. PICK b \in objects : b.id = frame.bin /\ b.bucket = buckets[RecycleBin]
      BY <1>0, <1>a DEF BinStage
    <2>2. b.data = <<>>
      BY <1>a, <2>1 DEF PoolInv, BinInv
    <2>3. ASSUME NEW s \in ChunksOf(frame.bin) PROVE s.index # nextId
      <3>1. s \in chunks /\ s.object = b.id /\ s.index \in Nat
            /\ s.status \in {"active", "free"}
        BY <1>a, <2>1 DEF ChunksOf, DBTypeOK, ChunkRow
      <3>2. s.status = "active" => s.index < Len(b.data)
        BY <1>a, <3>1 DEF TableInv, RowsMatchObject, ActiveRows, ChunksOf
      <3>3. s.status = "free"
        BY <2>2, <3>1, <3>2
      <3> QED
        BY <1>a, <3>1, <3>3 DEF PoolInv, BinInv
    <2>4. CanInsertChunk(frame.bin, nextId)
      BY <2>1, <2>3 DEF CanInsertChunk
    <2>5. ~\E o \in objects : o.id = frame.victim
      BY <1>0, <1>3, <1>a, <2>4 DEF CanMoveChunk, VictimStage, Listed
    <2>6. \A o \in objects : ~InProgress(o.id)
      BY <1>0, <1>a, <2>5, HolderProgress
    <2> QED
      BY <1>3, <2>6, QuietKeepsWhole
  <1> QED
    BY <1>1, <1>2, <1>3

LEMMA DeletionWhole ==
    ASSUME Base, Base', WholeObjectsInv, AllWhole, NEW c \in Clients,
           DeleteRows(c) \/ DeleteVictim(c)
    PROVE  AllWhole'
  <1>0. /\ pc[c] \in VictimLabels /\ pc[c] \notin LoopLabels
        /\ pc \in [Clients -> Labels] /\ DBTypeOK /\ RefInv
    BY RowLabels, BaseFacts DEF DeleteRows, DeleteVictim, VictimLabels, DeleteLabels
  <1>a. holder = c
    BY <1>0, InDeleteStage
  <1>b. \A id : InProgress(id) => id = frame.victim
    BY <1>0, <1>a, HolderProgress
  <1>1. CASE DeleteRows(c)
    <2>1. PICK id : id = frame.victim
      OBVIOUS
    <2>2. /\ pc'[c] = "del_object" /\ frame'.victim = id /\ holder' = c
          /\ Shrinks({id})
      BY <1>0, <1>1, <1>a, <2>1, StatementsShrink DEF DeleteRows, Goto
    <2>3. pc'[c] \in VictimLabels
      BY <2>2 DEF VictimLabels, DeleteLabels
    <2>4. InProgress(id)'
      BY <2>2, <2>3, HolderProgressNext
    <2> QED
      BY <1>b, <2>1, <2>2, <2>4, ShrinkingKeepsWhole
  <1>2. CASE DeleteVictim(c)
    <2>1. PICK id : id = frame.victim
      OBVIOUS
    <2>2. DeleteObjectRow(id) /\ Shrinks({id})
      BY <1>0, <1>2, <2>1, StatementsShrink DEF DeleteVictim
    <2>3. \A o \in objects' : o.id # id
      BY <2>2 DEF DeleteObjectRow
    <2> QED
      BY <1>b, <2>1, <2>2, <2>3, ShrinkingKeepsWhole
  <1> QED
    BY <1>1, <1>2

LEMMA InsertWhole ==
    ASSUME Base, Base', WholeObjectsInv, AllWhole, NEW c \in Clients,
           UploadInsertObject(c)
    PROVE  AllWhole'
  <1>0. /\ pc[c] = "up_insert" /\ pc[c] \notin LoopLabels \cup VictimLabels
        /\ pc[c] \in PipelineLabels /\ pc \in [Clients -> Labels] /\ frame \in Frame
    BY RowLabels, BaseFacts DEF UploadInsertObject, PipelineLabels, UploadLabels
  <1>a. holder = c
    BY <1>0, BaseFacts, HolderFact
  <1>b. \A id : ~InProgress(id)
    BY <1>0, <1>a, HolderProgress
  <1>1. CASE UNCHANGED dbVars
    BY <1>1, <1>b, QuietKeepsWhole
  <1>2. CASE InsertObject(req[c].bucket, req[c].key, frame.body)
             /\ Goto(c, "up_next") /\ UNCHANGED holder
             /\ frame' = [frame EXCEPT !.obj = nextId]
    <2> DEFINE new == [id |-> nextId, bucket |-> req[c].bucket, key |-> req[c].key,
                       data |-> frame.body]
    <2>1. /\ objects' = objects \cup {new} /\ chunks' = chunks
          /\ pc'[c] \in LoopLabels /\ frame'.obj = nextId /\ holder' = c
      BY <1>0, <1>2, <1>a DEF InsertObject, Goto, Frame, LoopLabels
    <2>2. new.id = nextId
      OBVIOUS
    <2> HIDE DEF new
    <2>3. ASSUME NEW id, id = nextId PROVE InProgress(id)'
      BY <2>1, <2>3, HolderProgressNext
    <2>4. \A o \in objects' : (o \in objects /\ ~InProgress(o.id))
                                  \/ IsWhole(o)' \/ InProgress(o.id)'
      BY <1>b, <2>1, <2>2, <2>3
    <2>5. chunks \subseteq chunks'
      BY <2>1
    <2> QED
      BY <2>4, <2>5, GrowingKeepsWhole
  <1> QED
    BY <1>1, <1>2 DEF UploadInsertObject

(* The INSERT of a row cannot fail but for an object that is gone: no      *)
(* active row of it is that far, and its free rows are of the bin.         *)
LEMMA RecordWhole ==
    ASSUME Base, Base', WholeObjectsInv, AllWhole, NEW c \in Clients, UploadRecord(c)
    PROVE  AllWhole'
  <1>0. /\ pc[c] = "up_record" /\ pc[c] \in LoopLabels /\ pc[c] \notin VictimLabels
        /\ pc \in [Clients -> Labels] /\ frame \in Frame
    BY RowLabels, BaseFacts DEF UploadRecord, LoopLabels, ChunkLabels
  <1>a. /\ holder = c /\ Written /\ LoopStage(c) /\ DBTypeOK /\ PoolInv /\ IdInv
        /\ frame.pos \in Nat
    BY <1>0, BaseFacts, InLoop
       DEF WholeObjectsInv, StageInv, Stage, Frame
  <1>b. \A id : InProgress(id) => id = frame.obj
    BY <1>0, <1>a, HolderProgress
  <1>1. CASE InsertChunk(CurrentRow) /\ Goto(c, "up_next") /\ UNCHANGED holder
             /\ frame' = [frame EXCEPT !.pos = @ + 1, !.uid = 0, !.row = {}]
    <2>1. /\ chunks \subseteq chunks' /\ objects' = objects
          /\ pc'[c] \in LoopLabels /\ frame'.obj = frame.obj /\ holder' = c
      BY <1>0, <1>1, <1>a DEF InsertChunk, Goto, Frame, LoopLabels
    <2>2. \A id : InProgress(id) => InProgress(id)'
      BY <1>b, <2>1, HolderProgressNext
    <2> QED
      BY <2>1, <2>2, GrowingKeepsWhole
  <1>2. CASE ~CanInsertChunk(frame.obj, frame.pos) /\ UNCHANGED dbVars
    <2>1. ASSUME NEW o \in objects, o.id = frame.obj PROVE FALSE
      <3>1. PICK r \in ChunksOf(frame.obj) : r.index = frame.pos
        BY <1>2, <2>1 DEF CanInsertChunk
      <3>2. r \in chunks /\ r.object = o.id /\ r.status \in {"active", "free"}
        BY <1>a, <2>1 DEF ChunksOf, DBTypeOK, ChunkRow
      <3>3. CASE r.status = "active"
        <4>1. r.index < frame.pos
          BY <1>a, <2>1, <3>2, <3>3 DEF Written, ActiveRows, ChunksOf
        <4> QED
          BY <1>a, <3>1, <4>1
      <3>4. CASE r.status = "free"
        <4>1. PICK p \in objects : p.id = r.object /\ p.bucket = buckets[RecycleBin]
          BY <1>a, <3>2, <3>4 DEF PoolInv, BinInv
        <4>2. p.id = frame.obj
          BY <2>1, <3>2, <4>1
        <4> QED
          BY <1>0, <1>a, <4>1, <4>2 DEF LoopStage
      <3> QED
        BY <3>2, <3>3, <3>4
    <2>2. \A o \in objects : ~InProgress(o.id)
      BY <1>b, <2>1
    <2> QED
      BY <1>2, <2>2, QuietKeepsWhole
  <1> QED
    BY <1>1, <1>2 DEF UploadRecord

(* upload ends when every chunk has its row.                               *)
LEMMA DoneWhole ==
    ASSUME Base, Base', AllWhole, NEW c \in Clients, UploadDone(c)
    PROVE  AllWhole'
  <1>0. /\ pc[c] \in LoopLabels /\ pc[c] \notin VictimLabels
        /\ frame.pos = Len(frame.body) /\ UNCHANGED dbVars
    BY RowLabels DEF UploadDone, LoopLabels
  <1>a. holder = c /\ Written /\ frame \in Frame
    BY <1>0, BaseFacts, InLoop
  <1>1. \A id : InProgress(id) => id = frame.obj
    BY <1>0, <1>a, HolderProgress
  <1>2. ASSUME NEW o \in objects, o.id = frame.obj PROVE IsWhole(o)
    <2>1. /\ o.data = frame.body /\ Len(frame.body) \in Nat
          /\ \A i \in 0 .. frame.pos - 1 : \E r \in ActiveRows(o.id) : r.index = i
      BY <1>a, <1>2 DEF Written, Frame
    <2>2. ASSUME NEW i \in 1 .. Len(o.data)
          PROVE  \E r \in ActiveRows(o.id) : r.index = i - 1
      <3>1. i - 1 \in 0 .. frame.pos - 1
        BY <1>0, <2>1
      <3> QED
        BY <2>1, <3>1
    <2> QED
      BY <2>2 DEF IsWhole
  <1> QED
    BY <1>0, <1>1, <1>2, QuietKeepsWhole

LEMMA LoopWhole ==
    ASSUME Base, Base', AllWhole, NEW c \in Clients,
           UploadDedup(c) \/ UploadFindFree(c) \/ UploadCreateDraft(c)
           \/ UploadDeleteDraft(c) \/ UploadDropFreeRow(c)
    PROVE  AllWhole'
  <1>0. /\ pc[c] \in LoopLabels /\ pc[c] \notin VictimLabels
        /\ pc \in [Clients -> Labels] /\ frame \in Frame
    BY RowLabels, BaseFacts
       DEF UploadDedup, UploadFindFree, UploadCreateDraft, UploadDeleteDraft,
           UploadDropFreeRow, LoopLabels, ChunkLabels
  <1>a. /\ holder = c /\ DBTypeOK /\ RefInv
        /\ pc[c] \in SlotLabels => \A r \in frame.row : r.status = "free"
    BY <1>0, BaseFacts, InLoop
  <1>1. holder' = holder /\ frame'.obj = frame.obj /\ pc'[c] \in LoopLabels
    BY <1>0
       DEF UploadDedup, UploadFindFree, UploadCreateDraft, UploadDeleteDraft,
           UploadDropFreeRow, Goto, Frame, LoopLabels, ChunkLabels
  <1>2. \A id : InProgress(id) => InProgress(id)'
    BY <1>0, <1>a, <1>1, HolderProgress, HolderProgressNext
  <1>3. CASE UploadDropFreeRow(c)
    <2>1. \A r \in frame.row : r.status = "free"
      BY <1>3, <1>a DEF UploadDropFreeRow, SlotLabels
    <2>2. Shrinks({})
      BY <1>3, <1>a, <2>1, StatementsShrink DEF UploadDropFreeRow
    <2> QED
      BY <1>2, <2>2, ShrinkingKeepsWhole
  <1>4. CASE UNCHANGED dbVars
    BY <1>2, <1>4, QuietKeepsWhole
  <1> QED
    BY <1>3, <1>4 DEF UploadDedup, UploadFindFree, UploadCreateDraft, UploadDeleteDraft

LEMMA DownloadWhole ==
    ASSUME Base, Base', AllWhole, NEW c \in Clients, DownloadStep(c)
    PROVE  AllWhole'
  <1>1. /\ pc[c] \in DownloadLabels /\ UNCHANGED dbVars
        /\ pc[c] \notin LoopLabels \cup VictimLabels /\ pc[c] \in PipelineLabels
    BY RowLabels DEF DownloadStep, DownloadListRows, DownloadFetch, DownloadDone,
                     DownloadLabels, PipelineLabels
  <1>2. holder = c
    BY <1>1, BaseFacts, HolderFact
  <1>3. \A id : ~InProgress(id)
    BY <1>1, <1>2, HolderProgress
  <1> QED
    BY <1>1, <1>3, QuietKeepsWhole

LEMMA NextWhole ==
    ASSUME Base, Base', WholeObjectsInv, WholeInv, [Next]_vars,
           RecycleBin \notin BucketNames
    PROVE  WholeInv'
  <1>1. SUFFICES ASSUME faults' = 0 PROVE AllWhole'
    BY DEF WholeInv, AllWhole
  <1>2. faults \in Nat
    BY BaseFacts DEF TypeInv, TypeOK
  <1>3. ~Fault
    BY <1>1, <1>2 DEF Fault
  <1>4. ~Restart /\ \A c \in Clients : ~FaultStep(c)
    BY <1>3 DEF Restart, FaultStep, FailDelete, FailIgnored, FailAfterAppend, Abandon
  <1>5. ASSUME faults' = faults, Outside PROVE AllWhole'
    BY <1>1, <1>5, OutsideWhole DEF WholeInv, AllWhole
  <1>6. CASE UNCHANGED vars \/ \E n \in BucketNames : CreateBucket(n)
    BY <1>5, <1>6, OutsideSteps DEF vars, bounds, CreateBucket
  <1>7. ASSUME NEW c \in Clients, NewRequest(c) PROVE AllWhole'
    BY <1>5, <1>7, OutsideSteps
       DEF NewRequest, DeleteBucket, PutObject, GetObject, DeleteObject, CopyObject,
           Issue
  <1>8. ASSUME NEW c \in Clients, HandlerStep(c) PROVE AllWhole'
    <2>1. CASE RemoveBucket(c) \/ \E n \in BucketNames, k \in Keys :
                                     CopyDestination(c, n, k)
      BY <1>5, <2>1, OutsideSteps DEF RemoveBucket, CopyDestination, bounds
    <2>2. ASSUME faults' = faults PROVE AllWhole
      BY <1>1, <2>2 DEF WholeInv, AllWhole
    <2>3. CASE Lock(c)
      <3>1. AllWhole /\ UNCHANGED dbVars /\ \A id : ~InProgress(id)
        BY <2>2, <2>3, NothingInProgress DEF Lock, bounds
      <3> QED
        BY <3>1, QuietKeepsWhole
    <2>4. CASE DeleteStep(c)
      <3>1. AllWhole
        BY <2>2, <2>4
           DEF DeleteStep, FindVictim, DeleteListRows, DeleteNextRow,
               BinFindBucket, BinMakeBucket, BinFindObject, BinMakeObject,
               BinMoveRow, DeleteRows, DeleteVictim, bounds
      <3> QED
        BY <2>4, <3>1, ListingWhole, BinWhole, MoveWhole, DeletionWhole
           DEF DeleteStep
    <2>5. CASE UploadStep(c)
      <3>1. AllWhole
        BY <2>2, <2>5
           DEF UploadStep, UploadInsertObject, UploadDedup, UploadFindFree,
               UploadCreateDraft, UploadDeleteDraft, UploadDropFreeRow,
               UploadRecord, UploadDone, bounds
      <3> QED
        BY <2>5, <3>1, InsertWhole, RecordWhole, DoneWhole, LoopWhole
           DEF UploadStep
    <2>6. CASE DownloadStep(c)
      <3>1. AllWhole
        BY <2>2, <2>6 DEF DownloadStep, DownloadListRows, DownloadFetch,
                          DownloadDone, bounds
      <3> QED
        BY <2>6, <3>1, DownloadWhole
    <2> QED
      BY <1>8, <2>1, <2>3, <2>4, <2>5, <2>6 DEF HandlerStep
  <1> QED
    BY <1>4, <1>6, <1>7, <1>8 DEF Next

(* pipeline.rs: when no call failed and the mutex is free, every object    *)
(* has a row for every chunk of its bytes, whatever uploads, overwrites,   *)
(* copies, deletions and bucket deletions ran beside each other: the       *)
(* unique index refuses no chunk row of upload and none that delete moves  *)
(* to a new index, and no look-up of the recycling bin is stale when it is *)
(* used.                                                                   *)
THEOREM ObjectsEndWhole ==
    ASSUME RecycleBin \notin BucketNames
    PROVE  Spec => []QuiescentWhole
  <1>1. Init => WholeInv
    BY DEF Init, DBInit, WholeInv
  <1>2. /\ Base /\ Base' /\ WholeObjectsInv /\ WholeInv /\ [Next]_vars
        => WholeInv'
    BY NextWhole
  <1>3. Base /\ WholeInv => QuiescentWhole
    BY NothingInProgress DEF WholeInv, QuiescentWhole
  <1> QED
    BY <1>1, <1>2, <1>3, BaseHolds, WholeObjectsInvHolds, PTL DEF Spec
=============================================================================
