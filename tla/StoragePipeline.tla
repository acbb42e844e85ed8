--------------------------- MODULE StoragePipeline ---------------------------
(***************************************************************************)
(* StoragePipeline (src/src/storage/pipeline.rs) and the S3 handlers that  *)
(* call it (src/src/s3/object.rs, src/src/s3/bucket.rs), over the tables   *)
(* of MetadataDB and the drafts folder of DraftMailbox.                    *)
(*                                                                         *)
(* A client is one in-flight HTTP request.  Its handler runs up to the     *)
(* next .await in one step; pc[c] names the call it awaits.  upload,       *)
(* download, delete and copy run under the pipeline mutex (holder), so     *)
(* their local variables exist once, in frame.  The handlers' own look-ups *)
(* run before the mutex is taken, and the bucket handlers never take it.   *)
(***************************************************************************)
EXTENDS MetadataDB, DraftMailbox

CONSTANTS
    Clients,        \* slots for concurrent requests
    NoClient,       \* the mutex is free
    Bodies,         \* the bodies clients upload, already cut by chunk_data
    MaxRequests,    \* bound: requests issued in a behaviour
    MaxFaults       \* bound: failed calls and cancelled requests

ASSUME PipelineAssumption ==
    /\ NoClient \notin Clients
    /\ Bodies \subseteq Seq(Contents)
    /\ MaxRequests \in Nat
    /\ MaxFaults \in Nat

VARIABLES
    pc,             \* what each client's handler awaits
    req,            \* its request, look-ups included
    holder,         \* who holds AppState.pipeline
    frame,          \* the locals of the pipeline call under way
    acked,          \* history: ids of objects whose upload was answered 200
    doomed,         \* history: ids of the objects delete() was called on
    issued,         \* requests issued so far
    faults          \* faults injected so far

clientVars == <<pc, req, holder, frame>>
history == <<acked, doomed>>
bounds == <<issued, faults>>
vars == <<dbVars, mailboxVars, clientVars, history, bounds>>

-----------------------------------------------------------------------------
(* The labels, grouped by the function whose call is awaited.              *)

DeleteLabels == {"find", "del_rows", "del_next", "del_object", "bin_bucket",
                 "bin_mkbucket", "bin_object", "bin_mkobject", "bin_move"}
DownloadLabels == {"dl_rows", "dl_fetch"}
UploadLabels == {"up_insert", "up_next", "up_pool", "up_draft", "up_expunge",
                 "up_unpool", "up_record"}
PipelineLabels == DeleteLabels \cup DownloadLabels \cup UploadLabels
Labels == PipelineLabels \cup {"idle", "copy_dest", "wait", "rm_bucket"}

Operations == {"none", "put", "get", "delete", "copy", "rm"}

(* bucket: the id found for the (destination) bucket name; source, header: *)
(* the object row that get_object and copy_object read before locking.     *)
Request == [op: Operations, bucket: Nat, key: ObjectKeys,
            header: Seq(Contents), source: Nat]

NoRequest == [op |-> "none", bucket |-> NoId, key |-> RecycleKey,
              header |-> <<>>, source |-> NoId]

(* body: the bytes being uploaded, or downloaded so far; todo: the chunk   *)
(* rows a loop has still to visit; row: the chunk row in hand, if any;     *)
(* victim, obj, bin: ids of the object being deleted, of the object being  *)
(* uploaded, of the recycling bucket and then object; pos, uid: index and  *)
(* draft of the chunk being uploaded.                                      *)
Frame == [body: Seq(Contents), todo: SUBSET ChunkRow, row: SUBSET ChunkRow,
          victim: Nat, obj: Nat, bin: Nat, pos: Nat, uid: Nat]

NoFrame == [body |-> <<>>, todo |-> {}, row |-> {}, victim |-> NoId,
            obj |-> NoId, bin |-> NoId, pos |-> 0, uid |-> 0]

Init ==
    /\ DBInit
    /\ MailboxInit
    /\ pc = [c \in Clients |-> "idle"]
    /\ req = [c \in Clients |-> NoRequest]
    /\ holder = NoClient
    /\ frame = NoFrame
    /\ acked = {}
    /\ doomed = {}
    /\ issued = 0
    /\ faults = 0

-----------------------------------------------------------------------------
(* Control helpers.                                                        *)

Goto(c, label) == pc' = [pc EXCEPT ![c] = label]

(* Mutation: the mutex guard outlives the handler.                         *)
LeaveLocked(c) ==
    /\ Goto(c, "idle")
    /\ req' = [req EXCEPT ![c] = NoRequest]
    /\ UNCHANGED <<holder, frame>>

(* The handler is over, by answering or by being dropped: the mutex guard  *)
(* goes with it.                                                           *)
Leave(c) ==
    /\ Goto(c, "idle")
    /\ req' = [req EXCEPT ![c] = NoRequest]
    /\ IF holder = c THEN holder' = NoClient /\ frame' = NoFrame
                     ELSE UNCHANGED <<holder, frame>>

(* delete() returned, with Ok or with Err: upload ignores which (.ok()),   *)
(* delete_object answers 204 or 500.                                       *)
AfterDelete(c) ==
    \/ /\ req[c].op \in {"put", "copy"}
       /\ Goto(c, "up_insert")
       /\ frame' = [frame EXCEPT !.todo = {}, !.row = {}, !.victim = NoId,
                                 !.bin = NoId]
       /\ UNCHANGED <<req, holder>>
    \/ /\ req[c].op = "delete"
       /\ Leave(c)

(* The content of the chunk upload is at, and the row it records for it.   *)
Current == frame.body[frame.pos + 1]

CurrentRow == [object |-> frame.obj, index |-> frame.pos, hash |-> Current,
               uid |-> frame.uid, status |-> "active"]

(* ChunkMetadata: the draft's subject.  The code fills the bucket field    *)
(* with the key.                                                           *)
CurrentSubject(c) == [bucket |-> req[c].key, key |-> req[c].key,
                      index |-> frame.pos, object |-> frame.obj]

-----------------------------------------------------------------------------
(* Requests.  A handler's look-ups that find nothing end it (404) without  *)
(* changing anything, so only those that succeed are steps.                *)

Issue(c, request, label) ==
    /\ pc[c] = "idle"
    /\ issued < MaxRequests
    /\ issued' = issued + 1
    /\ req' = [req EXCEPT ![c] = request]
    /\ Goto(c, label)
    /\ UNCHANGED <<dbVars, mailboxVars, holder, frame, history, faults>>

PutObject(c, n, k, d) ==
    /\ BucketExists(buckets[n])
    /\ Issue(c, [op |-> "put", bucket |-> buckets[n], key |-> k,
                 header |-> d, source |-> NoId], "wait")

GetObject(c, n, k) ==
    \E o \in ObjectsAt(buckets[n], k) :
        Issue(c, [op |-> "get", bucket |-> buckets[n], key |-> k,
                  header |-> o.data, source |-> o.id], "wait")

DeleteObject(c, n, k) ==
    /\ BucketExists(buckets[n])
    /\ Issue(c, [op |-> "delete", bucket |-> buckets[n], key |-> k,
                 header |-> <<>>, source |-> NoId], "wait")

(* copy_object looks up the source object, then the destination bucket.    *)
CopyObject(c, n, k) ==
    \E o \in ObjectsAt(buckets[n], k) :
        Issue(c, [op |-> "copy", bucket |-> NoId, key |-> k,
                  header |-> o.data, source |-> o.id], "copy_dest")

CopyDestination(c, n, k) ==
    /\ pc[c] = "copy_dest"
    /\ \/ /\ BucketExists(buckets[n])
          /\ Goto(c, "wait")
          /\ req' = [req EXCEPT ![c].bucket = buckets[n], ![c].key = k]
          /\ UNCHANGED <<holder, frame>>
       \/ /\ ~BucketExists(buckets[n])
          /\ Leave(c)
    /\ UNCHANGED <<dbVars, mailboxVars, history, bounds>>

(* create_bucket: the look-up and the INSERT amount to an insert-if-absent *)
(* (the unique name makes a lost race an error).                           *)
CreateBucket(n) ==
    /\ issued < MaxRequests
    /\ issued' = issued + 1
    /\ InsertBucket(n)
    /\ UNCHANGED <<mailboxVars, clientVars, history, faults>>

(* delete_bucket: counts the bucket's objects, and deletes the bucket in a *)
(* later statement.                                                        *)
DeleteBucket(c, n) ==
    /\ BucketExists(buckets[n])
    /\ \A o \in objects : o.bucket # buckets[n]
    /\ Issue(c, [op |-> "rm", bucket |-> buckets[n], key |-> RecycleKey,
                 header |-> <<>>, source |-> NoId], "rm_bucket")

RemoveBucket(c) ==
    /\ pc[c] = "rm_bucket"
    /\ DeleteBucketRow(req[c].bucket)
    /\ Leave(c)
    /\ UNCHANGED <<mailboxVars, history, bounds>>

(* state.pipeline.lock().await                                             *)
Lock(c) ==
    /\ pc[c] = "wait"
    /\ holder = NoClient
    /\ holder' = c
    /\ Goto(c, IF req[c].op \in {"get", "copy"} THEN "dl_rows" ELSE "find")
    /\ frame' = [NoFrame EXCEPT !.body =
                    IF req[c].op = "put" THEN req[c].header ELSE <<>>]
    /\ UNCHANGED <<dbVars, mailboxVars, req, history, bounds>>

-----------------------------------------------------------------------------
(* delete_by_key and delete.                                               *)

FindVictim(c) ==
    /\ pc[c] = "find"
    /\ \/ \E o \in ObjectsAt(req[c].bucket, req[c].key) :
            /\ Goto(c, "del_rows")
            /\ frame' = [frame EXCEPT !.victim = o.id]
            /\ doomed' = doomed \cup {o.id}
            /\ UNCHANGED <<req, holder>>
       \/ /\ ObjectsAt(req[c].bucket, req[c].key) = {}
          /\ AfterDelete(c)
          /\ UNCHANGED doomed
    /\ UNCHANGED <<dbVars, mailboxVars, acked, bounds>>

DeleteListRows(c) ==
    /\ pc[c] = "del_rows"
    /\ Goto(c, "del_next")
    /\ frame' = [frame EXCEPT !.todo = ChunksOf(frame.victim)]
    /\ UNCHANGED <<dbVars, mailboxVars, req, holder, history, bounds>>

(* The loop over the rows: a row whose hash other objects use goes to the  *)
(* recycling bin, the others are left to the final DELETE.                 *)
DeleteNextRow(c) ==
    /\ pc[c] = "del_next"
    /\ \E r \in frame.todo :
         \/ /\ OtherUsers(r.hash, frame.victim) # {}
            /\ Goto(c, "bin_bucket")
            /\ frame' = [frame EXCEPT !.todo = @ \ {r}, !.row = {r}]
         \/ /\ OtherUsers(r.hash, frame.victim) = {}
            /\ frame' = [frame EXCEPT !.todo = @ \ {r}]
            /\ UNCHANGED pc
    /\ UNCHANGED <<dbVars, mailboxVars, req, holder, history, bounds>>

(* get_or_create_recycling_object, four statements.                        *)
BinFindBucket(c) ==
    /\ pc[c] = "bin_bucket"
    /\ Goto(c, IF BucketExists(buckets[RecycleBin]) THEN "bin_object"
                                                    ELSE "bin_mkbucket")
    /\ frame' = [frame EXCEPT !.bin = buckets[RecycleBin]]
    /\ UNCHANGED <<dbVars, mailboxVars, req, holder, history, bounds>>

BinMakeBucket(c) ==
    /\ pc[c] = "bin_mkbucket"
    /\ \/ /\ InsertBucket(RecycleBin)
          /\ Goto(c, "bin_object")
          /\ frame' = [frame EXCEPT !.bin = nextId]
          /\ UNCHANGED <<req, holder>>
       \/ /\ ~CanInsertBucket(RecycleBin)
          /\ AfterDelete(c)
          /\ UNCHANGED dbVars
    /\ UNCHANGED <<mailboxVars, history, bounds>>

BinFindObject(c) ==
    /\ pc[c] = "bin_object"
    /\ \/ \E o \in ObjectsAt(frame.bin, RecycleKey) :
            /\ Goto(c, "bin_move")
            /\ frame' = [frame EXCEPT !.bin = o.id]
       \/ /\ ObjectsAt(frame.bin, RecycleKey) = {}
          /\ Goto(c, "bin_mkobject")
          /\ UNCHANGED frame
    /\ UNCHANGED <<dbVars, mailboxVars, req, holder, history, bounds>>

BinMakeObject(c) ==
    /\ pc[c] = "bin_mkobject"
    /\ \/ /\ InsertObject(frame.bin, RecycleKey, <<>>)
          /\ Goto(c, "bin_move")
          /\ frame' = [frame EXCEPT !.bin = nextId]
          /\ UNCHANGED <<req, holder>>
       \/ /\ ~CanInsertObject(frame.bin, RecycleKey)
          /\ AfterDelete(c)
          /\ UNCHANGED dbVars
    /\ UNCHANGED <<mailboxVars, history, bounds>>

(* The index of the moved row is made from the clock and the draft's UID.  *)
(* A fresh number stands for it; that two of them collide is one of the    *)
(* faults of FailDelete.                                                   *)
BinMoveRow(c) ==
    /\ pc[c] = "bin_move"
    /\ \E r \in frame.row :
         \/ /\ MoveChunk(r, frame.bin, nextId)
            /\ nextId' = nextId + 1
            /\ Goto(c, "del_next")
            /\ frame' = [frame EXCEPT !.row = {}, !.bin = NoId]
            /\ UNCHANGED <<req, holder>>
         \/ /\ ~CanMoveChunk(r, frame.bin, nextId)
            /\ AfterDelete(c)
            /\ UNCHANGED dbVars
    /\ UNCHANGED <<mailboxVars, history, bounds>>

(* delete_many by object_id, then delete_by_id.                            *)
DeleteRows(c) ==
    /\ pc[c] = "del_next"
    /\ frame.todo = {}
    /\ DeleteChunkRows(ChunksOf(frame.victim))
    /\ Goto(c, "del_object")
    /\ UNCHANGED <<mailboxVars, req, holder, frame, history, bounds>>

DeleteVictim(c) ==
    /\ pc[c] = "del_object"
    /\ DeleteObjectRow(frame.victim)
    /\ AfterDelete(c)
    /\ UNCHANGED <<mailboxVars, history, bounds>>

-----------------------------------------------------------------------------
(* upload, after delete_by_key.                                            *)

UploadInsertObject(c) ==
    /\ pc[c] = "up_insert"
    /\ \/ /\ InsertObject(req[c].bucket, req[c].key, frame.body)
          /\ Goto(c, "up_next")
          /\ frame' = [frame EXCEPT !.obj = nextId]
          /\ UNCHANGED <<req, holder>>
       \/ /\ ~CanInsertObject(req[c].bucket, req[c].key)
          /\ Leave(c)
          /\ UNCHANGED dbVars
    /\ UNCHANGED <<mailboxVars, history, bounds>>

(* Mutation: upload deduplicates within the object only.                   *)
DedupHitsOfObject == {r \in ActiveWithHash(Current) : r.object = frame.obj}

(* Deduplication: any active row with the hash lends its draft.            *)
DedupHits == ActiveWithHash(Current)

UploadDedup(c) ==
    /\ pc[c] = "up_next"
    /\ frame.pos < Len(frame.body)
    /\ \/ \E r \in DedupHits :
            /\ Goto(c, "up_record")
            /\ frame' = [frame EXCEPT !.uid = r.uid, !.row = {}]
       \/ /\ DedupHits = {}
          /\ Goto(c, "up_pool")
          /\ UNCHANGED frame
    /\ UNCHANGED <<dbVars, mailboxVars, req, holder, history, bounds>>

(* A free row, if there is one, is the slot to recycle.                    *)
UploadFindFree(c) ==
    /\ pc[c] = "up_pool"
    /\ Goto(c, "up_draft")
    /\ \/ \E r \in FreeChunks : frame' = [frame EXCEPT !.row = {r}]
       \/ /\ FreeChunks = {}
          /\ frame' = [frame EXCEPT !.row = {}]
    /\ UNCHANGED <<dbVars, mailboxVars, req, holder, history, bounds>>

UploadCreateDraft(c) ==
    /\ pc[c] = "up_draft"
    /\ AppendDraft(CurrentSubject(c), Current)
    /\ \E uid \in SearchHits(drafts', CurrentSubject(c)) :
         /\ IsNewest(uid, SearchHits(drafts', CurrentSubject(c)))
         /\ frame' = [frame EXCEPT !.uid = uid]
    /\ Goto(c, IF frame.row = {} THEN "up_record" ELSE "up_expunge")
    /\ UNCHANGED <<dbVars, req, holder, history, bounds>>

(* Mutation: the new draft is deleted in place of the old one.             *)
UploadDeleteNewDraft(c) ==
    /\ pc[c] = "up_expunge"
    /\ DeleteDraft(frame.uid)
    /\ Goto(c, "up_unpool")
    /\ UNCHANGED <<dbVars, req, holder, frame, history, bounds>>

UploadDeleteDraft(c) ==
    /\ pc[c] = "up_expunge"
    /\ \E r \in frame.row : DeleteDraft(r.uid)
    /\ Goto(c, "up_unpool")
    /\ UNCHANGED <<dbVars, req, holder, frame, history, bounds>>

UploadDropFreeRow(c) ==
    /\ pc[c] = "up_unpool"
    /\ DeleteChunkRows(frame.row)
    /\ Goto(c, "up_record")
    /\ UNCHANGED <<mailboxVars, req, holder, frame, history, bounds>>

UploadRecord(c) ==
    /\ pc[c] = "up_record"
    /\ \/ /\ InsertChunk(CurrentRow)
          /\ Goto(c, "up_next")
          /\ frame' = [frame EXCEPT !.pos = @ + 1, !.uid = 0, !.row = {}]
          /\ UNCHANGED <<req, holder>>
       \/ /\ ~CanInsertChunk(frame.obj, frame.pos)
          /\ Leave(c)
          /\ UNCHANGED dbVars
    /\ UNCHANGED <<mailboxVars, history, bounds>>

(* Mutation: the last chunk is not waited for.                             *)
UploadDoneEarly(c) ==
    /\ pc[c] = "up_next"
    /\ frame.pos + 1 >= Len(frame.body)
    /\ acked' = acked \cup {frame.obj}
    /\ Leave(c)
    /\ UNCHANGED <<dbVars, mailboxVars, doomed, bounds>>

(* Every chunk is recorded: 200 OK.                                        *)
UploadDone(c) ==
    /\ pc[c] = "up_next"
    /\ frame.pos = Len(frame.body)
    /\ acked' = acked \cup {frame.obj}
    /\ Leave(c)
    /\ UNCHANGED <<dbVars, mailboxVars, doomed, bounds>>

-----------------------------------------------------------------------------
(* download, for get_object and as the first half of copy.                 *)

DownloadListRows(c) ==
    /\ pc[c] = "dl_rows"
    /\ \/ /\ ChunksOf(req[c].source) # {}
          /\ Goto(c, "dl_fetch")
          /\ frame' = [frame EXCEPT !.todo = ChunksOf(req[c].source)]
          /\ UNCHANGED <<req, holder>>
       \/ /\ ChunksOf(req[c].source) = {}
          /\ Leave(c)
    /\ UNCHANGED <<dbVars, mailboxVars, history, bounds>>

(* Mutation: the query has no ORDER BY.                                    *)
IsAny(r, rows) == r \in rows

IsFirst(r, rows) == r \in rows /\ \A s \in rows : r.index <= s.index

(* get_draft on the next row; a UID that is gone is an error.              *)
DownloadFetch(c) ==
    /\ pc[c] = "dl_fetch"
    /\ \E r \in frame.todo :
         /\ IsFirst(r, frame.todo)
         /\ \/ \E d \in DraftsWithUid(r.uid) :
                 /\ frame' = [frame EXCEPT !.todo = @ \ {r},
                                           !.body = Append(@, d.data)]
                 /\ UNCHANGED <<pc, req, holder>>
            \/ /\ DraftsWithUid(r.uid) = {}
               /\ Leave(c)
    /\ UNCHANGED <<dbVars, mailboxVars, history, bounds>>

DownloadDone(c) ==
    /\ pc[c] = "dl_fetch"
    /\ frame.todo = {}
    /\ \/ /\ req[c].op = "copy"
          /\ Goto(c, "find")
          /\ UNCHANGED <<req, holder, frame>>
       \/ /\ req[c].op = "get"
          /\ Leave(c)
    /\ UNCHANGED <<dbVars, mailboxVars, history, bounds>>

-----------------------------------------------------------------------------
(* Faults.                                                                 *)

Fault ==
    /\ faults < MaxFaults
    /\ faults' = faults + 1
    /\ UNCHANGED issued

(* A call inside delete_by_key fails, and `?` returns from it.             *)
FailDelete(c) ==
    /\ Fault
    /\ pc[c] \in DeleteLabels
    /\ AfterDelete(c)
    /\ UNCHANGED <<dbVars, mailboxVars, history>>

(* The two calls whose error upload ignores: delete_draft, which may have  *)
(* flagged the message, or expunged those flagged before (it ignores the   *)
(* refusal of its STORE), and the DELETE of the free row.                  *)
FailIgnored(c) ==
    /\ Fault
    /\ \/ /\ pc[c] = "up_expunge"
          /\ Goto(c, "up_unpool")
          /\ \/ \E r \in frame.row : FlagDraft(r.uid)
             \/ ExpungeDrafts
             \/ UNCHANGED mailboxVars
       \/ /\ pc[c] = "up_unpool"
          /\ Goto(c, "up_record")
          /\ UNCHANGED mailboxVars
    /\ UNCHANGED <<dbVars, req, holder, frame, history>>

(* create_draft fails after its APPEND: the draft stays, its UID is lost.  *)
FailAfterAppend(c) ==
    /\ Fault
    /\ pc[c] = "up_draft"
    /\ AppendDraft(CurrentSubject(c), Current)
    /\ Leave(c)
    /\ UNCHANGED <<dbVars, history>>

(* The handler ends where it stands: a call failed and `?` answers 500, or *)
(* the client went away and the server dropped the future.                 *)
Abandon(c) ==
    /\ Fault
    /\ pc[c] # "idle"
    /\ Leave(c)
    /\ UNCHANGED <<dbVars, mailboxVars, history>>

(* The process dies and is started again: only the tables and the folder   *)
(* survive, and start-up repairs nothing.                                  *)
Restart ==
    /\ Fault
    /\ \E c \in Clients : pc[c] # "idle"
    /\ pc' = [c \in Clients |-> "idle"]
    /\ req' = [c \in Clients |-> NoRequest]
    /\ holder' = NoClient
    /\ frame' = NoFrame
    /\ UNCHANGED <<dbVars, mailboxVars, history>>

-----------------------------------------------------------------------------
DeleteStep(c) ==
    \/ FindVictim(c) \/ DeleteListRows(c) \/ DeleteNextRow(c)
    \/ BinFindBucket(c) \/ BinMakeBucket(c) \/ BinFindObject(c)
    \/ BinMakeObject(c) \/ BinMoveRow(c) \/ DeleteRows(c) \/ DeleteVictim(c)

UploadStep(c) ==
    \/ UploadInsertObject(c) \/ UploadDedup(c) \/ UploadFindFree(c)
    \/ UploadCreateDraft(c) \/ UploadDeleteDraft(c) \/ UploadDropFreeRow(c)
    \/ UploadRecord(c) \/ UploadDone(c)

DownloadStep(c) == DownloadListRows(c) \/ DownloadFetch(c) \/ DownloadDone(c)

(* One step of a handler that has been called.                             *)
HandlerStep(c) ==
    \/ \E n \in BucketNames, k \in Keys : CopyDestination(c, n, k)
    \/ RemoveBucket(c)
    \/ Lock(c)
    \/ DeleteStep(c)
    \/ UploadStep(c)
    \/ DownloadStep(c)

NewRequest(c) ==
    \E n \in BucketNames :
        \/ DeleteBucket(c, n)
        \/ \E k \in Keys :
             \/ \E d \in Bodies : PutObject(c, n, k, d)
             \/ GetObject(c, n, k)
             \/ DeleteObject(c, n, k)
             \/ CopyObject(c, n, k)

FaultStep(c) ==
    FailDelete(c) \/ FailIgnored(c) \/ FailAfterAppend(c) \/ Abandon(c)

Next ==
    \/ \E c \in Clients : NewRequest(c) \/ HandlerStep(c) \/ FaultStep(c)
    \/ \E n \in BucketNames : CreateBucket(n)
    \/ Restart

Spec == Init /\ [][Next]_vars
=============================================================================
