--------------------------- MODULE PipelineSafety ---------------------------
(***************************************************************************)
(* What makes the storage pipeline correct: the properties of              *)
(* StoragePipeline, the named parts of the inductive invariant they follow *)
(* from, and what the comments, the README and the tests say of the        *)
(* program, stated as formulas for TLC to compare with the code.           *)
(***************************************************************************)
EXTENDS StoragePipeline

Draft == [uid: Nat, data: Contents, deleted: BOOLEAN,
          subject: [bucket: ObjectKeys, key: ObjectKeys,
                    index: Nat, object: Nat]]

(* Every variable has its type: tables, folder, and the locals of every    *)
(* handler of object.rs, bucket.rs and pipeline.rs.                        *)
ClientTypeOK ==
    /\ pc \in [Clients -> Labels]
    /\ req \in [Clients -> Request]
    /\ holder \in Clients \cup {NoClient}
    /\ frame \in Frame

TypeOK ==
    /\ DBTypeOK
    /\ drafts \subseteq Draft /\ nextUid \in Nat \ {0}
    /\ ClientTypeOK
    /\ acked \subseteq Nat /\ doomed \subseteq Nat
    /\ issued \in Nat /\ faults \in Nat

-----------------------------------------------------------------------------
(* Parts of the inductive invariant.                                       *)

At(labels) == \E c \in Clients : pc[c] \in labels

(* Mutual exclusion: a handler is inside the pipeline exactly while it     *)
(* holds the mutex, whatever answer, error, dropped future or restart      *)
(* ended the call before it.                                               *)
LockInv == \A c \in Clients : pc[c] \in PipelineLabels <=> holder = c

ChunkLabels == {"up_pool", "up_draft", "up_expunge", "up_unpool", "up_record"}

(* Between the dedup query and the INSERT of a chunk row, upload is at an  *)
(* index of the body.                                                      *)
PosInv == At(ChunkLabels) => frame.pos < Len(frame.body)

(* upload's check-then-insert: what the dedup query found stays true until *)
(* the row is inserted, although bucket handlers delete rows meanwhile.    *)
DedupInv ==
    /\ At(ChunkLabels \ {"up_record"}) => ActiveWithHash(Current) = {}
    /\ At({"up_record"}) =>
          \A r \in ActiveWithHash(Current) : r.uid = frame.uid

(* Deduplication (upload's query on hash and status): all active rows with *)
(* one hash name one draft, whoever uploads, copies, overwrites, deletes,  *)
(* fails or restarts.  A second draft for a hash in use would break it.    *)
DedupSingleDraft ==
    \A r, s \in chunks :
        /\ r.status = "active"
        /\ s.status = "active"
        /\ r.hash = s.hash
        => r.uid = s.uid

(* UIDs of the folder are below UIDNEXT and name one message each.         *)
UidInv ==
    /\ \A d \in drafts : d.uid < nextUid
    /\ \A d, e \in drafts : d.uid = e.uid => d = e

(* The UID that create_draft returned, and that upload is about to record, *)
(* has been assigned, and its message holds the chunk at hand.             *)
UidInHand ==
    At({"up_expunge", "up_unpool", "up_record"}) =>
        /\ frame.uid < nextUid
        /\ \A d \in DraftsWithUid(frame.uid) : d.data = Current

(* A chunk row never points at a message with another content: its UID was *)
(* assigned, and if the message is still there it holds the bytes hashed   *)
(* in the row.  create_draft finds its UID by searching a subject prefix   *)
(* that earlier drafts share, and slots are recycled: either could give a  *)
(* row somebody else's bytes.  It is relied on that no connection that was *)
(* lost delivers an APPEND later, see ReturnsOwnDraft of GmailSession.     *)
DraftMatchesRow ==
    \A r \in chunks :
        /\ r.uid < nextUid
        /\ \A d \in DraftsWithUid(r.uid) : d.data = r.hash

ActiveRows(id) == {r \in ChunksOf(id) : r.status = "active"}

(* Every active row of an object is a chunk of the bytes it was uploaded   *)
(* with, at its place: interleaved uploads, copies and recycling never mix *)
(* the rows of two objects, nor a free row into a client's object.         *)
RowsMatchObject ==
    \A o \in objects : \A r \in ActiveRows(o.id) :
        r.index < Len(o.data) /\ r.hash = o.data[r.index + 1]

-----------------------------------------------------------------------------
(* Whole objects.                                                          *)

IsWhole(o) ==
    \A i \in 1..Len(o.data) : \E r \in ActiveRows(o.id) : r.index = i - 1

(* Durability of the metadata: an object whose upload was answered 200,    *)
(* and that nobody deleted or overwrote since, keeps a row for every       *)
(* chunk, through failures, dropped requests and restarts of any other     *)
(* request.                                                                *)
AckedWhole ==
    \A o \in objects : o.id \in acked \ doomed => IsWhole(o)

(* Without failed calls, and if clients leave the recycling bucket alone,  *)
(* whatever the interleaving of object and bucket requests, a released     *)
(* mutex means no half-written or half-deleted object: delete and upload   *)
(* fail between statements only if the database or the mailbox did.        *)
QuiescentWhole ==
    holder = NoClient /\ faults = 0 => \A o \in objects : IsWhole(o)

IsSubsequence(s, t) ==
    \E place \in [DOMAIN s -> DOMAIN t] :
        /\ \A i, j \in DOMAIN s : i < j => place[i] < place[j]
        /\ \A i \in DOMAIN s : s[i] = t[place[i]]

Fetched(c) == pc[c] = "dl_fetch" /\ frame.todo = {}

(* What download returns for the object that get_object or copy_object     *)
(* looked up before it waited for the mutex: never bytes of another object *)
(* or in another order, and all of them if the object was acknowledged and *)
(* not deleted since.                                                      *)
FaithfulFetch ==
    \A c \in Clients : Fetched(c) =>
        /\ IsSubsequence(frame.body, req[c].header)
        /\ req[c].source \in acked \ doomed => frame.body = req[c].header

-----------------------------------------------------------------------------
(* Steps.                                                                  *)

Named == {r.uid : r \in frame.row} \cup
            {d.uid : d \in {e \in drafts : e.deleted}}

(* A message leaves the drafts folder only as the slot that upload is      *)
(* recycling, or because an earlier recycling had flagged it, and only     *)
(* when a message with the new content is in the folder.                   *)
DraftsLeaveByRecycling ==
    [][\A d \in drafts : DraftsWithUid(d.uid)' = {} =>
          /\ d.uid \in Named
          /\ frame.uid # d.uid
          /\ \E e \in drafts' : e.uid = frame.uid /\ e.data = Current]_vars

-----------------------------------------------------------------------------
(* Liveness.                                                               *)

(* The calls to PostgreSQL and to the IMAP server return, and the tokio    *)
(* mutex is FIFO, so a request that waits for it is not overtaken forever. *)
Fairness ==
    \A c \in Clients : WF_vars(HandlerStep(c)) /\ SF_vars(Lock(c))

FairSpec == Spec /\ Fairness

(* Every request is answered: no handler is left waiting for a mutex whose *)
(* holder is gone, nor at an await that no step leaves.                    *)
Answered == \A c \in Clients : pc[c] # "idle" ~> pc[c] = "idle"

-----------------------------------------------------------------------------
(* What the repository says of itself.                                     *)

(* pipeline.rs:252-256, delete(): "Chunk hash {} is used by {} other       *)
(* objects. Preserving draft UID {}."; comprehensive_test.ts:71 "should    *)
(* keep draft for key2".                                                   *)
UsedDraftsArePreserved ==
    \A r \in chunks : r.status = "active" => DraftsWithUid(r.uid) # {}

(* bucket.rs:86, delete_bucket(): "Check if bucket is empty"; a bucket     *)
(* that holds an object, acknowledged to its client, is never deleted.     *)
OnlyEmptyBucketsAreDeleted ==
    [][\A n \in Names : buckets[n] # NoId /\ buckets'[n] # buckets[n] =>
          \A o \in objects : o.id \in acked => o.bucket # buckets[n]]_vars

(* pipeline.rs:193, download(): "look up chunks in DB -> fetch from email  *)
(* drafts -> concatenate": an acknowledged object has something to look up. *)
AckedIsReadable ==
    \A c \in Clients :
        /\ pc[c] = "dl_rows"
        /\ req[c].source \in acked \ doomed
        /\ \E o \in objects : o.id = req[c].source
        => ChunksOf(req[c].source) # {}
=============================================================================
