----------------------------- MODULE Multipart -----------------------------
(***************************************************************************)
(* Multipart uploads (src/src/s3/multipart.rs): the two tables, the temp   *)
(* files of the parts, and the handlers create, upload_part, complete and  *)
(* abort, which share no lock until complete calls the pipeline.           *)
(*                                                                         *)
(* A body stands for its MD5 ETag.  The pipeline's upload is one step      *)
(* here, done or failed; StoragePipeline models it (PutObject with the     *)
(* bucket id of the upload row).                                           *)
(***************************************************************************)
EXTENDS Integers, Sequences, FiniteSets

CONSTANTS
    Clients,        \* slots for concurrent requests
    PartNumbers,    \* the part numbers in use
    Blocks,         \* what part bodies are made of
    Bodies,         \* part bodies
    Lists,          \* part lists of complete requests, in ascending order
    NoFile,         \* a temp file that does not exist
    NoBody,         \* a part that was never acknowledged
    Disciplined,    \* clients wait for their answers: see MayUpload
    MaxUploads,     \* bound: uploads created in a behaviour
    MaxRequests,    \* bound: part, complete and abort requests
    MaxFaults       \* bound: failed calls, dropped requests, restarts

ASSUME MultipartAssumption ==
    /\ PartNumbers \subseteq Nat
    /\ Bodies \subseteq Seq(Blocks)
    /\ Lists \subseteq Seq(PartNumbers)
    /\ NoFile \notin Seq(Blocks)
    /\ NoBody \notin Seq(Blocks)
    /\ Disciplined \in BOOLEAN
    /\ MaxUploads \in Nat
    /\ MaxRequests \in Nat
    /\ MaxFaults \in Nat

Uploads == 1..MaxUploads

VARIABLES
    bucketExists,       \* whether the bucket of the uploads exists
    uploads,        \* multipart_uploads: ids of the rows
    nextUpload,     \* source of fresh upload ids
    parts,          \* multipart_parts: the set of rows
    files,          \* temp_dir: what the file of a part holds, if anything
    pc,             \* what each client's handler awaits
    local,          \* its request and local variables
    ackedPart,      \* history: the bodies answered 200 last, by part
    closed,         \* history: uploads whose row complete or abort deleted
    issued,         \* requests issued so far
    faults          \* faults injected so far

tables == <<bucketExists, uploads, nextUpload, parts>>
history == <<ackedPart, closed>>
vars == <<tables, files, pc, local, history, issued, faults>>

PartRow == [upload: Uploads, part: PartNumbers, etag: Bodies]

PartLabels == {"part_find", "part_truncate", "part_write", "part_clear",
               "part_insert"}
CompleteLabels == {"cm_find", "cm_list", "cm_read", "cm_bucket", "cm_store"}
CleanupLabels == {"unlink", "del_parts", "del_upload"}
Labels == {"idle", "ab_list"} \cup PartLabels \cup CompleteLabels
            \cup CleanupLabels

Idle == [op |-> "none", upload |-> 0, part |-> 0, body |-> <<>>, list |-> <<>>,
         stored |-> {}, data |-> <<>>, open |-> FALSE, dropped |-> FALSE]

Init ==
    /\ bucketExists = TRUE
    /\ uploads = {}
    /\ nextUpload = 1
    /\ parts = {}
    /\ files = [f \in Uploads \X PartNumbers |-> NoFile]
    /\ pc = [c \in Clients |-> "idle"]
    /\ local = [c \in Clients |-> Idle]
    /\ ackedPart = [f \in Uploads \X PartNumbers |-> NoBody]
    /\ closed = {}
    /\ issued = 0
    /\ faults = 0

-----------------------------------------------------------------------------
(* Control helpers.                                                        *)

Goto(c, label) == pc' = [pc EXCEPT ![c] = label]

Leave(c) == Goto(c, "idle") /\ local' = [local EXCEPT ![c] = Idle]

FileOf(c) == <<local[c].upload, local[c].part>>

PartsOf(u) == {r \in parts : r.upload = u}

(* A client that knows what it has been answered does not send a part that *)
(* it is still sending, or has listed in a complete request, and does not  *)
(* list a part that it is still sending.                                   *)
Sending(u, n) ==
    \E c \in Clients : /\ local[c].op = "part"
                       /\ local[c].upload = u /\ local[c].part = n

Listing(u, n) ==
    \E c \in Clients : /\ local[c].op = "complete" /\ local[c].upload = u
                       /\ \E i \in DOMAIN local[c].list : local[c].list[i] = n

MayUpload(u, n) == Disciplined => ~Sending(u, n) /\ ~Listing(u, n)
MayComplete(u, list) ==
    Disciplined => \A i \in DOMAIN list : ~Sending(u, list[i])

-----------------------------------------------------------------------------
(* Requests.                                                               *)

CreateUpload ==
    /\ bucketExists
    /\ nextUpload <= MaxUploads
    /\ uploads' = uploads \cup {nextUpload}
    /\ nextUpload' = nextUpload + 1
    /\ UNCHANGED <<bucketExists, parts, files, pc, local, history, issued,
                   faults>>

(* delete_bucket counts objects only; the uploads and parts go by ON       *)
(* DELETE CASCADE.  Its count may be stale when it deletes (that race is   *)
(* in StoragePipeline), so no guard on objects is left.                    *)
DeleteBucket ==
    /\ bucketExists
    /\ bucketExists' = FALSE
    /\ uploads' = {}
    /\ parts' = {}
    /\ UNCHANGED <<nextUpload, files, pc, local, history, issued, faults>>

Issue(c, request, label) ==
    /\ pc[c] = "idle"
    /\ issued < MaxRequests
    /\ issued' = issued + 1
    /\ local' = [local EXCEPT ![c] = request]
    /\ Goto(c, label)
    /\ UNCHANGED <<tables, files, history, faults>>

UploadPart(c, u, n, b) ==
    /\ MayUpload(u, n)
    /\ Issue(c, [Idle EXCEPT !.op = "part", !.upload = u, !.part = n,
                             !.body = b], "part_find")

CompleteUpload(c, u, list) ==
    /\ MayComplete(u, list)
    /\ Issue(c, [Idle EXCEPT !.op = "complete", !.upload = u, !.list = list],
             "cm_find")

AbortUpload(c, u) ==
    Issue(c, [Idle EXCEPT !.op = "abort", !.upload = u], "ab_list")

-----------------------------------------------------------------------------
(* upload_part.                                                            *)

(* find_by_id, in upload_part and in complete; an unknown id is a 404.     *)
FindUpload(c) ==
    /\ pc[c] \in {"part_find", "cm_find"}
    /\ \/ /\ local[c].upload \in uploads
          /\ Goto(c, IF pc[c] = "part_find" THEN "part_truncate"
                                            ELSE "cm_list")
          /\ UNCHANGED local
       \/ /\ local[c].upload \notin uploads
          /\ Leave(c)
    /\ UNCHANGED <<tables, files, history, issued, faults>>

(* Mutation: the file is opened without O_TRUNC.                           *)
OpenFile(c) ==
    /\ pc[c] = "part_truncate"
    /\ files' = [files EXCEPT ![FileOf(c)] = IF @ = NoFile THEN <<>> ELSE @]
    /\ local' = [local EXCEPT ![c].open = TRUE]
    /\ Goto(c, "part_write")
    /\ UNCHANGED <<tables, history, issued, faults>>

(* tokio::fs::write runs std::fs::write on a blocking thread, which opens  *)
(* the file with O_TRUNC and then writes the body from its start.          *)
TruncateFile(c) ==
    /\ pc[c] = "part_truncate"
    /\ files' = [files EXCEPT ![FileOf(c)] = <<>>]
    /\ local' = [local EXCEPT ![c].open = TRUE]
    /\ Goto(c, "part_write")
    /\ UNCHANGED <<tables, history, issued, faults>>

(* What the file holds after body is written over old from the start.      *)
Overlay(old, body) ==
    [i \in 1..(IF Len(old) > Len(body) THEN Len(old) ELSE Len(body)) |->
        IF i <= Len(body) THEN body[i] ELSE old[i]]

(* open: the path still names the opened file.  Else it was unlinked since *)
(* (and perhaps created anew), and the bytes are lost.                     *)
WriteFile(c) ==
    /\ pc[c] = "part_write"
    /\ files' = IF local[c].open
                THEN [files EXCEPT ![FileOf(c)] = Overlay(@, local[c].body)]
                ELSE files
    /\ \/ /\ local[c].dropped
          /\ Leave(c)
       \/ /\ ~local[c].dropped
          /\ Goto(c, "part_clear")
          /\ UNCHANGED local
    /\ UNCHANGED <<tables, history, issued, faults>>

(* The upsert: DELETE of the part's row, its error ignored, then INSERT.   *)
ClearPart(c) ==
    /\ pc[c] = "part_clear"
    /\ parts' = {r \in PartsOf(local[c].upload) : r.part # local[c].part} \cup
                {r \in parts : r.upload # local[c].upload}
    /\ Goto(c, "part_insert")
    /\ UNCHANGED <<bucketExists, uploads, nextUpload, files, local, history,
                   issued, faults>>

(* upload_id references multipart_uploads; (upload_id, part_number) is     *)
(* unique.                                                                 *)
CanInsertPart(u, n) ==
    /\ u \in uploads
    /\ \A r \in PartsOf(u) : r.part # n

InsertPart(c) ==
    /\ pc[c] = "part_insert"
    /\ \/ /\ CanInsertPart(local[c].upload, local[c].part)
          /\ parts' = parts \cup {[upload |-> local[c].upload,
                                   part |-> local[c].part,
                                   etag |-> local[c].body]}
          /\ ackedPart' = [ackedPart EXCEPT ![FileOf(c)] = local[c].body]
       \/ /\ ~CanInsertPart(local[c].upload, local[c].part)
          /\ UNCHANGED <<parts, ackedPart>>
    /\ Leave(c)
    /\ UNCHANGED <<bucketExists, uploads, nextUpload, files, closed, issued,
                   faults>>

-----------------------------------------------------------------------------
(* complete_multipart_upload.                                              *)

ListParts(c) ==
    /\ pc[c] \in {"cm_list", "ab_list"}
    /\ local' = [local EXCEPT ![c].stored = PartsOf(local[c].upload)]
    /\ Goto(c, IF pc[c] = "cm_list" THEN "cm_read" ELSE "unlink")
    /\ UNCHANGED <<tables, files, history, issued, faults>>

(* Mutation: the list is read from its end.                                *)
LastPart(c) == local[c].list[Len(local[c].list) - Len(local[c].data)]

NextPart(c) == local[c].list[Len(local[c].data) + 1]

(* Mutation: a file that is missing is read all the same.                  *)
ReadPartBlindly(c) ==
    /\ pc[c] = "cm_read"
    /\ Len(local[c].data) < Len(local[c].list)
    /\ \E r \in local[c].stored : r.part = NextPart(c)
    /\ local' = [local EXCEPT ![c].data =
                    Append(@, files[<<local[c].upload, NextPart(c)>>])]
    /\ UNCHANGED <<pc, tables, files, history, issued, faults>>

(* The listed parts are read one by one; the ETags of the request are not  *)
(* compared with anything.                                                 *)
ReadPart(c) ==
    /\ pc[c] = "cm_read"
    /\ Len(local[c].data) < Len(local[c].list)
    /\ \/ /\ \E r \in local[c].stored : r.part = NextPart(c)
          /\ files[<<local[c].upload, NextPart(c)>>] # NoFile
          /\ local' = [local EXCEPT ![c].data =
                          Append(@, files[<<local[c].upload, NextPart(c)>>])]
          /\ UNCHANGED pc
       \/ /\ \/ \A r \in local[c].stored : r.part # NextPart(c)
             \/ files[<<local[c].upload, NextPart(c)>>] = NoFile
          /\ Leave(c)
    /\ UNCHANGED <<tables, files, history, issued, faults>>

AllRead(c) ==
    /\ pc[c] = "cm_read"
    /\ Len(local[c].data) = Len(local[c].list)
    /\ Goto(c, "cm_bucket")
    /\ UNCHANGED <<tables, files, local, history, issued, faults>>

CheckBucket(c) ==
    /\ pc[c] = "cm_bucket"
    /\ \/ bucketExists /\ Goto(c, "cm_store") /\ UNCHANGED local
       \/ ~bucketExists /\ Leave(c)
    /\ UNCHANGED <<tables, files, history, issued, faults>>

(* pipeline.lock() and pipeline.upload(); the object's INSERT needs the    *)
(* bucket.                                                                 *)
StoreObject(c) ==
    /\ pc[c] = "cm_store"
    /\ \/ bucketExists /\ Goto(c, "unlink") /\ UNCHANGED local
       \/ ~bucketExists /\ Leave(c)
    /\ UNCHANGED <<tables, files, history, issued, faults>>

-----------------------------------------------------------------------------
(* The clean-up that complete and abort share; every error is ignored.     *)

CloseHandles(f, locals) ==
    [x \in Clients |-> IF FileOf(x) = f THEN [locals[x] EXCEPT !.open = FALSE]
                                        ELSE locals[x]]

Unlink(c) ==
    /\ pc[c] = "unlink"
    /\ \E r \in local[c].stored :
         /\ files' = [files EXCEPT ![<<r.upload, r.part>>] = NoFile]
         /\ \/ /\ local[c].dropped
               /\ Goto(c, "idle")
               /\ local' = CloseHandles(<<r.upload, r.part>>,
                                        [local EXCEPT ![c] = Idle])
            \/ /\ ~local[c].dropped
               /\ UNCHANGED pc
               /\ local' = CloseHandles(<<r.upload, r.part>>,
                               [local EXCEPT ![c].stored = @ \ {r}])
    /\ UNCHANGED <<tables, history, issued, faults>>

AllUnlinked(c) ==
    /\ pc[c] = "unlink"
    /\ local[c].stored = {}
    /\ Goto(c, "del_parts")
    /\ UNCHANGED <<tables, files, local, history, issued, faults>>

DeleteParts(c) ==
    /\ pc[c] = "del_parts"
    /\ parts' = parts \ PartsOf(local[c].upload)
    /\ Goto(c, "del_upload")
    /\ UNCHANGED <<bucketExists, uploads, nextUpload, files, local, history,
                   issued, faults>>

(* Mutation: the foreign key does not cascade.                             *)
DeleteUploadRowOnly(c) ==
    /\ pc[c] = "del_upload"
    /\ uploads' = uploads \ {local[c].upload}
    /\ closed' = closed \cup {local[c].upload}
    /\ Leave(c)
    /\ UNCHANGED <<parts, bucketExists, nextUpload, files, ackedPart, issued,
                   faults>>

(* The foreign key cascades to part rows inserted since DeleteParts.       *)
DeleteUpload(c) ==
    /\ pc[c] = "del_upload"
    /\ uploads' = uploads \ {local[c].upload}
    /\ parts' = parts \ PartsOf(local[c].upload)
    /\ closed' = closed \cup {local[c].upload}
    /\ Leave(c)
    /\ UNCHANGED <<bucketExists, nextUpload, files, ackedPart, issued, faults>>

-----------------------------------------------------------------------------
(* Faults.                                                                 *)

Fault ==
    /\ faults < MaxFaults
    /\ faults' = faults + 1
    /\ UNCHANGED <<tables, files, history, issued>>

(* A statement whose error is ignored has no effect.                       *)
FailIgnored(c) ==
    /\ Fault
    /\ \/ pc[c] = "part_clear" /\ Goto(c, "part_insert") /\ UNCHANGED local
       \/ /\ pc[c] = "unlink"
          /\ \E r \in local[c].stored :
                local' = [local EXCEPT ![c].stored = @ \ {r}]
          /\ UNCHANGED pc
       \/ pc[c] = "del_parts" /\ Goto(c, "del_upload") /\ UNCHANGED local
       \/ pc[c] = "del_upload" /\ Leave(c)

(* The client goes away and the handler's future is dropped, or a call     *)
(* fails.  A file operation that a blocking thread has taken is finished   *)
(* nevertheless.                                                           *)
Abandon(c) ==
    /\ Fault
    /\ pc[c] # "idle"
    /\ \/ Leave(c)
       \/ /\ \/ pc[c] \in {"part_truncate", "part_write"}
             \/ pc[c] = "unlink" /\ local[c].stored # {}
          /\ ~local[c].dropped
          /\ local' = [local EXCEPT ![c].op = "none", ![c].dropped = TRUE]
          /\ UNCHANGED pc

(* The process dies and starts again; nothing looks at temp_dir then.      *)
Restart ==
    /\ Fault
    /\ \E c \in Clients : pc[c] # "idle"
    /\ pc' = [c \in Clients |-> "idle"]
    /\ local' = [c \in Clients |-> Idle]

-----------------------------------------------------------------------------
HandlerStep(c) ==
    \/ FindUpload(c)
    \/ TruncateFile(c) \/ WriteFile(c) \/ ClearPart(c) \/ InsertPart(c)
    \/ ListParts(c) \/ ReadPart(c) \/ AllRead(c)
    \/ CheckBucket(c) \/ StoreObject(c)
    \/ Unlink(c) \/ AllUnlinked(c) \/ DeleteParts(c) \/ DeleteUpload(c)

NewRequest(c) ==
    \E u \in 1..(nextUpload - 1) :
        \/ \E n \in PartNumbers, b \in Bodies : UploadPart(c, u, n, b)
        \/ \E list \in Lists : CompleteUpload(c, u, list)
        \/ AbortUpload(c, u)

Next ==
    \/ \E c \in Clients :
          NewRequest(c) \/ HandlerStep(c) \/ FailIgnored(c) \/ Abandon(c)
    \/ CreateUpload
    \/ DeleteBucket
    \/ Restart

Spec == Init /\ [][Next]_vars

-----------------------------------------------------------------------------
(* Properties.                                                             *)

Local == [op: {"none", "part", "complete", "abort"}, upload: Nat, part: Nat,
          body: Seq(Blocks), list: Seq(PartNumbers), stored: SUBSET PartRow,
          data: Seq(Seq(Blocks)), open: BOOLEAN, dropped: BOOLEAN]

(* Every variable has its type: tables, temp files and the locals of every  *)
(* handler of multipart.rs.                                                *)
TypeOK ==
    /\ bucketExists \in BOOLEAN
    /\ uploads \subseteq Uploads
    /\ nextUpload \in 1..(MaxUploads + 1)
    /\ parts \subseteq PartRow
    /\ files \in [Uploads \X PartNumbers -> Seq(Blocks) \cup {NoFile}]
    /\ pc \in [Clients -> Labels]
    /\ local \in [Clients -> Local]
    /\ ackedPart \in [Uploads \X PartNumbers -> Bodies \cup {NoBody}]
    /\ closed \subseteq Uploads
    /\ issued \in Nat /\ faults \in Nat

Cleaning(u) ==
    \E c \in Clients : local[c].upload = u /\ pc[c] \in CleanupLabels

(* upload_part's answer means something: while the upload is open and      *)
(* nobody re-sends the part or completes or aborts the upload, the part    *)
(* has its row, and its file holds the bytes answered 200 last.            *)
AckedPartsAreStored ==
    Disciplined /\ faults = 0 =>
        \A u \in uploads, n \in PartNumbers :
            /\ ackedPart[<<u, n>>] # NoBody
            /\ ~Sending(u, n)
            /\ ~Cleaning(u)
            => /\ files[<<u, n>>] = ackedPart[<<u, n>>]
               /\ \E r \in PartsOf(u) : r.part = n /\ r.etag = ackedPart[<<u, n>>]

(* complete hands the pipeline the bytes of the listed parts as they were  *)
(* acknowledged, in the order of the list, although aborts, other          *)
(* completes, other parts and bucket deletions run beside it.              *)
AssembledAsAcked ==
    Disciplined /\ faults = 0 =>
        \A c \in Clients : pc[c] = "cm_store" =>
            local[c].data = [i \in DOMAIN local[c].list |->
                                ackedPart[<<local[c].upload, local[c].list[i]>>]]

(* An upload that complete or abort has closed stays closed, and leaves no *)
(* part row behind, also not one of an upload_part that had found the      *)
(* upload before.                                                          *)
ClosedStaysClosed ==
    \A u \in closed : u \notin uploads /\ PartsOf(u) = {}

(* multipart.rs:141-142, upload_part(): "Upsert part record [...]          *)
(* overwrite semantics for same part number": once nobody is sending the   *)
(* part, the row's ETag is that of the file.                               *)
RowsMatchFiles ==
    \A r \in parts : ~Sending(r.upload, r.part) /\ ~Cleaning(r.upload) =>
        files[<<r.upload, r.part>>] = r.etag
=============================================================================
