--------------------------- MODULE PipelineProofs ---------------------------
(***************************************************************************)
(* Proofs about StoragePipeline, for every set of clients, keys, buckets,  *)
(* contents and bodies, and every bound on requests and faults.            *)
(***************************************************************************)
EXTENDS PipelineSafety, TLAPS

(* The part of the inductive invariant that the rest stands on: types,     *)
(* mutual exclusion, and the upload position.                              *)
TypeInv == TypeOK /\ LockInv /\ PosInv

-----------------------------------------------------------------------------
(* Types: what a statement does to the tables keeps their types.           *)

USE DEF NoId

(* The tables' statements keep the row types.                              *)
LEMMA StatementTypes ==
    ASSUME DBTypeOK
    PROVE  /\ UNCHANGED dbVars => DBTypeOK'
           /\ \A n \in Names : InsertBucket(n) => DBTypeOK'
           /\ \A b \in Nat, k \in ObjectKeys, d \in Seq(Contents) :
                 InsertObject(b, k, d) => DBTypeOK'
           /\ \A row \in ChunkRow : InsertChunk(row) => DBTypeOK'
           /\ \A row \in ChunkRow, bin \in Nat :
                 MoveChunk(row, bin, nextId) /\ nextId' = nextId + 1 => DBTypeOK'
           /\ \A rows : DeleteChunkRows(rows) => DBTypeOK'
           /\ \A id : DeleteObjectRow(id) => DBTypeOK'
           /\ \A b : DeleteBucketRow(b) => DBTypeOK'
  <1>1. UNCHANGED dbVars => DBTypeOK'
    BY DEF DBTypeOK, dbVars
  <1>2. ASSUME NEW n \in Names, InsertBucket(n) PROVE DBTypeOK'
    BY <1>2 DEF DBTypeOK, InsertBucket
  <1>3. ASSUME NEW b \in Nat, NEW k \in ObjectKeys, NEW d \in Seq(Contents),
               InsertObject(b, k, d)
        PROVE  DBTypeOK'
    BY <1>3 DEF DBTypeOK, InsertObject, ObjectRow
  <1>4. ASSUME NEW row \in ChunkRow, InsertChunk(row) PROVE DBTypeOK'
    BY <1>4 DEF DBTypeOK, InsertChunk
  <1>5. ASSUME NEW row \in ChunkRow, NEW bin \in Nat,
               MoveChunk(row, bin, nextId), nextId' = nextId + 1
        PROVE  DBTypeOK'
    <2>1. [row EXCEPT !.object = bin, !.index = nextId, !.status = "free"]
              \in ChunkRow
      BY DEF DBTypeOK, ChunkRow
    <2> QED
      BY <1>5, <2>1 DEF DBTypeOK, MoveChunk
  <1>6. ASSUME NEW rows, DeleteChunkRows(rows) PROVE DBTypeOK'
    BY <1>6 DEF DBTypeOK, DeleteChunkRows
  <1>7. ASSUME NEW id, DeleteObjectRow(id) PROVE DBTypeOK'
    BY <1>7 DEF DBTypeOK, DeleteObjectRow
  <1>8. ASSUME NEW b, DeleteBucketRow(b) PROVE DBTypeOK'
    BY <1>8 DEF DBTypeOK, DeleteBucketRow
  <1> QED
    BY <1>1, <1>2, <1>3, <1>4, <1>5, <1>6, <1>7, <1>8

(* Leave, Goto and AfterDelete keep the types of the handlers' locals.     *)
LEMMA ControlTypes ==
    ASSUME ClientTypeOK, NEW c \in Clients
    PROVE  /\ Leave(c) => ClientTypeOK'
           /\ AfterDelete(c) => ClientTypeOK'
           /\ \A label \in Labels :
                 /\ Goto(c, label)
                 /\ req' \in [Clients -> Request]
                 /\ holder' \in Clients \cup {NoClient}
                 /\ frame' \in Frame
                 => ClientTypeOK'
  <1>1. NoRequest \in Request /\ NoFrame \in Frame
    <2>1. <<>> \in Seq(Contents)
      OBVIOUS
    <2> QED
      BY <2>1 DEF NoRequest, Request, NoFrame, Frame, Operations, ObjectKeys
  <1>2. {"idle", "up_insert"} \subseteq Labels
    BY DEF Labels, PipelineLabels, UploadLabels
  <1>3. ASSUME Leave(c) PROVE ClientTypeOK'
    BY <1>1, <1>2, <1>3 DEF Leave, Goto, ClientTypeOK
  <1>4. ASSUME AfterDelete(c) PROVE ClientTypeOK'
    <2>1. [frame EXCEPT !.todo = {}, !.row = {}, !.victim = NoId, !.bin = NoId]
              \in Frame
      BY DEF ClientTypeOK, Frame
    <2> QED
      BY <1>2, <1>3, <1>4, <2>1 DEF AfterDelete, Goto, ClientTypeOK
  <1>5. ASSUME NEW label \in Labels,
               Goto(c, label),
               req' \in [Clients -> Request],
               holder' \in Clients \cup {NoClient},
               frame' \in Frame
        PROVE  ClientTypeOK'
    BY <1>5 DEF Goto, ClientTypeOK
  <1> QED
    BY <1>3, <1>4, <1>5

-----------------------------------------------------------------------------
(* Mutual exclusion and the upload position, by the shape of a step: it    *)
(* ends the handler, stays inside the pipeline, or stays outside.          *)

(* A handler that ends releases the mutex if it held it, and only then.    *)
LEMMA LeaveKeepsLock ==
    ASSUME ClientTypeOK, LockInv, PosInv, NEW c \in Clients, Leave(c)
    PROVE  LockInv' /\ PosInv'
  <1>1. "idle" \notin PipelineLabels /\ "idle" \notin ChunkLabels
    BY DEF PipelineLabels, DeleteLabels, DownloadLabels, UploadLabels, ChunkLabels
  <1>2. /\ pc' = [pc EXCEPT ![c] = "idle"]
        /\ holder = c => holder' = NoClient
        /\ holder # c => holder' = holder /\ frame' = frame
    BY DEF Leave, Goto
  <1>3. LockInv'
    BY <1>1, <1>2, PipelineAssumption DEF LockInv, ClientTypeOK
  <1>4. ChunkLabels \subseteq PipelineLabels
    BY DEF ChunkLabels, PipelineLabels, UploadLabels
  <1>5. PosInv'
    BY <1>1, <1>2, <1>3, <1>4, PipelineAssumption
       DEF PosInv, At, LockInv, ClientTypeOK
  <1> QED
    BY <1>3, <1>5

(* Clients other than the holder are outside the pipeline.                 *)
LEMMA InsideKeepsLock ==
    ASSUME ClientTypeOK, LockInv, NEW c \in Clients, NEW label \in PipelineLabels,
           Goto(c, label), holder \in {c, NoClient}, holder' = c,
           label \in ChunkLabels => frame'.pos < Len(frame'.body)
    PROVE  LockInv' /\ PosInv'
  <1>1. pc' = [pc EXCEPT ![c] = label]
    BY DEF Goto
  <1>2. LockInv'
    BY <1>1, PipelineAssumption DEF LockInv, ClientTypeOK
  <1>3. ChunkLabels \subseteq PipelineLabels
    BY DEF ChunkLabels, PipelineLabels, UploadLabels
  <1>4. PosInv'
    BY <1>1, <1>2, <1>3 DEF PosInv, At, LockInv, ClientTypeOK
  <1> QED
    BY <1>2, <1>4

(* A step between labels outside the pipeline leaves the mutex alone.      *)
LEMMA OutsideKeepsLock ==
    ASSUME ClientTypeOK, LockInv, PosInv, NEW c \in Clients,
           NEW label, label \notin PipelineLabels, pc[c] \notin PipelineLabels,
           Goto(c, label), UNCHANGED <<holder, frame>>
    PROVE  LockInv' /\ PosInv'
  <1>1. pc' = [pc EXCEPT ![c] = label]
    BY DEF Goto
  <1>2. LockInv'
    BY <1>1 DEF LockInv, ClientTypeOK
  <1>3. label \notin ChunkLabels
    BY DEF ChunkLabels, PipelineLabels, UploadLabels
  <1>4. PosInv'
    BY <1>1, <1>3 DEF PosInv, At, ClientTypeOK
  <1> QED
    BY <1>2, <1>4

(* delete's exit, whether it goes on with the upload or answers.           *)
LEMMA AfterDeleteKeepsLock ==
    ASSUME ClientTypeOK, LockInv, PosInv, NEW c \in Clients, holder = c,
           AfterDelete(c)
    PROVE  LockInv' /\ PosInv'
  <1>1. CASE Leave(c)
    BY <1>1, LeaveKeepsLock
  <1>2. CASE Goto(c, "up_insert") /\ holder' = holder
    <2>1. "up_insert" \in PipelineLabels /\ "up_insert" \notin ChunkLabels
      BY DEF PipelineLabels, UploadLabels, ChunkLabels
    <2> QED
      BY <1>2, <2>1, InsideKeepsLock
  <1> QED
    BY <1>1, <1>2 DEF AfterDelete

-----------------------------------------------------------------------------
(* TypeInv, action by action.                                              *)

(* How the groups of labels lie to each other.                             *)
LEMMA LabelFacts ==
    /\ PipelineLabels \subseteq Labels
    /\ ChunkLabels \subseteq PipelineLabels
    /\ {"idle", "copy_dest", "wait", "rm_bucket"} \subseteq Labels \ PipelineLabels
    /\ DeleteLabels \cap ChunkLabels = {}
    /\ DownloadLabels \cap ChunkLabels = {}
    /\ {"up_insert", "up_next"} \cap ChunkLabels = {}
    /\ {"up_insert", "up_next"} \subseteq PipelineLabels
    /\ DeleteLabels \cup DownloadLabels \subseteq PipelineLabels
  BY DEF Labels, PipelineLabels, DeleteLabels, DownloadLabels, UploadLabels,
         ChunkLabels

(* A handler inside the pipeline is the holder.                            *)
LEMMA HolderFact ==
    ASSUME LockInv, NEW c \in Clients, pc[c] \in PipelineLabels
    PROVE  holder = c
  BY DEF LockInv

(* A new request keeps types, mutual exclusion and the position.           *)
LEMMA IssueTypeInv ==
    ASSUME TypeInv, NEW c \in Clients, NEW request \in Request,
           NEW label \in {"wait", "copy_dest", "rm_bucket"},
           Issue(c, request, label)
    PROVE  TypeInv'
  <1>1. ClientTypeOK'
    BY ControlTypes, LabelFacts DEF Issue, TypeInv, TypeOK, ClientTypeOK
  <1>2. LockInv' /\ PosInv'
    <2>1. pc[c] \notin PipelineLabels /\ label \notin PipelineLabels
      BY LabelFacts DEF Issue
    <2> QED
      BY <2>1, OutsideKeepsLock DEF Issue, TypeInv, TypeOK
  <1>3. DBTypeOK'
    BY StatementTypes DEF Issue, TypeInv, TypeOK
  <1> QED
    BY <1>1, <1>2, <1>3, PipelineAssumption
       DEF Issue, TypeInv, TypeOK, mailboxVars, history

(* So does every request a client can send.                                *)
LEMMA RequestTypeInv ==
    ASSUME TypeInv, NEW c \in Clients, NewRequest(c)
    PROVE  TypeInv'
  <1>1. PICK n \in BucketNames :
          \/ DeleteBucket(c, n)
          \/ \E k \in Keys :
               \/ \E d \in Bodies : PutObject(c, n, k, d)
               \/ GetObject(c, n, k)
               \/ DeleteObject(c, n, k)
               \/ CopyObject(c, n, k)
    BY DEF NewRequest
  <1>2. buckets[n] \in Nat
    BY DEF TypeInv, TypeOK, DBTypeOK, Names
  <1>3. \A o \in objects : o.id \in Nat /\ o.data \in Seq(Contents)
    BY DEF TypeInv, TypeOK, DBTypeOK, ObjectRow
  <1>e. <<>> \in Seq(Contents)
    OBVIOUS
  <1>4. CASE DeleteBucket(c, n)
    BY <1>2, <1>4, <1>e, IssueTypeInv DEF DeleteBucket, Request, Operations, ObjectKeys
  <1>5. ASSUME NEW k \in Keys, NEW d \in Bodies, PutObject(c, n, k, d)
        PROVE  TypeInv'
    <2>1. d \in Seq(Contents)
      BY PipelineAssumption
    <2> QED
      BY <1>2, <1>5, <2>1, IssueTypeInv DEF PutObject, Request, Operations, ObjectKeys
  <1>6. ASSUME NEW k \in Keys, GetObject(c, n, k)
        PROVE  TypeInv'
    BY <1>2, <1>3, <1>6, IssueTypeInv
       DEF GetObject, Request, Operations, ObjectKeys, ObjectsAt
  <1>7. ASSUME NEW k \in Keys, DeleteObject(c, n, k)
        PROVE  TypeInv'
    BY <1>2, <1>7, <1>e, IssueTypeInv DEF DeleteObject, Request, Operations, ObjectKeys
  <1>8. ASSUME NEW k \in Keys, CopyObject(c, n, k)
        PROVE  TypeInv'
    BY <1>2, <1>3, <1>8, IssueTypeInv
       DEF CopyObject, Request, Operations, ObjectKeys, ObjectsAt
  <1> QED
    BY <1>1, <1>4, <1>5, <1>6, <1>7, <1>8

(* So does every step of a handler outside the pipeline.                   *)
LEMMA HandlerTypeInv ==
    ASSUME TypeInv, NEW c \in Clients
    PROVE  /\ \A n \in BucketNames, k \in Keys : CopyDestination(c, n, k) => TypeInv'
           /\ RemoveBucket(c) => TypeInv'
           /\ Lock(c) => TypeInv'
  <1>1. ASSUME NEW n \in BucketNames, NEW k \in Keys, CopyDestination(c, n, k)
        PROVE  TypeInv'
    <2>1. pc[c] \notin PipelineLabels /\ "wait" \notin PipelineLabels
      BY <1>1, LabelFacts DEF CopyDestination
    <2>2. ClientTypeOK' /\ LockInv' /\ PosInv'
      <3>1. CASE Leave(c)
        BY <3>1, ControlTypes, LeaveKeepsLock DEF TypeInv, TypeOK
      <3>2. CASE /\ Goto(c, "wait")
                 /\ req' = [req EXCEPT ![c].bucket = buckets[n], ![c].key = k]
                 /\ UNCHANGED <<holder, frame>>
        <4>1. LockInv' /\ PosInv'
          BY <2>1, <3>2, OutsideKeepsLock DEF TypeInv, TypeOK
        <4>2. buckets[n] \in Nat
          BY DEF TypeInv, TypeOK, DBTypeOK, Names
        <4>3. req' \in [Clients -> Request]
          BY <3>2, <4>2 DEF TypeInv, TypeOK, ClientTypeOK, Request, ObjectKeys
        <4> QED
          BY <3>2, <4>1, <4>3, LabelFacts, ControlTypes
             DEF TypeInv, TypeOK, ClientTypeOK
      <3> QED
        BY <1>1, <3>1, <3>2 DEF CopyDestination
    <2>3. DBTypeOK'
      BY <1>1, StatementTypes DEF CopyDestination, TypeInv, TypeOK
    <2> QED
      BY <1>1, <2>2, <2>3
         DEF CopyDestination, TypeInv, TypeOK, mailboxVars, history, bounds
  <1>2. ASSUME RemoveBucket(c) PROVE TypeInv'
    <2>1. DBTypeOK'
      BY <1>2, StatementTypes DEF RemoveBucket, TypeInv, TypeOK
    <2>2. ClientTypeOK' /\ LockInv' /\ PosInv'
      BY <1>2, ControlTypes, LeaveKeepsLock DEF RemoveBucket, TypeInv, TypeOK
    <2> QED
      BY <1>2, <2>1, <2>2
         DEF RemoveBucket, TypeInv, TypeOK, mailboxVars, history, bounds
  <1>3. ASSUME Lock(c) PROVE TypeInv'
    <2> DEFINE label == IF req[c].op \in {"get", "copy"} THEN "dl_rows" ELSE "find"
    <2>1. label \in PipelineLabels /\ label \notin ChunkLabels
      BY DEF PipelineLabels, DeleteLabels, DownloadLabels, ChunkLabels
    <2>2. Goto(c, label) /\ holder = NoClient /\ holder' = c
      BY <1>3 DEF Lock
    <2> HIDE DEF label
    <2>3. LockInv' /\ PosInv'
      BY <2>1, <2>2, InsideKeepsLock DEF TypeInv, TypeOK
    <2>4. frame' \in Frame
      <3>1. <<>> \in Seq(Contents) /\ req[c].header \in Seq(Contents)
        BY DEF TypeInv, TypeOK, ClientTypeOK, Request
      <3> QED
        BY <1>3, <3>1 DEF Lock, NoFrame, Frame
    <2>5. req' \in [Clients -> Request]
      BY <1>3 DEF Lock, TypeInv, TypeOK, ClientTypeOK
    <2>6. ClientTypeOK'
      BY <2>1, <2>2, <2>4, <2>5, ControlTypes, LabelFacts DEF TypeInv, TypeOK
    <2>7. DBTypeOK'
      BY <1>3, StatementTypes DEF Lock, TypeInv, TypeOK
    <2> QED
      BY <1>3, <2>3, <2>6, <2>7
         DEF Lock, TypeInv, TypeOK, mailboxVars, history, bounds
  <1> QED
    BY <1>1, <1>2, <1>3

(* So does create_bucket.                                                  *)
LEMMA CreateBucketTypeInv ==
    ASSUME TypeInv, NEW n \in BucketNames, CreateBucket(n)
    PROVE  TypeInv'
  <1>1. DBTypeOK'
    BY StatementTypes DEF CreateBucket, TypeInv, TypeOK, Names
  <1>2. ClientTypeOK' /\ LockInv' /\ PosInv'
    BY DEF CreateBucket, TypeInv, TypeOK, ClientTypeOK, LockInv, PosInv, At, clientVars
  <1> QED
    BY <1>1, <1>2 DEF CreateBucket, TypeInv, TypeOK, mailboxVars, history

(* The three ways a step of the pipeline's holder changes the locals.      *)
LEMMA PipelineTypeInv ==
    ASSUME TypeInv, NEW c \in Clients, pc[c] \in PipelineLabels
    PROVE  /\ Leave(c) => ClientTypeOK' /\ LockInv' /\ PosInv'
           /\ AfterDelete(c) => ClientTypeOK' /\ LockInv' /\ PosInv'
           /\ \A label \in PipelineLabels :
                /\ Goto(c, label)
                /\ UNCHANGED <<req, holder>>
                /\ frame' \in Frame
                /\ label \in ChunkLabels => frame'.pos < Len(frame'.body)
                => ClientTypeOK' /\ LockInv' /\ PosInv'
  <1> USE DEF TypeInv, TypeOK
  <1>1. holder = c
    BY HolderFact
  <1>2. ASSUME Leave(c) PROVE ClientTypeOK' /\ LockInv' /\ PosInv'
    BY <1>2, ControlTypes, LeaveKeepsLock
  <1>3. ASSUME AfterDelete(c) PROVE ClientTypeOK' /\ LockInv' /\ PosInv'
    BY <1>1, <1>3, ControlTypes, AfterDeleteKeepsLock
  <1>4. ASSUME NEW label \in PipelineLabels,
               Goto(c, label),
               UNCHANGED <<req, holder>>,
               frame' \in Frame,
               label \in ChunkLabels => frame'.pos < Len(frame'.body)
        PROVE  ClientTypeOK' /\ LockInv' /\ PosInv'
    <2>1. ClientTypeOK'
      BY <1>4, ControlTypes, LabelFacts DEF ClientTypeOK
    <2> QED
      BY <1>1, <1>4, <2>1, InsideKeepsLock
  <1> QED
    BY <1>2, <1>3, <1>4

(* So does every step of delete_by_key and delete.                         *)
LEMMA DeleteTypeInv ==
    ASSUME TypeInv, NEW c \in Clients, DeleteStep(c)
    PROVE  TypeInv'
  <1> USE DEF TypeInv, TypeOK
  <1>a. /\ frame \in Frame
        /\ \A r \in chunks : r \in ChunkRow
        /\ \A o \in objects : o.id \in Nat
    BY DEF ClientTypeOK, DBTypeOK, ObjectRow
  <1>b. DeleteLabels \subseteq PipelineLabels /\ DeleteLabels \cap ChunkLabels = {}
    BY LabelFacts
  <1>1. CASE FindVictim(c)
    <2>1. pc[c] \in PipelineLabels /\ "del_rows" \in DeleteLabels
      BY <1>1, <1>b DEF FindVictim, DeleteLabels
    <2>2. ClientTypeOK' /\ LockInv' /\ PosInv'
      <3>1. CASE AfterDelete(c)
        BY <2>1, <3>1, PipelineTypeInv
      <3>2. ASSUME NEW o \in ObjectsAt(req[c].bucket, req[c].key),
                   Goto(c, "del_rows"),
                   frame' = [frame EXCEPT !.victim = o.id],
                   UNCHANGED <<req, holder>>
            PROVE  ClientTypeOK' /\ LockInv' /\ PosInv'
        <4>1. frame' \in Frame
          BY <1>a, <3>2 DEF ObjectsAt, Frame
        <4> QED
          BY <1>b, <2>1, <3>2, <4>1, PipelineTypeInv
      <3> QED
        BY <1>1, <3>1, <3>2 DEF FindVictim
    <2>3. DBTypeOK'
      BY <1>1, StatementTypes DEF FindVictim
    <2>4. doomed' \subseteq Nat
      BY <1>1, <1>a DEF FindVictim, ObjectsAt
    <2> QED
      BY <1>1, <2>2, <2>3, <2>4 DEF FindVictim, mailboxVars, bounds
  <1>2. CASE DeleteListRows(c)
    <2>1. pc[c] \in PipelineLabels /\ "del_next" \in DeleteLabels
      BY <1>2, <1>b DEF DeleteListRows, DeleteLabels
    <2>2. frame' \in Frame
      BY <1>2, <1>a DEF DeleteListRows, Frame, ChunksOf
    <2>3. ClientTypeOK' /\ LockInv' /\ PosInv'
      BY <1>2, <1>b, <2>1, <2>2, PipelineTypeInv DEF DeleteListRows
    <2> QED
      BY <1>2, <2>3, StatementTypes
         DEF DeleteListRows, mailboxVars, history, bounds
  <1>3. CASE DeleteNextRow(c)
    <2>1. pc[c] = "del_next" /\ pc[c] \in PipelineLabels /\ "bin_bucket" \in DeleteLabels
      BY <1>3, <1>b DEF DeleteNextRow, DeleteLabels
    <2>2. frame' \in Frame
      <3>1. PICK r \in frame.todo :
              \/ frame' = [frame EXCEPT !.todo = @ \ {r}, !.row = {r}]
              \/ frame' = [frame EXCEPT !.todo = @ \ {r}]
        BY <1>3 DEF DeleteNextRow
      <3>2. {r} \subseteq ChunkRow /\ frame.todo \ {r} \subseteq ChunkRow
        BY <1>a DEF Frame
      <3>3. CASE frame' = [frame EXCEPT !.todo = @ \ {r}, !.row = {r}]
        BY <1>a, <3>2, <3>3 DEF Frame
      <3>4. CASE frame' = [frame EXCEPT !.todo = @ \ {r}]
        BY <1>a, <3>2, <3>4 DEF Frame
      <3> QED
        BY <3>1, <3>3, <3>4
    <2>3. UNCHANGED <<req, holder>>
      BY <1>3 DEF DeleteNextRow
    <2>4. Goto(c, "bin_bucket") \/ Goto(c, "del_next")
      BY <1>3, <2>1 DEF DeleteNextRow, Goto, ClientTypeOK
    <2>5. ClientTypeOK' /\ LockInv' /\ PosInv'
      BY <1>b, <2>1, <2>2, <2>3, <2>4, PipelineTypeInv DEF DeleteLabels
    <2> QED
      BY <1>3, <2>5, StatementTypes
         DEF DeleteNextRow, mailboxVars, history, bounds
  <1>4. CASE BinFindBucket(c)
    <2>1. pc[c] \in PipelineLabels /\ {"bin_object", "bin_mkbucket"} \subseteq DeleteLabels
      BY <1>4, <1>b DEF BinFindBucket, DeleteLabels
    <2>2. frame' \in Frame
      <3>1. buckets[RecycleBin] \in Nat
        BY DEF DBTypeOK, Names
      <3> QED
        BY <1>4, <1>a, <3>1 DEF BinFindBucket, Frame
    <2>3. Goto(c, "bin_object") \/ Goto(c, "bin_mkbucket")
      BY <1>4 DEF BinFindBucket
    <2>4. ClientTypeOK' /\ LockInv' /\ PosInv'
      BY <1>4, <1>b, <2>1, <2>2, <2>3, PipelineTypeInv DEF BinFindBucket
    <2> QED
      BY <1>4, <2>4, StatementTypes
         DEF BinFindBucket, mailboxVars, history, bounds
  <1>5. CASE BinMakeBucket(c)
    <2>1. pc[c] \in PipelineLabels /\ "bin_object" \in DeleteLabels
      BY <1>5, <1>b DEF BinMakeBucket, DeleteLabels
    <2>2. ClientTypeOK' /\ LockInv' /\ PosInv'
      <3>1. CASE AfterDelete(c)
        BY <2>1, <3>1, PipelineTypeInv
      <3>2. CASE /\ Goto(c, "bin_object")
                 /\ frame' = [frame EXCEPT !.bin = nextId]
                 /\ UNCHANGED <<req, holder>>
        <4>1. frame' \in Frame
          BY <1>a, <3>2 DEF Frame, DBTypeOK
        <4> QED
          BY <1>b, <2>1, <3>2, <4>1, PipelineTypeInv
      <3> QED
        BY <1>5, <3>1, <3>2 DEF BinMakeBucket
    <2>3. DBTypeOK'
      BY <1>5, StatementTypes DEF BinMakeBucket, Names
    <2> QED
      BY <1>5, <2>2, <2>3 DEF BinMakeBucket, mailboxVars, history, bounds
  <1>6. CASE BinFindObject(c)
    <2>1. pc[c] \in PipelineLabels /\ {"bin_move", "bin_mkobject"} \subseteq DeleteLabels
      BY <1>6, <1>b DEF BinFindObject, DeleteLabels
    <2>2. frame' \in Frame
      BY <1>6, <1>a DEF BinFindObject, ObjectsAt, Frame
    <2>3. Goto(c, "bin_move") \/ Goto(c, "bin_mkobject")
      BY <1>6 DEF BinFindObject
    <2>4. ClientTypeOK' /\ LockInv' /\ PosInv'
      BY <1>6, <1>b, <2>1, <2>2, <2>3, PipelineTypeInv DEF BinFindObject
    <2> QED
      BY <1>6, <2>4, StatementTypes
         DEF BinFindObject, mailboxVars, history, bounds
  <1>7. CASE BinMakeObject(c)
    <2>1. pc[c] \in PipelineLabels /\ "bin_move" \in DeleteLabels
      BY <1>7, <1>b DEF BinMakeObject, DeleteLabels
    <2>2. ClientTypeOK' /\ LockInv' /\ PosInv'
      <3>1. CASE AfterDelete(c)
        BY <2>1, <3>1, PipelineTypeInv
      <3>2. CASE /\ Goto(c, "bin_move")
                 /\ frame' = [frame EXCEPT !.bin = nextId]
                 /\ UNCHANGED <<req, holder>>
        <4>1. frame' \in Frame
          BY <1>a, <3>2 DEF Frame, DBTypeOK
        <4> QED
          BY <1>b, <2>1, <3>2, <4>1, PipelineTypeInv
      <3> QED
        BY <1>7, <3>1, <3>2 DEF BinMakeObject
    <2>3. DBTypeOK'
      <3>1. frame.bin \in Nat /\ <<>> \in Seq(Contents) /\ RecycleKey \in ObjectKeys
        BY <1>a DEF Frame, ObjectKeys
      <3> QED
        BY <1>7, <3>1, StatementTypes DEF BinMakeObject
    <2> QED
      BY <1>7, <2>2, <2>3 DEF BinMakeObject, mailboxVars, history, bounds
  <1>8. CASE BinMoveRow(c)
    <2>1. pc[c] \in PipelineLabels /\ "del_next" \in DeleteLabels
      BY <1>8, <1>b DEF BinMoveRow, DeleteLabels
    <2>2. ClientTypeOK' /\ LockInv' /\ PosInv'
      <3>1. CASE AfterDelete(c)
        BY <2>1, <3>1, PipelineTypeInv
      <3>2. CASE /\ Goto(c, "del_next")
                 /\ frame' = [frame EXCEPT !.row = {}, !.bin = NoId]
                 /\ UNCHANGED <<req, holder>>
        <4>1. frame' \in Frame
          BY <1>a, <3>2 DEF Frame
        <4> QED
          BY <1>b, <2>1, <3>2, <4>1, PipelineTypeInv
      <3> QED
        BY <1>8, <3>1, <3>2 DEF BinMoveRow
    <2>3. DBTypeOK'
      <3>1. frame.bin \in Nat /\ frame.row \subseteq ChunkRow
        BY <1>a DEF Frame
      <3> QED
        BY <1>8, <3>1, StatementTypes DEF BinMoveRow
    <2> QED
      BY <1>8, <2>2, <2>3 DEF BinMoveRow, mailboxVars, history, bounds
  <1>9. CASE DeleteRows(c)
    <2>1. pc[c] \in PipelineLabels /\ "del_object" \in DeleteLabels
      BY <1>9, <1>b DEF DeleteRows, DeleteLabels
    <2>2. ClientTypeOK' /\ LockInv' /\ PosInv'
      BY <1>9, <1>a, <1>b, <2>1, PipelineTypeInv DEF DeleteRows
    <2> QED
      BY <1>9, <2>2, StatementTypes
         DEF DeleteRows, mailboxVars, history, bounds
  <1>10. CASE DeleteVictim(c)
    <2>1. pc[c] \in PipelineLabels
      BY <1>10, <1>b DEF DeleteVictim, DeleteLabels
    <2>2. ClientTypeOK' /\ LockInv' /\ PosInv'
      BY <1>10, <2>1, PipelineTypeInv DEF DeleteVictim
    <2> QED
      BY <1>10, <2>2, StatementTypes
         DEF DeleteVictim, mailboxVars, history, bounds
  <1> QED
    BY <1>1, <1>2, <1>3, <1>4, <1>5, <1>6, <1>7, <1>8, <1>9, <1>10 DEF DeleteStep

(* The content at the upload position, and the row to be recorded for it.  *)
LEMMA CurrentTypes ==
    ASSUME TypeInv, NEW c \in Clients, pc[c] \in ChunkLabels
    PROVE  /\ Current \in Contents
           /\ CurrentRow \in ChunkRow
           /\ CurrentSubject(c) \in [bucket: ObjectKeys, key: ObjectKeys,
                                     index: Nat, object: Nat]
  <1>1. frame.pos \in Nat /\ frame.pos < Len(frame.body)
    BY DEF TypeInv, TypeOK, ClientTypeOK, PosInv, At, Frame
  <1>2. Current \in Contents
    BY <1>1 DEF Current, TypeInv, TypeOK, ClientTypeOK, Frame
  <1>3. frame.obj \in Nat /\ frame.uid \in Nat /\ req[c].key \in ObjectKeys
    BY DEF TypeInv, TypeOK, ClientTypeOK, Frame, Request
  <1> QED
    BY <1>1, <1>2, <1>3 DEF CurrentRow, CurrentSubject, ChunkRow

(* APPEND keeps the type of the folder.                                    *)
LEMMA AppendTypes ==
    ASSUME TypeInv, NEW c \in Clients, pc[c] = "up_draft",
           AppendDraft(CurrentSubject(c), Current)
    PROVE  drafts' \subseteq Draft /\ nextUid' \in Nat \ {0}
  <1>1. Current \in Contents /\ CurrentSubject(c) \in
            [bucket: ObjectKeys, key: ObjectKeys, index: Nat, object: Nat]
    BY CurrentTypes DEF ChunkLabels
  <1> HIDE DEF Current, CurrentSubject
  <1>2. [uid |-> nextUid, subject |-> CurrentSubject(c), data |-> Current,
         deleted |-> FALSE] \in Draft
    BY <1>1 DEF Draft, TypeInv, TypeOK
  <1>3. drafts' \subseteq Draft
    BY <1>2 DEF AppendDraft, TypeInv, TypeOK
  <1>4. nextUid' \in Nat \ {0}
    BY DEF AppendDraft, TypeInv, TypeOK
  <1> QED
    BY <1>3, <1>4

(* STORE and EXPUNGE keep the type of the folder.                          *)
LEMMA FolderTypes ==
    ASSUME drafts \subseteq Draft, nextUid \in Nat \ {0}, NEW uid,
           \/ DeleteDraft(uid) \/ FlagDraft(uid) \/ ExpungeDrafts
           \/ UNCHANGED mailboxVars
    PROVE  drafts' \subseteq Draft /\ nextUid' \in Nat \ {0}
  <1>1. \A d \in drafts : [d EXCEPT !.deleted = TRUE] \in Draft
    BY DEF Draft
  <1> QED
    BY <1>1 DEF DeleteDraft, FlagDraft, ExpungeDrafts, mailboxVars, DraftsWithUid

(* The steps of upload keep types, mutual exclusion and the position.      *)
LEMMA UploadTypeInv ==
    ASSUME TypeInv, NEW c \in Clients, UploadStep(c)
    PROVE  TypeInv'
  <1> USE DEF TypeInv, TypeOK
  <1>a. /\ frame \in Frame
        /\ \A r \in chunks : r \in ChunkRow
    BY DEF ClientTypeOK, DBTypeOK
  <1>b. /\ UploadLabels \subseteq PipelineLabels
        /\ ChunkLabels \subseteq UploadLabels
        /\ {"up_insert", "up_next"} \subseteq UploadLabels \ ChunkLabels
    BY DEF PipelineLabels, UploadLabels, ChunkLabels
  <1>p. pc[c] \in ChunkLabels => frame.pos < Len(frame.body)
    BY DEF PosInv, At
  <1>1. CASE UploadInsertObject(c)
    <2>1. pc[c] \in PipelineLabels
      BY <1>1, <1>b DEF UploadInsertObject
    <2>2. ClientTypeOK' /\ LockInv' /\ PosInv'
      <3>1. CASE Leave(c)
        BY <2>1, <3>1, PipelineTypeInv
      <3>2. CASE /\ Goto(c, "up_next")
                 /\ frame' = [frame EXCEPT !.obj = nextId]
                 /\ UNCHANGED <<req, holder>>
        <4>1. frame' \in Frame
          BY <1>a, <3>2 DEF Frame, DBTypeOK
        <4> QED
          BY <1>b, <2>1, <3>2, <4>1, PipelineTypeInv
      <3> QED
        BY <1>1, <3>1, <3>2 DEF UploadInsertObject
    <2>3. DBTypeOK'
      <3>1. /\ req[c].bucket \in Nat
            /\ req[c].key \in ObjectKeys
            /\ frame.body \in Seq(Contents)
        BY <1>a DEF ClientTypeOK, Request, Frame
      <3> QED
        BY <1>1, <3>1, StatementTypes DEF UploadInsertObject
    <2> QED
      BY <1>1, <2>2, <2>3 DEF UploadInsertObject, mailboxVars, history, bounds
  <1>2. CASE UploadDedup(c)
    <2>1. /\ pc[c] \in PipelineLabels
          /\ {"up_record", "up_pool"} \subseteq PipelineLabels
      BY <1>2, <1>b DEF UploadDedup, ChunkLabels
    <2>2. frame' \in Frame /\ frame'.pos < Len(frame'.body)
      <3>1. frame.pos < Len(frame.body)
        BY <1>2 DEF UploadDedup
      <3>2. CASE frame' = frame
        BY <1>a, <3>1, <3>2
      <3>3. ASSUME NEW r \in DedupHits,
                   frame' = [frame EXCEPT !.uid = r.uid, !.row = {}]
            PROVE  frame' \in Frame /\ frame'.pos < Len(frame'.body)
        <4>1. r.uid \in Nat
          BY <1>a DEF DedupHits, ActiveWithHash, ChunkRow
        <4> QED
          BY <1>a, <3>1, <3>3, <4>1 DEF Frame
      <3> QED
        BY <1>2, <3>2, <3>3 DEF UploadDedup
    <2>3. Goto(c, "up_record") \/ Goto(c, "up_pool")
      BY <1>2 DEF UploadDedup
    <2>4. ClientTypeOK' /\ LockInv' /\ PosInv'
      BY <1>2, <2>1, <2>2, <2>3, PipelineTypeInv DEF UploadDedup
    <2> QED
      BY <1>2, <2>4, StatementTypes
         DEF UploadDedup, mailboxVars, history, bounds
  <1>3. CASE UploadFindFree(c)
    <2>1. pc[c] \in ChunkLabels /\ pc[c] \in PipelineLabels /\ "up_draft" \in PipelineLabels
      BY <1>3, <1>b DEF UploadFindFree, ChunkLabels
    <2>2. frame' \in Frame /\ frame'.pos < Len(frame'.body)
      BY <1>3, <1>a, <1>p, <2>1 DEF UploadFindFree, FreeChunks, Frame
    <2>3. ClientTypeOK' /\ LockInv' /\ PosInv'
      BY <1>3, <2>1, <2>2, PipelineTypeInv DEF UploadFindFree
    <2> QED
      BY <1>3, <2>3, StatementTypes
         DEF UploadFindFree, mailboxVars, history, bounds
  <1>4. CASE UploadCreateDraft(c)
    <2>1. /\ pc[c] \in ChunkLabels /\ pc[c] \in PipelineLabels
          /\ {"up_record", "up_expunge"} \subseteq PipelineLabels
      BY <1>4, <1>b DEF UploadCreateDraft, ChunkLabels
    <2>2. drafts' \subseteq Draft /\ nextUid' \in Nat \ {0}
      BY <1>4, AppendTypes DEF UploadCreateDraft
    <2>3. frame' \in Frame /\ frame'.pos < Len(frame'.body)
      <3>1. PICK uid \in SearchHits(drafts', CurrentSubject(c)) :
                frame' = [frame EXCEPT !.uid = uid]
        BY <1>4 DEF UploadCreateDraft
      <3>2. uid \in Nat
        BY <2>2 DEF SearchHits, Draft
      <3> QED
        BY <1>a, <1>p, <2>1, <3>1, <3>2 DEF Frame
    <2>4. Goto(c, "up_record") \/ Goto(c, "up_expunge")
      BY <1>4 DEF UploadCreateDraft
    <2>5. ClientTypeOK' /\ LockInv' /\ PosInv'
      BY <1>4, <2>1, <2>3, <2>4, PipelineTypeInv DEF UploadCreateDraft
    <2> QED
      BY <1>4, <2>2, <2>5, StatementTypes DEF UploadCreateDraft, history, bounds
  <1>5. CASE UploadDeleteDraft(c)
    <2>1. pc[c] \in ChunkLabels /\ pc[c] \in PipelineLabels /\ "up_unpool" \in PipelineLabels
      BY <1>5, <1>b DEF UploadDeleteDraft, ChunkLabels
    <2>2. drafts' \subseteq Draft /\ nextUid' \in Nat \ {0}
      BY <1>5, FolderTypes DEF UploadDeleteDraft
    <2>3. ClientTypeOK' /\ LockInv' /\ PosInv'
      BY <1>5, <1>a, <1>p, <2>1, PipelineTypeInv DEF UploadDeleteDraft
    <2> QED
      BY <1>5, <2>2, <2>3, StatementTypes DEF UploadDeleteDraft, history, bounds
  <1>6. CASE UploadDropFreeRow(c)
    <2>1. pc[c] \in ChunkLabels /\ pc[c] \in PipelineLabels /\ "up_record" \in PipelineLabels
      BY <1>6, <1>b DEF UploadDropFreeRow, ChunkLabels
    <2>2. ClientTypeOK' /\ LockInv' /\ PosInv'
      BY <1>6, <1>a, <1>p, <2>1, PipelineTypeInv DEF UploadDropFreeRow
    <2> QED
      BY <1>6, <2>2, StatementTypes
         DEF UploadDropFreeRow, mailboxVars, history, bounds
  <1>7. CASE UploadRecord(c)
    <2>1. pc[c] \in ChunkLabels /\ pc[c] \in PipelineLabels
      BY <1>7, <1>b DEF UploadRecord, ChunkLabels
    <2>2. ClientTypeOK' /\ LockInv' /\ PosInv'
      <3>1. CASE Leave(c)
        BY <2>1, <3>1, PipelineTypeInv
      <3>2. CASE /\ Goto(c, "up_next")
                 /\ frame' = [frame EXCEPT !.pos = @ + 1, !.uid = 0, !.row = {}]
                 /\ UNCHANGED <<req, holder>>
        <4>1. frame.pos + 1 \in Nat
          BY <1>a DEF Frame
        <4>2. frame' = [body |-> frame.body, todo |-> frame.todo, row |-> {},
                        victim |-> frame.victim, obj |-> frame.obj,
                        bin |-> frame.bin, pos |-> frame.pos + 1, uid |-> 0]
          BY <1>a, <3>2 DEF Frame
        <4>3. frame' \in Frame
          BY <1>a, <4>1, <4>2 DEF Frame
        <4> QED
          BY <1>b, <2>1, <3>2, <4>3, PipelineTypeInv
      <3> QED
        BY <1>7, <3>1, <3>2 DEF UploadRecord
    <2>3. DBTypeOK'
      BY <1>7, <2>1, CurrentTypes, StatementTypes DEF UploadRecord
    <2> QED
      BY <1>7, <2>2, <2>3 DEF UploadRecord, mailboxVars, history, bounds
  <1>8. CASE UploadDone(c)
    <2>1. pc[c] \in PipelineLabels
      BY <1>8, <1>b DEF UploadDone
    <2>2. ClientTypeOK' /\ LockInv' /\ PosInv'
      BY <1>8, <2>1, PipelineTypeInv DEF UploadDone
    <2>3. acked' \subseteq Nat
      BY <1>8, <1>a DEF UploadDone, Frame
    <2> QED
      BY <1>8, <2>2, <2>3, StatementTypes DEF UploadDone, mailboxVars, bounds
  <1> QED
    BY <1>1, <1>2, <1>3, <1>4, <1>5, <1>6, <1>7, <1>8 DEF UploadStep

(* So do the steps of download.                                            *)
LEMMA DownloadTypeInv ==
    ASSUME TypeInv, NEW c \in Clients, DownloadStep(c)
    PROVE  TypeInv'
  <1> USE DEF TypeInv, TypeOK
  <1>a. /\ frame \in Frame
        /\ chunks \subseteq ChunkRow
        /\ drafts \subseteq Draft
    BY DEF ClientTypeOK, DBTypeOK
  <1>b. /\ {"dl_rows", "dl_fetch", "find"} \subseteq PipelineLabels
        /\ {"dl_rows", "dl_fetch", "find"} \cap ChunkLabels = {}
    BY DEF PipelineLabels, DownloadLabels, DeleteLabels, ChunkLabels
  <1>1. CASE DownloadListRows(c)
    <2>1. pc[c] \in PipelineLabels
      BY <1>1, <1>b DEF DownloadListRows
    <2>2. ClientTypeOK' /\ LockInv' /\ PosInv'
      <3>1. CASE Leave(c)
        BY <2>1, <3>1, PipelineTypeInv
      <3>2. CASE /\ Goto(c, "dl_fetch")
                 /\ frame' = [frame EXCEPT !.todo = ChunksOf(req[c].source)]
                 /\ UNCHANGED <<req, holder>>
        <4>1. frame' \in Frame
          BY <1>a, <3>2 DEF Frame, ChunksOf
        <4> QED
          BY <1>b, <2>1, <3>2, <4>1, PipelineTypeInv
      <3> QED
        BY <1>1, <3>1, <3>2 DEF DownloadListRows
    <2> QED
      BY <1>1, <2>2, StatementTypes
         DEF DownloadListRows, mailboxVars, history, bounds
  <1>2. CASE DownloadFetch(c)
    <2>1. pc[c] \in PipelineLabels
      BY <1>2, <1>b DEF DownloadFetch
    <2>2. ClientTypeOK' /\ LockInv' /\ PosInv'
      <3>1. CASE Leave(c)
        BY <2>1, <3>1, PipelineTypeInv
      <3>2. ASSUME NEW r \in frame.todo, NEW d \in DraftsWithUid(r.uid),
                   frame' = [frame EXCEPT !.todo = @ \ {r},
                                          !.body = Append(@, d.data)],
                   UNCHANGED <<pc, req, holder>>
            PROVE  ClientTypeOK' /\ LockInv' /\ PosInv'
        <4>1. d.data \in Contents
          BY <1>a DEF DraftsWithUid, Draft
        <4>2. Append(frame.body, d.data) \in Seq(Contents)
          BY <1>a, <4>1 DEF Frame
        <4>3. frame' \in Frame
          BY <1>a, <3>2, <4>2 DEF Frame
        <4>4. Goto(c, "dl_fetch")
          BY <1>2, <3>2 DEF DownloadFetch, Goto, ClientTypeOK
        <4> QED
          BY <1>b, <2>1, <3>2, <4>3, <4>4, PipelineTypeInv
      <3> QED
        BY <1>2, <3>1, <3>2 DEF DownloadFetch
    <2> QED
      BY <1>2, <2>2, StatementTypes
         DEF DownloadFetch, mailboxVars, history, bounds
  <1>3. CASE DownloadDone(c)
    <2>1. pc[c] \in PipelineLabels
      BY <1>3, <1>b DEF DownloadDone
    <2>2. ClientTypeOK' /\ LockInv' /\ PosInv'
      BY <1>3, <1>a, <1>b, <2>1, PipelineTypeInv DEF DownloadDone
    <2> QED
      BY <1>3, <2>2, StatementTypes
         DEF DownloadDone, mailboxVars, history, bounds
  <1> QED
    BY <1>1, <1>2, <1>3 DEF DownloadStep

(* So do failed calls and dropped requests.                                *)
LEMMA FaultTypeInv ==
    ASSUME TypeInv, NEW c \in Clients, FaultStep(c)
    PROVE  TypeInv'
  <1> USE DEF TypeInv, TypeOK
  <1>a. faults' \in Nat /\ issued' \in Nat
    BY DEF FaultStep, FailDelete, FailIgnored, FailAfterAppend, Abandon, Fault
  <1>b. DBTypeOK' /\ UNCHANGED history
    BY StatementTypes DEF FaultStep, FailDelete, FailIgnored, FailAfterAppend, Abandon
  <1>1. CASE FailDelete(c)
    <2>1. pc[c] \in PipelineLabels
      BY <1>1, LabelFacts DEF FailDelete
    <2>2. ClientTypeOK' /\ LockInv' /\ PosInv'
      BY <1>1, <2>1, PipelineTypeInv DEF FailDelete
    <2> QED
      BY <1>1, <1>a, <1>b, <2>2 DEF FailDelete, mailboxVars, history
  <1>2. CASE FailIgnored(c)
    <2>1. /\ pc[c] \in ChunkLabels /\ pc[c] \in PipelineLabels
          /\ {"up_unpool", "up_record"} \subseteq PipelineLabels
      BY <1>2 DEF FailIgnored, ChunkLabels, PipelineLabels, UploadLabels
    <2>2. frame.pos < Len(frame.body) /\ frame \in Frame
      BY <2>1 DEF PosInv, At, ClientTypeOK
    <2>3. UNCHANGED <<req, holder, frame>>
      BY <1>2 DEF FailIgnored
    <2>4. Goto(c, "up_unpool") \/ Goto(c, "up_record")
      BY <1>2 DEF FailIgnored
    <2>5. ClientTypeOK' /\ LockInv' /\ PosInv'
      BY <2>1, <2>2, <2>3, <2>4, PipelineTypeInv
    <2>6. drafts' \subseteq Draft /\ nextUid' \in Nat \ {0}
      BY <1>2, FolderTypes DEF FailIgnored
    <2> QED
      BY <1>a, <1>b, <2>5, <2>6 DEF history
  <1>3. CASE FailAfterAppend(c)
    <2>1. pc[c] \in PipelineLabels
      BY <1>3 DEF FailAfterAppend, PipelineLabels, UploadLabels
    <2>2. ClientTypeOK' /\ LockInv' /\ PosInv'
      BY <1>3, <2>1, PipelineTypeInv DEF FailAfterAppend
    <2>3. drafts' \subseteq Draft /\ nextUid' \in Nat \ {0}
      BY <1>3, AppendTypes DEF FailAfterAppend
    <2> QED
      BY <1>a, <1>b, <2>2, <2>3 DEF history
  <1>4. CASE Abandon(c)
    <2>1. ClientTypeOK' /\ LockInv' /\ PosInv'
      BY <1>4, ControlTypes, LeaveKeepsLock DEF Abandon
    <2> QED
      BY <1>4, <1>a, <1>b, <2>1 DEF Abandon, mailboxVars, history
  <1> QED
    BY <1>1, <1>2, <1>3, <1>4 DEF FaultStep

(* So does a restart.                                                      *)
LEMMA RestartTypeInv ==
    ASSUME TypeInv, Restart
    PROVE  TypeInv'
  <1>1. "idle" \in Labels /\ "idle" \notin PipelineLabels
    BY LabelFacts
  <1>2. NoRequest \in Request /\ NoFrame \in Frame
    <2>1. <<>> \in Seq(Contents)
      OBVIOUS
    <2> QED
      BY <2>1 DEF NoRequest, Request, NoFrame, Frame, Operations, ObjectKeys
  <1>3. ClientTypeOK'
    BY <1>1, <1>2 DEF Restart, ClientTypeOK
  <1>4. LockInv'
    BY <1>1, PipelineAssumption DEF Restart, LockInv
  <1>5. PosInv'
    BY DEF Restart, PosInv, At, ChunkLabels
  <1>6. DBTypeOK'
    BY StatementTypes DEF Restart, TypeInv, TypeOK
  <1> QED
    BY <1>3, <1>4, <1>5, <1>6
       DEF Restart, Fault, TypeInv, TypeOK, mailboxVars, history

(* The initial state has its types, and nobody holds the mutex.            *)
LEMMA InitTypeInv == Init => TypeInv
  <1> SUFFICES ASSUME Init PROVE TypeInv
    OBVIOUS
  <1>1. "idle" \in Labels /\ "idle" \notin PipelineLabels
    BY LabelFacts
  <1>2. NoRequest \in Request /\ NoFrame \in Frame
    <2>1. <<>> \in Seq(Contents)
      OBVIOUS
    <2> QED
      BY <2>1 DEF NoRequest, Request, NoFrame, Frame, Operations, ObjectKeys
  <1>3. ClientTypeOK
    BY <1>1, <1>2 DEF Init, ClientTypeOK
  <1>4. LockInv
    BY <1>1, PipelineAssumption DEF Init, LockInv
  <1>5. PosInv
    BY DEF Init, PosInv, At, ChunkLabels
  <1>6. DBTypeOK
    BY DEF Init, DBInit, DBTypeOK
  <1> QED
    BY <1>3, <1>4, <1>5, <1>6 DEF Init, MailboxInit, TypeInv, TypeOK

(* Every step keeps types, mutual exclusion and the position.              *)
LEMMA NextTypeInv ==
    ASSUME TypeInv, [Next]_vars
    PROVE  TypeInv'
  <1>1. CASE UNCHANGED vars
    BY <1>1 DEF vars, dbVars, mailboxVars, clientVars, history, bounds,
                TypeInv, TypeOK, DBTypeOK, ClientTypeOK, LockInv, PosInv, At
  <1>2. ASSUME NEW c \in Clients, NewRequest(c) \/ HandlerStep(c) \/ FaultStep(c)
        PROVE  TypeInv'
    BY <1>2, RequestTypeInv, HandlerTypeInv, DeleteTypeInv, UploadTypeInv,
       DownloadTypeInv, FaultTypeInv DEF HandlerStep
  <1> QED
    BY <1>1, <1>2, CreateBucketTypeInv, RestartTypeInv DEF Next

(* Types, mutual exclusion and upload position are an inductive invariant. *)
THEOREM TypeInvHolds == Spec => []TypeInv
  <1>1. Init => TypeInv
    BY InitTypeInv
  <1>2. TypeInv /\ [Next]_vars => TypeInv'
    BY NextTypeInv
  <1> QED
    BY <1>1, <1>2, PTL DEF Spec

(* Tables, folder and handler locals keep their types in every step.       *)
THEOREM TypeCorrect == Spec => []TypeOK
  <1>1. TypeInv => TypeOK
    BY DEF TypeInv
  <1> QED
    BY <1>1, TypeInvHolds, PTL

(* The mutex is held by exactly the handler that is inside the pipeline,   *)
(* through errors, dropped requests and restarts.                          *)
THEOREM MutualExclusion == Spec => []LockInv
  <1>1. TypeInv => LockInv
    BY DEF TypeInv
  <1> QED
    BY <1>1, TypeInvHolds, PTL

-----------------------------------------------------------------------------
(* Most steps touch neither the chunk being uploaded, nor the folder, nor  *)
(* any row but to delete it or to move it to the recycling bin.            *)

KeepsUpload ==
    \A x \in Clients :
        pc'[x] \in ChunkLabels => pc'[x] = pc[x] /\ frame' = frame

KeepsRows ==
    \A r \in chunks' :
        \/ r \in chunks
        \/ /\ r.status = "free"
           /\ \E s \in chunks : s.hash = r.hash /\ s.uid = r.uid

Quiet == KeepsUpload /\ KeepsRows /\ UNCHANGED mailboxVars

(* A handler that ends disturbs no upload but its own.                     *)
LEMMA LeaveKeepsUpload ==
    ASSUME TypeInv, NEW c \in Clients, Leave(c)
    PROVE  KeepsUpload
  <1>1. pc' = [pc EXCEPT ![c] = "idle"] /\ (holder # c => frame' = frame)
    BY DEF Leave, Goto
  <1>2. "idle" \notin ChunkLabels /\ ChunkLabels \subseteq PipelineLabels
    BY LabelFacts
  <1> QED
    BY <1>1, <1>2, PipelineAssumption
       DEF KeepsUpload, TypeInv, TypeOK, ClientTypeOK, LockInv

(* Nor does a step to a label outside the chunk loop.                      *)
LEMMA GotoKeepsUpload ==
    ASSUME TypeInv, NEW c \in Clients, NEW label, label \notin ChunkLabels,
           Goto(c, label), holder \in {c, NoClient} \/ UNCHANGED frame
    PROVE  KeepsUpload
  <1>1. pc' = [pc EXCEPT ![c] = label]
    BY DEF Goto
  <1>2. ChunkLabels \subseteq PipelineLabels
    BY LabelFacts
  <1> QED
    BY <1>1, <1>2, PipelineAssumption
       DEF KeepsUpload, TypeInv, TypeOK, ClientTypeOK, LockInv

(* Nor does the return from delete.                                        *)
LEMMA AfterDeleteKeepsUpload ==
    ASSUME TypeInv, NEW c \in Clients, pc[c] \in PipelineLabels, AfterDelete(c)
    PROVE  KeepsUpload
  <1>1. holder = c
    BY HolderFact DEF TypeInv
  <1>2. "up_insert" \notin ChunkLabels
    BY LabelFacts
  <1> QED
    BY <1>1, <1>2, LeaveKeepsUpload, GotoKeepsUpload DEF AfterDelete

(* Only the INSERT of a chunk row makes a row that is active and new.      *)
LEMMA StatementsKeepRows ==
    /\ UNCHANGED chunks => KeepsRows
    /\ UNCHANGED dbVars => KeepsRows
    /\ \A n : InsertBucket(n) => KeepsRows
    /\ \A b, k, d : InsertObject(b, k, d) => KeepsRows
    /\ \A rows : DeleteChunkRows(rows) => KeepsRows
    /\ \A id : DeleteObjectRow(id) => KeepsRows
    /\ \A b : DeleteBucketRow(b) => KeepsRows
    /\ \A row \in ChunkRow : \A bin, i : MoveChunk(row, bin, i) => KeepsRows
  <1>1. ASSUME NEW row \in ChunkRow, NEW bin, NEW i, MoveChunk(row, bin, i)
        PROVE  KeepsRows
    <2> DEFINE moved == [row EXCEPT !.object = bin, !.index = i, !.status = "free"]
    <2>1. moved.status = "free" /\ moved.hash = row.hash /\ moved.uid = row.uid
      BY DEF ChunkRow
    <2>2. chunks' = (chunks \ {row}) \cup {moved} /\ row \in chunks
      BY <1>1 DEF MoveChunk, CanMoveChunk
    <2> HIDE DEF moved
    <2> QED
      BY <2>1, <2>2 DEF KeepsRows
  <1> QED
    BY <1>1 DEF KeepsRows, dbVars, InsertBucket, InsertObject, DeleteChunkRows,
                DeleteObjectRow, DeleteBucketRow

(* Requests, and steps of handlers outside the pipeline, are quiet.        *)
LEMMA RequestsAreQuiet ==
    ASSUME TypeInv, NEW c \in Clients
    PROVE  /\ NewRequest(c) => Quiet
           /\ \A n \in BucketNames, k \in Keys : CopyDestination(c, n, k) => Quiet
           /\ RemoveBucket(c) => Quiet
           /\ Lock(c) => Quiet
  <1>0. {"wait", "copy_dest", "rm_bucket", "dl_rows", "find"} \cap ChunkLabels = {}
    BY DEF ChunkLabels
  <1>1. ASSUME NEW request, NEW label \in {"wait", "copy_dest", "rm_bucket"},
               Issue(c, request, label)
        PROVE  Quiet
    BY <1>0, <1>1, GotoKeepsUpload, StatementsKeepRows DEF Issue, Quiet
  <1>2. ASSUME NewRequest(c) PROVE Quiet
    BY <1>1, <1>2 DEF NewRequest, DeleteBucket, PutObject, GetObject,
                      DeleteObject, CopyObject
  <1>3. ASSUME NEW n \in BucketNames, NEW k \in Keys, CopyDestination(c, n, k)
        PROVE  Quiet
    BY <1>0, <1>3, GotoKeepsUpload, LeaveKeepsUpload, StatementsKeepRows
       DEF CopyDestination, Quiet
  <1>4. ASSUME RemoveBucket(c) PROVE Quiet
    BY <1>4, LeaveKeepsUpload, StatementsKeepRows DEF RemoveBucket, Quiet
  <1>5. ASSUME Lock(c) PROVE Quiet
    <2>1. Goto(c, "dl_rows") \/ Goto(c, "find")
      BY <1>5 DEF Lock
    <2> QED
      BY <1>0, <1>5, <2>1, GotoKeepsUpload, StatementsKeepRows DEF Lock, Quiet
  <1> QED
    BY <1>2, <1>3, <1>4, <1>5

(* The steps of delete are quiet.                                          *)
LEMMA DeletesAreQuiet ==
    ASSUME TypeInv, NEW c \in Clients, DeleteStep(c)
    PROVE  Quiet
  <1>0. DeleteLabels \subseteq PipelineLabels /\ DeleteLabels \cap ChunkLabels = {}
    BY LabelFacts
  <1>1. pc[c] \in DeleteLabels
    BY DEF DeleteStep, FindVictim, DeleteListRows, DeleteNextRow, BinFindBucket,
           BinMakeBucket, BinFindObject, BinMakeObject, BinMoveRow, DeleteRows,
           DeleteVictim, DeleteLabels
  <1>2. holder = c
    BY <1>0, <1>1, HolderFact DEF TypeInv
  <1>3. UNCHANGED mailboxVars
    BY DEF DeleteStep, FindVictim, DeleteListRows, DeleteNextRow, BinFindBucket,
           BinMakeBucket, BinFindObject, BinMakeObject, BinMoveRow, DeleteRows,
           DeleteVictim
  <1>4. frame.row \subseteq ChunkRow
    BY DEF TypeInv, TypeOK, ClientTypeOK, Frame
  <1>5. KeepsRows
    BY <1>4, StatementsKeepRows
       DEF DeleteStep, FindVictim, DeleteListRows, DeleteNextRow, BinFindBucket,
           BinMakeBucket, BinFindObject, BinMakeObject, BinMoveRow, DeleteRows,
           DeleteVictim
  <1>6. AfterDelete(c) \/ (\E label \in DeleteLabels : Goto(c, label))
    <2>1. CASE DeleteNextRow(c)
      <3>1. pc[c] = "del_next" /\ (Goto(c, "bin_bucket") \/ pc' = pc)
        BY <2>1 DEF DeleteNextRow
      <3>2. Goto(c, "bin_bucket") \/ Goto(c, "del_next")
        BY <3>1 DEF Goto, TypeInv, TypeOK, ClientTypeOK
      <3> QED
        BY <3>2 DEF DeleteLabels
    <2>2. CASE BinFindBucket(c)
      <3>1. Goto(c, "bin_object") \/ Goto(c, "bin_mkbucket")
        BY <2>2 DEF BinFindBucket
      <3> QED
        BY <3>1 DEF DeleteLabels
    <2> QED
      BY <2>1, <2>2
         DEF DeleteStep, FindVictim, DeleteListRows, BinMakeBucket, BinFindObject,
             BinMakeObject, BinMoveRow, DeleteRows, DeleteVictim, DeleteLabels
  <1>7. KeepsUpload
    BY <1>0, <1>1, <1>2, <1>6, AfterDeleteKeepsUpload, GotoKeepsUpload
  <1> QED
    BY <1>3, <1>5, <1>7 DEF Quiet

(* The steps of download are quiet.                                        *)
LEMMA DownloadsAreQuiet ==
    ASSUME TypeInv, NEW c \in Clients, DownloadStep(c)
    PROVE  Quiet
  <1>1. pc[c] \in DownloadLabels
    BY DEF DownloadStep, DownloadListRows, DownloadFetch, DownloadDone, DownloadLabels
  <1>2. holder = c
    BY <1>1, LabelFacts, HolderFact DEF TypeInv
  <1>3. \/ Leave(c)
        \/ \E label \in {"dl_fetch", "find"} : Goto(c, label)
    <2>1. CASE DownloadFetch(c)
      <3>1. pc[c] = "dl_fetch" /\ (Leave(c) \/ pc' = pc)
        BY <2>1 DEF DownloadFetch
      <3> QED
        BY <3>1 DEF Goto, TypeInv, TypeOK, ClientTypeOK
    <2> QED
      BY <2>1 DEF DownloadStep, DownloadListRows, DownloadDone
  <1>4. {"dl_fetch", "find"} \cap ChunkLabels = {}
    BY DEF ChunkLabels
  <1>5. KeepsUpload
    BY <1>2, <1>3, <1>4, LeaveKeepsUpload, GotoKeepsUpload
  <1>6. UNCHANGED <<dbVars, mailboxVars>>
    BY DEF DownloadStep, DownloadListRows, DownloadFetch, DownloadDone
  <1> QED
    BY <1>5, <1>6, StatementsKeepRows DEF Quiet

(* The steps of upload outside its chunk loop are quiet.                   *)
LEMMA UploadEndsAreQuiet ==
    ASSUME TypeInv, NEW c \in Clients, UploadInsertObject(c) \/ UploadDone(c)
    PROVE  Quiet
  <1>1. holder = c
    <2>1. pc[c] \in PipelineLabels
      BY LabelFacts DEF UploadInsertObject, UploadDone
    <2> QED
      BY <2>1, HolderFact DEF TypeInv
  <1>2. Leave(c) \/ Goto(c, "up_next")
    BY DEF UploadInsertObject, UploadDone
  <1>3. "up_next" \notin ChunkLabels
    BY LabelFacts
  <1>4. KeepsUpload
    BY <1>1, <1>2, <1>3, LeaveKeepsUpload, GotoKeepsUpload
  <1>5. KeepsRows /\ UNCHANGED mailboxVars
    BY StatementsKeepRows DEF UploadInsertObject, UploadDone
  <1> QED
    BY <1>4, <1>5 DEF Quiet

(* Faults that end a handler are quiet, but for a draft left behind.       *)
LEMMA EndingFaultsAreQuiet ==
    ASSUME TypeInv
    PROVE  /\ \A c \in Clients : FailDelete(c) \/ Abandon(c) => Quiet
           /\ \A c \in Clients : FailAfterAppend(c) => KeepsUpload /\ KeepsRows
           /\ Restart => Quiet
  <1>1. ASSUME NEW c \in Clients, FailDelete(c) PROVE Quiet
    <2>1. pc[c] \in PipelineLabels
      BY <1>1, LabelFacts DEF FailDelete
    <2> QED
      BY <1>1, <2>1, AfterDeleteKeepsUpload, StatementsKeepRows DEF FailDelete, Quiet
  <1>2. ASSUME NEW c \in Clients, Abandon(c) PROVE Quiet
    BY <1>2, LeaveKeepsUpload, StatementsKeepRows DEF Abandon, Quiet
  <1>3. ASSUME NEW c \in Clients, FailAfterAppend(c) PROVE KeepsUpload /\ KeepsRows
    BY <1>3, LeaveKeepsUpload, StatementsKeepRows DEF FailAfterAppend
  <1>4. ASSUME Restart PROVE Quiet
    <2>1. KeepsUpload
      BY <1>4 DEF Restart, KeepsUpload, ChunkLabels
    <2> QED
      BY <1>4, <2>1, StatementsKeepRows DEF Restart, Quiet
  <1> QED
    BY <1>1, <1>2, <1>3, <1>4

(* The steps that are not quiet are those of upload's loop.                *)
LoopStep(c) ==
    \/ UploadDedup(c) \/ UploadFindFree(c) \/ UploadCreateDraft(c)
    \/ UploadDeleteDraft(c) \/ UploadDropFreeRow(c) \/ UploadRecord(c)
    \/ FailIgnored(c) \/ FailAfterAppend(c)

(* Every step is quiet or belongs to the chunk loop of upload.             *)
LEMMA QuietOrLoop ==
    ASSUME TypeInv, [Next]_vars
    PROVE  Quiet \/ \E c \in Clients : LoopStep(c)
  <1>1. CASE UNCHANGED vars
    BY <1>1, StatementsKeepRows
       DEF vars, clientVars, Quiet, KeepsUpload, dbVars
  <1>2. ASSUME NEW n \in BucketNames, CreateBucket(n) PROVE Quiet
    BY <1>2, StatementsKeepRows DEF CreateBucket, Quiet, KeepsUpload, clientVars
  <1>3. ASSUME NEW c \in Clients, NewRequest(c) \/ HandlerStep(c) \/ FaultStep(c)
        PROVE  Quiet \/ LoopStep(c)
    BY <1>3, RequestsAreQuiet, DeletesAreQuiet, DownloadsAreQuiet,
       UploadEndsAreQuiet, EndingFaultsAreQuiet
       DEF HandlerStep, UploadStep, FaultStep, LoopStep
  <1> QED
    BY <1>1, <1>2, <1>3, EndingFaultsAreQuiet DEF Next

-----------------------------------------------------------------------------
(* Deduplication.  DedupSingleDraft is not inductive: a new row agrees     *)
(* with the others only because the answer of the dedup query still holds  *)
(* when the row is inserted, which DedupInv says.                          *)

DraftsInv == DedupInv /\ DedupSingleDraft

(* A step of upload's loop keeps the object, the position and the content. *)
LEMMA LoopKeepsCurrent ==
    ASSUME TypeInv, NEW c \in Clients, LoopStep(c),
           ~UploadRecord(c), ~FailAfterAppend(c)
    PROVE  /\ Current' = Current
           /\ \A x \in Clients : pc'[x] \in ChunkLabels => x = c
           /\ holder = c
  <1>1. frame'.body = frame.body /\ frame'.pos = frame.pos
    BY DEF LoopStep, UploadDedup, UploadFindFree, UploadCreateDraft,
           UploadDeleteDraft, UploadDropFreeRow, FailIgnored,
           TypeInv, TypeOK, ClientTypeOK, Frame
  <1>2. holder = c
    <2>1. pc[c] \in ChunkLabels \cup {"up_next"}
      BY DEF LoopStep, UploadDedup, UploadFindFree, UploadCreateDraft,
             UploadDeleteDraft, UploadDropFreeRow, FailIgnored, ChunkLabels
    <2> QED
      BY <2>1, LabelFacts, HolderFact DEF TypeInv
  <1>3. \E label : pc' = [pc EXCEPT ![c] = label]
    BY DEF LoopStep, UploadDedup, UploadFindFree, UploadCreateDraft,
           UploadDeleteDraft, UploadDropFreeRow, FailIgnored, Goto
  <1>4. \A x \in Clients : pc'[x] \in ChunkLabels => x = c
    BY <1>2, <1>3, LabelFacts DEF TypeInv, TypeOK, ClientTypeOK, LockInv
  <1> QED
    BY <1>1, <1>2, <1>4 DEF Current

(* Quiet steps keep deduplication.                                         *)
LEMMA QuietDraftsInv ==
    ASSUME TypeInv, DraftsInv, KeepsUpload, KeepsRows
    PROVE  DraftsInv'
  <1>1. \A r \in chunks' : r.status = "active" => r \in chunks
    BY DEF KeepsRows
  <1>2. DedupSingleDraft'
    BY <1>1 DEF DraftsInv, DedupSingleDraft
  <1>3. ASSUME NEW x \in Clients, pc'[x] \in ChunkLabels
        PROVE  /\ pc[x] = pc'[x]
               /\ Current' = Current /\ frame' = frame
               /\ \A r \in ActiveWithHash(Current)' : r \in ActiveWithHash(Current)
    BY <1>1, <1>3 DEF KeepsUpload, Current, ActiveWithHash
  <1>4. DedupInv'
    <2>1. ASSUME At(ChunkLabels \ {"up_record"})'
          PROVE  ActiveWithHash(Current)' = {}
      BY <1>3, <2>1 DEF At, DraftsInv, DedupInv
    <2>2. ASSUME At({"up_record"})'
          PROVE  \A r \in ActiveWithHash(Current)' : r.uid = frame'.uid
      BY <1>3, <2>2 DEF At, DraftsInv, DedupInv, ChunkLabels
    <2> QED
      BY <2>1, <2>2 DEF DedupInv
  <1> QED
    BY <1>2, <1>4 DEF DraftsInv

(* The chunk loop keeps deduplication.                                     *)
LEMMA LoopDraftsInv ==
    ASSUME TypeInv, TypeInv', DraftsInv, NEW c \in Clients, LoopStep(c)
    PROVE  DraftsInv'
  <1>1. CASE FailAfterAppend(c)
    BY <1>1, EndingFaultsAreQuiet, QuietDraftsInv
  <1>2. CASE UploadRecord(c)
    <2>1. pc[c] = "up_record" /\ holder = c
      BY <1>2, HolderFact DEF UploadRecord, TypeInv, PipelineLabels, UploadLabels
    <2>2. \A r \in ActiveWithHash(Current) : r.uid = frame.uid
      BY <2>1 DEF DraftsInv, DedupInv, At
    <2>3. CASE Leave(c) /\ UNCHANGED dbVars
      BY <2>3, LeaveKeepsUpload, StatementsKeepRows, QuietDraftsInv
    <2>4. CASE Goto(c, "up_next") /\ InsertChunk(CurrentRow)
      <3>1. /\ chunks' = chunks \cup {CurrentRow}
            /\ CurrentRow.hash = Current /\ CurrentRow.uid = frame.uid
        BY <2>4 DEF InsertChunk, CurrentRow
      <3>2. DedupSingleDraft'
        BY <2>2, <3>1 DEF DraftsInv, DedupSingleDraft, ActiveWithHash
      <3>3. DedupInv'
        <4>1. "up_next" \notin ChunkLabels
          BY LabelFacts
        <4>2. ~At(ChunkLabels)'
          BY <2>1, <2>4, <4>1, LabelFacts
             DEF At, Goto, TypeInv, TypeOK, ClientTypeOK, LockInv
        <4> QED
          BY <4>2 DEF DedupInv, At, ChunkLabels
      <3> QED
        BY <3>2, <3>3 DEF DraftsInv
    <2> QED
      BY <1>2, <2>3, <2>4 DEF UploadRecord
  <1>3. CASE ~UploadRecord(c) /\ ~FailAfterAppend(c)
    <2>1. /\ Current' = Current
          /\ \A x \in Clients : pc'[x] \in ChunkLabels => x = c
          /\ holder = c
      BY <1>3, LoopKeepsCurrent
    <2>2. chunks' \subseteq chunks
      BY <1>3 DEF LoopStep, UploadDedup, UploadFindFree, UploadCreateDraft,
                  UploadDeleteDraft, UploadDropFreeRow, FailIgnored,
                  dbVars, DeleteChunkRows
    <2>3. DedupSingleDraft'
      BY <2>2 DEF DraftsInv, DedupSingleDraft
    <2>4. ActiveWithHash(Current)' \subseteq ActiveWithHash(Current)
      BY <2>1, <2>2 DEF ActiveWithHash
    <2>5. \/ ActiveWithHash(Current) = {}
          \/ /\ pc'[c] = "up_record"
             /\ \A r \in ActiveWithHash(Current) : r.uid = frame'.uid
      <3>1. CASE UploadDedup(c)
        <4>1. ASSUME NEW r \in ActiveWithHash(Current),
                     Goto(c, "up_record"),
                     frame' = [frame EXCEPT !.uid = r.uid, !.row = {}]
              PROVE  /\ pc'[c] = "up_record"
                     /\ \A s \in ActiveWithHash(Current) : s.uid = frame'.uid
          <5>1. pc'[c] = "up_record" /\ frame'.uid = r.uid
            BY <4>1 DEF Goto, TypeInv, TypeOK, ClientTypeOK, Frame
          <5> QED
            BY <5>1 DEF DraftsInv, DedupSingleDraft, ActiveWithHash
        <4> QED
          BY <3>1, <4>1 DEF UploadDedup, DedupHits
      <3>2. CASE pc[c] \in ChunkLabels \ {"up_record"}
        BY <3>2 DEF DraftsInv, DedupInv, At
      <3> QED
        BY <1>3, <3>1, <3>2
           DEF LoopStep, UploadFindFree, UploadCreateDraft, UploadDeleteDraft,
               UploadDropFreeRow, FailIgnored, ChunkLabels
    <2>6. DedupInv'
      BY <2>1, <2>4, <2>5 DEF DedupInv, At, ChunkLabels
    <2> QED
      BY <2>3, <2>6 DEF DraftsInv
  <1> QED
    BY <1>1, <1>2, <1>3

(* All active rows with one hash name one draft.                           *)
THEOREM Deduplication == Spec => []DedupSingleDraft
  <1>1. Init => DraftsInv
    BY DEF Init, DBInit, DraftsInv, DedupInv, DedupSingleDraft, At, ChunkLabels
  <1>2. ASSUME TypeInv, TypeInv', DraftsInv, [Next]_vars
        PROVE  DraftsInv'
    BY <1>2, QuietOrLoop, QuietDraftsInv, LoopDraftsInv DEF Quiet
  <1>3. DraftsInv => DedupSingleDraft
    BY DEF DraftsInv
  <1> QED
    BY <1>1, <1>2, <1>3, TypeInvHolds, PTL DEF Spec

-----------------------------------------------------------------------------
(* Rows and messages.  A row takes its UID from frame.uid, so what holds   *)
(* of rows must already hold of the UID in hand; and a new message takes   *)
(* UIDNEXT, so no row may name a UID that is still to come.                *)

UidsInv == UidInv /\ UidInHand /\ DraftMatchesRow

(* Quiet steps keep the agreement of rows and messages.                    *)
LEMMA QuietUidsInv ==
    ASSUME TypeInv, UidsInv, Quiet
    PROVE  UidsInv'
  <1>1. UNCHANGED <<drafts, nextUid>>
    BY DEF Quiet, mailboxVars
  <1>2. UidInv'
    BY <1>1 DEF UidsInv, UidInv
  <1>3. DraftMatchesRow'
    BY <1>1 DEF Quiet, KeepsRows, UidsInv, DraftMatchesRow, DraftsWithUid
  <1>4. UidInHand'
    <2> SUFFICES ASSUME NEW x \in Clients,
                        pc'[x] \in {"up_expunge", "up_unpool", "up_record"}
                 PROVE  /\ frame'.uid < nextUid'
                        /\ \A d \in DraftsWithUid(frame.uid)' : d.data = Current'
      BY DEF UidInHand, At
    <2>1. pc[x] = pc'[x] /\ frame' = frame
      BY DEF Quiet, KeepsUpload, ChunkLabels
    <2> QED
      BY <1>1, <2>1 DEF UidsInv, UidInHand, At, DraftsWithUid, Current
  <1> QED
    BY <1>2, <1>3, <1>4 DEF UidsInv

(* A message appended at UIDNEXT is the only one with its UID; the rest of *)
(* the folder stays.                                                       *)
LEMMA AppendedDraft ==
    ASSUME TypeInv, UidInv, NEW subject, NEW data, AppendDraft(subject, data)
    PROVE  /\ UidInv'
           /\ nextUid < nextUid'
           /\ \E new : /\ drafts' = drafts \cup {new}
                       /\ new.uid = nextUid
                       /\ new.subject = subject
                       /\ new.data = data
                       /\ ~new.deleted
           /\ \A d \in drafts' : d.uid = nextUid => d.data = data
  <1> DEFINE new == [uid |-> nextUid, subject |-> subject, data |-> data,
                     deleted |-> FALSE]
  <1>1. drafts' = drafts \cup {new} /\ nextUid' = nextUid + 1
    BY DEF AppendDraft
  <1>2. /\ new.uid = nextUid /\ new.subject = subject /\ new.data = data
        /\ ~new.deleted
    OBVIOUS
  <1>3. nextUid \in Nat /\ \A d \in drafts : d.uid \in Nat /\ d.uid < nextUid
    BY DEF TypeInv, TypeOK, UidInv, Draft
  <1> HIDE DEF new
  <1>4. UidInv'
    BY <1>1, <1>2, <1>3 DEF UidInv
  <1>5. \A d \in drafts' : d.uid = nextUid => d.data = data
    BY <1>1, <1>2, <1>3
  <1> QED
    BY <1>1, <1>2, <1>3, <1>4, <1>5

(* create_draft finds the message it appended: of the messages its search  *)
(* hits, earlier drafts of the same key among them, that has the largest   *)
(* UID.                                                                    *)
LEMMA CreatedDraft ==
    ASSUME TypeInv, UidInv, NEW c \in Clients, UploadCreateDraft(c)
    PROVE  /\ UidInv' /\ nextUid < nextUid' /\ nextUid' \in Nat
           /\ \E new : /\ drafts' = drafts \cup {new}
                       /\ new.uid = nextUid /\ new.data = Current /\ ~new.deleted
           /\ \A d \in drafts' : d.uid = nextUid => d.data = Current
           /\ frame'.uid = nextUid /\ frame'.row = frame.row
           /\ Current' = Current
  <1>0. nextUid' \in Nat
    BY DEF UploadCreateDraft, AppendDraft, TypeInv, TypeOK
  <1>1. PICK uid \in SearchHits(drafts', CurrentSubject(c)) :
            /\ IsNewest(uid, SearchHits(drafts', CurrentSubject(c)))
            /\ frame' = [frame EXCEPT !.uid = uid]
    BY DEF UploadCreateDraft
  <1>6. Current' = Current
    BY <1>1 DEF Current, TypeInv, TypeOK, ClientTypeOK, Frame
  <1> HIDE DEF Current, CurrentSubject
  <1>2. /\ UidInv' /\ nextUid < nextUid' /\ nextUid' \in Nat
        /\ \A d \in drafts' : d.uid = nextUid => d.data = Current
    BY <1>0, AppendedDraft DEF UploadCreateDraft
  <1>3. PICK new : /\ drafts' = drafts \cup {new}
                   /\ new.uid = nextUid
                   /\ new.subject = CurrentSubject(c)
                   /\ new.data = Current /\ ~new.deleted
    BY AppendedDraft DEF UploadCreateDraft
  <1>4. uid = nextUid
    <2>1. nextUid \in SearchHits(drafts', CurrentSubject(c))
      BY <1>3 DEF SearchHits
    <2>2. \A d \in drafts' : d.uid \in Nat /\ d.uid <= nextUid
      BY <1>3 DEF UidInv, TypeInv, TypeOK, Draft
    <2>3. uid \in Nat /\ uid <= nextUid
      BY <1>1, <2>2 DEF SearchHits
    <2> QED
      BY <1>1, <2>1, <2>3 DEF IsNewest, TypeInv, TypeOK
  <1>5. frame'.uid = nextUid /\ frame'.row = frame.row
    BY <1>1, <1>4 DEF TypeInv, TypeOK, ClientTypeOK, Frame
  <1> QED
    BY <1>2, <1>3, <1>5, <1>6

(* delete_draft, done or failed, keeps UIDs unique, contents unchanged.    *)
LEMMA FolderUidsInv ==
    ASSUME TypeInv, UidsInv, NEW uid,
           \/ DeleteDraft(uid) \/ FlagDraft(uid) \/ ExpungeDrafts
           \/ UNCHANGED mailboxVars
    PROVE  /\ UidInv' /\ nextUid' = nextUid
           /\ \A d \in drafts' : \E e \in drafts : e.uid = d.uid /\ e.data = d.data
  <1>1. CASE DeleteDraft(uid) \/ ExpungeDrafts \/ UNCHANGED mailboxVars
    BY <1>1 DEF DeleteDraft, ExpungeDrafts, mailboxVars, UidsInv, UidInv
  <1>2. CASE FlagDraft(uid)
    <2> DEFINE flagged(d) == [d EXCEPT !.deleted = TRUE]
    <2>1. \A d \in drafts : flagged(d).uid = d.uid /\ flagged(d).data = d.data
      BY DEF TypeInv, TypeOK, Draft
    <2>2. drafts' = {d \in drafts : d.uid # uid} \cup {flagged(d) : d \in DraftsWithUid(uid)}
      BY <1>2 DEF FlagDraft
    <2>3. nextUid' = nextUid
      BY <1>2 DEF FlagDraft
    <2> HIDE DEF flagged
    <2>4. \A d \in drafts' : \E e \in drafts :
             /\ e.uid = d.uid /\ e.data = d.data
             /\ \/ d = e /\ e.uid # uid
                \/ d = flagged(e) /\ e.uid = uid
      BY <2>1, <2>2 DEF DraftsWithUid
    <2>5. UidInv'
      BY <2>3, <2>4 DEF UidsInv, UidInv
    <2> QED
      BY <2>3, <2>4, <2>5
  <1> QED
    BY <1>1, <1>2

(* The chunk loop keeps the agreement of rows and messages.                *)
LEMMA LoopUidsInv ==
    ASSUME TypeInv, TypeInv', UidsInv, NEW c \in Clients, LoopStep(c)
    PROVE  UidsInv'
  <1> USE DEF UidsInv
  <1>a. \A r \in chunks : r.uid \in Nat /\ r.uid < nextUid /\ nextUid \in Nat
    BY DEF TypeInv, TypeOK, DBTypeOK, ChunkRow, DraftMatchesRow
  <1>1. CASE FailAfterAppend(c)
    <2>1. KeepsUpload /\ KeepsRows
      BY <1>1, EndingFaultsAreQuiet
    <2>2. /\ UidInv' /\ nextUid < nextUid' /\ nextUid' \in Nat
          /\ \A d \in drafts' : d.uid = nextUid \/ d \in drafts
      BY <1>1, AppendedDraft DEF FailAfterAppend, TypeInv, TypeOK
    <2>3. DraftMatchesRow'
      BY <1>a, <2>1, <2>2 DEF KeepsRows, DraftMatchesRow, DraftsWithUid
    <2>4. UidInHand'
      <3> SUFFICES ASSUME NEW x \in Clients,
                          pc'[x] \in {"up_expunge", "up_unpool", "up_record"}
                   PROVE  /\ frame'.uid < nextUid'
                          /\ \A d \in DraftsWithUid(frame.uid)' : d.data = Current'
        BY DEF UidInHand, At
      <3>1. pc[x] = pc'[x] /\ frame' = frame
        BY <2>1 DEF KeepsUpload, ChunkLabels
      <3>2. frame.uid < nextUid /\ frame.uid \in Nat /\ nextUid \in Nat
        BY <3>1 DEF UidInHand, At, TypeInv, TypeOK, ClientTypeOK, Frame
      <3> QED
        BY <2>2, <3>1, <3>2 DEF UidInHand, At, DraftsWithUid, Current
    <2> QED
      BY <2>2, <2>3, <2>4
  <1>2. CASE UploadRecord(c)
    <2>1. pc[c] = "up_record" /\ holder = c
      BY <1>2, HolderFact DEF UploadRecord, TypeInv, PipelineLabels, UploadLabels
    <2>2. UNCHANGED mailboxVars
      BY <1>2 DEF UploadRecord
    <2>3. CASE Leave(c) /\ UNCHANGED dbVars
      BY <2>2, <2>3, LeaveKeepsUpload, StatementsKeepRows, QuietUidsInv DEF Quiet
    <2>4. CASE Goto(c, "up_next") /\ InsertChunk(CurrentRow)
      <3>1. /\ chunks' = chunks \cup {CurrentRow}
            /\ CurrentRow.hash = Current /\ CurrentRow.uid = frame.uid
        BY <2>4 DEF InsertChunk, CurrentRow
      <3>2. UNCHANGED <<drafts, nextUid>>
        BY <2>2 DEF mailboxVars
      <3>3. frame.uid < nextUid /\ \A d \in DraftsWithUid(frame.uid) : d.data = Current
        BY <2>1 DEF UidInHand, At
      <3>4. DraftMatchesRow'
        BY <3>1, <3>2, <3>3 DEF DraftMatchesRow, DraftsWithUid
      <3>5. ~At({"up_expunge", "up_unpool", "up_record"})'
        BY <2>1, <2>4
           DEF At, Goto, TypeInv, TypeOK, ClientTypeOK, LockInv,
               PipelineLabels, UploadLabels
      <3> QED
        BY <3>2, <3>4, <3>5 DEF UidInHand, UidInv
    <2> QED
      BY <1>2, <2>3, <2>4 DEF UploadRecord
  <1>3. CASE ~UploadRecord(c) /\ ~FailAfterAppend(c)
    <2>1. /\ Current' = Current
          /\ \A x \in Clients : pc'[x] \in ChunkLabels => x = c
      BY <1>3, LoopKeepsCurrent
    <2>2. chunks' \subseteq chunks
      BY <1>3 DEF LoopStep, UploadDedup, UploadFindFree, UploadCreateDraft,
                  UploadDeleteDraft, UploadDropFreeRow, FailIgnored,
                  dbVars, DeleteChunkRows
    <2>3. CASE UploadCreateDraft(c)
      <3>1. /\ UidInv' /\ nextUid < nextUid' /\ nextUid' \in Nat
            /\ \A d \in drafts' : d.uid = nextUid => d.data = Current
            /\ frame'.uid = nextUid
        BY <2>3, CreatedDraft
      <3>2. PICK new : drafts' = drafts \cup {new} /\ new.uid = nextUid
        BY <2>3, CreatedDraft
      <3>6. UidInHand'
        BY <2>1, <3>1 DEF UidInHand, At, DraftsWithUid
      <3>7. DraftMatchesRow'
        BY <1>a, <2>2, <3>1, <3>2 DEF DraftMatchesRow, DraftsWithUid
      <3> QED
        BY <3>1, <3>6, <3>7
    <2>4. CASE UploadDedup(c) \/ UploadFindFree(c) \/ UploadDropFreeRow(c)
               \/ UploadDeleteDraft(c) \/ FailIgnored(c)
      <3>1. /\ UidInv' /\ nextUid' = nextUid
            /\ \A d \in drafts' : \E e \in drafts : e.uid = d.uid /\ e.data = d.data
        BY <2>4, FolderUidsInv
           DEF UploadDedup, UploadFindFree, UploadDropFreeRow, UploadDeleteDraft,
               FailIgnored
      <3>2. DraftMatchesRow'
        BY <2>2, <3>1 DEF DraftMatchesRow, DraftsWithUid
      <3>3. ASSUME pc'[c] \in {"up_expunge", "up_unpool", "up_record"}
            PROVE  /\ frame'.uid < nextUid
                   /\ \A d \in DraftsWithUid(frame'.uid) : d.data = Current
        <4>1. CASE UploadDedup(c)
          <5>1. PICK r \in DedupHits : frame' = [frame EXCEPT !.uid = r.uid, !.row = {}]
            BY <3>3, <4>1 DEF UploadDedup, Goto, TypeInv, TypeOK, ClientTypeOK
          <5>2. frame'.uid = r.uid /\ r \in chunks /\ r.hash = Current
            BY <5>1 DEF DedupHits, ActiveWithHash, TypeInv, TypeOK, ClientTypeOK, Frame
          <5> QED
            BY <5>2 DEF DraftMatchesRow
        <4>2. CASE UploadFindFree(c)
          BY <3>3, <4>2 DEF UploadFindFree, Goto, TypeInv, TypeOK, ClientTypeOK
        <4>3. CASE UploadDropFreeRow(c) \/ UploadDeleteDraft(c) \/ FailIgnored(c)
          BY <4>3 DEF UploadDropFreeRow, UploadDeleteDraft, FailIgnored,
                      UidInHand, At
        <4> QED
          BY <2>4, <4>1, <4>2, <4>3
      <3>4. UidInHand'
        BY <2>1, <3>1, <3>3 DEF UidInHand, At, DraftsWithUid, ChunkLabels
      <3> QED
        BY <3>1, <3>2, <3>4
    <2> QED
      BY <1>3, <2>3, <2>4 DEF LoopStep
  <1> QED
    BY <1>1, <1>2, <1>3

LEMMA UidsInvHolds == Spec => []UidsInv
  <1>1. Init => UidsInv
    BY DEF Init, DBInit, MailboxInit, UidsInv, UidInv, UidInHand, DraftMatchesRow, At
  <1>2. ASSUME TypeInv, TypeInv', UidsInv, [Next]_vars
        PROVE  UidsInv'
    BY <1>2, QuietOrLoop, QuietUidsInv, LoopUidsInv
  <1> QED
    BY <1>1, <1>2, TypeInvHolds, PTL DEF Spec

(* A row that names a message of the folder names one with its content.    *)
THEOREM RowsNameTheirDrafts == Spec => []DraftMatchesRow
  <1>1. UidsInv => DraftMatchesRow
    BY DEF UidsInv
  <1> QED
    BY <1>1, UidsInvHolds, PTL

-----------------------------------------------------------------------------
(* What leaves the folder.  delete_draft expunges the slot that upload     *)
(* recycles and every message flagged before; that it spares the new draft *)
(* rests on what upload knows of both when it calls it.                    *)

SlotUidInv ==
    /\ At({"up_draft"}) => \A r \in frame.row : r.uid < nextUid
    /\ At({"up_expunge"}) =>
          /\ \A r \in frame.row : r.uid < frame.uid
          /\ \E d \in drafts :
                d.uid = frame.uid /\ d.data = Current /\ ~d.deleted

(* Steps outside the chunk loop keep the slot and the folder.              *)
LEMMA QuietSlotUidInv ==
    ASSUME SlotUidInv, Quiet
    PROVE  SlotUidInv'
  <1>1. UNCHANGED <<drafts, nextUid>>
    BY DEF Quiet, mailboxVars
  <1>2. ASSUME NEW x \in Clients, pc'[x] \in {"up_draft", "up_expunge"}
        PROVE  pc[x] = pc'[x] /\ frame' = frame
    BY <1>2 DEF Quiet, KeepsUpload, ChunkLabels
  <1> QED
    BY <1>1, <1>2 DEF SlotUidInv, At, Current

(* The slot is older than the draft that replaces it.                      *)
LEMMA LoopSlotUidInv ==
    ASSUME TypeInv, TypeInv', UidsInv, SlotUidInv, NEW c \in Clients, LoopStep(c)
    PROVE  SlotUidInv'
  <1>1. /\ pc \in [Clients -> Labels] /\ frame \in Frame
        /\ holder = c
    <2>1. pc[c] \in ChunkLabels \cup {"up_next"}
      BY DEF LoopStep, UploadDedup, UploadFindFree, UploadCreateDraft,
             UploadDeleteDraft, UploadDropFreeRow, UploadRecord, FailIgnored,
             FailAfterAppend, ChunkLabels
    <2> QED
      BY <2>1, LabelFacts, HolderFact DEF TypeInv, TypeOK, ClientTypeOK
  <1>2. \A x \in Clients : pc'[x] \in {"up_draft", "up_expunge"} => x = c
    <2>1. \A x \in Clients : x # c => pc[x] \notin {"up_draft", "up_expunge"}
      BY <1>1 DEF TypeInv, LockInv, PipelineLabels, UploadLabels
    <2>2. \E label : pc' = [pc EXCEPT ![c] = label]
      BY DEF LoopStep, UploadDedup, UploadFindFree, UploadCreateDraft,
             UploadDeleteDraft, UploadDropFreeRow, UploadRecord, FailIgnored,
             FailAfterAppend, Goto, Leave
    <2> QED
      BY <1>1, <2>1, <2>2
  <1>3. CASE UploadFindFree(c)
    <2>1. pc'[c] = "up_draft" /\ nextUid' = nextUid
          /\ \A r \in frame'.row : r \in chunks
      BY <1>1, <1>3 DEF UploadFindFree, Goto, FreeChunks, mailboxVars, Frame
    <2> QED
      BY <1>2, <2>1 DEF SlotUidInv, At, UidsInv, DraftMatchesRow
  <1>4. CASE UploadCreateDraft(c)
    <2>1. /\ frame'.uid = nextUid /\ frame'.row = frame.row
          /\ \E d \in drafts' : d.uid = nextUid /\ d.data = Current /\ ~d.deleted
      BY <1>4, CreatedDraft DEF UidsInv
    <2>2. Current' = Current
      BY <1>4, CreatedDraft DEF UidsInv
    <2>3. pc[c] = "up_draft" /\ pc'[c] # "up_draft"
      BY <1>1, <1>4 DEF UploadCreateDraft, Goto
    <2>4. \A r \in frame.row : r.uid < nextUid
      BY <2>3 DEF SlotUidInv, At
    <2> QED
      BY <1>2, <2>1, <2>2, <2>3, <2>4 DEF SlotUidInv, At
  <1>5. CASE ~UploadFindFree(c) /\ ~UploadCreateDraft(c)
    <2>1. pc'[c] \notin {"up_draft", "up_expunge"}
      BY <1>1, <1>5
         DEF LoopStep, UploadDedup, UploadDeleteDraft, UploadDropFreeRow,
             UploadRecord, FailIgnored, FailAfterAppend, Goto, Leave
    <2> QED
      BY <1>2, <2>1 DEF SlotUidInv, At
  <1> QED
    BY <1>3, <1>4, <1>5

(* The step of DraftsLeaveByRecycling.                                     *)
LeavingIsRecycling ==
    \A d \in drafts : DraftsWithUid(d.uid)' = {} =>
        /\ d.uid \in Named
        /\ frame.uid # d.uid
        /\ \E e \in drafts' : e.uid = frame.uid /\ e.data = Current

ExpungeStep(c) ==
    /\ pc[c] = "up_expunge"
    /\ ExpungeDrafts \/ \E r \in frame.row : DeleteDraft(r.uid)

(* Only the EXPUNGE of upload takes a message away.                        *)
LEMMA RecyclingStep ==
    ASSUME TypeInv, UidsInv, SlotUidInv, [Next]_vars
    PROVE  LeavingIsRecycling
  <1>1. CASE \A d \in drafts : \E e \in drafts' : e.uid = d.uid
    BY <1>1 DEF LeavingIsRecycling, DraftsWithUid
  <1>2. ASSUME NEW c \in Clients, ExpungeStep(c)
        PROVE  LeavingIsRecycling
    <2>3. PICK new \in drafts :
             new.uid = frame.uid /\ new.data = Current /\ ~new.deleted
      BY <1>2 DEF ExpungeStep, SlotUidInv, At
    <2>5. new \in drafts'
      <3>1. CASE ExpungeDrafts
        BY <2>3, <3>1 DEF ExpungeDrafts
      <3>2. ASSUME NEW r \in frame.row, DeleteDraft(r.uid)
            PROVE  new \in drafts'
        <4>1. /\ r.uid < frame.uid /\ r.uid \in Nat /\ frame.uid \in Nat
          BY <1>2 DEF ExpungeStep, SlotUidInv, At, TypeInv, TypeOK,
                      ClientTypeOK, Frame, ChunkRow
        <4> QED
          BY <2>3, <3>2, <4>1 DEF DeleteDraft
      <3> QED
        BY <1>2, <3>1, <3>2 DEF ExpungeStep
    <2>6. ASSUME NEW d \in drafts, DraftsWithUid(d.uid)' = {}
          PROVE  d.uid \in Named /\ frame.uid # d.uid
      <3>1. d \notin drafts' /\ d.uid # new.uid
        BY <2>5, <2>6 DEF DraftsWithUid
      <3>2. d.deleted \/ \E r \in frame.row : d.uid = r.uid
        BY <1>2, <3>1 DEF ExpungeStep, DeleteDraft, ExpungeDrafts
      <3> QED
        BY <2>3, <3>1, <3>2 DEF Named
    <2> QED
      BY <2>3, <2>5, <2>6 DEF LeavingIsRecycling
  <1>3. CASE Quiet
    BY <1>1, <1>3 DEF Quiet, mailboxVars
  <1>4. ASSUME NEW c \in Clients, LoopStep(c), ~ExpungeStep(c)
        PROVE  \A d \in drafts : \E e \in drafts' : e.uid = d.uid
    <2>1. CASE \E subject, data : AppendDraft(subject, data)
      BY <2>1 DEF AppendDraft
    <2>2. CASE \E uid : FlagDraft(uid)
      <3>1. \A d \in drafts : [d EXCEPT !.deleted = TRUE].uid = d.uid
        BY DEF TypeInv, TypeOK, Draft
      <3> QED
        BY <2>2, <3>1 DEF FlagDraft, DraftsWithUid
    <2>3. CASE UNCHANGED mailboxVars
      BY <2>3 DEF mailboxVars
    <2> QED
      BY <1>4, <2>1, <2>2, <2>3
         DEF LoopStep, UploadDedup, UploadFindFree, UploadCreateDraft,
             UploadDropFreeRow, UploadRecord, FailIgnored, FailAfterAppend,
             UploadDeleteDraft, ExpungeStep
  <1> QED
    BY <1>1, <1>2, <1>3, <1>4, QuietOrLoop

(* A message leaves the drafts folder only as the slot that upload is      *)
(* recycling, or as one an earlier recycling had flagged, and only when a  *)
(* message with the new content is there: pipeline.rs deletes the old      *)
(* draft after create_draft, and EXPUNGE never takes the new one along.    *)
THEOREM DraftsLeaveOnlyByRecycling == Spec => DraftsLeaveByRecycling
  <1>1. Init => SlotUidInv
    BY DEF Init, SlotUidInv, At
  <1>2. ASSUME TypeInv, TypeInv', UidsInv, SlotUidInv, [Next]_vars
        PROVE  SlotUidInv'
    BY <1>2, QuietOrLoop, QuietSlotUidInv, LoopSlotUidInv
  <1>3. ASSUME TypeInv, UidsInv, SlotUidInv, [Next]_vars
        PROVE  [LeavingIsRecycling]_vars
    BY <1>3, RecyclingStep
  <1>4. [LeavingIsRecycling]_vars => [\A d \in drafts : DraftsWithUid(d.uid)' = {} =>
          /\ d.uid \in Named
          /\ frame.uid # d.uid
          /\ \E e \in drafts' : e.uid = frame.uid /\ e.data = Current]_vars
    BY DEF LeavingIsRecycling
  <1> QED
    BY <1>1, <1>2, <1>3, <1>4, TypeInvHolds, UidsInvHolds, PTL
       DEF Spec, DraftsLeaveByRecycling
=============================================================================
