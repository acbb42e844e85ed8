----------------------------- MODULE RowProofs -----------------------------
(***************************************************************************)
(* Proofs about the rows of StoragePipeline's tables: what a chunk row     *)
(* says of its object, and that an acknowledged object keeps its rows.     *)
(***************************************************************************)
EXTENDS PipelineProofs

(* Ids are fresh, and name one object each.                                *)
IdInv ==
    /\ \A o \in objects : o.id < nextId
    /\ \A o, p \in objects : o.id = p.id => o = p

(* The foreign key of chunks.                                              *)
RefInv == \A r \in chunks : \E o \in objects : o.id = r.object

TableInv == IdInv /\ RefInv /\ RowsMatchObject

HistoryInv == AckedWhole /\ \A id \in acked : id < nextId

LoopLabels == {"up_next"} \cup ChunkLabels
VictimLabels == DeleteLabels \ {"find"}
BinLabels == {"bin_bucket", "bin_mkbucket", "bin_object", "bin_mkobject",
              "bin_move"}
SlotLabels == {"up_draft", "up_expunge", "up_unpool"}

(* upload starts at the first chunk.                                       *)
StartInv == At(PipelineLabels \ LoopLabels) => frame.pos = 0

(* In its loop, the object that upload inserted has the bytes in hand, and *)
(* active rows for exactly the chunks before the current one, unless it    *)
(* went with its bucket.                                                   *)
Written ==
    /\ frame.obj # NoId /\ frame.obj < nextId
    /\ \A o \in objects : o.id = frame.obj =>
          /\ o.data = frame.body
          /\ \A r \in ActiveRows(o.id) : r.index < frame.pos
          /\ \A i \in 0 .. frame.pos - 1 :
                \E r \in ActiveRows(o.id) : r.index = i

WritingInv == At(LoopLabels) => Written

(* delete only touches the rows of the object it was called on.            *)
DeletingInv ==
    /\ At(VictimLabels) => frame.victim \in doomed
    /\ At({"del_next"} \cup BinLabels) =>
          \A r \in frame.todo : r.object = frame.victim
    /\ At(BinLabels) => \A r \in frame.row : r.object = frame.victim

(* The slot that upload recycles is free.                                  *)
SlotInv == At(SlotLabels) => \A r \in frame.row : r.status = "free"

FrameInv == StartInv /\ WritingInv /\ DeletingInv /\ SlotInv

(* RowsMatchObject and AckedWhole are not inductive by themselves: they    *)
(* need what the handlers' locals say of the rows, ids that are fresh, and *)
(* the foreign key, by which a new object starts without rows.             *)
RowsInv == TableInv /\ HistoryInv /\ FrameInv

-----------------------------------------------------------------------------
(* Tables.  Every statement but two INSERTs only takes away: objects,      *)
(* active rows of the objects in X, and rows of objects that go.           *)

Shrinks(X) ==
    /\ objects' \subseteq objects
    /\ nextId' \in Nat /\ nextId <= nextId'
    /\ \A r \in chunks' : r \in chunks \/ r.status = "free"
    /\ \A r \in chunks :
          /\ r.status = "active" /\ r.object \notin X
          /\ \E o \in objects' : o.id = r.object
          => r \in chunks'
    /\ RefInv'

(* What each statement takes away.                                         *)
LEMMA StatementsShrink ==
    ASSUME DBTypeOK, RefInv
    PROVE  /\ UNCHANGED dbVars => Shrinks({})
           /\ \A n : InsertBucket(n) => Shrinks({})
           /\ \A b : DeleteBucketRow(b) => Shrinks({})
           /\ \A id : DeleteChunkRows(ChunksOf(id)) => Shrinks({id})
           /\ \A id : DeleteObjectRow(id) => Shrinks({id})
           /\ \A rows : /\ \A r \in rows : r.status = "free"
                        /\ DeleteChunkRows(rows)
                        => Shrinks({})
           /\ \A row \in ChunkRow, bin \in Nat :
                 MoveChunk(row, bin, nextId) /\ nextId' = nextId + 1
                    => Shrinks({row.object})
  <1>0. nextId \in Nat
    BY DEF DBTypeOK
  <1>1. UNCHANGED dbVars => Shrinks({})
    BY <1>0 DEF dbVars, Shrinks, RefInv
  <1>2. ASSUME NEW n, InsertBucket(n) PROVE Shrinks({})
    BY <1>0, <1>2 DEF InsertBucket, Shrinks, RefInv
  <1>3. ASSUME NEW b, DeleteBucketRow(b) PROVE Shrinks({})
    BY <1>0, <1>3 DEF DeleteBucketRow, Shrinks, RefInv
  <1>4. ASSUME NEW id, DeleteChunkRows(ChunksOf(id)) PROVE Shrinks({id})
    BY <1>0, <1>4 DEF DeleteChunkRows, ChunksOf, Shrinks, RefInv
  <1>5. ASSUME NEW id, DeleteObjectRow(id) PROVE Shrinks({id})
    <2>1. RefInv'
      BY <1>5 DEF DeleteObjectRow, ChunksOf, RefInv
    <2> QED
      BY <1>0, <1>5, <2>1 DEF DeleteObjectRow, ChunksOf, Shrinks
  <1>6. ASSUME NEW rows, \A r \in rows : r.status = "free",
               DeleteChunkRows(rows)
        PROVE  Shrinks({})
    <2>1. \A r \in chunks : r.status = "active" => r \notin rows
      BY <1>6
    <2> QED
      BY <1>0, <1>6, <2>1 DEF DeleteChunkRows, Shrinks, RefInv
  <1>7. ASSUME NEW row \in ChunkRow, NEW bin \in Nat,
               MoveChunk(row, bin, nextId), nextId' = nextId + 1
        PROVE  Shrinks({row.object})
    <2> DEFINE moved == [row EXCEPT !.object = bin, !.index = nextId,
                                    !.status = "free"]
    <2>1. moved.status = "free" /\ moved.object = bin
      BY DEF ChunkRow
    <2>2. /\ chunks' = (chunks \ {row}) \cup {moved}
          /\ objects' = objects
          /\ \E o \in objects : o.id = bin
      BY <1>7 DEF MoveChunk, CanMoveChunk, CanInsertChunk
    <2> HIDE DEF moved
    <2>3. RefInv'
      BY <2>1, <2>2 DEF RefInv
    <2> QED
      BY <1>0, <1>7, <2>1, <2>2, <2>3 DEF Shrinks
  <1> QED
    BY <1>1, <1>2, <1>3, <1>4, <1>5, <1>6, <1>7

(* Taking away keeps ids fresh, rows in their objects, and what is not     *)
(* taken whole.                                                            *)
LEMMA ShrinkingKeepsRows ==
    ASSUME DBTypeOK, TableInv, NEW X, Shrinks(X)
    PROVE  /\ TableInv'
           /\ \A o \in objects' : o.id \notin X =>
                 ActiveRows(o.id)' = ActiveRows(o.id)
  <1>1. IdInv'
    BY DEF TableInv, IdInv, Shrinks, DBTypeOK, ObjectRow
  <1>2. RowsMatchObject'
    BY DEF TableInv, RowsMatchObject, ActiveRows, ChunksOf, Shrinks
  <1>3. \A o \in objects' : o.id \notin X =>
           ActiveRows(o.id)' = ActiveRows(o.id)
    BY DEF ActiveRows, ChunksOf, Shrinks
  <1> QED
    BY <1>1, <1>2, <1>3 DEF TableInv, Shrinks

(* Acknowledged objects lose rows only if someone is deleting them.        *)
LEMMA ShrinkingKeepsHistory ==
    ASSUME DBTypeOK, TableInv, HistoryInv, NEW X, Shrinks(X), X \subseteq doomed',
           acked' = acked, doomed \subseteq doomed', acked \subseteq Nat
    PROVE  HistoryInv'
  <1>1. \A o \in objects' : o.id \in acked' \ doomed' => IsWhole(o)'
    <2> SUFFICES ASSUME NEW o \in objects', o.id \in acked' \ doomed'
                 PROVE  IsWhole(o)'
      OBVIOUS
    <2>1. IsWhole(o)
      BY DEF Shrinks, HistoryInv, AckedWhole
    <2>2. ActiveRows(o.id)' = ActiveRows(o.id)
      BY ShrinkingKeepsRows
    <2> QED
      BY <2>1, <2>2 DEF IsWhole
  <1>2. \A id \in acked' : id < nextId'
    BY DEF HistoryInv, Shrinks, DBTypeOK
  <1> QED
    BY <1>1, <1>2 DEF HistoryInv, AckedWhole

(* A new object has a new id, so it has no rows yet and is not one that    *)
(* was acknowledged.                                                       *)
LEMMA NewObject ==
    ASSUME DBTypeOK, TableInv, HistoryInv, acked \subseteq Nat,
           NEW b, NEW k, NEW d, InsertObject(b, k, d), UNCHANGED history
    PROVE  /\ TableInv' /\ HistoryInv'
           /\ nextId' = nextId + 1
           /\ \A o \in objects' : o.id = nextId =>
                 o.data = d /\ ActiveRows(o.id)' = {}
  <1> DEFINE new == [id |-> nextId, bucket |-> b, key |-> k, data |-> d]
  <1>1. /\ objects' = objects \cup {new} /\ chunks' = chunks
        /\ nextId' = nextId + 1 /\ nextId \in Nat
        /\ acked' = acked /\ doomed' = doomed
    BY DEF InsertObject, DBTypeOK, history
  <1>2. new.id = nextId /\ new.data = d
    OBVIOUS
  <1> HIDE DEF new
  <1>3. \A o \in objects : o.id \in Nat /\ o.id < nextId
    BY DEF TableInv, IdInv, DBTypeOK, ObjectRow
  <1>4. IdInv'
    BY <1>1, <1>2, <1>3 DEF TableInv, IdInv
  <1>5. RefInv'
    BY <1>1 DEF TableInv, RefInv
  <1>6. \A r \in chunks : r.object # nextId
    BY <1>1, <1>3 DEF TableInv, RefInv
  <1>7. RowsMatchObject'
    BY <1>1, <1>2, <1>6 DEF TableInv, RowsMatchObject, ActiveRows, ChunksOf
  <1>8. \A id \in acked : id < nextId /\ id \in Nat
    BY DEF HistoryInv
  <1>9. AckedWhole'
    BY <1>1, <1>2, <1>8 DEF HistoryInv, AckedWhole, IsWhole, ActiveRows, ChunksOf
  <1>10. \A o \in objects' : o.id = nextId =>
            o.data = d /\ ActiveRows(o.id)' = {}
    BY <1>1, <1>2, <1>3, <1>6 DEF ActiveRows, ChunksOf
  <1> QED
    BY <1>1, <1>4, <1>5, <1>7, <1>8, <1>9, <1>10 DEF TableInv, HistoryInv

-----------------------------------------------------------------------------
(* Locals.  Whoever is at a label of FrameInv holds the mutex, so a step   *)
(* of the holder has only its own label to look at.                        *)

LEMMA RowLabels ==
    /\ LoopLabels \subseteq PipelineLabels /\ VictimLabels \subseteq PipelineLabels
    /\ SlotLabels \subseteq LoopLabels /\ BinLabels \subseteq VictimLabels
    /\ "del_next" \in VictimLabels
    /\ LoopLabels \cap VictimLabels = {}
    /\ DownloadLabels \cap (LoopLabels \cup VictimLabels) = {}
    /\ {"find", "up_insert", "idle"} \cap (LoopLabels \cup VictimLabels) = {}
  BY DEF LoopLabels, VictimLabels, SlotLabels, BinLabels, ChunkLabels,
         PipelineLabels, DeleteLabels, DownloadLabels, UploadLabels

(* A free mutex: nobody is at such a label.                                *)
LEMMA FreeFrame ==
    ASSUME LockInv', holder' = NoClient
    PROVE  FrameInv'
  <1>1. \A x \in Clients : pc'[x] \notin PipelineLabels
    BY PipelineAssumption DEF LockInv
  <1> QED
    BY <1>1, RowLabels
       DEF FrameInv, StartInv, WritingInv, DeletingInv, SlotInv, At

(* A step outside the pipeline, which may take objects away.               *)
LEMMA OutsideFrame ==
    ASSUME DBTypeOK, ClientTypeOK, TableInv, FrameInv, Shrinks({}),
           UNCHANGED frame, doomed \subseteq doomed',
           \A x \in Clients : pc'[x] \in PipelineLabels => pc'[x] = pc[x]
    PROVE  FrameInv'
  <1>1. \A labels : labels \subseteq PipelineLabels /\ At(labels)' => At(labels)
    BY DEF At
  <1>2. StartInv' /\ SlotInv'
    BY <1>1, RowLabels DEF FrameInv, StartInv, SlotInv
  <1>3. DeletingInv'
    BY <1>1, RowLabels DEF FrameInv, DeletingInv
  <1>4. WritingInv'
    <2> SUFFICES ASSUME At(LoopLabels)' PROVE Written'
      BY DEF WritingInv
    <2>1. Written
      BY <1>1, RowLabels DEF FrameInv, WritingInv
    <2>2. \A o \in objects' : ActiveRows(o.id)' = ActiveRows(o.id)
      BY ShrinkingKeepsRows
    <2>3. frame.obj < nextId' /\ objects' \subseteq objects
      BY <2>1 DEF Written, Shrinks, DBTypeOK, ClientTypeOK, Frame
    <2> QED
      BY <2>1, <2>2, <2>3 DEF Written
  <1> QED
    BY <1>2, <1>3, <1>4 DEF FrameInv

(* The holder is at a label at which the locals are of no consequence.     *)
LEMMA VacantFrame ==
    ASSUME LockInv', NEW c \in Clients, holder' = c,
           pc'[c] \notin LoopLabels \cup VictimLabels, frame'.pos = 0
    PROVE  FrameInv'
  <1>1. \A x \in Clients : pc'[x] \in PipelineLabels => x = c
    BY DEF LockInv
  <1> QED
    BY <1>1, RowLabels
       DEF FrameInv, StartInv, WritingInv, DeletingInv, SlotInv, At

(* The holder goes on deleting its victim.                                 *)
LEMMA VictimFrame ==
    ASSUME LockInv', NEW c \in Clients, holder' = c, pc'[c] \in VictimLabels,
           frame'.pos = 0, frame'.victim \in doomed',
           pc'[c] \in {"del_next"} \cup BinLabels =>
              \A r \in frame'.todo : r.object = frame'.victim,
           pc'[c] \in BinLabels => \A r \in frame'.row : r.object = frame'.victim
    PROVE  FrameInv'
  <1>1. \A x \in Clients : pc'[x] \in PipelineLabels => x = c
    BY DEF LockInv
  <1> QED
    BY <1>1, RowLabels
       DEF FrameInv, StartInv, WritingInv, DeletingInv, SlotInv, At

(* The holder goes on with the chunk at hand.                              *)
LEMMA LoopFrame ==
    ASSUME DBTypeOK, ClientTypeOK, LockInv', TableInv, FrameInv, Shrinks({}),
           NEW c \in Clients, holder' = c,
           pc[c] \in LoopLabels, pc'[c] \in LoopLabels,
           frame'.obj = frame.obj, frame'.body = frame.body,
           frame'.pos = frame.pos,
           pc'[c] \in SlotLabels => \A r \in frame'.row : r.status = "free"
    PROVE  FrameInv'
  <1>1. \A x \in Clients : pc'[x] \in PipelineLabels => x = c
    BY DEF LockInv
  <1>2. WritingInv'
    <2>1. Written
      BY DEF FrameInv, WritingInv, At
    <2>2. \A o \in objects' : ActiveRows(o.id)' = ActiveRows(o.id)
      BY ShrinkingKeepsRows
    <2>3. frame.obj < nextId' /\ objects' \subseteq objects
      BY <2>1 DEF Written, Shrinks, DBTypeOK, ClientTypeOK, Frame
    <2> QED
      BY <2>1, <2>2, <2>3 DEF WritingInv, Written
  <1> QED
    BY <1>1, <1>2, RowLabels
       DEF FrameInv, StartInv, DeletingInv, SlotInv, At

-----------------------------------------------------------------------------
(* Steps.                                                                  *)

(* A step that takes away from the tables what somebody deletes.           *)
LEMMA ShrinkingStep ==
    ASSUME TypeInv, RowsInv, NEW X, Shrinks(X), X \subseteq doomed',
           acked' = acked, doomed \subseteq doomed', FrameInv'
    PROVE  RowsInv'
  <1>1. TableInv'
    BY ShrinkingKeepsRows DEF TypeInv, TypeOK, RowsInv
  <1>2. HistoryInv'
    BY ShrinkingKeepsHistory DEF TypeInv, TypeOK, RowsInv
  <1> QED
    BY <1>1, <1>2 DEF RowsInv

(* A handler that ends, wherever it stands.                                *)
LEMMA LeaveRowsInv ==
    ASSUME TypeInv, TypeInv', RowsInv, NEW c \in Clients, Leave(c),
           Shrinks({}), UNCHANGED history
    PROVE  RowsInv'
  <1>1. CASE holder = c
    <2>1. FrameInv'
      BY <1>1, FreeFrame DEF Leave, TypeInv
    <2> QED
      BY <2>1, ShrinkingStep DEF history
  <1>2. CASE holder # c
    <2>1. UNCHANGED frame /\ pc' = [pc EXCEPT ![c] = "idle"]
      BY <1>2 DEF Leave, Goto
    <2>2. \A x \in Clients : pc'[x] \in PipelineLabels => pc'[x] = pc[x]
      BY <2>1, LabelFacts DEF TypeInv, TypeOK, ClientTypeOK
    <2>3. FrameInv'
      BY <2>1, <2>2, OutsideFrame DEF TypeInv, TypeOK, RowsInv, history
    <2> QED
      BY <2>3, ShrinkingStep DEF history
  <1> QED
    BY <1>1, <1>2

(* A step outside the pipeline.                                            *)
LEMMA OutsideRowsInv ==
    ASSUME TypeInv, RowsInv, Shrinks({}), UNCHANGED <<frame, history>>,
           \A x \in Clients : pc'[x] \in PipelineLabels => pc'[x] = pc[x]
    PROVE  RowsInv'
  <1>1. FrameInv'
    BY OutsideFrame DEF TypeInv, TypeOK, RowsInv, history
  <1> QED
    BY <1>1, ShrinkingStep DEF history

(* Requests, and what handlers do outside the pipeline.                    *)
LEMMA RequestRowsInv ==
    ASSUME TypeInv, TypeInv', RowsInv, NEW c \in Clients
    PROVE  /\ NewRequest(c) => RowsInv'
           /\ \A n \in BucketNames : CreateBucket(n) => RowsInv'
           /\ \A n \in BucketNames, k \in Keys : CopyDestination(c, n, k) => RowsInv'
           /\ RemoveBucket(c) => RowsInv'
           /\ Lock(c) => RowsInv'
  <1>a. DBTypeOK /\ RefInv /\ pc \in [Clients -> Labels]
    BY DEF TypeInv, TypeOK, ClientTypeOK, RowsInv, TableInv
  <1>b. {"wait", "copy_dest", "rm_bucket"} \cap PipelineLabels = {}
    BY LabelFacts
  <1>1. ASSUME NEW request, NEW label \in {"wait", "copy_dest", "rm_bucket"},
               Issue(c, request, label)
        PROVE  RowsInv'
    <2>1. Shrinks({})
      BY <1>a, <1>1, StatementsShrink DEF Issue
    <2>2. \A x \in Clients : pc'[x] \in PipelineLabels => pc'[x] = pc[x]
      BY <1>a, <1>b, <1>1 DEF Issue, Goto
    <2> QED
      BY <1>1, <2>1, <2>2, OutsideRowsInv DEF Issue
  <1>2. ASSUME NewRequest(c) PROVE RowsInv'
    BY <1>1, <1>2 DEF NewRequest, DeleteBucket, PutObject, GetObject,
                      DeleteObject, CopyObject
  <1>3. ASSUME NEW n \in BucketNames, CreateBucket(n) PROVE RowsInv'
    <2>1. Shrinks({})
      BY <1>a, <1>3, StatementsShrink DEF CreateBucket
    <2> QED
      BY <1>3, <2>1, OutsideRowsInv DEF CreateBucket, clientVars
  <1>4. ASSUME NEW n \in BucketNames, NEW k \in Keys, CopyDestination(c, n, k)
        PROVE  RowsInv'
    <2>1. Shrinks({})
      BY <1>a, <1>4, StatementsShrink DEF CopyDestination
    <2>2. CASE Leave(c)
      BY <1>4, <2>1, <2>2, LeaveRowsInv DEF CopyDestination
    <2>3. CASE Goto(c, "wait") /\ UNCHANGED frame
      <3>1. \A x \in Clients : pc'[x] \in PipelineLabels => pc'[x] = pc[x]
        BY <1>a, <1>b, <2>3 DEF Goto
      <3> QED
        BY <1>4, <2>1, <2>3, <3>1, OutsideRowsInv DEF CopyDestination
    <2> QED
      BY <1>4, <2>2, <2>3 DEF CopyDestination
  <1>5. ASSUME RemoveBucket(c) PROVE RowsInv'
    <2>1. Shrinks({})
      BY <1>a, <1>5, StatementsShrink DEF RemoveBucket
    <2> QED
      BY <1>5, <2>1, LeaveRowsInv DEF RemoveBucket
  <1>6. ASSUME Lock(c) PROVE RowsInv'
    <2>1. Shrinks({})
      BY <1>a, <1>6, StatementsShrink DEF Lock
    <2>2. pc'[c] \in {"dl_rows", "find"} /\ holder' = c
      BY <1>a, <1>6 DEF Lock, Goto
    <2>3. frame'.pos = 0
      BY <1>6 DEF Lock, NoFrame
    <2>4. FrameInv'
      BY <2>2, <2>3, VacantFrame, RowLabels DEF TypeInv, DownloadLabels
    <2> QED
      BY <1>6, <2>1, <2>4, ShrinkingStep DEF Lock, history
  <1> QED
    BY <1>2, <1>3, <1>4, <1>5, <1>6

(* delete returns: the holder is gone, or uploads from the first chunk on. *)
LEMMA AfterDeleteFrame ==
    ASSUME TypeInv, TypeInv', RowsInv, NEW c \in Clients,
           pc[c] \in DeleteLabels, AfterDelete(c)
    PROVE  FrameInv'
  <1>1. holder = c
    BY LabelFacts, HolderFact DEF TypeInv, PipelineLabels
  <1>2. CASE Leave(c)
    BY <1>1, <1>2, FreeFrame DEF Leave, TypeInv
  <1>3. CASE Goto(c, "up_insert") /\ holder' = holder /\ frame'.pos = frame.pos
    <2>1. frame.pos = 0
      <3>1. pc[c] \in PipelineLabels \ LoopLabels
        BY RowLabels DEF PipelineLabels, VictimLabels
      <3> QED
        BY <3>1 DEF RowsInv, FrameInv, StartInv, At
    <2>2. pc'[c] = "up_insert"
      BY <1>3 DEF Goto, TypeInv, TypeOK, ClientTypeOK
    <2> QED
      BY <1>1, <1>3, <2>1, <2>2, VacantFrame, RowLabels DEF TypeInv
  <1> QED
    BY <1>2, <1>3 DEF AfterDelete, TypeInv, TypeOK, ClientTypeOK, Frame

(* What a handler in delete knows.                                         *)
LEMMA InDelete ==
    ASSUME TypeInv, RowsInv, NEW c \in Clients, pc[c] \in DeleteLabels
    PROVE  /\ holder = c /\ frame.pos = 0 /\ frame \in Frame
           /\ pc \in [Clients -> Labels]
           /\ DBTypeOK /\ TableInv /\ HistoryInv /\ RefInv /\ acked \subseteq Nat
           /\ pc[c] # "find" => frame.victim \in doomed
           /\ pc[c] \in {"del_next"} \cup BinLabels =>
                 \A r \in frame.todo : r.object = frame.victim
           /\ pc[c] \in BinLabels => \A r \in frame.row : r.object = frame.victim
  <1>1. pc[c] \in PipelineLabels \ LoopLabels
    BY RowLabels DEF PipelineLabels, VictimLabels
  <1>2. holder = c
    BY <1>1, HolderFact DEF TypeInv
  <1>3. frame.pos = 0
    BY <1>1 DEF RowsInv, FrameInv, StartInv, At
  <1>4. pc[c] # "find" => pc[c] \in VictimLabels
    BY DEF VictimLabels
  <1>5. DeletingInv
    BY DEF RowsInv, FrameInv
  <1> QED
    BY <1>2, <1>3, <1>4, <1>5
       DEF DeletingInv, At, TypeInv, TypeOK, ClientTypeOK, RowsInv, TableInv

(* A step of delete that goes on to another of its labels, and its effects *)
(* on the tables.                                                          *)
LEMMA GoOnDeleting ==
    ASSUME TypeInv, TypeInv', RowsInv, NEW c \in Clients, pc[c] \in VictimLabels,
           holder' = holder, NEW label \in VictimLabels, pc'[c] = label,
           frame'.pos = frame.pos, frame'.victim = frame.victim,
           doomed' = doomed,
           label \in {"del_next"} \cup BinLabels =>
              \A r \in frame'.todo : r.object = frame.victim,
           label \in BinLabels => \A r \in frame'.row : r.object = frame.victim
    PROVE  FrameInv'
  <1>1. pc[c] \in DeleteLabels /\ pc[c] # "find"
    BY DEF VictimLabels
  <1>2. holder' = c /\ frame'.pos = 0 /\ frame'.victim \in doomed'
    BY <1>1, InDelete
  <1> QED
    BY <1>2, VictimFrame DEF TypeInv

(* Such a step within get_or_create_recycling_object.                      *)
LEMMA GoOnRecycling ==
    ASSUME TypeInv, TypeInv', RowsInv, NEW c \in Clients, pc[c] \in BinLabels,
           holder' = holder, NEW label \in BinLabels, Goto(c, label),
           NEW bin, frame' = [frame EXCEPT !.bin = bin], doomed' = doomed
    PROVE  FrameInv'
  <1>1. pc[c] \in VictimLabels \cap DeleteLabels /\ label \in VictimLabels
    BY RowLabels DEF VictimLabels
  <1>2. /\ frame'.pos = frame.pos /\ frame'.victim = frame.victim
        /\ frame'.todo = frame.todo /\ frame'.row = frame.row
        /\ pc'[c] = label
    BY DEF Goto, Frame, TypeInv, TypeOK, ClientTypeOK
  <1>3. /\ \A r \in frame.todo : r.object = frame.victim
        /\ \A r \in frame.row : r.object = frame.victim
    BY <1>1, InDelete
  <1> QED
    BY <1>1, <1>2, <1>3, GoOnDeleting

(* delete, statement by statement.                                         *)
LEMMA DeleteRowsInv ==
    ASSUME TypeInv, TypeInv', RowsInv, NEW c \in Clients, DeleteStep(c)
    PROVE  RowsInv'
  <1>a. UNCHANGED acked /\ (FindVictim(c) \/ UNCHANGED doomed)
    BY DEF DeleteStep, FindVictim, DeleteListRows, DeleteNextRow, BinFindBucket,
           BinMakeBucket, BinFindObject, BinMakeObject, BinMoveRow, DeleteRows,
           DeleteVictim, history
  <1>b. DBTypeOK /\ RefInv /\ pc \in [Clients -> Labels] /\ frame \in Frame
    BY DEF TypeInv, TypeOK, ClientTypeOK, RowsInv, TableInv
  <1>c. UNCHANGED dbVars => Shrinks({})
    BY <1>b, StatementsShrink
  <1>1. CASE FindVictim(c)
    <2>1. pc[c] = "find" /\ UNCHANGED dbVars
      BY <1>1 DEF FindVictim
    <2>2. pc[c] \in DeleteLabels
      BY <2>1 DEF DeleteLabels
    <2>3. CASE AfterDelete(c) /\ UNCHANGED doomed
      BY <1>a, <1>c, <2>1, <2>2, <2>3, AfterDeleteFrame, ShrinkingStep
    <2>4. ASSUME NEW o \in objects, Goto(c, "del_rows"), UNCHANGED holder,
                 frame' = [frame EXCEPT !.victim = o.id],
                 doomed' = doomed \cup {o.id}
          PROVE  RowsInv'
      <3>1. pc'[c] = "del_rows" /\ frame'.victim \in doomed' /\ frame'.pos = frame.pos
        BY <1>b, <2>4 DEF Goto, Frame
      <3>2. "del_rows" \in VictimLabels \ ({"del_next"} \cup BinLabels)
        BY DEF VictimLabels, DeleteLabels, BinLabels
      <3>3. FrameInv'
        BY <2>2, <2>4, <3>1, <3>2, InDelete, VictimFrame DEF TypeInv
      <3> QED
        BY <1>a, <1>c, <2>1, <2>4, <3>3, ShrinkingStep
    <2> QED
      BY <1>1, <2>3, <2>4 DEF FindVictim, ObjectsAt
  <1>2. CASE DeleteListRows(c)
    <2>1. pc[c] = "del_rows" /\ pc[c] \in VictimLabels
      BY <1>2 DEF DeleteListRows, VictimLabels, DeleteLabels
    <2>2. /\ frame'.pos = frame.pos /\ frame'.victim = frame.victim
          /\ frame'.todo = ChunksOf(frame.victim)
          /\ pc'[c] = "del_next" /\ holder' = holder
      BY <1>2, <1>b DEF DeleteListRows, Goto, Frame
    <2>3. "del_next" \notin BinLabels
      BY DEF BinLabels
    <2>4. FrameInv'
      BY <1>2, <1>a, <2>1, <2>2, <2>3, GoOnDeleting, RowLabels
         DEF ChunksOf, DeleteListRows, FindVictim, history
    <2> QED
      BY <1>2, <1>a, <1>c, <2>4, ShrinkingStep DEF DeleteListRows, history
  <1>3. CASE DeleteNextRow(c)
    <2>1. pc[c] = "del_next" /\ pc[c] \in VictimLabels \cap DeleteLabels
      BY <1>3, RowLabels DEF DeleteNextRow, DeleteLabels
    <2>2. PICK r \in frame.todo :
            \/ /\ Goto(c, "bin_bucket")
               /\ frame' = [frame EXCEPT !.todo = @ \ {r}, !.row = {r}]
            \/ /\ frame' = [frame EXCEPT !.todo = @ \ {r}]
               /\ UNCHANGED pc
      BY <1>3 DEF DeleteNextRow
    <2>3. /\ frame'.pos = frame.pos /\ frame'.victim = frame.victim
          /\ frame'.todo \subseteq frame.todo
          /\ \/ pc'[c] = "bin_bucket" /\ frame'.row = {r}
             \/ pc'[c] = "del_next"
      BY <1>b, <2>1, <2>2 DEF Goto, Frame
    <2>4. "del_next" \notin BinLabels /\ "bin_bucket" \in BinLabels
      BY DEF BinLabels
    <2>5. \A s \in frame.todo : s.object = frame.victim
      BY <2>1, InDelete
    <2>6. FrameInv'
      BY <1>3, <2>1, <2>3, <2>4, <2>5, GoOnDeleting, RowLabels
         DEF DeleteNextRow, history
    <2> QED
      BY <1>3, <1>c, <2>6, ShrinkingStep DEF DeleteNextRow, history
  <1>4. CASE BinFindBucket(c)
    <2>1. pc[c] \in BinLabels
      BY <1>4 DEF BinFindBucket, BinLabels
    <2>2. Goto(c, "bin_object") \/ Goto(c, "bin_mkbucket")
      BY <1>4 DEF BinFindBucket
    <2>3. FrameInv'
      BY <1>4, <2>1, <2>2, GoOnRecycling DEF BinFindBucket, BinLabels, history
    <2> QED
      BY <1>4, <1>c, <2>3, ShrinkingStep DEF BinFindBucket, history
  <1>5. CASE BinMakeBucket(c)
    <2>1. pc[c] \in BinLabels \cap DeleteLabels
      BY <1>5 DEF BinMakeBucket, BinLabels, DeleteLabels
    <2>2. CASE InsertBucket(RecycleBin)
      <3>1. Shrinks({})
        BY <1>b, <2>2, StatementsShrink
      <3>2. FrameInv'
        <4>1. CASE AfterDelete(c)
          BY <2>1, <4>1, AfterDeleteFrame
        <4>2. CASE Goto(c, "bin_object")
          BY <1>5, <2>1, <2>2, <4>2, GoOnRecycling
             DEF BinMakeBucket, InsertBucket, BinLabels, history
        <4> QED
          BY <1>5, <4>1, <4>2 DEF BinMakeBucket
      <3> QED
        BY <1>5, <3>1, <3>2, ShrinkingStep DEF BinMakeBucket, history
    <2>3. CASE AfterDelete(c) /\ UNCHANGED dbVars
      BY <1>5, <1>c, <2>1, <2>3, AfterDeleteFrame, ShrinkingStep
         DEF BinMakeBucket, history
    <2> QED
      BY <1>5, <2>2, <2>3 DEF BinMakeBucket
  <1>6. CASE BinFindObject(c)
    <2>1. pc[c] \in BinLabels
      BY <1>6 DEF BinFindObject, BinLabels
    <2>2. \E label \in BinLabels : \E bin :
            Goto(c, label) /\ frame' = [frame EXCEPT !.bin = bin]
      <3>1. CASE Goto(c, "bin_mkobject") /\ UNCHANGED frame
        <4>1. frame' = [frame EXCEPT !.bin = frame.bin]
          BY <1>b, <3>1 DEF Frame
        <4> QED
          BY <3>1, <4>1 DEF BinLabels
      <3> QED
        BY <1>6, <3>1 DEF BinFindObject, BinLabels
    <2>3. FrameInv'
      BY <1>6, <2>1, <2>2, GoOnRecycling DEF BinFindObject, history
    <2> QED
      BY <1>6, <1>c, <2>3, ShrinkingStep DEF BinFindObject, history
  <1>7. CASE BinMakeObject(c)
    <2>1. pc[c] \in BinLabels \cap DeleteLabels
      BY <1>7 DEF BinMakeObject, BinLabels, DeleteLabels
    <2>2. CASE /\ InsertObject(frame.bin, RecycleKey, <<>>)
               /\ Goto(c, "bin_move")
               /\ frame' = [frame EXCEPT !.bin = nextId]
               /\ UNCHANGED holder
      <3>1. FrameInv'
        BY <1>7, <2>1, <2>2, GoOnRecycling DEF BinMakeObject, BinLabels, history
      <3>2. TableInv' /\ HistoryInv'
        BY <1>7, <2>1, <2>2, InDelete, NewObject DEF BinMakeObject
      <3> QED
        BY <3>1, <3>2 DEF RowsInv
    <2>3. CASE AfterDelete(c) /\ UNCHANGED dbVars
      BY <1>7, <1>c, <2>1, <2>3, AfterDeleteFrame, ShrinkingStep
         DEF BinMakeObject, history
    <2> QED
      BY <1>7, <2>2, <2>3 DEF BinMakeObject
  <1>8. CASE BinMoveRow(c)
    <2>1. pc[c] \in BinLabels \cap DeleteLabels /\ pc[c] # "find"
      BY <1>8 DEF BinMoveRow, BinLabels, DeleteLabels
    <2>2. PICK r \in frame.row :
            \/ /\ MoveChunk(r, frame.bin, nextId)
               /\ nextId' = nextId + 1
               /\ Goto(c, "del_next")
               /\ frame' = [frame EXCEPT !.row = {}, !.bin = NoId]
               /\ UNCHANGED holder
            \/ AfterDelete(c) /\ UNCHANGED dbVars
      BY <1>8 DEF BinMoveRow
    <2>3. CASE AfterDelete(c) /\ UNCHANGED dbVars
      BY <1>8, <1>c, <2>1, <2>3, AfterDeleteFrame, ShrinkingStep
         DEF BinMoveRow, history
    <2>4. CASE MoveChunk(r, frame.bin, nextId) /\ nextId' = nextId + 1
               /\ Goto(c, "del_next") /\ UNCHANGED holder
               /\ frame' = [frame EXCEPT !.row = {}, !.bin = NoId]
      <3>1. r \in ChunkRow /\ frame.bin \in Nat
        BY <1>b DEF Frame
      <3>2. r.object = frame.victim /\ frame.victim \in doomed
        BY <2>1, InDelete
      <3>3. Shrinks({frame.victim})
        BY <1>b, <2>4, <3>1, <3>2, StatementsShrink
      <3>4. /\ frame'.pos = frame.pos /\ frame'.victim = frame.victim
            /\ frame'.todo = frame.todo /\ pc'[c] = "del_next"
        BY <1>b, <2>4 DEF Goto, Frame
      <3>5. "del_next" \notin BinLabels /\ pc[c] \in VictimLabels
        BY <2>1 DEF BinLabels, VictimLabels
      <3>6. \A s \in frame.todo : s.object = frame.victim
        BY <2>1, InDelete
      <3>7. FrameInv'
        BY <1>8, <2>4, <3>4, <3>5, <3>6, GoOnDeleting, RowLabels
           DEF BinMoveRow, history
      <3> QED
        BY <1>8, <3>2, <3>3, <3>7, ShrinkingStep DEF BinMoveRow, history
    <2> QED
      BY <2>2, <2>3, <2>4
  <1>9. CASE DeleteRows(c)
    <2>1. pc[c] = "del_next" /\ pc[c] \in DeleteLabels \cap VictimLabels
      BY <1>9, RowLabels DEF DeleteRows, DeleteLabels
    <2>2. Shrinks({frame.victim}) /\ frame.victim \in doomed
      BY <1>9, <1>b, <2>1, InDelete, StatementsShrink DEF DeleteRows
    <2>3. "del_object" \in VictimLabels \ ({"del_next"} \cup BinLabels)
      BY DEF VictimLabels, DeleteLabels, BinLabels
    <2>4. pc'[c] = "del_object"
      BY <1>9, <1>b DEF DeleteRows, Goto
    <2>5. FrameInv'
      BY <1>9, <2>1, <2>3, <2>4, GoOnDeleting DEF DeleteRows, history
    <2> QED
      BY <1>9, <2>2, <2>5, ShrinkingStep DEF DeleteRows, history
  <1>10. CASE DeleteVictim(c)
    <2>1. pc[c] = "del_object" /\ pc[c] \in DeleteLabels
      BY <1>10 DEF DeleteVictim, DeleteLabels
    <2>2. Shrinks({frame.victim}) /\ frame.victim \in doomed
      BY <1>10, <1>b, <2>1, InDelete, StatementsShrink DEF DeleteVictim
    <2>3. FrameInv'
      BY <1>10, <2>1, AfterDeleteFrame DEF DeleteVictim
    <2> QED
      BY <1>10, <2>2, <2>3, ShrinkingStep DEF DeleteVictim, history
  <1> QED
    BY <1>1, <1>2, <1>3, <1>4, <1>5, <1>6, <1>7, <1>8, <1>9, <1>10 DEF DeleteStep

(* download changes no table.                                              *)
LEMMA DownloadRowsInv ==
    ASSUME TypeInv, TypeInv', RowsInv, NEW c \in Clients, DownloadStep(c)
    PROVE  RowsInv'
  <1>1. pc[c] \in DownloadLabels /\ UNCHANGED <<dbVars, history>>
    BY DEF DownloadStep, DownloadListRows, DownloadFetch, DownloadDone,
           DownloadLabels
  <1>2. Shrinks({})
    BY <1>1, StatementsShrink DEF TypeInv, TypeOK, RowsInv, TableInv
  <1>3. \/ Leave(c)
        \/ pc'[c] \in {"dl_fetch", "find"} /\ holder' = holder
           /\ frame'.pos = frame.pos
    BY DEF DownloadStep, DownloadListRows, DownloadFetch, DownloadDone, Goto,
           TypeInv, TypeOK, ClientTypeOK, Frame
  <1>4. CASE pc'[c] \in {"dl_fetch", "find"} /\ holder' = holder
               /\ frame'.pos = frame.pos
    <2>1. pc[c] \in PipelineLabels \ LoopLabels
      BY <1>1, RowLabels DEF PipelineLabels
    <2>2. holder = c /\ frame.pos = 0
      BY <2>1, HolderFact DEF TypeInv, RowsInv, FrameInv, StartInv, At
    <2>3. pc'[c] \notin LoopLabels \cup VictimLabels
      BY <1>4, RowLabels DEF DownloadLabels
    <2>4. FrameInv'
      BY <1>4, <2>2, <2>3, VacantFrame DEF TypeInv
    <2> QED
      BY <1>1, <1>2, <2>4, ShrinkingStep DEF history
  <1> QED
    BY <1>1, <1>2, <1>3, <1>4, LeaveRowsInv

(* What upload knows in its loop.                                          *)
LEMMA InLoop ==
    ASSUME TypeInv, RowsInv, NEW c \in Clients, pc[c] \in LoopLabels
    PROVE  /\ holder = c /\ frame \in Frame /\ pc \in [Clients -> Labels]
           /\ DBTypeOK /\ ClientTypeOK /\ TableInv /\ RefInv /\ HistoryInv
           /\ Written
           /\ pc[c] \in SlotLabels => \A r \in frame.row : r.status = "free"
  BY RowLabels, HolderFact
     DEF TypeInv, TypeOK, ClientTypeOK, RowsInv, TableInv, FrameInv, WritingInv,
         SlotInv, At

(* upload inserts its object.                                              *)
LEMMA InsertRowsInv ==
    ASSUME TypeInv, TypeInv', RowsInv, NEW c \in Clients, UploadInsertObject(c)
    PROVE  RowsInv'
  <1>1. pc[c] \in PipelineLabels \ LoopLabels
    BY RowLabels DEF UploadInsertObject, PipelineLabels, UploadLabels
  <1>2. holder = c /\ frame.pos = 0
    BY <1>1, HolderFact DEF TypeInv, RowsInv, FrameInv, StartInv, At
  <1>3. CASE Leave(c) /\ UNCHANGED dbVars
    <2>1. Shrinks({})
      BY <1>3, StatementsShrink DEF TypeInv, TypeOK, RowsInv, TableInv
    <2> QED
      BY <1>3, <2>1, LeaveRowsInv DEF UploadInsertObject
  <1>4. CASE /\ InsertObject(req[c].bucket, req[c].key, frame.body)
             /\ Goto(c, "up_next")
             /\ frame' = [frame EXCEPT !.obj = nextId]
             /\ UNCHANGED <<req, holder>>
    <2>1. /\ TableInv' /\ HistoryInv' /\ nextId' = nextId + 1
          /\ \A o \in objects' : o.id = nextId =>
                o.data = frame.body /\ ActiveRows(o.id)' = {}
      BY <1>4, NewObject DEF UploadInsertObject, TypeInv, TypeOK, RowsInv
    <2>2. /\ frame'.obj = nextId /\ frame'.body = frame.body /\ frame'.pos = 0
          /\ pc'[c] = "up_next"
      BY <1>2, <1>4 DEF Goto, TypeInv, TypeOK, ClientTypeOK, Frame
    <2>3. Written'
      BY <2>1, <2>2 DEF Written, TypeInv, TypeOK, DBTypeOK
    <2>4. \A x \in Clients : pc'[x] \in PipelineLabels => x = c
      BY <1>2, <1>4 DEF TypeInv, LockInv
    <2>5. "up_next" \in LoopLabels \ SlotLabels
      BY DEF LoopLabels, SlotLabels
    <2>6. FrameInv'
      BY <2>2, <2>3, <2>4, <2>5, RowLabels
         DEF FrameInv, StartInv, WritingInv, DeletingInv, SlotInv, At
    <2> QED
      BY <2>1, <2>6 DEF RowsInv
  <1> QED
    BY <1>3, <1>4 DEF UploadInsertObject

(* upload records a chunk.                                                 *)
LEMMA RecordRowsInv ==
    ASSUME TypeInv, TypeInv', RowsInv, NEW c \in Clients, UploadRecord(c)
    PROVE  RowsInv'
  <1>1. pc[c] = "up_record" /\ pc[c] \in LoopLabels \cap ChunkLabels
    BY DEF UploadRecord, LoopLabels, ChunkLabels
  <1>2. CASE Leave(c) /\ UNCHANGED dbVars
    <2>1. Shrinks({})
      BY <1>2, StatementsShrink DEF TypeInv, TypeOK, RowsInv, TableInv
    <2> QED
      BY <1>2, <2>1, LeaveRowsInv DEF UploadRecord
  <1>3. CASE /\ InsertChunk(CurrentRow)
             /\ Goto(c, "up_next")
             /\ frame' = [frame EXCEPT !.pos = @ + 1, !.uid = 0, !.row = {}]
             /\ UNCHANGED <<req, holder>>
    <2> DEFINE new == CurrentRow
    <2>1. /\ new.object = frame.obj /\ new.index = frame.pos
          /\ new.hash = frame.body[frame.pos + 1] /\ new.status = "active"
      BY DEF CurrentRow, Current
    <2>2. /\ chunks' = chunks \cup {new}
          /\ objects' = objects /\ nextId' = nextId
          /\ \E o \in objects : o.id = new.object
      BY <1>3 DEF InsertChunk, CanInsertChunk, CurrentRow
    <2> HIDE DEF new
    <2>3. frame.pos \in Nat /\ frame.pos < Len(frame.body)
      BY <1>1, InLoop DEF TypeInv, PosInv, At, Frame
    <2>4. Written
      BY <1>1, InLoop
    <2>5. IdInv' /\ RefInv'
      BY <2>2 DEF RowsInv, TableInv, IdInv, RefInv
    <2>6. \A o \in objects : ActiveRows(o.id)' =
             ActiveRows(o.id) \cup (IF o.id = frame.obj THEN {new} ELSE {})
      BY <2>1, <2>2 DEF ActiveRows, ChunksOf
    <2>7. RowsMatchObject'
      BY SMTT(30), <2>1, <2>2, <2>3, <2>4, <2>6 DEF RowsInv, TableInv, RowsMatchObject, Written
    <2>8. HistoryInv'
      BY <1>3, <2>2, <2>6
         DEF UploadRecord, history, RowsInv, HistoryInv, AckedWhole, IsWhole
    <2>9. /\ frame'.obj = frame.obj /\ frame'.body = frame.body
          /\ frame'.pos = frame.pos + 1 /\ pc'[c] = "up_next" /\ holder' = c
      BY <1>1, <1>3, InLoop DEF Goto, Frame
    <2>10. Written'
      <3>1. \A i \in 0 .. frame'.pos - 1 : i \in 0 .. frame.pos - 1 \/ i = frame.pos
        BY <2>3, <2>9
      <3>2. \A r \in chunks : r.index \in Nat
        BY DEF TypeInv, TypeOK, DBTypeOK, ChunkRow
      <3>3. \A o \in objects : o.id = frame.obj =>
               \A r \in ActiveRows(o.id)' : r.index < frame.pos + 1
        BY <2>1, <2>3, <2>4, <2>6, <3>2 DEF Written, ActiveRows, ChunksOf
      <3> QED
        BY <2>1, <2>2, <2>4, <2>6, <2>9, <3>1, <3>3 DEF Written
    <2>11. \A x \in Clients : pc'[x] \in PipelineLabels => x = c
      BY <2>9 DEF TypeInv, LockInv
    <2>12. "up_next" \in LoopLabels \ SlotLabels
      BY DEF LoopLabels, SlotLabels
    <2>13. FrameInv'
      BY <2>9, <2>10, <2>11, <2>12, RowLabels
         DEF FrameInv, StartInv, WritingInv, DeletingInv, SlotInv, At
    <2> QED
      BY <2>5, <2>7, <2>8, <2>13 DEF RowsInv, TableInv
  <1> QED
    BY <1>2, <1>3 DEF UploadRecord

(* upload answers 200.                                                     *)
LEMMA DoneRowsInv ==
    ASSUME TypeInv, TypeInv', RowsInv, NEW c \in Clients, UploadDone(c)
    PROVE  RowsInv'
  <1>1. pc[c] \in LoopLabels
    BY DEF UploadDone, LoopLabels
  <1>2. FrameInv'
    BY <1>1, InLoop, FreeFrame DEF UploadDone, Leave, TypeInv
  <1>3. TableInv'
    BY DEF UploadDone, dbVars, RowsInv, TableInv, IdInv, RefInv, RowsMatchObject,
           ActiveRows, ChunksOf
  <1>4. HistoryInv'
    <2>1. /\ acked' = acked \cup {frame.obj} /\ UNCHANGED <<dbVars, doomed>>
          /\ frame.pos = Len(frame.body)
      BY DEF UploadDone
    <2>2. \A o \in objects : o.id = frame.obj => IsWhole(o)
      <3>1. frame.body \in Seq(Contents) /\ Len(frame.body) \in Nat
        BY DEF TypeInv, TypeOK, ClientTypeOK, Frame
      <3>2. \A i \in 1 .. Len(frame.body) : i - 1 \in 0 .. frame.pos - 1
        BY <2>1, <3>1
      <3> QED
        BY <1>1, <3>2, InLoop DEF Written, IsWhole
    <2>3. frame.obj < nextId
      BY <1>1, InLoop DEF Written
    <2> QED
      BY <2>1, <2>2, <2>3
         DEF dbVars, RowsInv, HistoryInv, AckedWhole, IsWhole, ActiveRows, ChunksOf
  <1> QED
    BY <1>2, <1>3, <1>4 DEF RowsInv

(* The other steps of upload's loop stay with the chunk; one drops the row *)
(* of the slot it recycles.                                                *)
LEMMA LoopRowsInv ==
    ASSUME TypeInv, TypeInv', RowsInv, NEW c \in Clients, LoopStep(c),
           ~UploadRecord(c), ~FailAfterAppend(c)
    PROVE  RowsInv'
  <1>1. pc[c] \in LoopLabels /\ UNCHANGED history
    BY DEF LoopStep, UploadDedup, UploadFindFree, UploadCreateDraft,
           UploadDeleteDraft, UploadDropFreeRow, FailIgnored, LoopLabels, ChunkLabels
  <1>2. /\ holder = c /\ frame \in Frame /\ pc \in [Clients -> Labels]
        /\ DBTypeOK /\ ClientTypeOK /\ TableInv /\ RefInv
        /\ pc[c] \in SlotLabels => \A r \in frame.row : r.status = "free"
    BY <1>1, InLoop
  <1>3. Shrinks({})
    <2>1. CASE UploadDropFreeRow(c)
      <3>1. \A r \in frame.row : r.status = "free"
        BY <1>2, <2>1 DEF UploadDropFreeRow, SlotLabels
      <3> QED
        BY <1>2, <2>1, <3>1, StatementsShrink DEF UploadDropFreeRow
    <2>2. CASE UNCHANGED dbVars
      BY <1>2, <2>2, StatementsShrink
    <2> QED
      BY <2>1, <2>2 DEF LoopStep, UploadDedup, UploadFindFree, UploadCreateDraft,
                        UploadDeleteDraft, FailIgnored
  <1>4. /\ holder' = holder /\ frame'.obj = frame.obj
        /\ frame'.body = frame.body /\ frame'.pos = frame.pos
        /\ pc'[c] \in LoopLabels
    BY <1>2
       DEF LoopStep, UploadDedup, UploadFindFree, UploadCreateDraft,
           UploadDeleteDraft, UploadDropFreeRow, FailIgnored, Goto, Frame,
           LoopLabels, ChunkLabels
  <1>5. pc'[c] \in SlotLabels => \A r \in frame'.row : r.status = "free"
    <2>1. CASE UploadFindFree(c)
      BY <1>2, <2>1 DEF UploadFindFree, FreeChunks, Frame
    <2>2. CASE UploadDedup(c)
      BY <1>2, <2>2 DEF UploadDedup, Goto, SlotLabels
    <2>3. CASE ~UploadFindFree(c) /\ ~UploadDedup(c)
      <3>1. pc'[c] \in SlotLabels => pc[c] \in SlotLabels
        BY <1>2, <2>3
           DEF LoopStep, UploadCreateDraft, UploadDeleteDraft, UploadDropFreeRow,
               FailIgnored, Goto, SlotLabels
      <3>2. frame'.row = frame.row
        BY <1>2, <2>3
           DEF LoopStep, UploadCreateDraft, UploadDeleteDraft, UploadDropFreeRow,
               FailIgnored, Frame
      <3> QED
        BY <1>2, <3>1, <3>2
    <2> QED
      BY <2>1, <2>2, <2>3
  <1>6. FrameInv'
    BY <1>1, <1>2, <1>3, <1>4, <1>5, LoopFrame DEF RowsInv, TypeInv
  <1> QED
    BY <1>1, <1>3, <1>6, ShrinkingStep DEF history

(* Faults that end a handler, or all of them.                              *)
LEMMA EndingFaultRowsInv ==
    ASSUME TypeInv, TypeInv', RowsInv
    PROVE  /\ \A c \in Clients : FailDelete(c) => RowsInv'
           /\ \A c \in Clients : FailAfterAppend(c) \/ Abandon(c) => RowsInv'
           /\ Restart => RowsInv'
  <1>1. UNCHANGED dbVars => Shrinks({})
    BY StatementsShrink DEF TypeInv, TypeOK, RowsInv, TableInv
  <1>2. ASSUME NEW c \in Clients, FailDelete(c) PROVE RowsInv'
    <2>1. FrameInv'
      BY <1>2, AfterDeleteFrame DEF FailDelete
    <2> QED
      BY <1>1, <1>2, <2>1, ShrinkingStep DEF FailDelete, history
  <1>3. ASSUME NEW c \in Clients, FailAfterAppend(c) \/ Abandon(c) PROVE RowsInv'
    BY <1>1, <1>3, LeaveRowsInv DEF FailAfterAppend, Abandon
  <1>4. ASSUME Restart PROVE RowsInv'
    <2>1. FrameInv'
      BY <1>4, FreeFrame DEF Restart, TypeInv
    <2> QED
      BY <1>1, <1>4, <2>1, ShrinkingStep DEF Restart, history
  <1> QED
    BY <1>2, <1>3, <1>4

(* RowsInv is inductive, given TypeInv.                                    *)
LEMMA NextRowsInv ==
    ASSUME TypeInv, TypeInv', RowsInv, [Next]_vars
    PROVE  RowsInv'
  <1>1. CASE UNCHANGED vars
    <2>1. Shrinks({})
      BY <1>1, StatementsShrink DEF vars, TypeInv, TypeOK, RowsInv, TableInv
    <2> QED
      BY <1>1, <2>1, OutsideRowsInv DEF vars, clientVars
  <1>2. CASE \E n \in BucketNames : CreateBucket(n)
    <2>1. PICK n \in BucketNames : CreateBucket(n)
      BY <1>2
    <2>2. Shrinks({})
      BY <2>1, StatementsShrink DEF CreateBucket, TypeInv, TypeOK, RowsInv, TableInv
    <2> QED
      BY <2>1, <2>2, OutsideRowsInv DEF CreateBucket, clientVars
  <1>3. ASSUME NEW c \in Clients, NewRequest(c) \/ HandlerStep(c) \/ FaultStep(c)
        PROVE  RowsInv'
    <2>1. CASE UploadStep(c) \/ FailIgnored(c)
      BY <2>1, InsertRowsInv, RecordRowsInv, DoneRowsInv, LoopRowsInv,
         EndingFaultRowsInv
         DEF UploadStep, LoopStep
    <2> QED
      BY <1>3, <2>1, RequestRowsInv, DeleteRowsInv, DownloadRowsInv,
         EndingFaultRowsInv
         DEF HandlerStep, FaultStep
  <1> QED
    BY <1>1, <1>2, <1>3, EndingFaultRowsInv DEF Next

LEMMA RowsInvHolds == Spec => []RowsInv
  <1>1. Init => RowsInv
    <2> SUFFICES ASSUME Init PROVE RowsInv
      OBVIOUS
    <2>1. TableInv
      BY DEF Init, DBInit, TableInv, IdInv, RefInv, RowsMatchObject
    <2>2. HistoryInv
      BY DEF Init, DBInit, HistoryInv, AckedWhole
    <2>3. FrameInv
      <3>1. \A labels : labels \subseteq PipelineLabels => ~At(labels)
        BY LabelFacts DEF Init, At
      <3> QED
        BY <3>1, RowLabels
           DEF FrameInv, StartInv, WritingInv, DeletingInv, SlotInv
    <2> QED
      BY <2>1, <2>2, <2>3 DEF RowsInv
  <1>2. TypeInv /\ TypeInv' /\ RowsInv /\ [Next]_vars => RowsInv'
    BY NextRowsInv
  <1> QED
    BY <1>1, <1>2, TypeInvHolds, PTL DEF Spec

-----------------------------------------------------------------------------
(* Every active row of an object is a chunk of the bytes it was uploaded   *)
(* with, at its place, whatever uploads, copies, deletions and recyclings  *)
(* of pipeline.rs run beside each other or fail.                           *)
THEOREM RowsAreTheObjects == Spec => []RowsMatchObject
  <1>1. RowsInv => RowsMatchObject
    BY DEF RowsInv, TableInv
  <1> QED
    BY <1>1, RowsInvHolds, PTL

(* An object whose upload was answered 200, and that delete was not called *)
(* on since, has a row for every chunk as long as it is there: no failure, *)
(* dropped request or restart of another request takes one away.           *)
THEOREM AcknowledgedStaysWhole == Spec => []AckedWhole
  <1>1. RowsInv => AckedWhole
    BY DEF RowsInv, HistoryInv
  <1> QED
    BY <1>1, RowsInvHolds, PTL
=============================================================================
