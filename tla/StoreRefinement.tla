--------------------------- MODULE StoreRefinement ---------------------------
(***************************************************************************)
(* StoragePipeline implements ObjectStore.  The catalog leaves out the     *)
(* objects that hold free chunks; a position is stored when an active row  *)
(* records it; the object being written is the one upload has inserted,    *)
(* and the object being deleted the one delete was called on.              *)
(***************************************************************************)
EXTENDS PipelineSafety

(* The catalog tells the program's objects from the clients' by their key: *)
(* a client who names one of his own so is left out of the promise.        *)
ASSUME RecycleKeyAssumption == RecycleKey \notin Keys

WritingLabels == UploadLabels \ {"up_insert"}
DeletingLabels == DeleteLabels \ {"find"}

Live == {buckets[n] : n \in Names} \ {NoId}

Catalog == {o \in objects : o.key # RecycleKey}

ActiveChunks == {r \in chunks : r.status = "active"}

Stored == {<<r.object, r.index>> : r \in ActiveChunks}

Writing == IF At(WritingLabels) THEN frame.obj ELSE NoId

Deleting == IF At(DeletingLabels) THEN frame.victim ELSE NoId

Store == INSTANCE ObjectStore WITH
    None <- NoId, live <- Live, catalog <- Catalog, stored <- Stored,
    writing <- Writing, deleting <- Deleting

(* The pipeline and the bucket handlers implement the abstract store: the  *)
(* tables change only as one writer or one deleter at a time may change    *)
(* them, in order, and 200 is answered for whole objects, through every    *)
(* interleaving, failure and restart of pipeline.rs, object.rs, bucket.rs. *)
ImplementsStore == Store!Spec
=============================================================================
