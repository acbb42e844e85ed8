----------------------------- MODULE MetadataDB -----------------------------
(***************************************************************************)
(* The PostgreSQL tables of ObjectMail (src/src/migration.rs and           *)
(* src/src/db/entities), and the SQL statements the program runs on them.  *)
(* A table is a set of rows; a statement is an action, atomic as           *)
(* PostgreSQL's autocommit makes it: the program opens no transaction.     *)
(*                                                                         *)
(* A row keeps the columns the program's control flow reads.  An object's  *)
(* size, etag and chunk_count are all functions of the bytes it was        *)
(* uploaded with, so the row keeps those bytes: data, the sequence of its  *)
(* chunk contents.  Two contents are equal exactly when their SHA-256      *)
(* digests are (no collisions), so a content stands for its own hash.      *)
(***************************************************************************)
EXTENDS Integers, Sequences, FiniteSets

CONSTANTS
    BucketNames,    \* the bucket names the clients use
    Keys,           \* the object keys the clients use
    Contents,       \* chunk contents, and their hashes
    RecycleBin,     \* the bucket name "recycling-bin"
    RecycleKey      \* the object key "free-chunks-<email_account_id>"

Names == BucketNames \cup {RecycleBin}
ObjectKeys == Keys \cup {RecycleKey}

VARIABLES
    buckets,        \* buckets: the id of the row with this name, or NoId
    objects,        \* objects: the set of rows
    chunks,         \* chunks: the set of rows
    nextId          \* source of fresh UUIDs, shared by all tables

dbVars == <<buckets, objects, chunks, nextId>>

NoId == 0

ObjectRow == [id: Nat, bucket: Nat, key: ObjectKeys, data: Seq(Contents)]

ChunkRow == [object: Nat, index: Nat, hash: Contents, uid: Nat,
             status: {"active", "free"}]

DBTypeOK ==
    /\ buckets \in [Names -> Nat]
    /\ objects \subseteq ObjectRow
    /\ chunks \subseteq ChunkRow
    /\ nextId \in Nat \ {NoId}

DBInit ==
    /\ buckets = [n \in Names |-> NoId]
    /\ objects = {}
    /\ chunks = {}
    /\ nextId = 1

-----------------------------------------------------------------------------
(* Queries.                                                                *)

BucketExists(b) == b # NoId /\ \E n \in Names : buckets[n] = b

ObjectsAt(b, k) == {o \in objects : o.bucket = b /\ o.key = k}

ChunksOf(id) == {r \in chunks : r.object = id}

ActiveWithHash(h) == {r \in chunks : r.status = "active" /\ r.hash = h}

FreeChunks == {r \in chunks : r.status = "free"}

(* The rows that make `delete` keep a chunk: other objects' active rows    *)
(* with its hash.                                                          *)
OtherUsers(h, id) == {r \in ActiveWithHash(h) : r.object # id}

-----------------------------------------------------------------------------
(* Statements.  Can... is the check of the foreign key and of the unique   *)
(* index of the table; a statement that fails it returns a DbErr.          *)

CanInsertBucket(n) == buckets[n] = NoId

InsertBucket(n) ==
    /\ CanInsertBucket(n)
    /\ buckets' = [buckets EXCEPT ![n] = nextId]
    /\ nextId' = nextId + 1
    /\ UNCHANGED <<objects, chunks>>

(* bucket_id references buckets(id); (bucket_id, key) is unique.           *)
CanInsertObject(b, k) == BucketExists(b) /\ ObjectsAt(b, k) = {}

InsertObject(b, k, d) ==
    /\ CanInsertObject(b, k)
    /\ objects' = objects \cup
                    {[id |-> nextId, bucket |-> b, key |-> k, data |-> d]}
    /\ nextId' = nextId + 1
    /\ UNCHANGED <<buckets, chunks>>

(* object_id references objects(id); (object_id, chunk_index) is unique.   *)
CanInsertChunk(id, i) ==
    /\ \E o \in objects : o.id = id
    /\ \A r \in ChunksOf(id) : r.index # i

InsertChunk(row) ==
    /\ CanInsertChunk(row.object, row.index)
    /\ chunks' = chunks \cup {row}
    /\ UNCHANGED <<buckets, objects, nextId>>

(* UPDATE of one row by primary key: moves it under another object with    *)
(* status "free".  The row must still be there (sea-orm reports            *)
(* RecordNotUpdated) and the constraints of CanInsertChunk hold.           *)
CanMoveChunk(row, bin, i) == row \in chunks /\ CanInsertChunk(bin, i)

(* Mutation: the index keeps the sign of the XOR (no .abs()).              *)
MoveChunkSigned(row, bin, i) ==
    /\ CanMoveChunk(row, bin, 0 - i)
    /\ chunks' = (chunks \ {row}) \cup
          {[row EXCEPT !.object = bin, !.index = 0 - i, !.status = "free"]}
    /\ UNCHANGED <<buckets, objects>>

(* Mutation: the moved row stays active.                                   *)
MoveChunkActive(row, bin, i) ==
    /\ CanMoveChunk(row, bin, i)
    /\ chunks' = (chunks \ {row}) \cup
          {[row EXCEPT !.object = bin, !.index = i]}
    /\ UNCHANGED <<buckets, objects>>

MoveChunk(row, bin, i) ==
    /\ CanMoveChunk(row, bin, i)
    /\ chunks' = (chunks \ {row}) \cup
          {[row EXCEPT !.object = bin, !.index = i, !.status = "free"]}
    /\ UNCHANGED <<buckets, objects>>

DeleteChunkRows(rows) ==
    /\ chunks' = chunks \ rows
    /\ UNCHANGED <<buckets, objects, nextId>>

(* Mutation: the object row outlives its chunk rows.                       *)
KeepObjectRow(id) ==
    /\ chunks' = chunks \ ChunksOf(id)
    /\ UNCHANGED <<buckets, objects, nextId>>

(* The foreign keys cascade: an object takes its chunk rows along, and a   *)
(* bucket its objects and theirs.                                          *)
DeleteObjectRow(id) ==
    /\ objects' = {o \in objects : o.id # id}
    /\ chunks' = chunks \ ChunksOf(id)
    /\ UNCHANGED <<buckets, nextId>>

DeleteBucketRow(b) ==
    /\ buckets' = [n \in Names |-> IF buckets[n] = b THEN NoId ELSE buckets[n]]
    /\ objects' = {o \in objects : o.bucket # b}
    /\ chunks' = {r \in chunks : \E o \in objects' : o.id = r.object}
    /\ UNCHANGED nextId
=============================================================================
