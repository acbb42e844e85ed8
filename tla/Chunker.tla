------------------------------- MODULE Chunker -------------------------------
(***************************************************************************)
(* chunk_data (src/src/storage/chunker.rs) and the chunk size it is called *)
(* with (src/src/config.rs).  A chunk's hash is a function of its data.    *)
(***************************************************************************)
EXTENDS Integers, SequencesExt

CONSTANTS
    MiB,            \* 1024 * 1024
    Word            \* 2^64: u64 arithmetic wraps in a release build

(* chunk_size_mb * 1024 * 1024                                             *)
ChunkSizeBytes(mb) == (mb * MiB) % Word

(* [T]::chunks panics on size zero.                                        *)
ChunkPanics(size) == size = 0

(* Mutation: an incomplete last chunk is left out.                         *)
FullChunks(data, size) == Len(data) \div size

ChunkCount(data, size) == (Len(data) + size - 1) \div size

ChunkBytes(data, size, i) ==
    SubSeq(data, i * size + 1, IF (i + 1) * size < Len(data)
                               THEN (i + 1) * size ELSE Len(data))

ChunkData(data, size) ==
    [n \in 1..ChunkCount(data, size) |->
        [index |-> n - 1, data |-> ChunkBytes(data, size, n - 1)]]

-----------------------------------------------------------------------------
Joined(list) == FlattenSeq([n \in DOMAIN list |-> list[n].data])

(* Cutting loses nothing, whatever the size (one that wrapped included):   *)
(* the chunks in order of their index are the data again, none is empty,   *)
(* and only the last is short.  So what download has concatenated, copy    *)
(* cuts into the same chunks, which is why a copy stores nothing new.      *)
CutsFaithfully(data, size, list) ==
    /\ Joined(list) = data
    /\ \A n \in DOMAIN list :
         /\ list[n].index = n - 1
         /\ Len(list[n].data) \in 1..size
         /\ n < Len(list) => Len(list[n].data) = size
=============================================================================
