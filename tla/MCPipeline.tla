----------------------------- MODULE MCPipeline -----------------------------
(* The instances of StoragePipeline that TLC checks.                       *)
EXTENDS StoreRefinement, TLC

CONSTANTS x, y      \* two chunk contents

(* Bodies of one and of two chunks.                                        *)
OneAndTwoChunks == {<<x>>, <<x, y>>}

(* A chunk that occurs twice in one object, and shared chunks.             *)
SharedChunks == {<<x>>, <<x, x>>, <<y>>}

SingleChunk == {<<x>>, <<y>>}

WithEmptyBody == {<<>>, <<x>>}

ClientSymmetry == Permutations(Clients)
KeySymmetry == Permutations(Keys)
ClientKeySymmetry == ClientSymmetry \cup KeySymmetry
=============================================================================
