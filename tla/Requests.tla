------------------------------ MODULE Requests ------------------------------
(***************************************************************************)
(* The functions of a request that touch no shared state, on any inputs: a *)
(* question is asked, then answered.                                       *)
(***************************************************************************)
EXTENDS Listing, Chunker, SigV4

CONSTANTS
    Bytes,          \* what keys, prefixes, delimiters and bodies consist of
    KeyPool,        \* the keys a bucket may hold
    ListRequests,   \* the parameters of list_objects_v2
    Bodies,         \* the bodies of uploads
    ChunkSizes,     \* the values of chunk_size_mb
    SignRequests,   \* the requests that reach auth_middleware
    Clocks          \* what the server's clock says then

(* A bucket holds finitely many keys; there is at most one delimiter;      *)
(* parameters are pairs of texts, headers have sequences of texts, and a   *)
(* date names an instant.                                                  *)
ASSUME RequestsAssumption ==
    /\ IsFiniteSet(KeyPool) /\ KeyPool \subseteq Seq(Bytes)
    /\ \A q \in ListRequests :
          /\ q.prefix \in Seq(Bytes) /\ q.maxKeys \in Int
          /\ q.delimiter \in SUBSET Seq(Bytes)
          /\ \A d, e \in q.delimiter : d = e
    /\ Bodies \subseteq Seq(Bytes) /\ ChunkSizes \subseteq Nat
    /\ MiB \in Nat \ {0} /\ Word \in Nat \ {0}
    /\ \A r \in SignRequests :
          /\ r.query \in Seq(Nat \X Nat)
          /\ \A h \in DOMAIN r.headers : r.headers[h] \in Seq(Nat)
          /\ r.time.at \in Int
    /\ Clocks \subseteq Int /\ Skew \in Nat

VARIABLES
    asked,          \* which function, and its arguments
    reply           \* what it did, and its result

vars == <<asked, reply>>

Questions ==
    [op: {"list"}, keys: SUBSET KeyPool, q: ListRequests]
    \cup [op: {"chunk"}, data: Bodies, mb: ChunkSizes]
    \cup [op: {"sign"}, r: SignRequests, now: Clocks]

NoReply == [status |-> "none", value |-> "none"]

Init == asked \in Questions /\ reply = NoReply

Says(value) == reply' = [status |-> "ok", value |-> value]
Panicked == reply' = [status |-> "panic", value |-> "none"]

List ==
    /\ asked.op = "list"
    /\ \/ \E value \in Listings(asked.keys, asked.q) : Says(value)
       \/ Listings(asked.keys, asked.q) = {} /\ Panicked

Cut ==
    /\ asked.op = "chunk"
    /\ IF ChunkPanics(ChunkSizeBytes(asked.mb)) THEN Panicked
       ELSE Says(ChunkData(asked.data, ChunkSizeBytes(asked.mb)))

Verify == asked.op = "sign" /\ Says(Verdict(asked.r, asked.now))

Next ==
    /\ reply = NoReply
    /\ List \/ Cut \/ Verify
    /\ UNCHANGED asked

Spec == Init /\ [][Next]_vars

-----------------------------------------------------------------------------
Answered(op) == asked.op = op /\ reply.status = "ok"

(* list_objects_v2 hides no key that it should list, unless the prefix has *)
(* LIKE's escape (bucket.rs:200-235).                                      *)
ListingHidesNothing ==
    Answered("list") => NothingHidden(asked.keys, asked.q, reply.value)

(* list_objects_v2 groups keys as S3 does, and then never panics, unless   *)
(* the prefix has a wildcard or LIKE's escape or the delimiter is not one  *)
(* byte.                                                                   *)
ListingGroupsAsS3 ==
    /\ Answered("list") => GroupsAsS3(asked.keys, asked.q, reply.value)
    /\ asked.op = "list" /\ reply.status = "panic" => ~IsPlain(asked.q)

(* The counts of list_objects_v2 are those of its answer (bucket.rs:233).  *)
ListingCountsHonestly ==
    Answered("list") => HonestCounts(asked.keys, asked.q, reply.value)

(* chunk_data cuts any body without loss, also by a size that wrapped, and *)
(* by the size that was configured if that many bytes fit into an u64.     *)
ChunksReassemble ==
    /\ Answered("chunk") =>
         CutsFaithfully(asked.data, ChunkSizeBytes(asked.mb), reply.value)
    /\ asked.op = "chunk" /\ reply.status = "panic" =>
         asked.mb = 0 \/ asked.mb * MiB >= Word

(* auth_middleware serves what a client that follows the AWS specification *)
(* signed, and only while it is fresh (auth.rs:145-225).                   *)
SignedRequestsAreServed ==
    Answered("sign") => SignedIsServed(asked.r, asked.now, reply.value)
=============================================================================
