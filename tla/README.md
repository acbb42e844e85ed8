# A TLA+ model of ObjectMail

ObjectMail is an S3 server that keeps object bytes in the drafts folder of an
IMAP mailbox and everything else in PostgreSQL.  This directory models the part
of it that can go wrong in ways a unit test does not reach: the storage
pipeline with its tables and its mailbox, the handlers that call it, the IMAP
session under it, the multipart uploads, and the pure functions of a request.
TLC checks small instances; TLAPS proves the properties the rest stands on for
instances of every size.

## 1. The system

| Component | Source | State | Operations |
|---|---|---|---|
| Storage pipeline | `storage/pipeline.rs` | none of its own; one tokio mutex around it (`AppState.pipeline`, `main.rs:24`) | `upload`, `download`, `delete`, `delete_by_key`, `copy`, `get_or_create_recycling_object` |
| Object handlers | `s3/object.rs` | locals of a request | `put_object`, `get_object`, `head_object`, `delete_object`, `copy_object` |
| Bucket handlers | `s3/bucket.rs` | locals of a request | `create_bucket`, `delete_bucket`, `head_bucket`, `list_buckets`, `list_objects_v2` |
| Multipart uploads | `s3/multipart.rs` | `multipart_uploads`, `multipart_parts`, files of `temp_dir` | create, `upload_part`, complete, abort |
| Metadata database | `migration.rs`, `db/entities` | `buckets`, `objects`, `chunks` with their keys | single SQL statements; no transaction anywhere |
| IMAP provider | `email/gmail.rs`, `email/metadata.rs` | the drafts folder; one session behind a mutex | `create_draft`, `get_draft`, `delete_draft`, `health_check` |
| Chunker, hasher | `storage/chunker.rs`, `storage/hasher.rs` | none | `chunk_data`, MD5, SHA-256 |
| Start-up, configuration | `main.rs`, `config.rs` | the e-mail account row | migrations, `ensure_email_account` |
| Router, authentication, XML, errors | `s3/router.rs`, `s3/auth.rs`, `s3/sts.rs`, `s3/xml.rs`, `s3/error.rs` | none | dispatch, SigV4, formatting |

(Paths are below `src/src/`.)

How they interact.  A request is an async task.  An object handler looks up
its bucket (and object) rows, then waits for the pipeline mutex, then runs the
pipeline under it.  `upload` deletes the object that was at the key, inserts the
new row, and for each chunk asks for an active row with the same hash (a
deduplication hit shares its draft), else for a free row (whose draft is
recycled: append the new message, delete the old one), else appends a draft; then
it inserts the chunk row.  `delete` moves some chunk rows to an object of the
bucket `recycling-bin`, deletes the others, and deletes the object row.  Bucket
handlers and the multipart handlers never take the mutex (only
`complete_multipart_upload` does, around its call of `upload`), so their SQL
statements run between any two awaits of the pipeline.  Foreign keys cascade:
deleting a bucket removes its objects, their chunk rows, its uploads and their
part rows, but no message of the mailbox and no file.

What is hard.

* Every operation is a series of awaited SQL statements and IMAP commands
  without a transaction: any of them can fail, and any await is a point where
  the client's disconnection drops the handler or the process dies.  Start-up
  repairs nothing.
* Checks are separated from the statements that rely on them: the
  deduplication query, the count of `delete_bucket`, the look-ups before the
  mutex, the search for the UID of an appended message, the look-up of an
  upload before its part is stored.
* Drafts are shared between objects and recycled between contents, so a wrong
  row corrupts an object that nobody touched.

`PROJECT.json` lists each such place under `hazards`, with the line and the
properties that cover it.

What makes each component correct.

* *Pipeline*: mutual exclusion; a hash in use has one draft; a row's draft
  holds the row's bytes; active rows are chunks of their object; an
  acknowledged object keeps all its rows; what is downloaded is what was
  uploaded; a message leaves the folder only when its slot is recycled; every
  request ends.
* *Buckets*: only an empty bucket is deleted.
* *Multipart*: an acknowledged part is stored; complete assembles acknowledged
  bytes in list order; a closed upload stays closed and leaves no row behind.
* *Listing, chunker, signature*: pure functions that agree with what S3, the
  configuration and the AWS signature define.
* *IMAP session*: a call never meets what another one left on the connection,
  gets the answer of its own command, and comes to an end.

## 2. The modules

| Module | What it is |
|---|---|
| `MetadataDB` | the three tables, the queries, and one operator per statement with its foreign-key and unique-index checks |
| `DraftMailbox` | the drafts folder and what the IMAP commands of `GmailProvider` do to it |
| `StoragePipeline` | extends both: the handlers of `object.rs` and `bucket.rs`, the pipeline, faults; `Next`, `Spec` |
| `PipelineSafety` | the properties of `StoragePipeline`, the parts of its inductive invariant, fairness, and the repository's own claims as formulas |
| `PipelineProofs` | theorems of `StoragePipeline` and their TLAPS proofs: types, mutual exclusion, deduplication, drafts and how they leave the folder |
| `RowProofs` | extends it: what the rows say of their objects, and what an acknowledged object keeps |
| `WholeProofs` | extends it: what a download returns, and that nothing stays half written or half deleted |
| `ObjectStore` | the abstract store: what the pipeline and the bucket handlers promise of the objects, without hashes, drafts or handlers |
| `ObjectStoreProofs` | what clients may rely on, proved of the abstract store |
| `StoreRefinement` | the refinement mapping, and `ImplementsStore == Store!Spec` |
| `StoreProofs` | extends `RowProofs` and `StoreRefinement`: the proof of the refinement |
| `GmailSession` | extends `DraftMailbox`: the session of `GmailProvider`, its callers, the connections and the server; properties and fairness |
| `SessionProofs` | theorems of `GmailSession` and their proofs |
| `MCSession` | instances for TLC |
| `Listing` | `list_objects_v2` as a function of the keys and the query, and S3's definition |
| `Chunker` | `chunk_data` and `chunk_size_bytes`, and what cutting must preserve |
| `SigV4` | the decision of `auth_middleware`, and a client that signs as AWS prescribes |
| `Requests` | extends the three modules above: asks one of their functions a question, and answers it |
| `RequestProofs` | theorems of `Requests` and their proofs |
| `MCRequests` | the questions for TLC |
| `MCPipeline` | instances for TLC |
| `Multipart` | multipart uploads, their temp files and their properties |
| `MultipartProofs` | theorems of `Multipart` and their proofs |
| `MCMultipart` | instances for TLC |

No module declares a RECURSIVE operator.

### State

`buckets` maps a bucket name to the id of its row (0: none), `objects` and
`chunks` are sets of rows, `nextId` makes fresh UUIDs.  `drafts` is the folder,
`nextUid` its UIDNEXT.  A client is a slot for one request: `pc[c]` names the
call its handler awaits, `req[c]` holds the request and what the handler looked
up before the mutex.  `holder` is the owner of the mutex and `frame` the local
variables of the pipeline call under way (there is only one at a time; `TypeOK`
and `LockInv` make that precise).  `acked` and `doomed` are history: the ids of
objects whose upload was answered 200, and of those `delete` was called on.

A label is named after the call that is awaited: `find` (the look-up of
`delete_by_key`), `del_rows`, `del_next`, `del_object` (`delete`), `bin_*`
(`get_or_create_recycling_object` and the UPDATE that follows), `up_insert`,
`up_next` (deduplication query of the next chunk, or the end), `up_pool`,
`up_draft`, `up_expunge`, `up_unpool`, `up_record` (`upload`), `dl_rows`,
`dl_fetch` (`download`).  One action takes a handler from one await to the
next; the map in `PROJECT.json` gives the lines of each.

### The abstract store

`ObjectStore` knows a catalog of objects, the positions of their data that are
stored, the object being written, the one being deleted, and what was
acknowledged.  Only the object being written gains positions, in ascending
order; only the one being deleted loses any; 200 is answered when every
position is stored or the bucket is gone; a bucket takes its objects along at
any moment; every activity may be given up half-way.  `StoreRefinement` maps the
tables to it: the catalog is `objects` without those that hold free chunks, a
position is stored when an active row has it, and the labels of the one handler
inside the pipeline say whether an object is being written or deleted.  Recycling,
deduplication, the subject search and the look-ups become stutters.

The abstract store lets a deletion be given up at any time, so it does not say
that a DELETE answered 204 has removed the object: errors and answers of
deletions look alike to it.

### The session

`GmailSession` goes one level below `StoragePipeline`, where a provider call is
one step.  `pipeline` is the mutex around the callers, `lock` the one of the
session, `session` the connection in the Option.  A connection has a queue of
commands to the server, a queue of answers to the client, and the APPEND whose
literal the server awaits.  A call goes through `ensure` (take the mutex; NOOP,
or connect), `probe` (the NOOP's answer), `connect`, `relock`, and for each
command of its script `send` and `read`.  What a caller reads is decided as
async-imap does: everything up to its own tagged answer is skipped, but APPEND
takes the next answer for its go-ahead, a FETCH stops at the first body, STORE
and EXPUNGE are read and ignored.  `Drop` ends a call at any point and leaves the
connection as it is; `Break` closes a connection; `Refuse` is a NO; `Autologout`
is a server that closes a connection whose literal does not come.

A connection that is lost, or that `connect` replaces, leaves `orphans`: the
commands that reached the server whole and change the folder.  `Late` carries one
of them out at any later time, or never, in any order; `late` collects the UIDs
of the messages that come into being so.

It is checked apart from the pipeline.  What links the two is the contract
`RightAnswer`: `create_draft` returns the UID of the message it appended, `get_draft`
the content appended with its UID, and `delete_draft` leaves no message with its
UID unless it ignored an error.  `StoragePipeline` takes each for one step that does
this.  Two things it leaves out: the late APPEND (`RightAnswer` excepts it, and
`late_append` shows what it does; `DraftMatchesRow` is true only without it), and
any other late command (`DraftsLeaveByRecycling` is about commands that are carried
out when they are sent).  `InSync` is about the connection in use alone: nothing that
another call sent is in flight on it.  What was sent by a lost one can still flag or
expunge messages that a deletion asked for.

### The functions of a request

`Listing`, `Chunker` and `SigV4` have no state; `Requests` has a question and
its reply, so that what the functions promise can be stated as invariants.  Keys
are sequences of bytes, one for each character (Rust slices at a byte and panics
inside a character; that is left out); LIKE is written out with its two wildcards
and its default escape, the backslash, since sea-orm's `starts_with` escapes none of
them and sends no ESCAPE clause, as the set of places of the text that a part of the
pattern can reach; slicing past the end is a panic.  `ChunkSizeBytes` wraps modulo
`Word`.

In `SigV4` HMAC and SHA-256 are injective: a signature is the tuple it was computed
from.  Texts (paths, names and values of parameters, values of headers) are numbers in
the order of their bytes.  The code signs them, and the date header, as they came;
an AWS client signs the time in ISO 8601 whatever its date header looks like,
parameters decoded and encoded again, and all values of a header with their blanks
collapsed (`AwsSignature`).  The encodings are constants (`UriEncoded`, `PathEncoded`,
`Trim`, `Collapse`), of which nothing is assumed; freshness is defined by the instant
the date names (`IsFresh`), not by the code's test.

### Abstractions

* A chunk content stands for its SHA-256 digest, a body (the sequence of its
  contents) for its size, ETag and chunk count.  SHA-256 and MD5 collisions are
  left out.
* Bodies are given already cut by `chunk_data`.  A downloaded body cuts into
  the chunks it was made of (all but the last are full), so `copy` uploads the
  sequence it fetched.
* A look-up that finds nothing ends its handler with a 404 and changes nothing;
  it is no step.  The two look-ups of `get_object`, and of the source in
  `copy_object`, are one step: an object row is found only if its bucket
  exists at that moment, and neither row is ever updated.
  `create_bucket` is an insert-if-absent (a lost race is a unique violation,
  which changes nothing).  The two reads of `delete_bucket` are one step; its
  DELETE is another.
* A statement that fails has no effect.  A statement that took effect and whose
  answer was lost is that statement followed by `Abandon`.
* The chunk index of a recycled row, `abs(nanos ^ uid)`, is a fresh number;
  a collision, which the unique index turns into an error, is one of the
  failures of `FailDelete`.  `abs` of `i32::MIN` wraps to a negative index in a
  release build (in a debug build it panics, which is one of `Abandon`); nothing
  reads the index of a free row.
* `create_draft` finds its UID by the subject search over the whole folder:
  the model keeps the hits of earlier uploads to the same key and takes the
  largest UID, as the code does.
* The tokio mutex is FIFO; `Lock` lets any waiting client in, which allows more.
* Clients do not address the object `free-chunks-<account>`
  (`RecycleKeyAssumption` of `StoreRefinement`); in `failures.cfg` they do
  use the bucket `recycling-bin`.
* In `Multipart` the pipeline's `upload` is one step.  What its steps do is
  `PutObject` of `StoragePipeline`: complete, like `put_object`, looks the bucket up,
  waits for the mutex and calls `upload` with the id it found.  A temp file is written
  as `tokio::fs::write` writes it: opened with O_TRUNC, then written, on a blocking
  thread that finishes even when the request is dropped; a file that was unlinked
  meanwhile swallows the bytes.
* `Disciplined` restricts the clients of `Multipart` to those that neither
  re-send nor list a part whose answer is outstanding (they may abort, and
  complete without that part).  The properties about acknowledged bytes are
  meaningless for others, and so is their ETag: see the finding
  `etag_mismatch`.

* In `GmailSession` a command is written in one piece, except that a dropped
  call may leave an APPEND without its literal (or, what is the same for the
  next call, with a part of it); a literal is longer than anything that is sent
  later.  The callers may ask for any UID that was assigned.

### Faults

`FailDelete`: a call inside `delete_by_key` fails; `upload` ignores it, a
DELETE request answers 500.  `FailIgnored`: `delete_draft` (with or without the
`\Deleted` flag set, or with its STORE refused and its EXPUNGE done, which it
answers Ok) or the DELETE of the free row fails, and upload goes on.
`FailAfterAppend`: `create_draft` fails after its APPEND.  `Abandon`: the handler
ends at whatever await it is, by `?`, by a panic, or because the client
disconnected and the future is dropped.  `Restart`: the process dies; tables
and folder survive.  Their number is bounded by `MaxFaults`.  `GmailSession` has
its own: `Drop`, `Break` and `Refuse`.

## 3. What is checked

All instances have finitely many requests (`MaxRequests`, `MaxCalls`), after
which the system stops: deadlock is not an error there (`CHECK_DEADLOCK FALSE`);
that no request gets stuck is `Answered` and `CallsEnd`.

| Run | Instance | Shows |
|---|---|---|
| `interleaving` | 2 clients, 2 keys, bodies x and xy, 6 requests, no fault; 332 000 states | `TypeOK`, `DedupSingleDraft`, `QuiescentWhole`, `FaithfulFetch` |
| `failures` | 2 clients, 2 keys, the bucket `recycling-bin` open to clients, bodies x, xx and y, 5 requests, 1 fault; 2 150 000 states | `LockInv`, `AckedWhole`, `DraftMatchesRow`, `RowsMatchObject`, `DraftsLeaveByRecycling` |
| `answered` | 2 clients, 2 keys, the bucket `recycling-bin` open to clients, 4 requests, 1 fault, `FairSpec`; 245 000 states | `Answered`, `ImplementsStore` |
| `multipart` | 3 clients, 2 parts, 1 upload, 5 requests, 1 fault, disciplined; 2 350 000 states | `TypeOK`, `AckedPartsAreStored`, `AssembledAsAcked`, `ClosedStaysClosed` |
| `session` | 2 callers, 1 subject, 4 calls, 2 faults, `ImpatientSpec`; 500 000 states | `TypeOK`, `InSync`, `RightAnswer`, `CallsEnd` |
| `requests` | all sets of 7 keys with 200 queries; bodies of up to 5 bytes with 10 chunk sizes; queries of up to 3 parameters, three formats of dates, encoded and other texts, signed or not, at 5 clock readings; 138 000 states | `ListingHidesNothing`, `ListingGroupsAsS3`, `ListingCountsHonestly`, `ChunksReassemble`, `SignedRequestsAreServed` |

Why the bounds are enough.  Two clients make every pair of handlers interleave; the
mutex makes a third one wait, and what a waiting handler knows (its look-ups) is
already stale with two.  Creating the bucket takes one of the requests.  Two keys with
two contents make sharing, overwriting, copying onto oneself and onto another key;
five or six requests reach put, put (shared), delete (a free row), put (recycled),
get.  The body `xx` makes one object use a content twice, `xy` gives an order to lose.
One fault at every await covers each single failure of each operation; later requests
meet its remains.  In `Multipart` a part body of one and one of two blocks make an
overlapping write leave a tail; three clients let an upload of a part, a complete and
an abort overlap.  Four calls make a create, a dropped call, and two calls that
inherit what it left; with one subject every search finds the earlier messages too;
two faults are a dropped call and a failure of the call after it, or the loss of a
connection and a fault of the call whose search meets its late APPEND.  The keys of
`requests` have the delimiter in no, the first and the second place, the prefixes each
wildcard and the escape, before a wildcard, itself and nothing, and the maxima a
negative number, zero, and both sides of the number of keys; `MiB = 2` and `Word = 8`
make products wrap to zero and to other sizes.

`QuiescentWhole`, `AckedPartsAreStored` and `AssembledAsAcked` speak of
behaviours without faults (`faults = 0`): with one, half-written objects and
parts are what the code leaves, and `AckedWhole`, `DraftMatchesRow` and
`ClosedStaysClosed` say what holds of them.

Fairness.  `WF_vars(HandlerStep(c))`: PostgreSQL and the IMAP server answer,
or fail, and tokio polls a task that is ready.  `SF_vars(Lock(c))`: tokio's mutex
is FIFO, so a waiter is not overtaken forever.  No client is assumed to send a
request, and no fault to happen.  In `GmailSession`, `WF` of the caller's and of
the server's steps; the session's mutex needs no more, because the pipeline's
mutex leaves it one contender.  `ImpatientSpec` adds `WF_vars(Autologout(k))`: a
server closes a connection whose literal does not come (RFC 3501 allows it to
after 30 minutes).  The code cannot do without: it has no timeout, and under
`FairSpec` alone `stale_session` is the counterexample.

### Where the code differs from what it says

Each of these is a run that TLC must find violated; `findings` in `PROJECT.json`
quotes the lines.

| Run | Claim | What happens |
|---|---|---|
| `draft_preserved` | "used by {} other objects. Preserving draft" (`pipeline.rs:253`) | the condition is inverted: the shared draft becomes a free slot, and the next new chunk deletes it |
| `bucket_race` | "Check if bucket is empty" (`bucket.rs:86`) | an object that was stored and acknowledged after the count goes with the bucket |
| `empty_object` | GET of an acknowledged object | a zero-byte object has no rows, and `download` takes that for an error |
| `stale_session` | "Reconnect if the session is stale" (`gmail.rs:153`) | the NOOP is swallowed by the unfinished APPEND of a dropped request, and waits until the server gives up |
| `late_append` | "Returns the IMAP UID of the created draft message" (`provider.rs:9`) | a `create_draft` loses its connection when its APPEND is with the server; the next one for the same key appends, then the server carries the first out, and the search returns that UID |
| `etag_mismatch` | "overwrite semantics for same part number" (`multipart.rs:142`) | file and row of a part can come from two uploads |

Smaller disagreements are visible in the model and have no run: the draft of
the last reference to a chunk is neither deleted, as `pipeline.rs:231` says ("if no
other refs, delete email draft"), nor recyclable; two free
rows can name one draft, so that recycling does not keep "the total count
exactly the same" (`pipeline.rs:131`); a deduplicated chunk has no subject of
its own, so that subjects do not let metadata survive the database
(`metadata.rs:9`), whose bucket field holds the key anyway (`pipeline.rs:114`);
a part stored while `complete` runs keeps its temp file for good
(`multipart.rs:271`); a prefix with `_` or `%` lists keys that do not have it,
an empty delimiter or such a prefix can make the listing panic, and a delimiter of
several bytes is cut after its first (`bucket.rs:200`, `:217`); a prefix with a
backslash hides keys, since LIKE takes it for an escape: the prefix `a\` asks for
`a\%`, which is the one key `a%`, and the key `a\b` is missing from an answer that
does not say it is truncated (`bucket.rs:200`); a negative
`max-keys` answers a negative `KeyCount`.  The properties of the listing say under
which conditions the answer is S3's.

The "15-minute skew tolerance" of `auth.rs:145` is one only for dates in the format
`%Y%m%dT%H%M%SZ`: another date, which S3 allows in the `date` header, or none, is
never too old. The code signs such a date as it stands (`amz_date`), so that whoever
signs that way is served for ever, and an AWS client, which signs ISO 8601, never is:
`SignedRequestsAreServed` is about clients that sign as AWS specifies.  Of these the
code also refuses those that send two values of a header, blanks inside one, or a path
or parameter that is not encoded as it is signed.

Because of `draft_preserved`, no property says that an acknowledged object can
always be downloaded: `AckedWhole` and `DraftMatchesRow` say what does hold
(the rows survive, and never name another chunk's bytes), and `FaithfulFetch`
that a download which succeeds is right.

## 4. What is proved

For all sets of clients, callers, keys, bucket names, subjects, parts and
contents, all bodies, all bounds on requests, calls, uploads and faults, and all
questions that can be asked of the functions of a request:

| Module | Theorem | Statement |
|---|---|---|
| `PipelineProofs` | `TypeCorrect` | `Spec => []TypeOK` |
| `PipelineProofs` | `MutualExclusion` | `Spec => []LockInv` |
| `PipelineProofs` | `Deduplication` | `Spec => []DedupSingleDraft` |
| `PipelineProofs` | `RowsNameTheirDrafts` | `Spec => []DraftMatchesRow` |
| `PipelineProofs` | `DraftsLeaveOnlyByRecycling` | `Spec => DraftsLeaveByRecycling` |
| `RowProofs` | `RowsAreTheObjects` | `Spec => []RowsMatchObject` |
| `RowProofs` | `AcknowledgedStaysWhole` | `Spec => []AckedWhole` |
| `WholeProofs` | `DownloadsAreFaithful` | `RecycleBin \notin BucketNames` implies `Spec => []FaithfulFetch` |
| `WholeProofs` | `ObjectsEndWhole` | `RecycleBin \notin BucketNames` implies `Spec => []QuiescentWhole` |
| `StoreProofs` | `PipelineImplementsStore` | `Spec => ImplementsStore` |
| `ObjectStoreProofs` | `StoreKeepsPromises` | of the abstract store: `Spec => [](AckedIsWhole /\ KeysAreUnique)` |
| `MultipartProofs` | `MultipartTypeCorrect` | `Spec => []TypeOK` |
| `MultipartProofs` | `UploadsStayClosed` | `Spec => []ClosedStaysClosed` |
| `MultipartProofs` | `AcknowledgedPartsAreStored` | `Spec => []AckedPartsAreStored` |
| `MultipartProofs` | `CompletedAsAcknowledged` | `Spec => []AssembledAsAcked` |
| `SessionProofs` | `SessionTypeCorrect` | `Spec => []TypeOK` |
| `SessionProofs` | `ConnectionIsInSync` | `Spec => []InSync` |
| `SessionProofs` | `AnswersAreRight` | `Spec => []RightAnswer` |
| `RequestProofs` | `ListingsHideNothing` | `Spec => []ListingHidesNothing` |
| `RequestProofs` | `ListingsGroupAsS3` | `Spec => []ListingGroupsAsS3` |
| `RequestProofs` | `ListingsCountHonestly` | `Spec => []ListingCountsHonestly` |
| `RequestProofs` | `ChunksAreTheBody` | `Spec => []ChunksReassemble` |
| `RequestProofs` | `FreshSignaturesAreServed` | `Spec => []SignedRequestsAreServed` |

The assumptions are `PipelineAssumption` (`NoClient` is not a client, bodies are
sequences of contents, the bounds are natural numbers), `MultipartAssumption` and
`SessionAssumption` (the same of their constants), `RequestsAssumption` (keys,
prefixes, delimiters and bodies are sequences of bytes, there are finitely many keys
and at most one delimiter, sizes are natural numbers, parameters are pairs of numbers,
headers have sequences of values and a date names an instant: what the types of the
handlers' arguments say), `ListingAssumption` (the escape is none of the wildcards),
and, for `PipelineImplementsStore` only, `RecycleKeyAssumption`: no client names the
object `free-chunks-<account>`.  A client who did could delete or overwrite the object
that holds the free chunks, which the catalog leaves out.

The two theorems of `WholeProofs` have a hypothesis that the others do without:
no client names the bucket `recycling-bin`.  The code does not stop a client from
deleting that bucket, after a count that found it empty, between two statements of
`get_or_create_recycling_object`.  Then the INSERT of the bin's object fails, and
`delete` gives up although the database and the mailbox did what they were asked
to.  With two clients, the bucket open to them, and the body `xx` at two keys, TLC
finds an overwritten object that is left without its first row in six requests
and no failed call.  The run `failures` has that bucket open to clients, and checks
what holds nevertheless.

The argument about the pipeline has seven layers.

1. `TypeInv == TypeOK /\ LockInv /\ PosInv` is inductive by itself
   (`NextTypeInv`, one lemma per group of actions).  Mutual exclusion is what
   lets the locals of a pipeline call be one variable: a step of the handler
   inside changes `frame`, and everybody else's label is outside.  `PosInv` (the
   chunk index is inside the body between the deduplication query and the
   INSERT) makes the current chunk well defined.
2. `DedupSingleDraft` is not inductive: when `upload` inserts a row, the
   state must remember what its query found.  `DedupInv` does: until a draft is
   found, no active row has the hash; with the UID in hand, all of them have that
   UID.  Bucket deletions between the query and the INSERT only remove rows;
   nothing makes a row active but the INSERT itself, which needs the mutex.
   Most actions are *quiet* (`KeepsUpload`, `KeepsRows`, the folder unchanged):
   they are proved so once, and a quiet step keeps the invariants of both this
   layer and the next.  What is left is the chunk loop of `upload`.
3. `DraftMatchesRow` needs the folder's own invariants (`UidInv`: UIDs are
   below UIDNEXT and unique) and `UidInHand`: the UID `create_draft` returned,
   and upload is about to record, names the current chunk's message if it names
   any.  There the subject search matters: its hits contain older messages, and
   the proof shows that the largest hit is the message just appended.
   `DraftsLeaveByRecycling` is an action property: that `delete_draft`, which
   expunges whatever is flagged, spares the new message needs `SlotUidInv` (the
   slot to recycle was assigned before the new draft, which is there and not
   flagged).
4. `RowsMatchObject` and `AckedWhole` are part of one invariant, `RowsInv`.
   Neither is inductive: that a new row belongs to its object needs `Written`
   (in upload's loop, the object in hand has the bytes in hand, and active rows
   for exactly the positions before the current one, unless its bucket went),
   that a new object starts without rows needs fresh ids (`IdInv`) and the
   foreign key (`RefInv`), that a deletion only hurts what `delete` was called
   on needs `DeletingInv` (rows in its loop belong to the victim, and the victim
   is among the doomed), and that recycling never drops an active row needs
   `SlotInv`.  All statements but the INSERTs of an object and of a chunk are shown
   once to only take away (`StatementsShrink`), and taking away is shown to keep
   the invariant (`ShrinkingStep`), so that a step's proof is about its labels.
5. `FaithfulFetch` and `QuiescentWhole` need to know that no answer is stale when
   it is used.  `PoolInv` is about the tables: bucket ids are fresh, objects of the
   bin have no bytes, free rows are theirs, and an index names one row of an
   object.  `RequestInv` is about what a request looked up before the mutex: the
   bucket is not the bin, and the object, if it is still there, has the bytes that
   were found.  `StageInv` is about the locals of the holder: what
   `get_or_create_recycling_object` found is still so at its next statement, the
   rows that `delete` has listed are there unless the victim went with its bucket,
   and (`Fetching`) the bytes of a download are chunks of the looked-up object,
   placed before those still to come, without a gap if the object was acknowledged
   and not doomed.  `FaithfulFetch` is `Fetching` with no row to come.
6. `QuiescentWhole` then follows from `WholeInv`: as long as no call failed, every
   object is whole or is the one being uploaded or deleted.  A step that ends a call
   leaves its object whole or gone.  The proof is that the error branches of the
   code are dead without a failed call, or are taken only when the object went
   with its bucket: the bin can be made when the look-up found none, and no INSERT
   or UPDATE of a chunk row violates the unique index.
7. The refinement needs, besides `RowsInv`, that objects lie in live buckets,
   that recycling objects are empty and have no active rows, and that requests
   name clients' keys (`StoreInv`).  Each statement is mapped to one step of
   `ObjectStore` or to none (`HiddenStatements`, `BeginStatement`,
   `ExtendStatement`, ...); by mutual exclusion the label of the holder alone says
   what the abstract store is at (`HolderActivity`), and a handler that ends
   anywhere else than at its answer is `GiveUp` or a stutter (`EndStep`).

Multipart uploads.  `TypeOK /\ ShapeInv /\ RowInv` is inductive in every
behaviour: a handle is open on a file that exists, ids are handed out in order,
a part row has its upload.  `ClosedStaysClosed` follows from it: the foreign key
refuses the row of an `upload_part` that looked the upload up before it was
closed.  The properties of acknowledged parts are kept under
`Orderly == Disciplined /\ faults = 0`, and there `PartInv` is inductive: an
acknowledged part has the row and the file it was acknowledged with, unless
somebody is sending it again or cleaning the upload up (`StoredInv`);
`upload_part` has written what it is about to record (`Sender`); `complete` holds
the bytes of a prefix of its list, and what it has still to read is readable
(`Reader`); and clients do not overlap on a part (`DisciplineInv`).

The IMAP session.  The invariant has four parts.  `ControlInv`: the two mutexes
and the labels fit together, and the running call is the latest.  `WireInv`: only
the session's connection can be up, and what is in flight on any connection, or
orphaned, belongs to calls made so far.  `DraftsInv`: UIDs are below UIDNEXT, every
message was born with its UID, and (`AnswerInv`) the last answer is right.  `TalkInv`
says what the connection may hold at each label of the running call.  Its core is
`Probing`: an answer to the NOOP of `ensure_session` comes behind everything that
earlier calls left, so that once it is read the connection is empty, or dead
(`Talking`).  That survives the release of the session's mutex between
`ensure_session` and the command because the pipeline's mutex lets no other call in.

What a call may say of the folder is harder, since orphans change it under the
call.  After its APPEND the running `create_draft` has its message there, unflagged,
and every UID above it is in `late` (`Own`): a late APPEND puts its own there, and
no late STORE names the new message, because STOREs name UIDs that were assigned when
their calls were made (`StoreInv`) and hit older messages.  What the search then
finds has the own UID in it and nothing larger but late ones (`Newest`), and the
largest hit, which exists because the hits are bounded (`LargestHit`), is one or the
other.  For `delete_draft` the two facts are `Flagged` and `Gone`: between a STORE
and an EXPUNGE that were both answered nobody takes the flag back, and a UID that is
gone is never assigned again.  Every step, `Late` included, is shown to keep them
(`LateForm`, `LateStep`).

The functions of a request.  That a reply is what the function computes is the
invariant (`IInv`, `Computed`); the rest is about the functions, for every
argument.  Two of them are recursive, LIKE and the concatenation of chunks, and
the library's induction theorems cannot be used (their parameter is an operator).
What stands for induction is `LeastNumber`: a set of natural numbers that has a
member has a least one, because `<` is well-founded on them.  Applied to the places
where two functions differ, or where a function is not what it should be, it gives
that a function with the equation exists (`CHOOSE` returns nothing useful otherwise)
and what its values are.

* *LIKE.*  A pattern that is the prefix followed by `%` reaches, after each byte of
  a prefix without escapes, at least the place that a literal match reaches, and
  exactly that one if no byte is a wildcard either.  So a key with the prefix is
  found, and with a plain prefix nothing else is.  Then the first occurrence of the
  delimiter after the prefix is S3's group, and `..=pos` cuts behind it because it
  is one byte; a group that is wrong for other delimiters is still a prefix of
  the key, so that nothing is hidden by it.
* *Counts.*  `Listings` keeps any `Room(count, q)` of the keys; that this many
  are there, and that keys are missing exactly if the flag says so, is
  arithmetic on cardinalities (`FiniteSetTheorems`).
* *Chunks.*  `CutsInOrder`: chunk n ends where chunk n + 1 begins, the last at the
  end of the body, and every other one is full; it rests on the inequalities of a
  quotient that is rounded up.  Joining them gives, after n chunks, the
  body's first bytes up to that cut.
* *Signatures.*  If no name occurs twice and the parameters are sent as they are
  encoded, the order by name with ties by position and the AWS order by name and value
  are one relation, so the two canonical requests are equal, whatever the sorting
  returns.  That a late request is refused holds without these conditions: if its
  date parses, the skew test is `IsFresh`; if not, what the code signs is not the
  ISO 8601 time, and the signatures differ.

`StoreKeepsPromises` is about `ObjectStore` alone.  Its invariant adds that what is
being deleted is among the doomed; with `PipelineImplementsStore` it says of the
pipeline that a bucket and a key name one object among those that are listed.

## 5. Only model-checked, and not modelled

Only model-checked: `Answered` and `CallsEnd`, because liveness under fairness is
outside what TLAPS proves.  Every other property of a passing run is a theorem of
section 4.

Not modelled: STS (a constant answer), how `parse_authorization` takes a header
apart, XML and error formatting, `head_object`, `head_bucket`, `list_buckets`
(they read and answer), content types and user metadata (carried along unread),
more than one e-mail account (`ensure_email_account` makes one), other programs
that use the mailbox or the database, and the code nothing calls (`get_session`,
`health_check`, `chunk_file`, the streaming hasher).

## 6. Plan

Done: the tables and the folder, the pipeline and its handlers, the abstract
store and the refinement, the IMAP session, multipart uploads, the functions of
a request, and the theorems above, which state every safety property and the
refinement that the runs check.

Possible next steps: the link between `GmailSession` and the provider calls of
`StoragePipeline` as a refinement of its own; the dispatch of `router.rs`; how
`parse_authorization` takes a header apart.
