----------------------------- MODULE ObjectStore -----------------------------
(***************************************************************************)
(* What the storage pipeline and the bucket handlers promise about the     *)
(* objects of a server, without saying how: no tables of hashes, no        *)
(* drafts, no labels of handlers.  StoragePipeline implements it.          *)
(*                                                                         *)
(* An object is visible from the moment its row is inserted, and whole     *)
(* when every position of its data is stored.  At most one object is being *)
(* written or deleted at a time.  Only the former gains positions, from    *)
(* the first to the last; only the latter loses any, unless its whole      *)
(* bucket is dropped.  Either activity may be given up half-way, and       *)
(* nobody tidies up what it leaves.                                        *)
(***************************************************************************)
EXTENDS Integers, Sequences

CONSTANTS
    None            \* no object is being written, or deleted

VARIABLES
    live,           \* ids of the buckets there are
    catalog,        \* the objects a listing shows
    stored,         \* <<id, position>> of the stored parts of their data
    writing,        \* id of the object being written, or None
    deleting,       \* id of the object being deleted, or None
    acked,          \* ids of the objects whose upload was answered 200
    doomed          \* ids of the objects that someone began to delete

objectVars == <<catalog, stored>>
activity == <<writing, deleting>>
vars == <<live, objectVars, activity, acked, doomed>>

Positions(o) == 0 .. Len(o.data) - 1

Has(o, p) == <<o.id, p>> \in stored

Whole(o) == \A p \in Positions(o) : Has(o, p)

Init ==
    /\ live = {}
    /\ catalog = {}
    /\ stored = {}
    /\ writing = None
    /\ deleting = None
    /\ acked = {}
    /\ doomed = {}

CreateBucket(b) ==
    /\ b \notin live
    /\ live' = live \cup {b}
    /\ UNCHANGED <<objectVars, activity, acked, doomed>>

(* A bucket takes its objects along, the one being written too.            *)
DropBucket ==
    /\ \E b \in live :
         /\ live' = live \ {b}
         /\ catalog' = {o \in catalog : o.bucket # b}
    /\ stored' = {s \in stored : \E o \in catalog' : s[1] = o.id}
    /\ UNCHANGED <<activity, acked, doomed>>

(* A new object has an id of its own, a bucket, and the key to itself.     *)
Begin(o) ==
    /\ writing = None /\ deleting = None
    /\ o.bucket \in live
    /\ \A other \in catalog : other.bucket = o.bucket => other.key # o.key
    /\ o.id # None /\ o.id \notin acked
    /\ \A other \in catalog : other.id # o.id
    /\ \A s \in stored : s[1] # o.id
    /\ catalog' = catalog \cup {o}
    /\ writing' = o.id
    /\ UNCHANGED <<live, stored, deleting, acked, doomed>>

Extend ==
    /\ \E o \in catalog : \E p \in Positions(o) :
         /\ o.id = writing
         /\ \A q \in Positions(o) : Has(o, q) <=> q < p
         /\ stored' = stored \cup {<<o.id, p>>}
    /\ UNCHANGED <<live, catalog, activity, acked, doomed>>

(* 200 OK: the object is whole, or its bucket is gone.                     *)
Acknowledge ==
    /\ writing # None
    /\ \A o \in catalog : o.id = writing => Whole(o)
    /\ acked' = acked \cup {writing}
    /\ writing' = None
    /\ UNCHANGED <<live, objectVars, deleting, doomed>>

BeginDelete ==
    /\ writing = None /\ deleting = None
    /\ \E o \in catalog :
         /\ deleting' = o.id
         /\ doomed' = doomed \cup {o.id}
    /\ UNCHANGED <<live, objectVars, writing, acked>>

Shrink ==
    /\ deleting # None
    /\ stored' \subseteq stored
    /\ \A s \in stored \ stored' : s[1] = deleting
    /\ UNCHANGED <<live, catalog, activity, acked, doomed>>

Remove ==
    /\ deleting # None
    /\ catalog' = {o \in catalog : o.id # deleting}
    /\ stored' = {s \in stored : s[1] # deleting}
    /\ deleting' = None
    /\ UNCHANGED <<live, writing, acked, doomed>>

(* An error, a client that went away, a restart.                           *)
GiveUp ==
    /\ writing' = None /\ deleting' = None
    /\ UNCHANGED <<live, objectVars, acked, doomed>>

Next ==
    \/ \E b \in live' : CreateBucket(b)
    \/ DropBucket
    \/ \E o \in catalog' : Begin(o)
    \/ Extend \/ Acknowledge
    \/ BeginDelete \/ Shrink \/ Remove
    \/ GiveUp

Spec == Init /\ [][Next]_vars

-----------------------------------------------------------------------------
(* What a client may rely on.  An acknowledged object that nobody began to *)
(* delete is whole as long as it is in the catalog.                        *)
AckedIsWhole ==
    \A o \in catalog : o.id \in acked \ doomed => Whole(o)

(* A name means one object.                                                *)
KeysAreUnique ==
    \A o, other \in catalog :
        o.bucket = other.bucket /\ o.key = other.key => o = other
=============================================================================
