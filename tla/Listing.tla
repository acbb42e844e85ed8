------------------------------- MODULE Listing -------------------------------
(***************************************************************************)
(* list_objects_v2 (src/src/s3/bucket.rs): what a listing of a bucket      *)
(* contains, as a function of the keys its query finds and of the          *)
(* parameters of the request, and what S3 promises of it.                  *)
(*                                                                         *)
(* A key is the sequence of its bytes, and each character is one byte.  A  *)
(* request is a record: prefix; the delimiter parameter, as a set of at    *)
(* most one sequence; maxKeys.                                             *)
(***************************************************************************)
EXTENDS Integers, FiniteSetsExt, SequencesExt

CONSTANTS
    AnyByte,        \* the byte '_', a wildcard of SQL's LIKE
    AnyBytes,       \* the byte '%', the other one
    Escape          \* the byte '\', which LIKE escapes with by default

ASSUME ListingAssumption == Escape \notin {AnyByte, AnyBytes}

(* The byte at i is escaped: before it is an odd number of escapes.        *)
IsEscaped(pattern, i) ==
    \E n \in 1..(i - 1) :
        /\ n % 2 = 1
        /\ \A j \in (i - n)..(i - 1) : pattern[j] = Escape
        /\ n = i - 1 \/ pattern[i - n - 1] # Escape

(* The byte at i is this one, and has its special meaning.                 *)
ActsAs(pattern, i, byte) == pattern[i] = byte /\ ~IsEscaped(pattern, i)

(* One byte of a LIKE pattern more: ends are the numbers of bytes of the   *)
(* text that the pattern matched before it.                                *)
Advance(pattern, i, text, ends) ==
    IF ActsAs(pattern, i, Escape) THEN ends
    ELSE IF ActsAs(pattern, i, AnyBytes)
    THEN {j \in 0..Len(text) : \E e \in ends : e <= j}
    ELSE {j \in 1..Len(text) :
            /\ j - 1 \in ends
            /\ ActsAs(pattern, i, AnyByte) \/ pattern[i] = text[j]}

Like(pattern, text) ==
    LET matched[i \in 0..Len(pattern)] ==
          IF i = 0 THEN {0} ELSE Advance(pattern, i, text, matched[i - 1])
    IN Len(text) \in matched[Len(pattern)]

(* Column::Key.starts_with(prefix): LIKE prefix%, without an ESCAPE clause *)
(* and with nothing in the prefix escaped.                                 *)
Found(keys, q) ==
    {k \in keys : q.prefix = <<>> \/ Like(Append(q.prefix, AnyBytes), k)}

(* str::find: the offsets at which part occurs; the least one counts.      *)
Occurrences(text, part) ==
    {p \in 0..(Len(text) - Len(part)) :
        SubSeq(text, p + 1, p + Len(part)) = part}

AfterPrefix(k, q) == SubSeq(k, Len(q.prefix) + 1, Len(k))

IsGrouped(k, q) ==
    \E d \in q.delimiter : Occurrences(AfterPrefix(k, q), d) # {}

Offset(k, q) ==
    Min(UNION {Occurrences(AfterPrefix(k, q), d) : d \in q.delimiter})

(* Mutation: after_prefix[..pos], without the delimiter.                   *)
PrefixBefore(k, q) == q.prefix \o SubSeq(AfterPrefix(k, q), 1, Offset(k, q))

(* prefix + after_prefix[..=pos].                                          *)
CommonPrefix(k, q) ==
    q.prefix \o SubSeq(AfterPrefix(k, q), 1, Offset(k, q) + 1)

(* Slicing panics past the end of a key: one that is shorter than the      *)
(* prefix that a wildcard made it match, and one that ends where an empty  *)
(* delimiter is found.                                                     *)
Panics(k, q) ==
    /\ q.delimiter # {}
    /\ \/ Len(k) < Len(q.prefix)
       \/ IsGrouped(k, q) /\ Offset(k, q) >= Len(AfterPrefix(k, q))

(* truncate(max_keys as usize): a negative number becomes a huge one.      *)
Room(count, q) == IF q.maxKeys < 0 THEN count ELSE Min({count, q.maxKeys})

(* Mutation: compared after truncate.                                      *)
TruncatedLate(count, q) == Room(count, q) > q.maxKeys

IsTruncated(count, q) == count > q.maxKeys

(* Mutation: the keys found are counted.                                   *)
CountFound(count, q) == count

KeyCount(count, q) == Min({count, q.maxKeys})

(* The answers the handler can give: the query has no ORDER BY, so which   *)
(* keys survive the truncation is up to the database.                      *)
Listings(keys, q) ==
    LET found    == Found(keys, q)
        contents == {k \in found : ~IsGrouped(k, q)}
        count    == Cardinality(contents)
    IN IF \E k \in found : Panics(k, q) THEN {}
       ELSE {[contents    |-> kept,
              prefixes    |-> {CommonPrefix(k, q) : k \in found \ contents},
              isTruncated |-> IsTruncated(count, q),
              keyCount    |-> KeyCount(count, q)] :
                kept \in kSubset(Room(count, q), contents)}

-----------------------------------------------------------------------------
(* What S3 promises.                                                       *)

HasPrefix(keys, q) == {k \in keys : IsPrefix(q.prefix, k)}

(* The keys that a delimiter rolls up, and into what: up to and including  *)
(* its first occurrence after the prefix.                                  *)
S3Groups(k, q) ==
    {SubSeq(k, 1, n) : n \in {n \in Len(q.prefix)..Len(k) :
        \E d \in q.delimiter :
            /\ n >= Len(q.prefix) + Len(d)
            /\ SubSeq(k, n - Len(d) + 1, n) = d
            /\ \A e \in (Len(q.prefix) + Len(d))..(n - 1) :
                  SubSeq(k, e - Len(d) + 1, e) # d}}

HasNone(prefix, bytes) == \A i \in DOMAIN prefix : prefix[i] \notin bytes

(* Nothing that LIKE treats specially is in the prefix, and a delimiter,   *)
(* if any, is of one byte.                                                 *)
IsPlain(q) ==
    /\ HasNone(q.prefix, {AnyByte, AnyBytes, Escape})
    /\ \A d \in q.delimiter : Len(d) = 1

(* Nothing is hidden: unless the answer says that it is truncated, each    *)
(* key with the prefix is listed or lies under a common prefix that is,    *)
(* whatever the delimiter is made of, and whatever the prefix is made of   *)
(* but LIKE's escape: with the prefix a\ the query asks for a\%, which is  *)
(* the one key a%, and misses each key that starts with a\.               *)
NothingHidden(keys, q, r) ==
    HasNone(q.prefix, {Escape}) /\ ~r.isTruncated =>
        \A k \in HasPrefix(keys, q) :
            k \in r.contents \/ \E p \in r.prefixes : IsPrefix(p, k)

(* The answer to a plain request is S3's: the common prefixes, and the     *)
(* keys that none of them stands for, all of these unless truncated.       *)
GroupsAsS3(keys, q, r) ==
    LET plain == {k \in HasPrefix(keys, q) : S3Groups(k, q) = {}}
    IN IsPlain(q) =>
        /\ r.prefixes = UNION {S3Groups(k, q) : k \in HasPrefix(keys, q)}
        /\ r.contents \subseteq plain
        /\ r.contents = plain \/ r.isTruncated

(* The counts are honest for a maximum that is one: as many keys as it     *)
(* says, no more than were asked for, and truncated when some are missing. *)
HonestCounts(keys, q, r) ==
    q.maxKeys >= 0 =>
        /\ r.keyCount = Cardinality(r.contents)
        /\ r.keyCount <= q.maxKeys
        /\ r.isTruncated <=>
             \E k \in Found(keys, q) : ~IsGrouped(k, q) /\ k \notin r.contents
=============================================================================
