-------------------------------- MODULE SigV4 --------------------------------
(***************************************************************************)
(* auth_middleware (src/src/s3/auth.rs): which requests it lets through to *)
(* their handler, and the canonical form it computes the signature of.     *)
(*                                                                         *)
(* HMAC and SHA-256 are injective: a signature is the tuple of what it was *)
(* computed from.  A path, the names and values of a query as they stand   *)
(* in the URI, and the values of a header are texts: numbers, ordered as   *)
(* their bytes are, of which 0 is the empty one.  A query is the sequence  *)
(* of its <<name, value>> pairs; headers maps a name to the sequence of    *)
(* its values.  time is the date header: the instant it names, and whether *)
(* it does so in the one format that the code parses, or in another, or is *)
(* missing.                                                                *)
(***************************************************************************)
EXTENDS Integers, Sequences, FiniteSets

CONSTANTS
    Skew,           \* 900 seconds
    OurKey,         \* S3Config::access_key_id
    OurSecret,      \* S3Config::secret_access_key
    Slash,          \* the path "/"
    Trim(_),        \* a text without the blanks around it
    Collapse(_),    \* AWS: a text with one blank for several
    UriEncoded(_),  \* AWS: a name or value, decoded and encoded again
    PathEncoded(_)  \* AWS: a path, likewise, but for its slashes

(* A query in the order in which before, a total order of its positions,   *)
(* puts them: the n-th of them is the one with n - 1 others before it.     *)
Arranged(query, before) ==
    [n \in DOMAIN query |->
        query[CHOOSE i \in DOMAIN query :
            Cardinality({j \in DOMAIN query : <<j, i>> \in before}) = n - 1]]

(* params.sort_by_key(name): stable, so equal names keep their order.      *)
SortedByName(query) ==
    Arranged(query, {p \in (DOMAIN query) \X (DOMAIN query) :
        \/ query[p[1]][1] < query[p[2]][1]
        \/ query[p[1]][1] = query[p[2]][1] /\ p[1] < p[2]})

(* Mutation: the query is taken as it stands in the URI.                   *)
Unsorted(query) == query

CanonicalQuery(query) == SortedByName(query)

(* HeaderMap::get: the first value of a name, or none, which counts as "". *)
HeaderValue(headers, name) ==
    IF name \in DOMAIN headers THEN Trim(headers[name][1]) ELSE 0

(* What the code signs of a request: its texts as they came.               *)
CanonicalRequest(r) ==
    <<r.method, IF r.path = 0 THEN Slash ELSE r.path, CanonicalQuery(r.query),
      [n \in DOMAIN r.signed |->
          <<r.signed[n], <<HeaderValue(r.headers, r.signed[n])>>>>],
      r.signed, r.payload>>

(* amz_date: the text of the date header; "" if there is none.             *)
AmzDate(time) ==
    IF time.format = "none" THEN <<"none", 0>> ELSE <<time.format, time.at>>

Signature(secret, scope, date, canonical) ==
    <<secret, scope, date, canonical>>

(* Mutation: whatever its format, a date is as good as none.               *)
NeverSkewed(time, now) == FALSE

(* A date that does not parse, like none, is not checked.                  *)
IsSkewed(time, now) ==
    /\ time.format = "iso"
    /\ now - time.at > Skew \/ time.at - now > Skew

(* What becomes of a request: its handler runs, or it is answered 403.     *)
(* auth is how parse_authorization reads the Authorization header.         *)
Verdict(r, now) ==
    CASE r.auth = "absent"    -> "served"
      [] r.auth = "malformed" -> "AccessDenied"
      [] r.auth = "parsed" /\ r.keyId # OurKey -> "AccessDenied"
      [] r.auth = "parsed" /\ r.keyId = OurKey /\ IsSkewed(r.time, now) ->
            "AccessDenied"
      [] OTHER ->
            IF r.signature = Signature(OurSecret, r.scope, AmzDate(r.time),
                                       CanonicalRequest(r))
            THEN "served" ELSE "SignatureDoesNotMatch"

-----------------------------------------------------------------------------
(* A client that follows the AWS specification: the time in ISO 8601, in   *)
(* whatever format the date header has it; the path and the parameters     *)
(* encoded, these sorted by name, then by value; all values of a header,   *)
(* trimmed and collapsed.                                                  *)

AwsQuery(query) ==
    LET encoded == [i \in DOMAIN query |->
            <<UriEncoded(query[i][1]), UriEncoded(query[i][2])>>]
    IN Arranged(encoded, {p \in (DOMAIN encoded) \X (DOMAIN encoded) :
        \/ encoded[p[1]][1] < encoded[p[2]][1]
        \/ /\ encoded[p[1]][1] = encoded[p[2]][1]
           /\ encoded[p[1]][2] < encoded[p[2]][2]
        \/ encoded[p[1]] = encoded[p[2]] /\ p[1] < p[2]})

AwsHeader(values) == [i \in DOMAIN values |-> Collapse(Trim(values[i]))]

AwsCanonical(r) ==
    <<r.method, IF r.path = 0 THEN Slash ELSE PathEncoded(r.path),
      AwsQuery(r.query),
      [n \in DOMAIN r.signed |-> <<r.signed[n], AwsHeader(r.headers[r.signed[n]])>>],
      r.signed, r.payload>>

AwsSignature(r) ==
    Signature(OurSecret, r.scope, <<"iso", r.time.at>>, AwsCanonical(r))

(* Within a quarter of an hour by the server's clock, either way.          *)
IsFresh(time, now) == now - time.at <= Skew /\ time.at - now <= Skew

(* No name, of a parameter or of a signed header, occurs twice.            *)
UsesNamesOnce(r) ==
    /\ \A i, j \in DOMAIN r.query : r.query[i][1] = r.query[j][1] => i = j
    /\ \A n \in DOMAIN r.signed :
          r.signed[n] \in DOMAIN r.headers /\ Len(r.headers[r.signed[n]]) = 1

(* What is sent is what is signed: dated in ISO 8601, encoded as AWS does, *)
(* with no blanks to collapse.                                             *)
SendsWhatItSigns(r) ==
    /\ r.time.format = "iso"
    /\ PathEncoded(r.path) = r.path
    /\ \A i \in DOMAIN r.query :
          <<UriEncoded(r.query[i][1]), UriEncoded(r.query[i][2])>> = r.query[i]
    /\ \A n \in DOMAIN r.signed :
          LET values == r.headers[r.signed[n]]
          IN \A i \in DOMAIN values : Collapse(Trim(values[i])) = Trim(values[i])

(* A request that is signed as AWS specifies is served only when it        *)
(* arrives, or is sent again, within a quarter of an hour of its date; and *)
(* then it is, in whatever order its parameters arrive, if it uses no name *)
(* twice and sends what it signs.                                          *)
SignedIsServed(r, now, verdict) ==
    /\ r.auth = "parsed" /\ r.keyId = OurKey
    /\ r.signature = AwsSignature(r)
    =>  /\ verdict = "served" => IsFresh(r.time, now)
        /\ UsesNamesOnce(r) /\ SendsWhatItSigns(r) /\ IsFresh(r.time, now)
            => verdict = "served"
=============================================================================
