---------------------------- MODULE RequestProofs ----------------------------
(***************************************************************************)
(* What the functions of a request promise, for every input.               *)
(***************************************************************************)
EXTENDS Requests, FiniteSetTheorems, TLAPS

-----------------------------------------------------------------------------
(* Numbers and sequences.                                                  *)

(* A set of natural numbers has a least one, which stands for induction.   *)
LEMMA LeastNumber ==
    ASSUME NEW T \in SUBSET Nat, T # {}
    PROVE  \E n \in T : \A m \in T : n <= m
<1> DEFINE less == {p \in Nat \X Nat : p[1] < p[2]}
<1>1. IsWellFoundedOn(less, Nat)
    BY NatLessThanWellFounded, Zenon DEF OpToRel
<1>2. \A m, n \in Nat : m < n => <<m, n>> \in less
    OBVIOUS
<1> HIDE DEF less
<1>3. PICK n \in T : \A m \in T : <<m, n>> \notin less
    BY <1>1, WFMin, Zenon
<1>4. \A m \in T : ~(m < n)
    BY <1>2, <1>3, Zenon
<1> QED
    BY <1>4

LEMMA MinOfNumbers ==
    ASSUME NEW T \in SUBSET Nat, T # {}
    PROVE  Min(T) \in T /\ \A m \in T : Min(T) <= m
    BY LeastNumber DEF Min

LEMMA MinOfTwo ==
    ASSUME NEW m \in Int, NEW n \in Int
    PROVE  Min({m, n}) = IF m <= n THEN m ELSE n
    BY DEF Min

LEMMA SameBytes ==
    ASSUME NEW S, NEW s \in Seq(S), NEW t \in Seq(S), Len(s) = Len(t),
           \A i \in 1..Len(s) : s[i] = t[i]
    PROVE  s = t
    OBVIOUS

LEMMA PartBytes ==
    ASSUME NEW S, NEW s \in Seq(S), NEW m \in 1..(Len(s) + 1), NEW n \in 0..Len(s),
           m <= n + 1
    PROVE  /\ SubSeq(s, m, n) \in Seq(S)
           /\ Len(SubSeq(s, m, n)) = n - m + 1
           /\ \A i \in 1..(n - m + 1) : SubSeq(s, m, n)[i] = s[m + i - 1]
    OBVIOUS

LEMMA JoinBytes ==
    ASSUME NEW S, NEW s \in Seq(S), NEW t \in Seq(S)
    PROVE  /\ s \o t \in Seq(S)
           /\ Len(s \o t) = Len(s) + Len(t)
           /\ \A i \in 1..Len(s) : (s \o t)[i] = s[i]
           /\ \A i \in 1..Len(t) : (s \o t)[Len(s) + i] = t[i]
    OBVIOUS

LEMMA SingleByte ==
    ASSUME NEW S, NEW s \in Seq(S), Len(s) = 1
    PROVE  s[1] \in S /\ s = <<s[1]>>
<1>1. /\ s[1] \in S /\ <<s[1]>> \in Seq(S) /\ Len(<<s[1]>>) = 1
      /\ \A i \in 1..1 : s[i] = <<s[1]>>[i]
    OBVIOUS
<1> QED
    BY <1>1, SameBytes

LEMMA OneByte ==
    ASSUME NEW S, NEW s \in Seq(S), NEW n \in 1..Len(s)
    PROVE  SubSeq(s, n, n) = <<s[n]>>
<1>1. PICK t : t = SubSeq(s, n, n)
    OBVIOUS
<1>2. t \in Seq(S) /\ Len(t) = 1 /\ t[1] = s[n]
  <2>1. /\ n \in Nat /\ n \in 1..(Len(s) + 1) /\ n \in 0..Len(s) /\ n <= n + 1
        /\ n - n + 1 = 1 /\ n + 1 - 1 = n /\ 1 \in 1..1
      OBVIOUS
  <2>2. /\ t \in Seq(S) /\ Len(t) = n - n + 1
        /\ \A i \in 1..(n - n + 1) : t[i] = s[n + i - 1]
      BY <1>1, <2>1, PartBytes, Zenon
  <2> QED
      BY <2>1, <2>2
<1> QED
    BY <1>1, <1>2, SingleByte

(* A prefix and what follows it in a key make a longer prefix of the key.  *)
LEMMA PrefixAndPart ==
    ASSUME NEW S, NEW s \in Seq(S), NEW part \in Seq(S), NEW k \in Seq(S),
           Len(s) + Len(part) <= Len(k),
           \A i \in 1..Len(s) : s[i] = k[i],
           \A i \in 1..Len(part) : part[i] = k[Len(s) + i]
    PROVE  s \o part = SubSeq(k, 1, Len(s) + Len(part))
<1>1. PICK joined, whole : joined = s \o part
                        /\ whole = SubSeq(k, 1, Len(s) + Len(part))
    OBVIOUS
<1>2. /\ joined \in Seq(S) /\ Len(joined) = Len(s) + Len(part)
      /\ \A i \in 1..Len(s) : joined[i] = s[i]
      /\ \A i \in 1..Len(part) : joined[Len(s) + i] = part[i]
    BY <1>1, JoinBytes
<1>3. /\ whole \in Seq(S) /\ Len(whole) = Len(s) + Len(part)
      /\ \A i \in 1..(Len(s) + Len(part)) : whole[i] = k[i]
  <2>1. PICK n : n = Len(s) + Len(part)
      OBVIOUS
  <2>2. whole = SubSeq(k, 1, n)
      BY <1>1, <2>1
  <2>3. 1 \in 1..(Len(k) + 1) /\ n \in 0..Len(k) /\ 1 <= n + 1
      BY <2>1
  <2>4. /\ whole \in Seq(S) /\ Len(whole) = n - 1 + 1
        /\ \A i \in 1..(n - 1 + 1) : whole[i] = k[1 + i - 1]
    <3>1. /\ SubSeq(k, 1, n) \in Seq(S) /\ Len(SubSeq(k, 1, n)) = n - 1 + 1
          /\ \A i \in 1..(n - 1 + 1) : SubSeq(k, 1, n)[i] = k[1 + i - 1]
        BY <2>3, PartBytes
    <3> QED
        BY <2>2, <3>1, Zenon
  <2>5. n - 1 + 1 = n /\ \A i \in 1..n : 1 + i - 1 = i
      BY <2>3
  <2> QED
      BY <2>1, <2>4, <2>5
<1>4. ASSUME NEW i \in 1..Len(joined)
      PROVE  joined[i] = whole[i]
  <2>1. CASE i <= Len(s)
      BY <1>2, <1>3, <2>1
  <2>2. CASE i > Len(s)
    <3>1. PICK n : n = i - Len(s)
        OBVIOUS
    <3>2. /\ n \in 1..Len(part) /\ Len(s) + n = i
          /\ i \in 1..(Len(s) + Len(part))
        BY <1>2, <2>2, <3>1
    <3>3. joined[i] = part[n] /\ part[n] = k[i] /\ whole[i] = k[i]
        BY <1>2, <1>3, <3>2, Zenon
    <3> QED
        BY <3>3
  <2> QED
      BY <1>2, <2>1, <2>2
<1> QED
    BY <1>1, <1>2, <1>3, <1>4, SameBytes

LEMMA PrefixBytes ==
    ASSUME NEW S, NEW s \in Seq(S), NEW t \in Seq(S)
    PROVE  IsPrefix(s, t) <=> Len(s) <= Len(t) /\ \A i \in 1..Len(s) : s[i] = t[i]
    BY DEF IsPrefix

-----------------------------------------------------------------------------
(* LIKE: the function it is computed by exists, and what it is.            *)

Steps(pattern, text, n, f) ==
    f = [i \in 0..n |->
            IF i = 0 THEN {0} ELSE Advance(pattern, i, text, f[i - 1])]

LEMMA LikeBySteps ==
    ASSUME NEW pattern, NEW text
    PROVE  Like(pattern, text) <=>
             Len(text) \in (CHOOSE f : Steps(pattern, text, Len(pattern), f))
                              [Len(pattern)]
    BY DEF Like, Steps

LEMMA StepsExist ==
    ASSUME NEW pattern, NEW text, NEW n \in Nat
    PROVE  \E f : Steps(pattern, text, n, f)
<1> DEFINE bad == {m \in Nat : ~ \E f : Steps(pattern, text, m, f)}
<1>1. ASSUME bad # {} PROVE FALSE
  <2>1. PICK m \in bad : \A k \in bad : m <= k
      BY <1>1, LeastNumber
  <2>2. m \in Nat /\ ~ \E f : Steps(pattern, text, m, f)
      OBVIOUS
  <2>3. CASE m = 0
    <3> DEFINE f == [i \in 0..m |-> {0}]
    <3>1. f = [i \in 0..m |->
                IF i = 0 THEN {0} ELSE Advance(pattern, i, text, f[i - 1])]
        BY <2>3
    <3> QED
        BY <2>2, <3>1 DEF Steps
  <2>4. CASE m # 0
    <3>1. m \in Nat \ {0} /\ m - 1 \in Nat /\ m - 1 \notin bad
        BY <2>1, <2>2, <2>4
    <3>2. PICK g : Steps(pattern, text, m - 1, g)
        BY <3>1
    <3>3. g = [i \in 0..(m - 1) |->
                IF i = 0 THEN {0} ELSE Advance(pattern, i, text, g[i - 1])]
        BY <3>2 DEF Steps
    <3> DEFINE f == [i \in 0..m |-> IF i = m
                        THEN Advance(pattern, i, text, g[i - 1]) ELSE g[i]]
    <3>4. ASSUME NEW i \in 0..m
          PROVE  f[i] = IF i = 0 THEN {0}
                        ELSE Advance(pattern, i, text, f[i - 1])
      <4>1. CASE i = m
        <5>1. f[i - 1] = g[i - 1] /\ f[i] = Advance(pattern, i, text, g[i - 1])
            BY <3>1, <4>1
        <5> QED
            BY <3>1, <4>1, <5>1
      <4>2. CASE i # m
        <5>1. i \in 0..(m - 1) /\ f[i] = g[i]
            BY <3>1, <4>2
        <5>2. g[i] = IF i = 0 THEN {0} ELSE Advance(pattern, i, text, g[i - 1])
            BY <3>3, <5>1, Zenon
        <5>3. i # 0 => f[i - 1] = g[i - 1]
            BY <3>1, <5>1
        <5> QED
            BY <5>1, <5>2, <5>3
      <4> QED
          BY <4>1, <4>2
    <3>5. f = [i \in 0..m |->
                IF i = 0 THEN {0} ELSE Advance(pattern, i, text, f[i - 1])]
        BY <3>4
    <3> QED
        BY <2>2, <3>5 DEF Steps
  <2> QED
      BY <2>3, <2>4
<1> QED
    BY <1>1

(* What LIKE computes, one byte of the pattern after the other.            *)
LEMMA LikeSteps ==
    ASSUME NEW S, NEW pattern \in Seq(S), NEW text
    PROVE  \E f : /\ f[0] = {0}
                  /\ \A i \in 1..Len(pattern) :
                        f[i] = Advance(pattern, i, text, f[i - 1])
                  /\ Like(pattern, text) <=> Len(text) \in f[Len(pattern)]
<1>1. PICK f : f = CHOOSE g : Steps(pattern, text, Len(pattern), g)
    OBVIOUS
<1>2. Len(pattern) \in Nat
    OBVIOUS
<1>3. Steps(pattern, text, Len(pattern), f)
    BY <1>1, <1>2, StepsExist
<1>4. ASSUME NEW i \in 0..Len(pattern)
      PROVE  f[i] = IF i = 0 THEN {0} ELSE Advance(pattern, i, text, f[i - 1])
  <2>1. f = [j \in 0..Len(pattern) |->
                IF j = 0 THEN {0} ELSE Advance(pattern, j, text, f[j - 1])]
      BY <1>3 DEF Steps
  <2> QED
      BY <2>1, Zenon
<1>6. f[0] = {0} /\ \A i \in 1..Len(pattern) :
                        f[i] = Advance(pattern, i, text, f[i - 1])
    BY <1>2, <1>4
<1>5. Like(pattern, text) <=> Len(text) \in f[Len(pattern)]
    BY <1>1, LikeBySteps
<1> QED
    BY <1>5, <1>6, Zenon

(* A step of LIKE with a byte that nothing escapes and that is no escape.  *)
Step(byte, text, ends) ==
    IF byte = AnyBytes
    THEN {j \in 0..Len(text) : \E e \in ends : e <= j}
    ELSE {j \in 1..Len(text) : j - 1 \in ends /\ byte \in {AnyByte, text[j]}}

(* Without an escape nothing is escaped: a byte acts as what it is.        *)
LEMMA NothingEscaped ==
    ASSUME NEW S, NEW prefix \in Seq(S), HasNone(prefix, {Escape}),
           NEW pattern, pattern = Append(prefix, AnyBytes), NEW text,
           NEW i \in 1..Len(pattern), NEW ends
    PROVE  Advance(pattern, i, text, ends) = Step(pattern[i], text, ends)
<1>1. /\ Len(prefix) \in Nat /\ Len(pattern) = Len(prefix) + 1
      /\ \A j \in 1..Len(prefix) : pattern[j] = prefix[j] /\ prefix[j] # Escape
      /\ pattern[Len(prefix) + 1] = AnyBytes
    BY DEF HasNone
<1>2. \A j \in 1..Len(pattern) : pattern[j] # Escape
    BY <1>1, ListingAssumption
<1>3. ~IsEscaped(pattern, i)
  <2>1. ASSUME NEW n \in 1..(i - 1), \A j \in (i - n)..(i - 1) : pattern[j] = Escape
        PROVE  FALSE
    <3>1. i - 1 \in (i - n)..(i - 1) /\ i - 1 \in 1..Len(pattern)
        BY <1>1
    <3> QED
        BY <1>2, <2>1, <3>1
  <2> QED
      BY <2>1 DEF IsEscaped
<1>4. \A byte : ActsAs(pattern, i, byte) <=> pattern[i] = byte
    BY <1>3 DEF ActsAs
<1> HIDE DEF ActsAs
<1> QED
    BY <1>2, <1>4 DEF Advance, Step

(* A text that starts with the bytes of prefix is LIKE prefix%, whatever   *)
(* wildcards prefix has, if it has no escape.                              *)
LEMMA LikeOwnPrefix ==
    ASSUME NEW S, NEW prefix \in Seq(S), NEW text \in Seq(S),
           IsPrefix(prefix, text), HasNone(prefix, {Escape})
    PROVE  Like(Append(prefix, AnyBytes), text)
<1> DEFINE n == Len(prefix)
           pattern == Append(prefix, AnyBytes)
<1>1. /\ pattern \in Seq(S \cup {AnyBytes}) /\ Len(pattern) = n + 1
      /\ \A i \in 1..n : pattern[i] = prefix[i]
      /\ pattern[n + 1] = AnyBytes
    OBVIOUS
<1>2. n \in Nat /\ Len(text) \in Nat /\ n <= Len(text)
      /\ \A i \in 1..n : prefix[i] = text[i]
    BY PrefixBytes
<1> HIDE DEF pattern
<1>p. PICK f : /\ f[0] = {0}
               /\ \A i \in 1..Len(pattern) :
                     f[i] = Advance(pattern, i, text, f[i - 1])
               /\ Like(pattern, text) <=> Len(text) \in f[Len(pattern)]
    BY <1>1, LikeSteps, Zenon
<1>s. ASSUME NEW i \in 1..(n + 1)
      PROVE  f[i] = Step(pattern[i], text, f[i - 1])
  <2>0. pattern = Append(prefix, AnyBytes)
      BY DEF pattern
  <2>1. HasNone(prefix, {Escape})
      BY <1>2
  <2>2. i \in 1..Len(pattern)
      BY <1>1
  <2>3. Advance(pattern, i, text, f[i - 1]) = Step(pattern[i], text, f[i - 1])
      BY <2>0, <2>1, <2>2, NothingEscaped, Zenon
  <2> QED
      BY <1>p, <2>2, <2>3
<1>3. /\ f[0] = {0}
      /\ \A i \in 1..(n + 1) : f[i] = Step(pattern[i], text, f[i - 1])
      /\ Like(pattern, text) <=> Len(text) \in f[n + 1]
    BY <1>1, <1>p, <1>s
<1> DEFINE bad == {i \in 0..n : i \notin f[i]}
<1>4. ASSUME bad # {} PROVE FALSE
  <2>0. bad \in SUBSET Nat
      BY <1>2
  <2>1. PICK i \in bad : \A k \in bad : i <= k
      BY <1>4, <2>0, LeastNumber, Zenon
  <2>2. i \in 1..n
      BY <1>2, <1>3
  <2>3. i - 1 \in f[i - 1]
      BY <1>2, <2>1, <2>2
  <2>4. f[i] = Step(text[i], text, f[i - 1])
      BY <1>1, <1>2, <1>3, <2>2
  <2>5. i \in f[i]
      BY <1>2, <2>2, <2>3, <2>4 DEF Step
  <2> QED
      BY <2>5
<1>5. n \in f[n]
    BY <1>2, <1>4
<1>6. f[n + 1] = Step(AnyBytes, text, f[n])
    BY <1>1, <1>2, <1>3
<1>7. Len(text) \in f[n + 1]
    BY <1>2, <1>5, <1>6 DEF Step
<1> QED
    BY <1>3, <1>7 DEF pattern

(* Without a wildcard or an escape in prefix, no other text is.            *)
LEMMA LikePlainPrefix ==
    ASSUME NEW S, NEW prefix \in Seq(S), NEW text \in Seq(S),
           HasNone(prefix, {AnyByte, AnyBytes, Escape}),
           Like(Append(prefix, AnyBytes), text)
    PROVE  IsPrefix(prefix, text)
<1> DEFINE n == Len(prefix)
           pattern == Append(prefix, AnyBytes)
           Same(i) == i <= Len(text) /\ \A k \in 1..i : prefix[k] = text[k]
<1>1. /\ pattern \in Seq(S \cup {AnyBytes}) /\ Len(pattern) = n + 1
      /\ \A i \in 1..n : pattern[i] = prefix[i]
      /\ pattern[n + 1] = AnyBytes
    OBVIOUS
<1>2. n \in Nat /\ Len(text) \in Nat
      /\ \A i \in 1..n : prefix[i] \notin {AnyByte, AnyBytes}
    BY DEF HasNone
<1>h. HasNone(prefix, {Escape})
    BY DEF HasNone
<1> HIDE DEF pattern
<1>p. PICK f : /\ f[0] = {0}
               /\ \A i \in 1..Len(pattern) :
                     f[i] = Advance(pattern, i, text, f[i - 1])
               /\ Like(pattern, text) <=> Len(text) \in f[Len(pattern)]
    BY <1>1, LikeSteps, Zenon
<1>s. ASSUME NEW i \in 1..(n + 1)
      PROVE  f[i] = Step(pattern[i], text, f[i - 1])
  <2>0. pattern = Append(prefix, AnyBytes)
      BY DEF pattern
  <2>1. HasNone(prefix, {Escape})
      BY <1>h
  <2>2. i \in 1..Len(pattern)
      BY <1>1
  <2>3. Advance(pattern, i, text, f[i - 1]) = Step(pattern[i], text, f[i - 1])
      BY <2>0, <2>1, <2>2, NothingEscaped, Zenon
  <2> QED
      BY <1>p, <2>2, <2>3
<1>3. /\ f[0] = {0}
      /\ \A i \in 1..(n + 1) : f[i] = Step(pattern[i], text, f[i - 1])
      /\ Like(pattern, text) <=> Len(text) \in f[n + 1]
    BY <1>1, <1>p, <1>s
<1> DEFINE bad == {i \in 0..n : ~ \A j \in f[i] : j = i /\ Same(i)}
<1>4. ASSUME bad # {} PROVE FALSE
  <2>0. bad \in SUBSET Nat
      BY <1>2
  <2>1. PICK i \in bad : \A k \in bad : i <= k
      BY <1>4, <2>0, LeastNumber, Zenon
  <2>2. i \in 1..n
      BY <1>2, <1>3
  <2>3. \A j \in f[i - 1] : j = i - 1 /\ Same(i - 1)
      BY <1>2, <2>1, <2>2
  <2>4. f[i] = Step(prefix[i], text, f[i - 1])
      BY <1>1, <1>2, <1>3, <2>2
  <2>5. ASSUME NEW j \in f[i]
        PROVE  j = i /\ Same(i)
    <3>1. j \in 1..Len(text) /\ j - 1 \in f[i - 1] /\ prefix[i] = text[j]
        BY <1>2, <2>2, <2>4 DEF Step
    <3> QED
        BY <1>2, <2>2, <2>3, <3>1
  <2> QED
      BY <2>5
<1>5. f[n + 1] = Step(AnyBytes, text, f[n])
    BY <1>1, <1>2, <1>3
<1>6. PICK e \in f[n] : TRUE
    BY <1>3, <1>5 DEF pattern, Step
<1>7. Same(n)
    BY <1>2, <1>4, <1>6
<1> QED
    BY <1>2, <1>7, PrefixBytes

-----------------------------------------------------------------------------
(* list_objects_v2: the delimiter.                                         *)

LEMMA AfterBytes ==
    ASSUME NEW S, NEW k \in Seq(S), NEW q, q.prefix \in Seq(S),
           Len(q.prefix) <= Len(k)
    PROVE  /\ AfterPrefix(k, q) \in Seq(S)
           /\ Len(AfterPrefix(k, q)) = Len(k) - Len(q.prefix)
           /\ \A i \in 1..(Len(k) - Len(q.prefix)) :
                 AfterPrefix(k, q)[i] = k[Len(q.prefix) + i]
<1>1. /\ Len(q.prefix) \in Nat /\ Len(k) \in Nat
      /\ Len(q.prefix) + 1 \in 1..(Len(k) + 1) /\ Len(k) \in 0..Len(k)
    OBVIOUS
<1> DEFINE m == Len(q.prefix) + 1
<1>2. /\ SubSeq(k, m, Len(k)) \in Seq(S)
      /\ Len(SubSeq(k, m, Len(k))) = Len(k) - m + 1
      /\ \A i \in 1..(Len(k) - m + 1) : SubSeq(k, m, Len(k))[i] = k[m + i - 1]
  <2> HIDE DEF m
  <2>1. m \in 1..(Len(k) + 1) /\ m <= Len(k) + 1
      BY <1>1 DEF m
  <2> QED
      BY <1>1, <2>1, PartBytes
<1>3. AfterPrefix(k, q) = SubSeq(k, m, Len(k))
    BY DEF AfterPrefix
<1>4. \A i \in 1..(Len(k) - Len(q.prefix)) : m + i - 1 = Len(q.prefix) + i
    BY <1>1
<1>5. Len(k) - m + 1 = Len(k) - Len(q.prefix)
    BY <1>1
<1> HIDE DEF m
<1> QED
    BY <1>2, <1>3, <1>4, <1>5

(* The first occurrence of the delimiter.                                  *)
LEMMA OffsetIsFirst ==
    ASSUME NEW S, NEW k \in Seq(S), NEW q, q.prefix \in Seq(S),
           Len(q.prefix) <= Len(k), NEW d, q.delimiter = {d}, IsGrouped(k, q)
    PROVE  /\ Offset(k, q) \in Occurrences(AfterPrefix(k, q), d)
           /\ \A p \in Occurrences(AfterPrefix(k, q), d) : Offset(k, q) <= p
<1>1. Occurrences(AfterPrefix(k, q), d) \in SUBSET Nat
    BY DEF Occurrences
<1>2. Occurrences(AfterPrefix(k, q), d) # {}
    BY DEF IsGrouped
<1>3. Offset(k, q) = Min(Occurrences(AfterPrefix(k, q), d))
  <2>1. UNION {Occurrences(AfterPrefix(k, q), e) : e \in q.delimiter}
            = Occurrences(AfterPrefix(k, q), d)
      OBVIOUS
  <2> QED
      BY <2>1 DEF Offset
<1> QED
    BY <1>1, <1>2, <1>3, MinOfNumbers

(* A common prefix is the key up to the byte at which its delimiter starts.*)
LEMMA CommonPrefixBytes ==
    ASSUME NEW S, NEW k \in Seq(S), NEW q, q.prefix \in Seq(S),
           IsPrefix(q.prefix, k), Offset(k, q) \in Nat,
           Offset(k, q) < Len(AfterPrefix(k, q))
    PROVE  CommonPrefix(k, q) = SubSeq(k, 1, Len(q.prefix) + Offset(k, q) + 1)
<1> DEFINE n == Len(q.prefix)
           m == Offset(k, q) + 1
<1>1. /\ n \in Nat /\ Len(k) \in Nat /\ n <= Len(k)
      /\ \A i \in 1..n : q.prefix[i] = k[i]
    BY PrefixBytes
<1>2. /\ AfterPrefix(k, q) \in Seq(S)
      /\ Len(AfterPrefix(k, q)) = Len(k) - n
      /\ \A i \in 1..(Len(k) - n) : AfterPrefix(k, q)[i] = k[n + i]
    BY <1>1, AfterBytes
<1>3. m \in 1..(Len(k) - n)
    BY <1>1, <1>2
<1> HIDE DEF m
<1>4. PICK part : part = SubSeq(AfterPrefix(k, q), 1, m)
    OBVIOUS
<1>5. /\ part \in Seq(S) /\ Len(part) = m
      /\ \A i \in 1..m : part[i] = k[n + i]
    BY <1>1, <1>2, <1>3, <1>4, PartBytes
<1>6. q.prefix \o part = SubSeq(k, 1, n + m)
  <2>1. /\ Len(q.prefix) + Len(part) <= Len(k) /\ n + m = Len(q.prefix) + Len(part)
        /\ \A i \in 1..Len(q.prefix) : q.prefix[i] = k[i]
        /\ \A i \in 1..Len(part) : part[i] = k[Len(q.prefix) + i]
      BY <1>1, <1>3, <1>5
  <2>2. q.prefix \o part = SubSeq(k, 1, Len(q.prefix) + Len(part))
      BY <1>5, <2>1, PrefixAndPart, Zenon
  <2> QED
      BY <2>1, <2>2
<1>7. CommonPrefix(k, q) = q.prefix \o part
    BY <1>4 DEF CommonPrefix, m
<1> QED
    BY <1>1, <1>6, <1>7 DEF m

(* A delimiter of one byte: where it stands.                               *)
LEMMA ByteOccurrences ==
    ASSUME NEW S, NEW s \in Seq(S), NEW x \in S
    PROVE  Occurrences(s, <<x>>) = {p \in 0..(Len(s) - 1) : s[p + 1] = x}
<1>1. Len(<<x>>) = 1 /\ Len(s) \in Nat
    OBVIOUS
<1>2. ASSUME NEW p \in 0..(Len(s) - 1)
      PROVE  SubSeq(s, p + 1, p + 1) = <<x>> <=> s[p + 1] = x
  <2>1. SubSeq(s, p + 1, p + 1) = <<s[p + 1]>>
      BY <1>1, OneByte
  <2> QED
      BY <2>1
<1> QED
    BY <1>1, <1>2 DEF Occurrences

(* Without a delimiter there are no groups.                                *)
LEMMA NoGroups ==
    ASSUME NEW k, NEW q, q.delimiter = {}
    PROVE  S3Groups(k, q) = {} /\ ~IsGrouped(k, q) /\ ~Panics(k, q)
    BY DEF S3Groups, IsGrouped, Panics

(* With a delimiter of one byte, the group of a key is its common prefix.  *)
LEMMA OneGroup ==
    ASSUME NEW S, NEW k \in Seq(S), NEW q, q.prefix \in Seq(S),
           IsPrefix(q.prefix, k), NEW x \in S, q.delimiter = {<<x>>}
    PROVE  /\ ~Panics(k, q)
           /\ S3Groups(k, q) =
                 IF IsGrouped(k, q) THEN {CommonPrefix(k, q)} ELSE {}
<1> DEFINE n == Len(q.prefix)
           after == AfterPrefix(k, q)
           At == {i \in (n + 1)..Len(k) : k[i] = x}
           First == {i \in At : \A e \in (n + 1)..(i - 1) : k[e] # x}
<1>1. n \in Nat /\ Len(k) \in Nat /\ n <= Len(k)
    BY PrefixBytes
<1>2. /\ after \in Seq(S) /\ Len(after) = Len(k) - n
      /\ \A i \in 1..(Len(k) - n) : after[i] = k[n + i]
    BY <1>1, AfterBytes
<1>3. Occurrences(after, <<x>>) = {p \in 0..(Len(k) - n - 1) : k[n + p + 1] = x}
  <2>1. Occurrences(after, <<x>>) = {p \in 0..(Len(after) - 1) : after[p + 1] = x}
      BY <1>2, ByteOccurrences
  <2>2. \A p \in 0..(Len(k) - n - 1) : after[p + 1] = k[n + p + 1]
      BY <1>1, <1>2
  <2> QED
      BY <1>2, <2>1, <2>2
<1> HIDE DEF after
<1>4. IsGrouped(k, q) <=> Occurrences(after, <<x>>) # {}
    BY DEF IsGrouped, after
<1>5. S3Groups(k, q) = {SubSeq(k, 1, i) : i \in First}
  <2>1. Len(<<x>>) = 1
      OBVIOUS
  <2>2. ASSUME NEW i \in (n + 1)..Len(k)
        PROVE  SubSeq(k, i - 1 + 1, i) = <<x>> <=> k[i] = x
    <3>1. SubSeq(k, i, i) = <<k[i]>>
        BY <1>1, OneByte
    <3>2. i - 1 + 1 = i
        BY <1>1
    <3> QED
        BY <3>1, <3>2
  <2>3. ASSUME NEW i \in n..Len(k)
        PROVE  /\ i >= n + 1 /\ SubSeq(k, i - 1 + 1, i) = <<x>>
               /\ \A e \in (n + 1)..(i - 1) : SubSeq(k, e - 1 + 1, e) # <<x>>
               <=> i \in First
      BY <1>1, <2>2
  <2> DEFINE Ends == {i \in n..Len(k) : \E d \in q.delimiter :
                /\ i >= n + Len(d)
                /\ SubSeq(k, i - Len(d) + 1, i) = d
                /\ \A e \in (n + Len(d))..(i - 1) : SubSeq(k, e - Len(d) + 1, e) # d}
  <2>4. Ends = {i \in n..Len(k) :
                /\ i >= n + 1
                /\ SubSeq(k, i - 1 + 1, i) = <<x>>
                /\ \A e \in (n + 1)..(i - 1) : SubSeq(k, e - 1 + 1, e) # <<x>>}
      BY <2>1, Zenon
  <2>5. First \subseteq n..Len(k)
      BY <1>1
  <2>6. Ends = First
      BY <2>3, <2>4, <2>5, Zenon
  <2>7. S3Groups(k, q) = {SubSeq(k, 1, i) : i \in Ends}
      BY DEF S3Groups
  <2> QED
      BY <2>6, <2>7, Zenon
<1>6. CASE ~IsGrouped(k, q)
  <2>1. At = {}
    <3>1. ASSUME NEW i \in At PROVE FALSE
      <4>0. i \in (n + 1)..Len(k) /\ k[i] = x
          OBVIOUS
      <4>1. i - n - 1 \in 0..(Len(k) - n - 1) /\ n + (i - n - 1) + 1 = i
          BY <1>1, <4>0
      <4> QED
          BY <1>3, <1>4, <1>6, <4>0, <4>1
    <3> QED
        BY <3>1
  <2>2. First = {}
      BY <2>1
  <2>3. ~Panics(k, q)
      BY <1>1, <1>6 DEF Panics
  <2> QED
      BY <1>5, <1>6, <2>2, <2>3
<1>7. CASE IsGrouped(k, q)
  <2>1. /\ Offset(k, q) \in Occurrences(after, <<x>>)
        /\ \A p \in Occurrences(after, <<x>>) : Offset(k, q) <= p
      BY <1>1, <1>7, OffsetIsFirst DEF after
  <2>2. PICK o : o = Offset(k, q)
      OBVIOUS
  <2>3. /\ o \in 0..(Len(k) - n - 1) /\ k[n + o + 1] = x
        /\ \A p \in 0..(Len(k) - n - 1) : k[n + p + 1] = x => o <= p
      BY <1>3, <2>1, <2>2
  <2>4. ASSUME NEW i \in At
        PROVE  n + o + 1 <= i
    <3>0. i \in (n + 1)..Len(k) /\ k[i] = x
        OBVIOUS
    <3>1. i - n - 1 \in 0..(Len(k) - n - 1) /\ n + (i - n - 1) + 1 = i
        BY <1>1, <3>0
    <3>2. o <= i - n - 1
        BY <2>3, <3>0, <3>1
    <3>3. o \in Int /\ i \in Int /\ n \in Int
        BY <1>1, <2>3, <3>0
    <3> HIDE DEF n
    <3> QED
        BY <3>2, <3>3
  <2>5. n + o + 1 \in At
      BY <1>1, <2>3
  <2>6. First = {n + o + 1}
      BY <1>1, <2>3, <2>4, <2>5
  <2>7. o \in Nat /\ o < Len(after)
      BY <1>1, <1>2, <2>3
  <2>8. CommonPrefix(k, q) = SubSeq(k, 1, n + o + 1)
      BY <2>2, <2>7, CommonPrefixBytes DEF after
  <2>9. ~Panics(k, q)
      BY <1>1, <2>2, <2>7 DEF Panics, after
  <2>10. {SubSeq(k, 1, i) : i \in First} = {SubSeq(k, 1, n + o + 1)}
      BY <2>6, Zenon
  <2> QED
      BY <1>5, <1>7, <2>8, <2>9, <2>10, Zenon
<1> QED
    BY <1>6, <1>7

-----------------------------------------------------------------------------
(* list_objects_v2: which keys are found, and what the answer holds.       *)

ListRequestOK(q) ==
    /\ q.prefix \in Seq(Bytes) /\ q.maxKeys \in Int
    /\ q.delimiter \in SUBSET Seq(Bytes)
    /\ \A d, e \in q.delimiter : d = e

(* The keys that list as themselves.                                       *)
Plain(keys, q) == {k \in Found(keys, q) : ~IsGrouped(k, q)}

LEMMA PrefixIsFound ==
    ASSUME NEW q, ListRequestOK(q), NEW keys \in SUBSET Seq(Bytes),
           HasNone(q.prefix, {Escape}), NEW k \in HasPrefix(keys, q)
    PROVE  k \in Found(keys, q)
<1>1. k \in keys /\ IsPrefix(q.prefix, k) /\ q.prefix \in Seq(Bytes)
    BY DEF HasPrefix, ListRequestOK
<1>2. Like(Append(q.prefix, AnyBytes), k)
    BY <1>1, LikeOwnPrefix
<1> QED
    BY <1>1, <1>2 DEF Found

LEMMA FoundIsPrefix ==
    ASSUME NEW q, ListRequestOK(q), NEW keys \in SUBSET Seq(Bytes), IsPlain(q),
           NEW k \in Found(keys, q)
    PROVE  k \in HasPrefix(keys, q)
<1>1. k \in keys /\ k \in Seq(Bytes) /\ q.prefix \in Seq(Bytes)
    BY DEF Found, ListRequestOK
<1>2. CASE q.prefix = <<>>
  <2>1. IsPrefix(q.prefix, k) <=> /\ Len(q.prefix) <= Len(k)
                                  /\ \A i \in 1..Len(q.prefix) : q.prefix[i] = k[i]
      BY <1>1, PrefixBytes
  <2>2. Len(q.prefix) = 0 /\ Len(k) \in Nat
      BY <1>1, <1>2
  <2> QED
      BY <1>1, <2>1, <2>2 DEF HasPrefix
<1>3. CASE Like(Append(q.prefix, AnyBytes), k)
    BY <1>1, <1>3, LikePlainPrefix DEF HasPrefix, IsPlain
<1> QED
    BY <1>2, <1>3 DEF Found

(* An answer, taken apart.                                                 *)
LEMMA AnswerParts ==
    ASSUME NEW q, NEW keys, NEW r \in Listings(keys, q)
    PROVE  /\ \A k \in Found(keys, q) : ~Panics(k, q)
           /\ r.contents \in SUBSET Plain(keys, q)
           /\ Cardinality(r.contents) = Room(Cardinality(Plain(keys, q)), q)
           /\ r.prefixes = {CommonPrefix(k, q) : k \in Found(keys, q) \ Plain(keys, q)}
           /\ r.isTruncated = IsTruncated(Cardinality(Plain(keys, q)), q)
           /\ r.keyCount = KeyCount(Cardinality(Plain(keys, q)), q)
<1> DEFINE found == Found(keys, q)
           plain == Plain(keys, q)
<1>1. plain = {k \in found : ~IsGrouped(k, q)}
    BY DEF Plain
<1>2. Listings(keys, q) =
        IF \E k \in found : Panics(k, q) THEN {}
        ELSE {[contents    |-> kept,
               prefixes    |-> {CommonPrefix(k, q) : k \in found \ plain},
               isTruncated |-> IsTruncated(Cardinality(plain), q),
               keyCount    |-> KeyCount(Cardinality(plain), q)] :
                 kept \in kSubset(Room(Cardinality(plain), q), plain)}
    BY <1>1, Zenon DEF Listings
<1> HIDE DEF found, plain
<1>3. \A k \in found : ~Panics(k, q)
    BY <1>2
<1>4. PICK kept \in kSubset(Room(Cardinality(plain), q), plain) :
        r = [contents    |-> kept,
             prefixes    |-> {CommonPrefix(k, q) : k \in found \ plain},
             isTruncated |-> IsTruncated(Cardinality(plain), q),
             keyCount    |-> KeyCount(Cardinality(plain), q)]
    BY <1>2, <1>3, Zenon
<1>5. kept \in SUBSET plain /\ Cardinality(kept) = Room(Cardinality(plain), q)
    BY DEF kSubset
<1> QED
    BY <1>3, <1>4, <1>5 DEF found, plain

(* How many keys an answer holds.                                          *)
LEMMA Counts ==
    ASSUME NEW q, ListRequestOK(q), NEW keys, IsFiniteSet(keys)
    PROVE  LET count == Cardinality(Plain(keys, q))
           IN  /\ IsFiniteSet(Plain(keys, q)) /\ count \in Nat
               /\ Room(count, q) \in 0..count
               /\ q.maxKeys >= 0 =>
                     /\ KeyCount(count, q) = Room(count, q)
                     /\ Room(count, q) <= q.maxKeys
               /\ ~IsTruncated(count, q) => Room(count, q) = count
               /\ q.maxKeys >= 0 /\ IsTruncated(count, q) => Room(count, q) < count
<1>1. Plain(keys, q) \in SUBSET keys
    BY DEF Plain, Found
<1>2. IsFiniteSet(Plain(keys, q)) /\ Cardinality(Plain(keys, q)) \in Nat
    BY <1>1, FS_Subset, FS_CardinalityType
<1>3. PICK count : count = Cardinality(Plain(keys, q))
    OBVIOUS
<1>4. count \in Nat /\ q.maxKeys \in Int
    BY <1>2, <1>3 DEF ListRequestOK
<1>5. Min({count, q.maxKeys}) = IF count <= q.maxKeys THEN count ELSE q.maxKeys
    BY <1>4, MinOfTwo
<1>6. /\ Room(count, q) \in 0..count
      /\ q.maxKeys >= 0 =>
                     /\ KeyCount(count, q) = Room(count, q)
                     /\ Room(count, q) <= q.maxKeys
      /\ ~IsTruncated(count, q) => Room(count, q) = count
      /\ q.maxKeys >= 0 /\ IsTruncated(count, q) => Room(count, q) < count
    BY <1>4, <1>5 DEF Room, KeyCount, IsTruncated
<1> QED
    BY <1>2, <1>3, <1>6

(* An answer that is not truncated holds every key that lists as itself.   *)
LEMMA AllKept ==
    ASSUME NEW q, ListRequestOK(q), NEW keys, IsFiniteSet(keys),
           NEW r \in Listings(keys, q), ~r.isTruncated
    PROVE  r.contents = Plain(keys, q)
<1>1. ~IsTruncated(Cardinality(Plain(keys, q)), q)
    BY AnswerParts
<1>2. Cardinality(r.contents) = Cardinality(Plain(keys, q))
    BY <1>1, AnswerParts, Counts
<1> QED
    BY <1>2, AnswerParts, Counts, FS_Subset

(* Some k elements of a finite set can be kept, if it has as many.         *)
LEMMA KeepSome ==
    ASSUME NEW S, IsFiniteSet(S), NEW n \in 0..Cardinality(S)
    PROVE  kSubset(n, S) # {}
<1>1. Cardinality(S) \in Nat /\ ExistsBijection(1..Cardinality(S), S)
    BY FS_CardinalityType
<1>2. PICK f \in Bijection(1..Cardinality(S), S) : TRUE
    BY <1>1 DEF ExistsBijection
<1> DEFINE T == {f[i] : i \in 1..n}
           g == [i \in 1..n |-> f[i]]
<1>3. 1..n \subseteq 1..Cardinality(S)
    BY <1>1
<1>4. T \subseteq S
    BY <1>2, <1>3 DEF Bijection, Surjection, Injection
<1>5. g \in Bijection(1..n, T)
    BY <1>2, <1>3 DEF Bijection, Surjection, Injection, IsInjective
<1>6. Cardinality(T) = n
    BY <1>1, <1>5, FS_CountingElements DEF ExistsBijection
<1> QED
    BY <1>4, <1>6 DEF kSubset

(* The common prefix of a key is one of its prefixes.                      *)
LEMMA CommonPrefixIsPrefix ==
    ASSUME NEW q, ListRequestOK(q), NEW k \in Seq(Bytes), IsPrefix(q.prefix, k),
           IsGrouped(k, q), ~Panics(k, q)
    PROVE  IsPrefix(CommonPrefix(k, q), k)
<1>1. PICK d \in q.delimiter : q.delimiter = {d} /\ d \in Seq(Bytes)
    BY DEF IsGrouped, ListRequestOK
<1>2. /\ q.prefix \in Seq(Bytes) /\ Len(q.prefix) \in Nat /\ Len(k) \in Nat
      /\ Len(q.prefix) <= Len(k)
    BY PrefixBytes DEF ListRequestOK
<1>3. Offset(k, q) \in Occurrences(AfterPrefix(k, q), d)
    BY <1>1, <1>2, OffsetIsFirst
<1>4. PICK o : o = Offset(k, q)
    OBVIOUS
<1>5. o \in Nat
    BY <1>3, <1>4 DEF Occurrences
<1>6. Len(AfterPrefix(k, q)) = Len(k) - Len(q.prefix)
    BY <1>2, AfterBytes
<1>7. o < Len(AfterPrefix(k, q))
    BY <1>1, <1>2, <1>4, <1>5, <1>6 DEF Panics
<1>8. PICK n : n = Len(q.prefix) + o + 1
    OBVIOUS
<1>9. n \in 1..Len(k)
    BY <1>2, <1>5, <1>6, <1>7, <1>8
<1>10. PICK s : s = SubSeq(k, 1, n)
    OBVIOUS
<1>11. s \in Seq(Bytes) /\ Len(s) = n /\ \A i \in 1..n : s[i] = k[i]
    BY <1>9, <1>10, PartBytes
<1>12. IsPrefix(s, k)
    BY <1>9, <1>11, PrefixBytes
<1>13. CommonPrefix(k, q) = s
    BY <1>2, <1>4, <1>5, <1>7, <1>8, <1>10, CommonPrefixBytes
<1> QED
    BY <1>12, <1>13

LEMMA HidesNothing ==
    ASSUME NEW q, ListRequestOK(q), NEW keys \in SUBSET Seq(Bytes),
           IsFiniteSet(keys), NEW r \in Listings(keys, q)
    PROVE  NothingHidden(keys, q, r)
<1> SUFFICES ASSUME HasNone(q.prefix, {Escape}), ~r.isTruncated,
                    NEW k \in HasPrefix(keys, q)
             PROVE  k \in r.contents \/ \E p \in r.prefixes : IsPrefix(p, k)
    BY DEF NothingHidden
<1>1. k \in Found(keys, q) /\ k \in Seq(Bytes) /\ IsPrefix(q.prefix, k)
    BY PrefixIsFound DEF HasPrefix
<1>2. CASE ~IsGrouped(k, q)
    BY <1>1, <1>2, AllKept DEF Plain
<1>3. CASE IsGrouped(k, q)
  <2>1. IsPrefix(CommonPrefix(k, q), k)
      BY <1>1, <1>3, AnswerParts, CommonPrefixIsPrefix
  <2>2. k \in Found(keys, q) \ Plain(keys, q)
      BY <1>1, <1>3 DEF Plain
  <2>3. CommonPrefix(k, q) \in r.prefixes
      BY <2>2, AnswerParts
  <2> QED
      BY <2>1, <2>3
<1> QED
    BY <1>2, <1>3

(* A plain request groups each key that it finds as S3 does.               *)
LEMMA GroupOfKey ==
    ASSUME NEW q, ListRequestOK(q), IsPlain(q), NEW k \in Seq(Bytes),
           IsPrefix(q.prefix, k)
    PROVE  /\ ~Panics(k, q)
           /\ S3Groups(k, q) = IF IsGrouped(k, q) THEN {CommonPrefix(k, q)} ELSE {}
<1>1. CASE q.delimiter = {}
    BY <1>1, NoGroups
<1>2. CASE q.delimiter # {}
  <2>1. PICK d \in q.delimiter : q.delimiter = {d} /\ d \in Seq(Bytes) /\ Len(d) = 1
      BY <1>2 DEF ListRequestOK, IsPlain
  <2>2. d[1] \in Bytes /\ d = <<d[1]>>
      BY <2>1, SingleByte
  <2>4. q.delimiter = {<<d[1]>>}
      BY <2>1, <2>2
  <2>5. q.prefix \in Seq(Bytes)
      BY DEF ListRequestOK
  <2> QED
      BY <2>2, <2>4, <2>5, OneGroup
<1> QED
    BY <1>1, <1>2

LEMMA GroupsAsS3Does ==
    ASSUME NEW q, ListRequestOK(q), NEW keys \in SUBSET Seq(Bytes),
           IsFiniteSet(keys), NEW r \in Listings(keys, q)
    PROVE  GroupsAsS3(keys, q, r)
<1> SUFFICES ASSUME IsPlain(q)
             PROVE  LET plain == {k \in HasPrefix(keys, q) : S3Groups(k, q) = {}}
                    IN  /\ r.prefixes = UNION {S3Groups(k, q) : k \in HasPrefix(keys, q)}
                        /\ r.contents \subseteq plain
                        /\ r.contents = plain \/ r.isTruncated
    BY DEF GroupsAsS3
<1>1. Found(keys, q) = HasPrefix(keys, q)
  <2>0. HasNone(q.prefix, {Escape})
      BY DEF IsPlain, HasNone
  <2>1. \A k \in HasPrefix(keys, q) : k \in Found(keys, q)
      BY <2>0, PrefixIsFound
  <2>2. \A k \in Found(keys, q) : k \in HasPrefix(keys, q)
      BY FoundIsPrefix
  <2> QED
      BY <2>1, <2>2
<1>2. ASSUME NEW k \in HasPrefix(keys, q)
      PROVE  S3Groups(k, q) = IF IsGrouped(k, q) THEN {CommonPrefix(k, q)} ELSE {}
    BY GroupOfKey DEF HasPrefix
<1>3. Plain(keys, q) = {k \in HasPrefix(keys, q) : S3Groups(k, q) = {}}
    BY <1>1, <1>2 DEF Plain
<1>4. r.prefixes = UNION {S3Groups(k, q) : k \in HasPrefix(keys, q)}
  <2>1. r.prefixes = {CommonPrefix(k, q) : k \in HasPrefix(keys, q) \ Plain(keys, q)}
      BY <1>1, AnswerParts
  <2>2. \A k \in HasPrefix(keys, q) : k \in Plain(keys, q) <=> ~IsGrouped(k, q)
      BY <1>1 DEF Plain
  <2> QED
      BY <1>2, <2>1, <2>2
<1> QED
    BY <1>3, <1>4, AnswerParts, AllKept

(* A plain request is answered.                                            *)
LEMMA PlainIsAnswered ==
    ASSUME NEW q, ListRequestOK(q), NEW keys \in SUBSET Seq(Bytes),
           IsFiniteSet(keys), IsPlain(q)
    PROVE  Listings(keys, q) # {}
<1> DEFINE found == Found(keys, q)
           plain == {k \in found : ~IsGrouped(k, q)}
           room == Room(Cardinality(plain), q)
<1>1. ~ \E k \in found : Panics(k, q)
    BY FoundIsPrefix, GroupOfKey DEF HasPrefix
<1>2. plain = Plain(keys, q)
    BY DEF Plain
<1>3. PICK kept : kept \in kSubset(room, plain)
  <2>1. IsFiniteSet(Plain(keys, q))
        /\ Room(Cardinality(Plain(keys, q)), q) \in 0..Cardinality(Plain(keys, q))
      BY Counts
  <2> HIDE DEF plain
  <2>2. kSubset(room, plain) # {}
      BY <1>2, <2>1, KeepSome
  <2> QED
      BY <2>2
<1> HIDE DEF found, plain
<1> QED
    BY <1>1, <1>3 DEF Listings, found, plain

LEMMA CountsHonestly ==
    ASSUME NEW q, ListRequestOK(q), NEW keys, IsFiniteSet(keys),
           NEW r \in Listings(keys, q)
    PROVE  HonestCounts(keys, q, r)
<1> SUFFICES ASSUME q.maxKeys >= 0
             PROVE  /\ r.keyCount = Cardinality(r.contents)
                    /\ r.keyCount <= q.maxKeys
                    /\ r.isTruncated <=>
                         \E k \in Found(keys, q) : ~IsGrouped(k, q) /\ k \notin r.contents
    BY DEF HonestCounts
<1>1. PICK plain, count : plain = Plain(keys, q) /\ count = Cardinality(plain)
    OBVIOUS
<1>2. /\ r.contents \in SUBSET plain /\ Cardinality(r.contents) = Room(count, q)
      /\ r.isTruncated = IsTruncated(count, q) /\ r.keyCount = KeyCount(count, q)
    BY <1>1, AnswerParts
<1>3. /\ IsFiniteSet(plain) /\ count \in Nat
      /\ KeyCount(count, q) = Room(count, q) /\ Room(count, q) <= q.maxKeys
      /\ ~IsTruncated(count, q) => Room(count, q) = count
      /\ IsTruncated(count, q) => Room(count, q) < count
    BY <1>1, Counts
<1>4. ~IsTruncated(count, q) => r.contents = plain
    BY <1>1, <1>2, <1>3, FS_Subset
<1>5. IsTruncated(count, q) => r.contents # plain
    BY <1>1, <1>2, <1>3 DEF IsTruncated
<1>6. r.isTruncated <=> \E k \in plain : k \notin r.contents
    BY <1>2, <1>4, <1>5
<1>7. \A k : k \in plain <=> k \in Found(keys, q) /\ ~IsGrouped(k, q)
    BY <1>1 DEF Plain
<1> QED
    BY <1>2, <1>3, <1>6, <1>7

-----------------------------------------------------------------------------
(* chunk_data: where it cuts.                                              *)

CutAt(length, size, n) == IF n * size < length THEN n * size ELSE length

LEMMA Product ==
    ASSUME NEW m \in Nat, NEW n \in Nat, NEW size \in Nat
    PROVE  m * size \in Nat /\ (m + 1) * size = m * size + size
           /\ (m <= n => m * size <= n * size)
    OBVIOUS

LEMMA Quotient ==
    ASSUME NEW length \in Nat, NEW size \in Nat \ {0}, NEW count,
           count = (length + size - 1) \div size
    PROVE  /\ count \in Nat /\ count * size >= length
           /\ count > 0 => (count - 1) * size < length
<1>1. PICK sum \in Nat : sum = length + size - 1
    OBVIOUS
<1>2. count \in Nat /\ count * size <= sum /\ sum < count * size + size
    BY <1>1
<1>3. count > 0 => (count - 1) * size = count * size - size
    BY <1>2
<1> QED
    BY <1>1, <1>2, <1>3

CutsWell(length, size, count, n) ==
    /\ count \in Nat
    /\ (n - 1) * size \in 0..(length - 1)
    /\ CutAt(length, size, n) \in ((n - 1) * size + 1)..length
    /\ CutAt(length, size, n) - (n - 1) * size <= size
    /\ n < count => CutAt(length, size, n) - (n - 1) * size = size
    /\ n > 1 => CutAt(length, size, n - 1) = (n - 1) * size
    /\ n = count => CutAt(length, size, n) = length

(* The chunks lie end to end; all but the last have the whole size.        *)
LEMMA CutsInOrder ==
    ASSUME NEW length \in Nat, NEW size \in Nat \ {0}, NEW count,
           count = (length + size - 1) \div size, NEW n \in 1..count
    PROVE  CutsWell(length, size, count, n)
<1>1. /\ count \in Nat /\ count * size >= length
      /\ count > 0 => (count - 1) * size < length
    BY Quotient
<1>2. n \in Nat /\ n - 1 \in Nat /\ count - 1 \in Nat /\ size \in Nat
    BY <1>1
<1>3. PICK s, e, l : s = (n - 1) * size /\ e = n * size /\ l = (count - 1) * size
    OBVIOUS
<1>4. s \in Nat /\ e \in Nat /\ l \in Nat
    BY <1>2, <1>3, Product
<1>5. e = s + size
    BY <1>2, <1>3
<1>6. s <= l
    BY <1>1, <1>2, <1>3, Product
<1>7. n < count => e <= l
  <2>1. n < count => n <= count - 1
      BY <1>1
  <2> QED
      BY <1>2, <1>3, <2>1, Product
<1>8. l < length
    BY <1>1, <1>3
<1>9. CutAt(length, size, n) = IF e < length THEN e ELSE length
    BY <1>3 DEF CutAt
<1>10. CutAt(length, size, n - 1) = IF s < length THEN s ELSE length
    BY <1>3 DEF CutAt
<1>11. n = count => e >= length
    BY <1>1, <1>3
<1>12. /\ s \in 0..(length - 1)
       /\ CutAt(length, size, n) \in (s + 1)..length
       /\ CutAt(length, size, n) - s <= size
       /\ n < count => CutAt(length, size, n) - s = size
       /\ n > 1 => CutAt(length, size, n - 1) = s
       /\ n = count => CutAt(length, size, n) = length
    BY <1>4, <1>5, <1>6, <1>7, <1>8, <1>9, <1>10, <1>11
<1> QED
    BY <1>1, <1>3, <1>12 DEF CutsWell

(* FlattenSeq, by the function that it is computed with.                   *)
Joins(list, f) ==
    f = [i \in 1..Len(list) |->
            IF i = 1 THEN list[i] ELSE f[i - 1] \o list[i]]

LEMMA FlattenByJoins ==
    ASSUME NEW list, Len(list) # 0
    PROVE  FlattenSeq(list) = (CHOOSE f : Joins(list, f))[Len(list)]
    BY DEF FlattenSeq, Joins

(* Parts that are cut from a sequence end to end are that sequence again,  *)
(* when they are joined.                                                   *)
LEMMA PartsJoin ==
    ASSUME NEW S, NEW data \in Seq(S), NEW list, NEW count \in Nat \ {0},
           Len(list) = count, NEW cut,
           cut[1] \in 0..Len(data), cut[count] = Len(data),
           list[1] = SubSeq(data, 1, cut[1]),
           \A i \in 2..count : /\ cut[i - 1] \in 0..Len(data)
                               /\ cut[i] \in cut[i - 1]..Len(data)
                               /\ list[i] = SubSeq(data, cut[i - 1] + 1, cut[i])
    PROVE  FlattenSeq(list) = data
<1>1. ASSUME NEW i \in 2..count
      PROVE  SubSeq(data, 1, cut[i - 1]) \o list[i] = SubSeq(data, 1, cut[i])
  <2>1. PICK a, b : a = cut[i - 1] /\ b = cut[i]
      OBVIOUS
  <2>2. a \in 0..Len(data) /\ b \in a..Len(data) /\ Len(data) \in Nat
        /\ list[i] = SubSeq(data, a + 1, b)
      BY <2>1
  <2>3. PICK s, t : s = SubSeq(data, 1, a) /\ t = SubSeq(data, a + 1, b)
      OBVIOUS
  <2>4. s \in Seq(S) /\ Len(s) = a /\ \A j \in 1..a : s[j] = data[j]
      BY <2>2, <2>3, PartBytes
  <2>5. t \in Seq(S) /\ Len(t) = b - a
        /\ \A j \in 1..(b - a) : t[j] = data[a + j]
    <3>1. a + 1 \in 1..(Len(data) + 1) /\ b \in 0..Len(data) /\ a + 1 <= b + 1
        BY <2>2
    <3>2. t \in Seq(S) /\ Len(t) = b - (a + 1) + 1
          /\ \A j \in 1..(b - (a + 1) + 1) : t[j] = data[a + 1 + j - 1]
        BY <2>3, <3>1, PartBytes
    <3> QED
        BY <2>2, <3>2
  <2>6. s \o t = SubSeq(data, 1, Len(s) + Len(t))
    <3>1. /\ Len(s) + Len(t) <= Len(data)
          /\ \A j \in 1..Len(s) : s[j] = data[j]
          /\ \A j \in 1..Len(t) : t[j] = data[Len(s) + j]
        BY <2>2, <2>4, <2>5
    <3>2. s \in Seq(S) /\ t \in Seq(S) /\ data \in Seq(S)
        BY <2>4, <2>5
    <3> QED
        BY <3>1, <3>2, PrefixAndPart
  <2>7. Len(s) + Len(t) = b
      BY <2>2, <2>4, <2>5
  <2> QED
      BY <2>1, <2>2, <2>3, <2>6, <2>7
<1>2. \E f : Joins(list, f)
  <2> DEFINE f == [i \in 1..count |-> SubSeq(data, 1, cut[i])]
  <2>1. ASSUME NEW i \in 1..count
        PROVE  f[i] = IF i = 1 THEN list[i] ELSE f[i - 1] \o list[i]
    <3>1. CASE i = 1
        BY <3>1
    <3>2. CASE i # 1
      <4>1. i \in 2..count /\ i - 1 \in 1..count
          BY <3>2
      <4> QED
          BY <1>1, <3>2, <4>1
    <3> QED
        BY <3>1, <3>2
  <2>2. f = [i \in 1..count |-> IF i = 1 THEN list[i] ELSE f[i - 1] \o list[i]]
      BY <2>1
  <2> HIDE DEF f
  <2> QED
      BY <2>2 DEF Joins
<1>3. PICK f : f = CHOOSE g : Joins(list, g)
    OBVIOUS
<1>4. Joins(list, f)
    BY <1>2, <1>3
<1>5. ASSUME NEW i \in 1..count
      PROVE  f[i] = IF i = 1 THEN list[i] ELSE f[i - 1] \o list[i]
  <2>1. f = [j \in 1..count |-> IF j = 1 THEN list[j] ELSE f[j - 1] \o list[j]]
      BY <1>4 DEF Joins
  <2> QED
      BY <2>1, Zenon
<1> DEFINE bad == {i \in 1..count : f[i] # SubSeq(data, 1, cut[i])}
<1>6. ASSUME bad # {} PROVE FALSE
  <2>0. bad \in SUBSET Nat
      OBVIOUS
  <2>1. PICK i \in bad : \A k \in bad : i <= k
      BY <1>6, <2>0, LeastNumber, Zenon
  <2>2. i \in 1..count /\ f[i] # SubSeq(data, 1, cut[i])
      OBVIOUS
  <2>3. i # 1
      BY <1>5, <2>2
  <2>4. i \in 2..count /\ i - 1 \in 1..count /\ ~(i <= i - 1)
      BY <2>2, <2>3
  <2>5. f[i - 1] = SubSeq(data, 1, cut[i - 1])
      BY <2>1, <2>4
  <2>6. f[i] = f[i - 1] \o list[i]
      BY <1>5, <2>2, <2>3
  <2> QED
      BY <1>1, <2>2, <2>4, <2>5, <2>6
<1>7. f[count] = SubSeq(data, 1, cut[count])
  <2>1. count \in 1..count
      OBVIOUS
  <2>2. \A i \in 1..count : f[i] = SubSeq(data, 1, cut[i])
      BY <1>6, Zenon
  <2> QED
      BY <2>1, <2>2
<1>8. FlattenSeq(list) = f[count]
    BY <1>3, FlattenByJoins
<1>9. SubSeq(data, 1, Len(data)) = data
  <2>1. PICK s : s = SubSeq(data, 1, Len(data))
      OBVIOUS
  <2>2. s \in Seq(S) /\ Len(s) = Len(data) /\ \A i \in 1..Len(data) : s[i] = data[i]
      BY <2>1, PartBytes
  <2> QED
      BY <2>1, <2>2, SameBytes
<1> QED
    BY <1>7, <1>8, <1>9

LEMMA ChunksAreCuts ==
    ASSUME NEW data \in Seq(Bytes), NEW size \in Nat \ {0}, NEW count,
           count = ChunkCount(data, size), NEW n \in 1..count
    PROVE  /\ count \in Nat
           /\ (n - 1) * size \in 0..(Len(data) - 1)
           /\ CutAt(Len(data), size, n) \in ((n - 1) * size + 1)..Len(data)
           /\ CutAt(Len(data), size, n) - (n - 1) * size <= size
           /\ n < count => CutAt(Len(data), size, n) - (n - 1) * size = size
           /\ n > 1 => CutAt(Len(data), size, n - 1) = (n - 1) * size
           /\ n = count => CutAt(Len(data), size, n) = Len(data)
           /\ ChunkBytes(data, size, n - 1) =
                 SubSeq(data, (n - 1) * size + 1, CutAt(Len(data), size, n))
<1>1. PICK length \in Nat : length = Len(data)
    OBVIOUS
<1>5. count = (length + size - 1) \div size
    BY <1>1 DEF ChunkCount
<1>2. count \in Nat
    BY <1>5, Quotient
<1>3. n - 1 + 1 = n
    BY <1>2
<1>6. CutsWell(length, size, count, n)
    BY <1>5, CutsInOrder, Zenon
<1>4. ChunkBytes(data, size, n - 1) =
        SubSeq(data, (n - 1) * size + 1, CutAt(Len(data), size, n))
    BY <1>3 DEF ChunkBytes, CutAt
<1> QED
    BY <1>1, <1>2, <1>4, <1>6, Zenon DEF CutsWell

LEMMA ChunksCutFaithfully ==
    ASSUME NEW data \in Seq(Bytes), NEW size \in Nat \ {0}
    PROVE  CutsFaithfully(data, size, ChunkData(data, size))
<1>1. PICK count, list : count = ChunkCount(data, size) /\ list = ChunkData(data, size)
    OBVIOUS
<1>2. count \in Nat /\ count * size >= Len(data)
    BY <1>1, Quotient DEF ChunkCount
<1>3. /\ list = [n \in 1..count |->
                    [index |-> n - 1, data |-> ChunkBytes(data, size, n - 1)]]
      /\ DOMAIN list = 1..count /\ Len(list) = count
    BY <1>1, <1>2 DEF ChunkData
<1>4. \A n \in 1..count : /\ list[n].index = n - 1
                          /\ list[n].data = ChunkBytes(data, size, n - 1)
    BY <1>3
<1>5. ASSUME NEW n \in 1..count
      PROVE  Len(list[n].data) \in 1..size /\ (n < count => Len(list[n].data) = size)
  <2>1. PICK a, b : a = (n - 1) * size /\ b = CutAt(Len(data), size, n)
      OBVIOUS
  <2>2. /\ a \in 0..(Len(data) - 1) /\ b \in (a + 1)..Len(data)
        /\ b - a <= size /\ (n < count => b - a = size)
        /\ list[n].data = SubSeq(data, a + 1, b)
    <3>1. /\ (n - 1) * size \in 0..(Len(data) - 1)
          /\ CutAt(Len(data), size, n) \in ((n - 1) * size + 1)..Len(data)
          /\ CutAt(Len(data), size, n) - (n - 1) * size <= size
          /\ n < count => CutAt(Len(data), size, n) - (n - 1) * size = size
          /\ ChunkBytes(data, size, n - 1) =
                SubSeq(data, (n - 1) * size + 1, CutAt(Len(data), size, n))
        BY <1>1, ChunksAreCuts
    <3>2. list[n].data = ChunkBytes(data, size, n - 1)
        BY <1>4
    <3> QED
        BY <2>1, <3>1, <3>2, Zenon
  <2>3. a + 1 \in 1..(Len(data) + 1) /\ b \in 0..Len(data) /\ a + 1 <= b + 1
        /\ Len(data) \in Nat
      BY <2>2
  <2>4. Len(SubSeq(data, a + 1, b)) = b - (a + 1) + 1
      BY <2>3, PartBytes
  <2> QED
      BY <2>2, <2>3, <2>4
<1> DEFINE parts == [n \in DOMAIN list |-> list[n].data]
<1>6. FlattenSeq(parts) = data
  <2>1. parts = [n \in 1..count |-> list[n].data] /\ Len(parts) = count
      BY <1>2, <1>3
  <2>2. CASE count = 0
    <3>1. Len(data) = 0
        BY <1>2, <2>2
    <3>2. data = <<>> /\ parts = <<>>
        BY <2>1, <2>2, <3>1
    <3> QED
        BY <2>1, <2>2, <3>2 DEF FlattenSeq
  <2>3. CASE count # 0
    <3>1. PICK cut : cut = [n \in 1..count |-> CutAt(Len(data), size, n)]
        OBVIOUS
    <3>2. \A n \in 1..count : /\ parts[n] = ChunkBytes(data, size, n - 1)
                              /\ cut[n] = CutAt(Len(data), size, n)
        BY <1>4, <2>1, <3>1
    <3> HIDE DEF parts
    <3>3. cut[1] \in 0..Len(data) /\ parts[1] = SubSeq(data, 1, cut[1])
      <4>1. 1 \in 1..count /\ (1 - 1) * size = 0
          BY <1>2, <2>3
      <4>2. /\ CutAt(Len(data), size, 1) \in ((1 - 1) * size + 1)..Len(data)
            /\ ChunkBytes(data, size, 1 - 1) =
                  SubSeq(data, (1 - 1) * size + 1, CutAt(Len(data), size, 1))
          BY <1>1, <4>1, ChunksAreCuts
      <4> QED
          BY <3>2, <4>1, <4>2
    <3>4. cut[count] = Len(data)
      <4>1. count \in 1..count
          BY <1>2, <2>3
      <4> QED
          BY <1>1, <3>2, <4>1, ChunksAreCuts
    <3>5. ASSUME NEW i \in 2..count
          PROVE  /\ cut[i - 1] \in 0..Len(data) /\ cut[i] \in cut[i - 1]..Len(data)
                 /\ parts[i] = SubSeq(data, cut[i - 1] + 1, cut[i])
      <4>1. i \in 1..count /\ i > 1 /\ i - 1 \in 1..count
          BY <1>2
      <4>2. PICK a, b : a = (i - 1) * size /\ b = CutAt(Len(data), size, i)
          OBVIOUS
      <4>3. /\ a \in 0..(Len(data) - 1) /\ b \in (a + 1)..Len(data)
            /\ CutAt(Len(data), size, i - 1) = a
            /\ ChunkBytes(data, size, i - 1) = SubSeq(data, a + 1, b)
          BY <1>1, <4>1, <4>2, ChunksAreCuts
      <4>4. cut[i - 1] = a /\ cut[i] = b /\ parts[i] = SubSeq(data, a + 1, b)
          BY <3>2, <4>1, <4>2, <4>3
      <4> QED
          BY <4>3, <4>4
    <3> QED
        BY <1>2, <2>1, <2>3, <3>3, <3>4, <3>5, PartsJoin
  <2> QED
      BY <2>2, <2>3
<1>7. Joined(list) = data
    BY <1>6 DEF Joined
<1> HIDE DEF parts
<1> QED
    BY <1>1, <1>3, <1>4, <1>5, <1>7 DEF CutsFaithfully

(* The size panics only if it was configured as zero, or as too much.      *)
LEMMA WrongSizes ==
    ASSUME NEW mb \in Nat, MiB \in Nat \ {0}, Word \in Nat \ {0}
    PROVE  /\ ChunkSizeBytes(mb) \in Nat
           /\ ChunkPanics(ChunkSizeBytes(mb)) => mb = 0 \/ mb * MiB >= Word
<1>1. PICK bytes : bytes = mb * MiB
    OBVIOUS
<1>2. bytes \in Nat /\ (bytes = 0 => mb = 0)
    BY <1>1
<1>3. bytes % Word \in Nat /\ (bytes < Word => bytes % Word = bytes)
    BY <1>2
<1> QED
    BY <1>1, <1>2, <1>3 DEF ChunkSizeBytes, ChunkPanics

-----------------------------------------------------------------------------
(* auth_middleware: the canonical request.                                 *)

LEMMA PairOfNumbers ==
    ASSUME NEW query \in Seq(Nat \X Nat), NEW i \in DOMAIN query
    PROVE  i \in Nat /\ query[i][1] \in Nat /\ query[i][2] \in Nat
<1>1. i \in Nat /\ query[i] \in Nat \X Nat
    OBVIOUS
<1> QED
    BY <1>1

LEMMA OrdersAgree ==
    ASSUME NEW query \in Seq(Nat \X Nat),
           \A i, j \in DOMAIN query : query[i][1] = query[j][1] => i = j,
           \A i \in DOMAIN query :
              <<UriEncoded(query[i][1]), UriEncoded(query[i][2])>> = query[i]
    PROVE  CanonicalQuery(query) = AwsQuery(query)
<1>1. ASSUME NEW p \in (DOMAIN query) \X (DOMAIN query)
      PROVE  \/ query[p[1]][1] < query[p[2]][1]
             \/ query[p[1]][1] = query[p[2]][1] /\ p[1] < p[2]
             <=>
             \/ query[p[1]][1] < query[p[2]][1]
             \/ /\ query[p[1]][1] = query[p[2]][1]
                /\ query[p[1]][2] < query[p[2]][2]
             \/ query[p[1]] = query[p[2]] /\ p[1] < p[2]
  <2>1. PICK i \in DOMAIN query, j \in DOMAIN query : p[1] = i /\ p[2] = j
      OBVIOUS
  <2>2. /\ i \in Nat /\ j \in Nat
        /\ query[i][1] \in Nat /\ query[i][2] \in Nat
        /\ query[j][1] \in Nat /\ query[j][2] \in Nat
      BY PairOfNumbers
  <2>3. query[i][1] = query[j][1] => i = j
      OBVIOUS
  <2> QED
      BY <2>1, <2>2, <2>3
<1>2. [i \in DOMAIN query |->
         <<UriEncoded(query[i][1]), UriEncoded(query[i][2])>>] = query
  <2>1. query = [i \in DOMAIN query |-> query[i]]
      OBVIOUS
  <2> QED
      BY <2>1
<1>3. CanonicalQuery(query) =
        Arranged(query, {p \in (DOMAIN query) \X (DOMAIN query) :
            \/ query[p[1]][1] < query[p[2]][1]
            \/ /\ query[p[1]][1] = query[p[2]][1]
               /\ query[p[1]][2] < query[p[2]][2]
            \/ query[p[1]] = query[p[2]] /\ p[1] < p[2]})
    BY <1>1 DEF CanonicalQuery, SortedByName
<1>4. PICK encoded : encoded = [i \in DOMAIN query |->
                <<UriEncoded(query[i][1]), UriEncoded(query[i][2])>>]
    OBVIOUS
<1>5. AwsQuery(query) =
        Arranged(encoded, {p \in (DOMAIN encoded) \X (DOMAIN encoded) :
            \/ encoded[p[1]][1] < encoded[p[2]][1]
            \/ /\ encoded[p[1]][1] = encoded[p[2]][1]
               /\ encoded[p[1]][2] < encoded[p[2]][2]
            \/ encoded[p[1]] = encoded[p[2]] /\ p[1] < p[2]})
    BY <1>4 DEF AwsQuery
<1>6. encoded = query
    BY <1>2, <1>4
<1> QED
    BY <1>3, <1>5, <1>6

SignRequestOK(r) ==
    /\ r.query \in Seq(Nat \X Nat)
    /\ \A h \in DOMAIN r.headers : r.headers[h] \in Seq(Nat)
    /\ r.time.at \in Int

LEMMA SingleValue ==
    ASSUME NEW values \in Seq(Nat), Len(values) = 1,
           \A i \in DOMAIN values : Collapse(Trim(values[i])) = Trim(values[i])
    PROVE  <<Trim(values[1])>> = AwsHeader(values)
<1>1. DOMAIN values = 1..1
    OBVIOUS
<1>2. \A i \in 1..1 : i = 1
    OBVIOUS
<1>3. AwsHeader(values) = [i \in 1..1 |-> Trim(values[1])]
    BY <1>1, <1>2 DEF AwsHeader
<1> QED
    BY <1>3

LEMMA CanonicalFormsAgree ==
    ASSUME NEW r, SignRequestOK(r), UsesNamesOnce(r), SendsWhatItSigns(r)
    PROVE  CanonicalRequest(r) = AwsCanonical(r)
<1>1. CanonicalQuery(r.query) = AwsQuery(r.query)
    BY OrdersAgree DEF SignRequestOK, UsesNamesOnce, SendsWhatItSigns
<1>2. ASSUME NEW n \in DOMAIN r.signed
      PROVE  <<HeaderValue(r.headers, r.signed[n])>> = AwsHeader(r.headers[r.signed[n]])
  <2>1. PICK values : values = r.headers[r.signed[n]]
      OBVIOUS
  <2>2. /\ r.signed[n] \in DOMAIN r.headers
        /\ values \in Seq(Nat) /\ Len(values) = 1
        /\ \A i \in DOMAIN values : Collapse(Trim(values[i])) = Trim(values[i])
      BY <2>1 DEF SignRequestOK, UsesNamesOnce, SendsWhatItSigns
  <2>3. <<Trim(values[1])>> = AwsHeader(values)
      BY <2>2, SingleValue, Zenon
  <2> QED
      BY <2>1, <2>2, <2>3, Zenon DEF HeaderValue
<1>3. [n \in DOMAIN r.signed |-> <<r.signed[n], <<HeaderValue(r.headers, r.signed[n])>>>>]
      = [n \in DOMAIN r.signed |-> <<r.signed[n], AwsHeader(r.headers[r.signed[n]])>>]
    BY <1>2
<1>4. PathEncoded(r.path) = r.path
    BY DEF SendsWhatItSigns
<1> QED
    BY <1>1, <1>3, <1>4, Zenon DEF CanonicalRequest, AwsCanonical

(* For a date that parses, the code's test is the specification's.         *)
LEMMA FreshIsNotSkewed ==
    ASSUME NEW time, time.at \in Int, time.format = "iso", NEW now \in Int,
           Skew \in Nat
    PROVE  IsFresh(time, now) <=> ~IsSkewed(time, now)
    BY DEF IsFresh, IsSkewed

LEMMA SignedIsServedBy ==
    ASSUME NEW r, SignRequestOK(r), NEW now \in Int, Skew \in Nat
    PROVE  SignedIsServed(r, now, Verdict(r, now))
<1> SUFFICES ASSUME r.auth = "parsed", r.keyId = OurKey,
                    r.signature = AwsSignature(r)
             PROVE  /\ Verdict(r, now) = "served" => IsFresh(r.time, now)
                    /\ UsesNamesOnce(r) /\ SendsWhatItSigns(r) /\ IsFresh(r.time, now)
                       => Verdict(r, now) = "served"
    BY DEF SignedIsServed
<1>1. Verdict(r, now) = "served" <=>
        /\ ~IsSkewed(r.time, now)
        /\ r.signature = Signature(OurSecret, r.scope, AmzDate(r.time),
                                   CanonicalRequest(r))
    BY DEF Verdict
<1>2. ASSUME Verdict(r, now) = "served" PROVE IsFresh(r.time, now)
  <2>1. /\ ~IsSkewed(r.time, now)
        /\ AwsSignature(r) = Signature(OurSecret, r.scope, AmzDate(r.time),
                                       CanonicalRequest(r))
      BY <1>1, <1>2, Zenon
  <2>2. <<"iso", r.time.at>> = AmzDate(r.time)
      BY <2>1 DEF AwsSignature, Signature
  <2>3. r.time.format = "iso"
      BY <2>2 DEF AmzDate
  <2> QED
      BY <2>1, <2>3, FreshIsNotSkewed DEF SignRequestOK
<1>3. ASSUME UsesNamesOnce(r), SendsWhatItSigns(r), IsFresh(r.time, now)
      PROVE  Verdict(r, now) = "served"
  <2>1. r.time.format = "iso"
      BY <1>3 DEF SendsWhatItSigns
  <2>2. ~IsSkewed(r.time, now)
      BY <1>3, <2>1, FreshIsNotSkewed DEF SignRequestOK
  <2>3. AmzDate(r.time) = <<"iso", r.time.at>>
      BY <2>1 DEF AmzDate
  <2>4. CanonicalRequest(r) = AwsCanonical(r)
      BY <1>3, CanonicalFormsAgree
  <2>5. r.signature = Signature(OurSecret, r.scope, AmzDate(r.time),
                                CanonicalRequest(r))
      BY <2>3, <2>4, Zenon DEF AwsSignature
  <2> QED
      BY <1>1, <2>2, <2>5
<1> QED
    BY <1>2, <1>3

-----------------------------------------------------------------------------
(* The module: every reply is what the function of its question computes.  *)

ReplyOK ==
    /\ asked.op = "list" /\ reply.status = "ok" =>
          reply.value \in Listings(asked.keys, asked.q)
    /\ asked.op = "list" /\ reply.status = "panic" =>
          Listings(asked.keys, asked.q) = {}
    /\ asked.op = "chunk" /\ reply.status = "ok" =>
          /\ ~ChunkPanics(ChunkSizeBytes(asked.mb))
          /\ reply.value = ChunkData(asked.data, ChunkSizeBytes(asked.mb))
    /\ asked.op = "chunk" /\ reply.status = "panic" =>
          ChunkPanics(ChunkSizeBytes(asked.mb))
    /\ asked.op = "sign" /\ reply.status = "ok" =>
          reply.value = Verdict(asked.r, asked.now)

IInv == asked \in Questions /\ ReplyOK

LEMMA Computed == Spec => []IInv
<1>1. Init => IInv
    BY DEF Init, IInv, ReplyOK, NoReply
<1>2. IInv /\ [Next]_vars => IInv'
  <2> SUFFICES ASSUME IInv, [Next]_vars PROVE IInv'
      OBVIOUS
  <2>1. CASE UNCHANGED vars
      BY <2>1 DEF IInv, ReplyOK, vars
  <2>2. CASE Next
    <3>1. asked' = asked /\ asked \in Questions
        BY <2>2 DEF Next, IInv
    <3>2. CASE List
        BY <3>1, <3>2 DEF List, Says, Panicked, IInv, ReplyOK
    <3>3. CASE Cut
        BY <3>1, <3>3 DEF Cut, Says, Panicked, IInv, ReplyOK
    <3>4. CASE Verify
        BY <3>1, <3>4 DEF Verify, Says, IInv, ReplyOK
    <3> QED
        BY <2>2, <3>2, <3>3, <3>4 DEF Next
  <2> QED
      BY <2>1, <2>2
<1> QED
    BY <1>1, <1>2, PTL DEF Spec

LEMMA ListQuestion ==
    ASSUME asked \in Questions, asked.op = "list"
    PROVE  /\ ListRequestOK(asked.q) /\ asked.keys \in SUBSET Seq(Bytes)
           /\ IsFiniteSet(asked.keys)
<1>1. asked.keys \in SUBSET KeyPool /\ asked.q \in ListRequests
    BY DEF Questions
<1>2. IsFiniteSet(asked.keys)
    BY <1>1, RequestsAssumption, FS_Subset
<1> QED
    BY <1>1, <1>2, RequestsAssumption DEF ListRequestOK

LEMMA ChunkQuestion ==
    ASSUME asked \in Questions, asked.op = "chunk"
    PROVE  asked.data \in Seq(Bytes) /\ asked.mb \in Nat
<1>1. asked.data \in Bodies /\ asked.mb \in ChunkSizes
    BY DEF Questions
<1> QED
    BY <1>1, RequestsAssumption

LEMMA SignQuestion ==
    ASSUME asked \in Questions, asked.op = "sign"
    PROVE  SignRequestOK(asked.r) /\ asked.now \in Int /\ Skew \in Nat
<1>1. asked.r \in SignRequests /\ asked.now \in Clocks
    BY DEF Questions
<1> QED
    BY <1>1, RequestsAssumption DEF SignRequestOK

(* An answer of list_objects_v2 that does not say it is truncated hides no *)
(* key: each key that starts with the bytes of the prefix, wildcards of    *)
(* LIKE or not, is listed or lies under a common prefix of the answer, for *)
(* any keys, delimiter and max-keys and any prefix without LIKE's escape   *)
(* (bucket.rs:197-256).                                                    *)
THEOREM ListingsHideNothing == Spec => []ListingHidesNothing
<1>1. IInv => ListingHidesNothing
    BY ListQuestion, HidesNothing DEF IInv, ReplyOK, ListingHidesNothing, Answered
<1> QED
    BY <1>1, Computed, PTL

(* For a prefix without LIKE's wildcards and escape and a delimiter of one *)
(* byte or none, list_objects_v2 never panics on a slice, and finds,       *)
(* groups and lists the keys as S3 does, whatever the keys are             *)
(* (bucket.rs:197-256).                                                    *)
THEOREM ListingsGroupAsS3 == Spec => []ListingGroupsAsS3
<1>1. IInv => ListingGroupsAsS3
  <2> SUFFICES ASSUME IInv PROVE ListingGroupsAsS3
      OBVIOUS
  <2>1. Answered("list") => GroupsAsS3(asked.keys, asked.q, reply.value)
      BY ListQuestion, GroupsAsS3Does DEF IInv, ReplyOK, Answered
  <2>2. asked.op = "list" /\ reply.status = "panic" => ~IsPlain(asked.q)
      BY ListQuestion, PlainIsAnswered DEF IInv, ReplyOK
  <2> QED
      BY <2>1, <2>2 DEF ListingGroupsAsS3
<1> QED
    BY <1>1, Computed, PTL

(* key_count and is_truncated, which list_objects_v2 computes before it    *)
(* truncates, are true of the answer that it sends: with any max-keys that *)
(* is not negative, of any set of keys (bucket.rs:233-235).                *)
THEOREM ListingsCountHonestly == Spec => []ListingCountsHonestly
<1>1. IInv => ListingCountsHonestly
    BY ListQuestion, CountsHonestly DEF IInv, ReplyOK, ListingCountsHonestly, Answered
<1> QED
    BY <1>1, Computed, PTL

(* chunk_data cuts any body, by any size that is not zero, into chunks     *)
(* that are numbered in order, not empty, of that size but for the last,   *)
(* and that joined are the body again; the size is zero only if it was     *)
(* configured so or does not fit into 64 bits (chunker.rs:13, config.rs).  *)
THEOREM ChunksAreTheBody == Spec => []ChunksReassemble
<1>1. IInv => ChunksReassemble
  <2> SUFFICES ASSUME IInv PROVE ChunksReassemble
      OBVIOUS
  <2>1. ASSUME Answered("chunk")
        PROVE  CutsFaithfully(asked.data, ChunkSizeBytes(asked.mb), reply.value)
    <3>1. asked.data \in Seq(Bytes) /\ asked.mb \in Nat
        BY <2>1, ChunkQuestion DEF IInv, Answered
    <3>2. /\ ~ChunkPanics(ChunkSizeBytes(asked.mb))
          /\ reply.value = ChunkData(asked.data, ChunkSizeBytes(asked.mb))
        BY <2>1 DEF IInv, ReplyOK, Answered
    <3>3. ChunkSizeBytes(asked.mb) \in Nat \ {0}
        BY <3>1, <3>2, WrongSizes, RequestsAssumption DEF ChunkPanics
    <3> QED
        BY <3>1, <3>2, <3>3, ChunksCutFaithfully
  <2>2. asked.op = "chunk" /\ reply.status = "panic" =>
           asked.mb = 0 \/ asked.mb * MiB >= Word
    <3> SUFFICES ASSUME asked.op = "chunk", reply.status = "panic"
                 PROVE  asked.mb = 0 \/ asked.mb * MiB >= Word
        OBVIOUS
    <3>1. asked.mb \in Nat /\ ChunkPanics(ChunkSizeBytes(asked.mb))
        BY ChunkQuestion DEF IInv, ReplyOK
    <3>2. MiB \in Nat \ {0} /\ Word \in Nat \ {0}
        BY RequestsAssumption
    <3> QED
        BY <3>1, <3>2, WrongSizes
  <2> QED
      BY <2>1, <2>2 DEF ChunksReassemble
<1> QED
    BY <1>1, Computed, PTL

(* auth_middleware serves a request whose signature a client computed as   *)
(* AWS specifies only within Skew seconds of its date, in whatever format  *)
(* the request gives that; and it does serve it then, in whatever order    *)
(* its parameters come, if the date header is in ISO 8601, no name of a    *)
(* parameter or of a signed header occurs twice, and path, parameters and  *)
(* headers are sent as AWS encodes them (auth.rs:55-225).                  *)
THEOREM FreshSignaturesAreServed == Spec => []SignedRequestsAreServed
<1>1. IInv => SignedRequestsAreServed
    BY SignQuestion, SignedIsServedBy
       DEF IInv, ReplyOK, SignedRequestsAreServed, Answered
<1> QED
    BY <1>1, Computed, PTL
=============================================================================
