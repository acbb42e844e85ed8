-------------------------- MODULE ObjectStoreProofs --------------------------
(***************************************************************************)
(* What a client may rely on follows from the abstract store alone.        *)
(***************************************************************************)
EXTENDS ObjectStore, TLAPS

(* Wholeness is inductive once we know that what is being deleted has been *)
(* counted among the doomed.                                               *)
PromiseInv ==
    /\ AckedIsWhole
    /\ KeysAreUnique
    /\ deleting # None => deleting \in doomed

(* The store changes, but objects only go, and those that stay keep their  *)
(* positions unless they are doomed.                                       *)
LEMMA TakingAwayKeepsPromise ==
    ASSUME PromiseInv, catalog' \subseteq catalog, acked' = acked,
           doomed \subseteq doomed', deleting' # None => deleting' \in doomed',
           \A o \in catalog' : \A p \in Positions(o) :
              o.id \notin doomed /\ Has(o, p) => Has(o, p)'
    PROVE  PromiseInv'
  <1>1. AckedIsWhole'
    BY DEF PromiseInv, AckedIsWhole, Whole, Positions
  <1> QED
    BY <1>1 DEF PromiseInv, KeysAreUnique

LEMMA NextPromiseInv ==
    ASSUME PromiseInv, [Next]_vars
    PROVE  PromiseInv'
  <1>1. ASSUME NEW b, CreateBucket(b) PROVE PromiseInv'
    BY <1>1, TakingAwayKeepsPromise
       DEF CreateBucket, objectVars, activity, PromiseInv, Has
  <1>2. CASE DropBucket
    <2>1. \A o \in catalog' : \A p : Has(o, p) => Has(o, p)'
      BY <1>2 DEF DropBucket, Has
    <2> QED
      BY <1>2, <2>1, TakingAwayKeepsPromise DEF DropBucket, activity, PromiseInv
  <1>3. ASSUME NEW o, Begin(o) PROVE PromiseInv'
    <2>1. AckedIsWhole'
      BY <1>3 DEF Begin, PromiseInv, AckedIsWhole, Whole, Has, Positions
    <2>2. KeysAreUnique'
      BY <1>3 DEF Begin, PromiseInv, KeysAreUnique
    <2> QED
      BY <1>3, <2>1, <2>2 DEF Begin, PromiseInv
  <1>4. CASE Extend
    BY <1>4, TakingAwayKeepsPromise DEF Extend, activity, PromiseInv, Has
  <1>5. CASE Acknowledge
    <2>1. AckedIsWhole'
      BY <1>5 DEF Acknowledge, objectVars, PromiseInv, AckedIsWhole, Whole, Has,
                  Positions
    <2> QED
      BY <1>5, <2>1 DEF Acknowledge, objectVars, PromiseInv, KeysAreUnique
  <1>6. CASE BeginDelete
    BY <1>6, TakingAwayKeepsPromise DEF BeginDelete, objectVars, PromiseInv, Has
  <1>7. CASE Shrink
    <2>1. \A o : \A p : o.id \notin doomed /\ Has(o, p) => Has(o, p)'
      <3> SUFFICES ASSUME NEW o, NEW p, o.id \notin doomed, Has(o, p)
                   PROVE  Has(o, p)'
        OBVIOUS
      <3> DEFINE s == <<o.id, p>>
      <3>1. s \in stored /\ s[1] = o.id /\ o.id # deleting
        BY <1>7 DEF Has, Shrink, PromiseInv
      <3> HIDE DEF s
      <3>2. s \in stored'
        BY <1>7, <3>1 DEF Shrink
      <3> QED
        BY <3>2 DEF s, Has
    <2> QED
      BY <1>7, <2>1, TakingAwayKeepsPromise DEF Shrink, activity, PromiseInv
  <1>8. CASE Remove
    <2>1. \A o \in catalog' : \A p : Has(o, p) => Has(o, p)'
      BY <1>8 DEF Remove, Has
    <2> QED
      BY <1>8, <2>1, TakingAwayKeepsPromise DEF Remove
  <1>9. CASE GiveUp
    BY <1>9, TakingAwayKeepsPromise DEF GiveUp, objectVars, Has
  <1>10. CASE UNCHANGED vars
    BY <1>10, TakingAwayKeepsPromise DEF vars, objectVars, activity, PromiseInv, Has
  <1> QED
    BY <1>1, <1>2, <1>3, <1>4, <1>5, <1>6, <1>7, <1>8, <1>9, <1>10 DEF Next

(* An acknowledged object that nobody began to delete is whole as long as  *)
(* it is in the catalog, and a name means one object: the two promises of  *)
(* put_object (object.rs), of any store that takes the steps of            *)
(* ObjectStore.                                                            *)
THEOREM StoreKeepsPromises == Spec => [](AckedIsWhole /\ KeysAreUnique)
  <1>1. Init => PromiseInv
    BY DEF Init, PromiseInv, AckedIsWhole, KeysAreUnique
  <1>2. PromiseInv /\ [Next]_vars => PromiseInv'
    BY NextPromiseInv
  <1>3. PromiseInv => AckedIsWhole /\ KeysAreUnique
    BY DEF PromiseInv
  <1> QED
    BY <1>1, <1>2, <1>3, PTL DEF Spec
=============================================================================
