---------------------------- MODULE DetectorProofs ---------------------------
(***************************************************************************)
(* Proofs about what the analyzer counts, each for every value of the      *)
(* constants: the rate limiter, the sustained downloads of a client, the   *)
(* patterns of its connections, the campaigns of a subnet, and the         *)
(* profiles of its clock and entropy.  Each component keeps a count beside *)
(* what it counts, ages both, and says something of a client from it; the  *)
(* invariants say that the count and the counted never part.               *)
(***************************************************************************)
EXTENDS RateLimit, Sustained, Patterns, Campaign, Profiles, FiniteSetTheorems, SequenceTheorems,
        WellFoundedInduction, TLAPS

-----------------------------------------------------------------------------
(* Numbers and sequences. *)

\* A set of numbers that is not empty has a least one, and it is its Min.
LEMMA SmallestOf ==
  ASSUME NEW S \in SUBSET Nat, S # {}
  PROVE  Min(S) \in S /\ \A y \in S : Min(S) <= y
<1>1. PICK d \in S : \A e \in S : ~ (<<e, d>> \in OpToRel(<, Nat))
  BY WFMin, NatLessThanWellFounded
<1>2. \A e \in S : d <= e
  <2> SUFFICES ASSUME NEW e \in S, e < d PROVE FALSE
    OBVIOUS
  <2>1. <<e, d>> \in OpToRel(<, Nat)
    BY DEF OpToRel
  <2> QED BY <1>1, <2>1
<1> QED BY <1>2 DEF Min
-----------------------------------------------------------------------------
(***************************************************************************)
(* The rate limiter: a bucket is refilled by what time earned it and a     *)
(* call takes the bucket that was found or put for its key.                *)
(***************************************************************************)

RLAnyKey == RLKeys["ip"] \cup RLKeys["asn"] \cup {RLUnknown}

RLBuckets == [kind : RLKinds, key : RLAnyKey, tokens : Nat, rate : RLRates, seen : Nat]

RLCallStates ==
  [pc : {"idle"}]
    \cup [pc : {"lookup", "insert"}, kind : RLKinds, key : RLAnyKey, asn : RLAnyKey]
    \cup [pc : {"take"}, kind : RLKinds, key : RLAnyKey, asn : RLAnyKey, bucket : Nat]

RLTyped ==
  /\ DOMAIN rlTable = RLKinds
  /\ rlRate \in [RLKinds -> RLRates]
  /\ rlNow \in Nat
  /\ rlBucket \in Seq(RLBuckets) /\ rlCredit \in Seq(Nat) /\ rlSpent \in Seq(Nat)
  /\ Len(rlCredit) = Len(rlBucket) /\ Len(rlSpent) = Len(rlBucket)
  /\ rlReq \in [RLRequests -> RLCallStates]
  /\ \A r \in RLRequests : rlReq[r].pc = "take" => rlReq[r].bucket \in DOMAIN rlBucket

\* An entry of a table points at a bucket made for its key, at the rate in force.
RLEntries(kind) ==
  /\ IsFiniteSet(DOMAIN rlTable[kind])
  /\ Cardinality(DOMAIN rlTable[kind]) <= RLMaxEntries
  /\ \A k \in DOMAIN rlTable[kind] :
       /\ rlTable[kind][k] \in DOMAIN rlBucket
       /\ rlBucket[rlTable[kind][k]].kind = kind
       /\ rlBucket[rlTable[kind][k]].rate = rlRate[kind]

\* What a bucket gave out, what it holds and what its idle time has earned it since
\* it was last settled are together no more than its credit.
RLSettled(b) ==
  /\ rlBucket[b].seen <= rlNow
  /\ rlSpent[b] + rlBucket[b].tokens + (rlNow - rlBucket[b].seen) * rlBucket[b].rate
       <= rlCredit[b]

RLInv ==
  /\ RLTyped
  /\ \A kind \in RLKinds : RLEntries(kind)
  /\ \A b \in DOMAIN rlBucket : RLSettled(b)

LEMMA BucketFields ==
  ASSUME RLInv, NEW b \in DOMAIN rlBucket
  PROVE  /\ rlBucket[b] \in RLBuckets
         /\ rlBucket[b].tokens \in Nat /\ rlBucket[b].seen \in Nat /\ rlBucket[b].rate \in Nat
         /\ rlBucket[b].kind \in RLKinds /\ rlBucket[b].rate \in RLRates
         /\ rlCredit[b] \in Nat /\ rlSpent[b] \in Nat
         /\ b \in DOMAIN rlCredit /\ b \in DOMAIN rlSpent
         /\ b \in 1..Len(rlBucket)
<1>1. DOMAIN rlBucket = 1..Len(rlBucket) /\ DOMAIN rlCredit = 1..Len(rlBucket)
      /\ DOMAIN rlSpent = 1..Len(rlBucket)
  BY LenProperties DEF RLInv, RLTyped
<1>2. rlBucket[b] \in RLBuckets /\ rlCredit[b] \in Nat /\ rlSpent[b] \in Nat
  BY <1>1, ElementOfSeq DEF RLInv, RLTyped
<1> QED
  BY <1>1, <1>2, RateLimitAssumption DEF RLBuckets

\* Refilling credits no more than the idle time earned.
LEMMA RefilledBounds ==
  ASSUME RLInv, NEW b \in DOMAIN rlBucket
  PROVE  /\ refilled(rlBucket[b]) \in Nat
         /\ refilled(rlBucket[b]) <= rlBucket[b].tokens
                                       + (rlNow - rlBucket[b].seen) * rlBucket[b].rate
<1>1. PICK t \in Nat, s \in Nat, q \in Nat, n \in Nat :
        /\ t = rlBucket[b].tokens /\ s = rlBucket[b].seen /\ q = rlBucket[b].rate
        /\ n = rlNow
  BY BucketFields DEF RLInv, RLTyped
<1>2. s <= n
  BY <1>1 DEF RLInv, RLSettled
<1>3. (n - s) * q \in Nat
  <2>1. n - s \in Nat
    BY <1>2
  <2> QED
    BY <2>1
<1>4. PICK m : m = t + (n - s) * q
  OBVIOUS
<1>5. m \in Nat
  BY <1>3, <1>4
<1>6. {m, RLBurst} \in SUBSET Nat /\ {m, RLBurst} # {}
  BY <1>5, RateLimitAssumption
<1>7. Min({m, RLBurst}) \in Nat /\ Min({m, RLBurst}) <= m
  BY <1>6, SmallestOf
<1>8. refilled(rlBucket[b]) = Min({m, RLBurst})
  BY <1>1, <1>4 DEF refilled
<1> QED
  BY <1>1, <1>4, <1>7, <1>8

\* A table that made room and took a key.
LEMMA RoomMade ==
  ASSUME NEW T, IsFiniteSet(DOMAIN T), Cardinality(DOMAIN T) <= RLMaxEntries,
         NEW U \in evicted(T), NEW key, key \notin DOMAIN T, NEW b
  PROVE  /\ IsFiniteSet(DOMAIN putLimiter(U, key, b))
         /\ Cardinality(DOMAIN putLimiter(U, key, b)) <= RLMaxEntries
         /\ key \in DOMAIN putLimiter(U, key, b)
         /\ DOMAIN putLimiter(U, key, b) \subseteq DOMAIN T \cup {key}
         /\ putLimiter(U, key, b)[key] = b
         /\ \A x \in DOMAIN putLimiter(U, key, b) :
              x # key => putLimiter(U, key, b)[x] = T[x]
<1>1. Cardinality(DOMAIN T) \in Nat
  BY FS_CardinalityType
<1>2. /\ DOMAIN U \subseteq DOMAIN T
      /\ \A x \in DOMAIN U : U[x] = T[x]
      /\ IsFiniteSet(DOMAIN U)
      /\ Cardinality(DOMAIN U) \in Nat /\ Cardinality(DOMAIN U) < RLMaxEntries
  <2>1. CASE Cardinality(DOMAIN T) < RLMaxEntries
    <3>1. U = T
      BY <2>1 DEF evicted
    <3> QED
      BY <3>1, <2>1, <1>1
  <2>2. CASE ~(Cardinality(DOMAIN T) < RLMaxEntries)
    <3>1. PICK k \in DOMAIN T : U = Restrict(T, DOMAIN T \ {k})
      BY <2>2 DEF evicted
    <3>2. DOMAIN U = DOMAIN T \ {k} /\ \A x \in DOMAIN U : U[x] = T[x]
      BY <3>1 DEF Restrict
    <3>3. IsFiniteSet(DOMAIN U) /\ Cardinality(DOMAIN U) = Cardinality(DOMAIN T) - 1
      BY <3>1, <3>2, FS_RemoveElement
    <3>4. Cardinality(DOMAIN U) \in Nat
      BY <3>3, FS_CardinalityType
    <3> QED
      BY <3>2, <3>3, <3>4, <1>1, RateLimitAssumption
  <2> QED
    BY <2>1, <2>2
<1>3. /\ DOMAIN putLimiter(U, key, b) = DOMAIN U \cup {key}
      /\ \A x \in DOMAIN U \cup {key} : putLimiter(U, key, b)[x] = IF x = key THEN b ELSE U[x]
  BY DEF putLimiter
<1>4. IsFiniteSet(DOMAIN U \cup {key}) /\ Cardinality(DOMAIN U \cup {key}) = Cardinality(DOMAIN U) + 1
  BY <1>2, FS_AddElement
<1> QED
  BY <1>2, <1>3, <1>4, RateLimitAssumption

\* A step that only moves a call on.
LEMMA CallMoves ==
  ASSUME RLInv, NEW r \in RLRequests, NEW c \in RLCallStates,
         c.pc = "take" => c.bucket \in DOMAIN rlBucket,
         rlReq' = [rlReq EXCEPT ![r] = c],
         UNCHANGED <<rlTable, rlBucket, rlRate, rlNow, rlCredit, rlSpent>>
  PROVE  RLInv'
<1>1. RLTyped'
  BY DEF RLInv, RLTyped
<1> QED
  BY <1>1 DEF RLInv, RLEntries, RLSettled

LEMMA CallFields ==
  ASSUME RLInv, NEW r \in RLRequests
  PROVE  /\ rlReq[r].pc \in {"idle", "lookup", "insert", "take"}
         /\ rlReq[r].pc # "idle"
              => /\ rlReq[r].kind \in RLKinds /\ rlReq[r].key \in RLAnyKey
                 /\ rlReq[r].asn \in RLAnyKey
         /\ rlReq[r].pc = "take" => rlReq[r].bucket \in DOMAIN rlBucket
BY DEF RLInv, RLTyped, RLCallStates

LEMMA HeldState ==
  ASSUME NEW q, q.kind \in RLKinds, q.key \in RLAnyKey, q.asn \in RLAnyKey, NEW id \in Nat
  PROVE  withBucket(q, id) \in RLCallStates /\ withBucket(q, id).pc = "take" /\ withBucket(q, id).bucket = id
BY DEF withBucket, RLCallStates

LEMMA AllowKeeps ==
  ASSUME RLInv, NEW r \in RLRequests, Allow(r)
  PROVE  RLInv'
<1>1. PICK ip \in RLKeys["ip"], asn \in RLKeys["asn"] \cup {RLUnknown} :
        rlReq' = [rlReq EXCEPT ![r] = [pc |-> "lookup", kind |-> "ip", key |-> ip, asn |-> asn]]
  BY DEF Allow
<1>2. [pc |-> "lookup", kind |-> "ip", key |-> ip, asn |-> asn] \in RLCallStates
  BY DEF RLCallStates, RLAnyKey, RLKinds
<1>3. UNCHANGED <<rlTable, rlBucket, rlRate, rlNow, rlCredit, rlSpent>>
  BY DEF Allow
<1> QED
  BY <1>1, <1>2, <1>3, CallMoves

LEMMA LookupKeeps ==
  ASSUME RLInv, NEW r \in RLRequests, lookupLimiter(r)
  PROVE  RLInv'
<1>1. /\ rlReq[r].pc = "lookup"
      /\ rlReq[r].kind \in RLKinds /\ rlReq[r].key \in RLAnyKey /\ rlReq[r].asn \in RLAnyKey
      /\ rlReq[r] \in [pc : {"lookup", "insert"}, kind : RLKinds, key : RLAnyKey, asn : RLAnyKey]
  BY CallFields DEF lookupLimiter, RLInv, RLTyped, RLCallStates
<1>2. PICK q, T : q = rlReq[r] /\ T = rlTable[rlReq[r].kind]
  OBVIOUS
<1>3. PICK c : c = IF q.key \in DOMAIN T THEN withBucket(q, T[q.key]) ELSE [q EXCEPT !.pc = "insert"]
  OBVIOUS
<1>4. /\ rlReq' = [rlReq EXCEPT ![r] = c]
      /\ UNCHANGED <<rlTable, rlBucket, rlRate, rlNow, rlCredit, rlSpent>>
  BY <1>2, <1>3 DEF lookupLimiter
<1>5. c \in RLCallStates /\ (c.pc = "take" => c.bucket \in DOMAIN rlBucket)
  <2>1. CASE q.key \in DOMAIN T
    <3>1. T[q.key] \in DOMAIN rlBucket
      BY <2>1, <1>1, <1>2 DEF RLInv, RLEntries
    <3>2. T[q.key] \in Nat
      BY <3>1, BucketFields
    <3> QED
      BY <2>1, <1>1, <1>2, <1>3, <3>1, <3>2, HeldState
  <2>2. CASE q.key \notin DOMAIN T
    BY <2>2, <1>1, <1>2, <1>3 DEF RLCallStates
  <2> QED
    BY <2>1, <2>2
<1> QED
  BY <1>4, <1>5, CallMoves

LEMMA InsertKeeps ==
  ASSUME RLInv, NEW r \in RLRequests, insertLimiter(r)
  PROVE  RLInv'
<1>1. /\ rlReq[r].pc = "insert"
      /\ rlReq[r].kind \in RLKinds /\ rlReq[r].key \in RLAnyKey /\ rlReq[r].asn \in RLAnyKey
      /\ UNCHANGED <<rlRate, rlNow>>
  BY CallFields DEF insertLimiter
<1>2. PICK q, T, b : q = rlReq[r] /\ T = rlTable[rlReq[r].kind] /\ b = Len(rlBucket) + 1
  OBVIOUS
<1>3. CASE present(rlReq[r].kind, rlReq[r].key) /\ rlReq' = [rlReq EXCEPT ![r] = withBucket(q, T[q.key])]
           /\ UNCHANGED <<rlTable, rlBucket, rlCredit, rlSpent>>
  <2>1. T[q.key] \in DOMAIN rlBucket
    BY <1>3, <1>1, <1>2 DEF RLInv, RLEntries, present
  <2>2. T[q.key] \in Nat
    BY <2>1, BucketFields
  <2>3. withBucket(q, T[q.key]) \in RLCallStates /\ withBucket(q, T[q.key]).bucket = T[q.key]
    BY <1>1, <1>2, <2>2, HeldState
  <2> QED
    BY <1>1, <1>3, <2>1, <2>3, CallMoves
<1>4. CASE ~present(rlReq[r].kind, rlReq[r].key)
  <2>1. PICK nb : nb = [kind |-> q.kind, key |-> q.key, tokens |-> RLBurst,
                        rate |-> rlRate[q.kind], seen |-> rlNow]
    OBVIOUS
  <2>2. PICK U \in evicted(T) :
          rlTable' = [rlTable EXCEPT ![q.kind] = putLimiter(U, q.key, b)]
    BY <1>2, <1>4 DEF insertLimiter
  <2>3. /\ rlBucket' = Append(rlBucket, nb)
        /\ rlReq' = [rlReq EXCEPT ![r] = withBucket(q, b)]
        /\ rlCredit' = Append(rlCredit, RLBurst) /\ rlSpent' = Append(rlSpent, 0)
    BY <1>2, <1>4, <2>1 DEF insertLimiter
  <2>4. nb \in RLBuckets /\ nb.kind = q.kind /\ nb.rate = rlRate[q.kind]
    BY <1>1, <1>2, <2>1, RateLimitAssumption DEF RLBuckets, RLInv, RLTyped
  <2>5. /\ rlBucket \in Seq(RLBuckets) /\ rlCredit \in Seq(Nat) /\ rlSpent \in Seq(Nat)
        /\ Len(rlCredit) = Len(rlBucket) /\ Len(rlSpent) = Len(rlBucket)
        /\ RLBurst \in Nat /\ Len(rlBucket) \in Nat
        /\ DOMAIN rlBucket = 1..Len(rlBucket)
    BY RateLimitAssumption, LenProperties DEF RLInv, RLTyped
  <2>6. /\ rlBucket' \in Seq(RLBuckets) /\ Len(rlBucket') = Len(rlBucket) + 1
        /\ rlBucket'[b] = nb
        /\ \A i \in 1..Len(rlBucket) : rlBucket'[i] = rlBucket[i]
    BY <2>3, <2>4, <2>5, <1>2, AppendProperties
  <2>7. /\ rlCredit' \in Seq(Nat) /\ Len(rlCredit') = Len(rlBucket) + 1
        /\ rlCredit'[b] = RLBurst
        /\ \A i \in 1..Len(rlBucket) : rlCredit'[i] = rlCredit[i]
    BY <2>3, <2>5, <1>2, AppendProperties
  <2>8. /\ rlSpent' \in Seq(Nat) /\ Len(rlSpent') = Len(rlBucket) + 1
        /\ rlSpent'[b] = 0
        /\ \A i \in 1..Len(rlBucket) : rlSpent'[i] = rlSpent[i]
    BY <2>3, <2>5, <1>2, AppendProperties
  <2>9. DOMAIN rlBucket' = 1..b /\ b \in Nat
    BY <2>5, <2>6, <1>2, LenProperties
  <2>10. withBucket(q, b) \in RLCallStates /\ withBucket(q, b).bucket = b
    BY <1>1, <1>2, <2>9, HeldState
  <2>11. RLTyped'
    <3>1. ASSUME NEW s \in RLRequests, rlReq'[s].pc = "take"
          PROVE  rlReq'[s].bucket \in DOMAIN rlBucket'
      <4>1. CASE s = r
        BY <4>1, <2>3, <2>5, <2>9, <2>10, <1>2 DEF RLInv, RLTyped
      <4>2. CASE s # r
        <5>1. rlReq'[s] = rlReq[s]
          BY <4>2, <2>3 DEF RLInv, RLTyped
        <5>2. rlReq[s].bucket \in 1..Len(rlBucket)
          BY <3>1, <5>1, <2>5 DEF RLInv, RLTyped
        <5> QED
          BY <5>1, <5>2, <2>5, <2>9, <1>2
      <4> QED
        BY <4>1, <4>2
    <3>2. rlReq' \in [RLRequests -> RLCallStates]
      BY <2>3, <2>10 DEF RLInv, RLTyped
    <3> QED
      BY <3>1, <3>2, <1>1, <1>2, <2>2, <2>6, <2>7, <2>8 DEF RLInv, RLTyped
  <2>12. ASSUME NEW kind \in RLKinds PROVE RLEntries(kind)'
    <3>1. /\ IsFiniteSet(DOMAIN rlTable[kind])
          /\ Cardinality(DOMAIN rlTable[kind]) <= RLMaxEntries
          /\ \A k \in DOMAIN rlTable[kind] :
               /\ rlTable[kind][k] \in DOMAIN rlBucket
               /\ rlBucket[rlTable[kind][k]].kind = kind
               /\ rlBucket[rlTable[kind][k]].rate = rlRate[kind]
      BY DEF RLInv, RLEntries
    <3>2. \A k \in DOMAIN rlTable[kind] :
            /\ rlTable[kind][k] \in DOMAIN rlBucket'
            /\ rlBucket'[rlTable[kind][k]] = rlBucket[rlTable[kind][k]]
      BY <3>1, <2>5, <2>6, <2>9, <1>2
    <3>3. CASE kind = q.kind
      <4>1. T = rlTable[kind] /\ q.key \notin DOMAIN T
        BY <3>3, <1>2, <1>4 DEF present
      <4>2. PICK N : N = putLimiter(U, q.key, b)
        OBVIOUS
      <4>3. /\ IsFiniteSet(DOMAIN N) /\ Cardinality(DOMAIN N) <= RLMaxEntries
            /\ DOMAIN N \subseteq DOMAIN T \cup {q.key}
            /\ N[q.key] = b
            /\ \A x \in DOMAIN N : x # q.key => N[x] = T[x]
        BY <3>1, <4>1, <4>2, <2>2, RoomMade
      <4>4. rlTable'[kind] = N
        BY <2>2, <4>2, <3>3 DEF RLInv, RLTyped
      <4>5. \A k \in DOMAIN N :
              /\ N[k] \in DOMAIN rlBucket'
              /\ rlBucket'[N[k]].kind = kind
              /\ rlBucket'[N[k]].rate = rlRate'[kind]
        <5>1. ASSUME NEW k \in DOMAIN N
              PROVE  /\ N[k] \in DOMAIN rlBucket'
                     /\ rlBucket'[N[k]].kind = kind
                     /\ rlBucket'[N[k]].rate = rlRate'[kind]
          <6>1. CASE k = q.key
            BY <6>1, <4>3, <2>4, <2>6, <2>9, <3>3, <1>1
          <6>2. CASE k # q.key
            <7>1. k \in DOMAIN T /\ N[k] = T[k]
              BY <5>1, <6>2, <4>3
            <7> QED
              BY <7>1, <4>1, <3>1, <3>2, <1>1
          <6> QED
            BY <6>1, <6>2
        <5> QED
          BY <5>1
      <4> QED
        BY <4>3, <4>4, <4>5 DEF RLEntries
    <3>4. CASE kind # q.kind
      <4>1. rlTable'[kind] = rlTable[kind]
        BY <2>2, <3>4 DEF RLInv, RLTyped
      <4> QED
        BY <4>1, <3>1, <3>2, <1>1 DEF RLEntries
    <3> QED
      BY <3>3, <3>4
  <2>13. ASSUME NEW i \in DOMAIN rlBucket' PROVE RLSettled(i)'
    <3>1. CASE i = b
      <4>1. rlBucket'[i].seen = rlNow /\ rlBucket'[i].tokens = RLBurst
            /\ rlBucket'[i].rate \in Nat /\ rlNow \in Nat
        <5>1. rlBucket'[i] = nb /\ nb.seen = rlNow /\ nb.tokens = RLBurst
          BY <3>1, <2>1, <2>6
        <5>2. nb.rate \in RLRates
          BY <2>4 DEF RLBuckets
        <5> QED
          BY <5>1, <5>2, RateLimitAssumption DEF RLInv, RLTyped
      <4> QED
        BY <4>1, <3>1, <2>5, <2>7, <2>8, <1>1 DEF RLSettled
    <3>2. CASE i # b
      <4>1. i \in 1..Len(rlBucket)
        BY <3>2, <2>9, <2>5, <1>2
      <4>2. RLSettled(i)
        BY <4>1, <2>5 DEF RLInv
      <4> QED
        BY <4>1, <4>2, <2>6, <2>7, <2>8, <1>1 DEF RLSettled
    <3> QED
      BY <3>1, <3>2
  <2> QED
    BY <2>11, <2>12, <2>13 DEF RLInv
<1> QED
  BY <1>2, <1>3, <1>4 DEF insertLimiter

LEMMA FunIsSeq ==
  ASSUME NEW S, NEW n \in Nat, NEW f \in [1..n -> S]
  PROVE  f \in Seq(S) /\ Len(f) = n
<1>1. f = [i \in 1..n |-> f[i]]
  OBVIOUS
<1>2. f \in Seq(S)
  BY <1>1, IsASeq
<1> QED
  BY <1>2, LenProperties

\* One more tick of idle time earns the rate once more.
LEMMA OneMoreTick ==
  ASSUME NEW n \in Nat, NEW s \in Nat, NEW q \in Nat
  PROVE  ((n + 1) - s) * q = (n - s) * q + q
OBVIOUS

\* A settled bucket: all its idle time is in its tokens.
LEMMA SettledNow ==
  ASSUME RLInv, NEW b \in DOMAIN rlBucket
  PROVE  /\ refilled(rlBucket[b]) \in Nat
         /\ rlSpent[b] + refilled(rlBucket[b]) <= rlCredit[b]
<1>1. PICK e : e = (rlNow - rlBucket[b].seen) * rlBucket[b].rate
  OBVIOUS
<1>2. e \in Int
  BY <1>1, BucketFields DEF RLInv, RLTyped
<1> DEFINE t == rlBucket[b].tokens
           u == refilled(rlBucket[b])
           p == rlSpent[b]
           c == rlCredit[b]
<1>6. t \in Nat /\ u \in Nat /\ p \in Nat /\ c \in Nat
  BY BucketFields, RefilledBounds
<1>3. u <= t + e
  BY <1>1, RefilledBounds
<1>4. p + t + e <= c
  BY <1>1 DEF RLInv, RLSettled
<1> HIDE DEF t, u, p, c
<1>5. p + u <= c
  BY <1>2, <1>3, <1>4, <1>6
<1> QED
  BY <1>5, <1>6 DEF p, u, c

LEMMA TakeKeeps ==
  ASSUME RLInv, NEW r \in RLRequests, takeToken(r)
  PROVE  RLInv'
<1>1. /\ rlReq[r].pc = "take"
      /\ rlReq[r].kind \in RLKinds /\ rlReq[r].key \in RLAnyKey /\ rlReq[r].asn \in RLAnyKey
      /\ rlReq[r].bucket \in DOMAIN rlBucket
      /\ UNCHANGED <<rlTable, rlRate, rlNow, rlCredit>>
  BY CallFields DEF takeToken
<1>2. PICK d, b, u : d = rlReq[r].bucket /\ b = rlBucket[rlReq[r].bucket]
                     /\ u = refilled(rlBucket[rlReq[r].bucket])
  OBVIOUS
<1>3. PICK one : one = IF u >= 1 THEN 1 ELSE 0
  OBVIOUS
<1>4. PICK nb : nb = [b EXCEPT !.tokens = u - one, !.seen = rlNow]
  OBVIOUS
<1>5. /\ d \in DOMAIN rlBucket /\ b = rlBucket[d] /\ u \in Nat
      /\ rlSpent[d] + u <= rlCredit[d]
  BY <1>1, <1>2, SettledNow
<1>6. /\ b \in RLBuckets /\ rlSpent[d] \in Nat /\ rlCredit[d] \in Nat
      /\ d \in 1..Len(rlBucket) /\ rlNow \in Nat
  BY <1>5, BucketFields DEF RLInv, RLTyped
<1>7. one \in {0, 1} /\ u - one \in Nat
  BY <1>3, <1>5
<1>8. /\ nb \in RLBuckets /\ nb.kind = b.kind /\ nb.rate = b.rate /\ nb.rate \in Nat
      /\ nb.tokens = u - one /\ nb.seen = rlNow
  BY <1>4, <1>6, <1>7, RateLimitAssumption DEF RLBuckets
<1>9. /\ rlBucket' = [rlBucket EXCEPT ![d] = nb]
      /\ rlSpent' = [rlSpent EXCEPT ![d] = rlSpent[d] + one]
  <2>1. rlBucket' = [rlBucket EXCEPT ![rlReq[r].bucket] =
                       [b EXCEPT !.tokens = u - IF u >= 1 THEN 1 ELSE 0, !.seen = rlNow]]
    BY <1>2 DEF takeToken
  <2>2. rlSpent' = [rlSpent EXCEPT ![rlReq[r].bucket] = @ + IF u >= 1 THEN 1 ELSE 0]
    BY <1>2 DEF takeToken
  <2>3. d = rlReq[r].bucket
    BY <1>2
  <2> QED
    BY <1>3, <1>4, <2>1, <2>2, <2>3
<1>10. /\ rlBucket \in Seq(RLBuckets) /\ rlSpent \in Seq(Nat) /\ Len(rlSpent) = Len(rlBucket)
       /\ rlSpent[d] + one \in Nat
       /\ DOMAIN rlBucket = 1..Len(rlBucket)
  BY <1>6, <1>7, LenProperties DEF RLInv, RLTyped
<1>11. /\ rlBucket' \in Seq(RLBuckets) /\ Len(rlBucket') = Len(rlBucket)
       /\ \A i \in 1..Len(rlBucket) : rlBucket'[i] = IF i = d THEN nb ELSE rlBucket[i]
  BY <1>6, <1>8, <1>9, <1>10, ExceptSeq
<1>12. /\ rlSpent' \in Seq(Nat) /\ Len(rlSpent') = Len(rlBucket)
       /\ \A i \in 1..Len(rlBucket) : rlSpent'[i] = IF i = d THEN rlSpent[d] + one ELSE rlSpent[i]
  BY <1>6, <1>9, <1>10, ExceptSeq
<1>13. DOMAIN rlBucket' = DOMAIN rlBucket
  BY <1>10, <1>11, LenProperties
<1>14. PICK c \in RLCallStates : rlReq' = [rlReq EXCEPT ![r] = c] /\ c.pc # "take"
  <2>1. PICK q : q = rlReq[r]
    OBVIOUS
  <2>2. \/ rlReq' = [rlReq EXCEPT ![r] = RLIdle]
        \/ rlReq' = [rlReq EXCEPT ![r] =
             [pc |-> "lookup", kind |-> "asn", key |-> q.asn, asn |-> q.asn]]
    BY <2>1 DEF takeToken
  <2>3. RLIdle \in RLCallStates /\ RLIdle.pc # "take"
    BY DEF RLIdle, RLCallStates
  <2>4. [pc |-> "lookup", kind |-> "asn", key |-> q.asn, asn |-> q.asn] \in RLCallStates
    BY <1>1, <2>1 DEF RLCallStates, RLKinds
  <2> QED
    BY <2>2, <2>3, <2>4
<1>15. RLTyped'
  BY <1>1, <1>10, <1>11, <1>12, <1>13, <1>14 DEF RLInv, RLTyped
<1>16. \A i \in DOMAIN rlBucket : rlBucket'[i].kind = rlBucket[i].kind
                                  /\ rlBucket'[i].rate = rlBucket[i].rate
  BY <1>5, <1>8, <1>10, <1>11
<1>17. \A kind \in RLKinds : RLEntries(kind)'
  BY <1>1, <1>13, <1>16 DEF RLInv, RLEntries
<1>18. ASSUME NEW i \in DOMAIN rlBucket PROVE RLSettled(i)'
  <2>1. CASE i = d
    <3>1. /\ rlBucket'[i].seen = rlNow /\ rlBucket'[i].tokens = u - one
          /\ rlBucket'[i].rate \in Nat /\ rlSpent'[i] = rlSpent[d] + one
      BY <2>1, <1>6, <1>8, <1>11, <1>12
    <3>2. (rlNow - rlNow) * rlBucket'[i].rate = 0
      BY <3>1, <1>6
    <3> QED
      BY <3>1, <3>2, <2>1, <1>1, <1>5, <1>6, <1>7 DEF RLSettled
  <2>2. CASE i # d
    <3>1. rlBucket'[i] = rlBucket[i] /\ rlSpent'[i] = rlSpent[i]
      BY <2>2, <1>10, <1>11, <1>12
    <3> QED
      BY <3>1, <1>1 DEF RLInv, RLSettled
  <2> QED
    BY <2>1, <2>2
<1> QED
  BY <1>13, <1>15, <1>17, <1>18 DEF RLInv

LEMMA SetRateKeeps ==
  ASSUME RLInv, NEW kind \in RLKinds, NEW rate \in RLRates, SetRate(kind, rate)
  PROVE  RLInv'
<1>1. /\ rlRate' = [rlRate EXCEPT ![kind] = rate]
      /\ rlBucket' = [b \in DOMAIN rlBucket |->
                    IF b \in tracked(kind) THEN setRate(rlBucket[b], rate) ELSE rlBucket[b]]
      /\ UNCHANGED <<rlTable, rlReq, rlNow, rlCredit, rlSpent>>
  BY DEF SetRate
<1>2. ASSUME NEW b \in DOMAIN rlBucket
      PROVE  /\ rlBucket'[b] \in RLBuckets
             /\ rlBucket'[b].kind = rlBucket[b].kind
             /\ RLSettled(b)'
             /\ b \in tracked(kind) => rlBucket'[b].rate = rate
             /\ b \notin tracked(kind) => rlBucket'[b] = rlBucket[b]
  <2>0. /\ rlBucket[b] \in RLBuckets /\ rlSpent[b] \in Nat /\ rlCredit[b] \in Nat
        /\ rlNow \in Nat /\ rate \in Nat
    BY BucketFields, RateLimitAssumption DEF RLInv, RLTyped
  <2>1. CASE b \in tracked(kind)
    <3>1. PICK u, old : u = refilled(rlBucket[b]) /\ old = rlBucket[b]
      OBVIOUS
    <3>2. rlBucket'[b] = [old EXCEPT !.tokens = u, !.seen = rlNow, !.rate = rate]
      BY <1>1, <2>1, <3>1 DEF setRate
    <3>3. u \in Nat /\ rlSpent[b] + u <= rlCredit[b]
      BY <3>1, SettledNow
    <3>4. /\ rlBucket'[b] \in RLBuckets /\ rlBucket'[b].kind = old.kind
          /\ rlBucket'[b].tokens = u /\ rlBucket'[b].seen = rlNow /\ rlBucket'[b].rate = rate
      BY <2>0, <3>1, <3>2, <3>3 DEF RLBuckets
    <3>5. (rlNow - rlNow) * rate = 0
      BY <2>0
    <3>6. RLSettled(b)'
      BY <1>1, <2>0, <3>3, <3>4, <3>5 DEF RLSettled
    <3> QED
      BY <2>1, <3>1, <3>4, <3>6
  <2>2. CASE b \notin tracked(kind)
    <3>1. rlBucket'[b] = rlBucket[b]
      BY <1>1, <2>2
    <3>2. RLSettled(b)'
      BY <1>1, <3>1 DEF RLInv, RLSettled
    <3> QED
      BY <2>0, <2>2, <3>1, <3>2
  <2> QED
    BY <2>1, <2>2
<1>3. /\ DOMAIN rlBucket' = DOMAIN rlBucket /\ DOMAIN rlBucket = 1..Len(rlBucket)
      /\ Len(rlBucket) \in Nat
  BY <1>1, LenProperties DEF RLInv, RLTyped
<1>4. rlBucket' \in [1..Len(rlBucket) -> RLBuckets]
  BY <1>1, <1>2, <1>3
<1>5. rlBucket' \in Seq(RLBuckets) /\ Len(rlBucket') = Len(rlBucket)
  BY <1>3, <1>4, FunIsSeq
<1>6. RLTyped'
  BY <1>1, <1>3, <1>5 DEF RLInv, RLTyped
<1>7. ASSUME NEW k2 \in RLKinds PROVE RLEntries(k2)'
  <2>1. \A k \in DOMAIN rlTable[k2] :
          /\ rlTable[k2][k] \in DOMAIN rlBucket
          /\ rlBucket[rlTable[k2][k]].kind = k2
          /\ rlBucket[rlTable[k2][k]].rate = rlRate[k2]
    BY DEF RLInv, RLEntries
  <2>2. CASE k2 = kind
    <3>1. \A k \in DOMAIN rlTable[k2] : rlTable[k2][k] \in tracked(kind)
      BY <2>2 DEF tracked, Range
    <3>2. rlRate'[k2] = rate
      BY <1>1, <2>2 DEF RLInv, RLTyped
    <3> QED
      BY <1>1, <1>2, <1>3, <2>1, <3>1, <3>2 DEF RLInv, RLEntries
  <2>3. CASE k2 # kind
    <3>1. \A k \in DOMAIN rlTable[k2] : rlTable[k2][k] \notin tracked(kind)
      <4>1. \A b \in tracked(kind) : rlBucket[b].kind = kind
        BY DEF RLInv, RLEntries, tracked, Range
      <4> QED
        BY <4>1, <2>1, <2>3
    <3>2. rlRate'[k2] = rlRate[k2]
      BY <1>1, <2>3 DEF RLInv, RLTyped
    <3> QED
      BY <1>1, <1>2, <1>3, <2>1, <3>1, <3>2 DEF RLInv, RLEntries
  <2> QED
    BY <2>2, <2>3
<1> QED
  BY <1>2, <1>3, <1>6, <1>7 DEF RLInv

LEMMA CleanupDrops ==
  ASSUME RLInv, cleanup
  PROVE  /\ UNCHANGED <<rlBucket, rlRate, rlReq, rlNow, rlCredit, rlSpent>>
         /\ DOMAIN rlTable' = RLKinds
         /\ \A kind \in RLKinds :
              /\ DOMAIN rlTable'[kind] \subseteq DOMAIN rlTable[kind]
              /\ \A k \in DOMAIN rlTable'[kind] : rlTable'[kind][k] = rlTable[kind][k]
<1>1. PICK fresh : \A kind \in RLKinds :
        /\ rlTable'[kind] = Restrict(rlTable[kind], fresh[kind])
        /\ fresh[kind] \subseteq DOMAIN rlTable[kind]
  <2>1. PICK fresh : fresh = [kind \in RLKinds |->
                {k \in DOMAIN rlTable[kind] :
                   rlBucket[rlTable[kind][k]].seen >= rlNow - RLMaxAge}]
    OBVIOUS
  <2>2. \A kind \in RLKinds :
          rlTable'[kind] = Restrict(rlTable[kind],
                             {k \in DOMAIN rlTable[kind] :
                                rlBucket[rlTable[kind][k]].seen >= rlNow - RLMaxAge})
    BY DEF cleanup
  <2>3. \A kind \in RLKinds : rlTable'[kind] = Restrict(rlTable[kind], fresh[kind])
    BY <2>1, <2>2
  <2>4. \A kind \in RLKinds : fresh[kind] \subseteq DOMAIN rlTable[kind]
    BY <2>1
  <2> QED
    BY <2>3, <2>4
<1>2. DOMAIN rlTable' = RLKinds /\ UNCHANGED <<rlBucket, rlRate, rlReq, rlNow, rlCredit, rlSpent>>
  BY DEF cleanup
<1> QED
  BY <1>1, <1>2 DEF Restrict

LEMMA RLCleanupKeeps ==
  ASSUME RLInv, cleanup
  PROVE  RLInv'
<1>1. RLTyped'
  BY CleanupDrops DEF RLInv, RLTyped
<1>2. ASSUME NEW kind \in RLKinds PROVE RLEntries(kind)'
  <2>1. /\ IsFiniteSet(DOMAIN rlTable[kind])
        /\ Cardinality(DOMAIN rlTable[kind]) <= RLMaxEntries
        /\ DOMAIN rlTable'[kind] \subseteq DOMAIN rlTable[kind]
    BY CleanupDrops DEF RLInv, RLEntries
  <2>2. /\ IsFiniteSet(DOMAIN rlTable'[kind])
        /\ Cardinality(DOMAIN rlTable'[kind]) <= Cardinality(DOMAIN rlTable[kind])
        /\ Cardinality(DOMAIN rlTable'[kind]) \in Nat
        /\ Cardinality(DOMAIN rlTable[kind]) \in Nat
    BY <2>1, FS_Subset, FS_CardinalityType
  <2>3. Cardinality(DOMAIN rlTable'[kind]) <= RLMaxEntries
    BY <2>1, <2>2, RateLimitAssumption
  <2> QED
    BY <2>2, <2>3, CleanupDrops DEF RLInv, RLEntries
<1> QED
  BY <1>1, <1>2, CleanupDrops DEF RLInv, RLSettled

LEMMA RLTickKeeps ==
  ASSUME RLInv, rlTick
  PROVE  RLInv'
<1>1. /\ rlNow' = rlNow + 1 /\ rlNow \in Nat
      /\ rlCredit' = [b \in DOMAIN rlCredit |-> rlCredit[b] + rlBucket[b].rate]
      /\ UNCHANGED <<rlTable, rlBucket, rlRate, rlReq, rlSpent>>
  BY DEF rlTick, RLInv, RLTyped
<1>2. /\ DOMAIN rlCredit = 1..Len(rlBucket) /\ DOMAIN rlBucket = 1..Len(rlBucket)
      /\ Len(rlBucket) \in Nat
  BY LenProperties DEF RLInv, RLTyped
<1>3. rlCredit' \in [1..Len(rlBucket) -> Nat]
  BY <1>1, <1>2, BucketFields
<1>4. rlCredit' \in Seq(Nat) /\ Len(rlCredit') = Len(rlBucket)
  BY <1>2, <1>3, FunIsSeq
<1>5. RLTyped'
  BY <1>1, <1>4 DEF RLInv, RLTyped
<1>6. ASSUME NEW b \in DOMAIN rlBucket PROVE RLSettled(b)'
  <2>1. PICK t \in Nat, s \in Nat, q \in Nat, n \in Nat, p \in Nat, c \in Nat :
          /\ t = rlBucket[b].tokens /\ s = rlBucket[b].seen /\ q = rlBucket[b].rate
          /\ n = rlNow /\ p = rlSpent[b] /\ c = rlCredit[b]
    BY <1>1, BucketFields
  <2>2. s <= n /\ p + t + (n - s) * q <= c
    BY <2>1 DEF RLInv, RLSettled
  <2>3. PICK e : e = (n - s) * q
    OBVIOUS
  <2>4. e \in Int /\ ((n + 1) - s) * q = e + q
    BY <2>3, OneMoreTick
  <2>5. p + t + ((n + 1) - s) * q <= c + q /\ s <= n + 1
    BY <2>2, <2>3, <2>4
  <2>6. rlCredit'[b] = c + q
    BY <1>1, <1>2, <2>1
  <2> QED
    BY <1>1, <2>1, <2>5, <2>6 DEF RLSettled
<1> QED
  BY <1>1, <1>5, <1>6 DEF RLInv, RLEntries

LEMMA RateLimitInitial == RateLimitInit => RLInv
<1> SUFFICES ASSUME RateLimitInit PROVE RLInv
  OBVIOUS
<1>1. \A kind \in RLKinds : DOMAIN rlTable[kind] = {}
  BY DEF RateLimitInit
<1>2. rlBucket \in Seq(RLBuckets) /\ rlCredit \in Seq(Nat) /\ rlSpent \in Seq(Nat)
      /\ Len(rlBucket) = 0 /\ Len(rlCredit) = 0 /\ Len(rlSpent) = 0
      /\ DOMAIN rlBucket = {}
  BY EmptySeq DEF RateLimitInit
<1>3. rlReq \in [RLRequests -> RLCallStates] /\ \A r \in RLRequests : rlReq[r].pc = "idle"
  BY DEF RateLimitInit, RLIdle, RLCallStates
<1>4. RLTyped
  BY <1>2, <1>3, RateLimitAssumption DEF RateLimitInit, RLTyped
<1>5. IsFiniteSet({}) /\ Cardinality({}) = 0
  BY FS_EmptySet
<1>6. \A kind \in RLKinds : RLEntries(kind)
  BY <1>1, <1>5, RateLimitAssumption DEF RLEntries
<1> QED
  BY <1>2, <1>4, <1>6 DEF RLInv

LEMMA RateLimitInductive == RLInv /\ [RateLimitNext]_rateLimitVars => RLInv'
<1> SUFFICES ASSUME RLInv, [RateLimitNext]_rateLimitVars
             PROVE  RLInv'
  OBVIOUS
<1>1. CASE UNCHANGED rateLimitVars
  BY <1>1 DEF rateLimitVars, RLInv, RLTyped, RLEntries, RLSettled
<1>2. CASE RateLimitNext
  BY <1>2, RateLimitAssumption, AllowKeeps, LookupKeeps, InsertKeeps, TakeKeeps,
     SetRateKeeps, RLCleanupKeeps, RLTickKeeps DEF RateLimitNext
<1> QED
  BY <1>1, <1>2

\* A tracked bucket is replaced by no other.
LEMMA BucketsStay ==
  ASSUME RLInv, [RateLimitNext]_rateLimitVars, NEW kind \in RLKinds,
         NEW k \in DOMAIN rlTable[kind] \cap DOMAIN rlTable'[kind]
  PROVE  rlTable'[kind][k] = rlTable[kind][k]
<1>1. CASE UNCHANGED rlTable
  BY <1>1
<1>2. CASE cleanup
  BY <1>2, CleanupDrops
<1>3. ASSUME NEW r \in RLRequests, insertLimiter(r)
      PROVE  rlTable'[kind][k] = rlTable[kind][k]
  <2>1. CASE ~present(rlReq[r].kind, rlReq[r].key)
    <3>1. PICK q, T, b : q = rlReq[r] /\ T = rlTable[rlReq[r].kind] /\ b = Len(rlBucket) + 1
      OBVIOUS
    <3>2. PICK U \in evicted(T) :
            rlTable' = [rlTable EXCEPT ![q.kind] = putLimiter(U, q.key, b)]
      BY <1>3, <2>1, <3>1 DEF insertLimiter
    <3>3. q.kind \in RLKinds
      BY <1>3, <3>1, CallFields DEF insertLimiter
    <3>4. CASE kind = q.kind
      <4>1. /\ T = rlTable[kind] /\ q.key \notin DOMAIN T
            /\ IsFiniteSet(DOMAIN T) /\ Cardinality(DOMAIN T) <= RLMaxEntries
        BY <2>1, <3>1, <3>4 DEF present, RLInv, RLEntries
      <4>2. PICK N : N = putLimiter(U, q.key, b)
        OBVIOUS
      <4>3. \A x \in DOMAIN N : x # q.key => N[x] = T[x]
        BY <3>2, <4>1, <4>2, RoomMade
      <4>4. rlTable'[kind] = N
        BY <3>2, <3>4, <4>2 DEF RLInv, RLTyped
      <4> QED
        BY <4>1, <4>3, <4>4
    <3>5. CASE kind # q.kind
      BY <3>2, <3>5 DEF RLInv, RLTyped
    <3> QED
      BY <3>4, <3>5
  <2>2. CASE present(rlReq[r].kind, rlReq[r].key)
    BY <1>1, <1>3, <2>2 DEF insertLimiter
  <2> QED
    BY <2>1, <2>2
<1>4. CASE UNCHANGED rateLimitVars
  BY <1>1, <1>4 DEF rateLimitVars
<1> QED
  BY <1>1, <1>2, <1>3, <1>4
  DEF RateLimitNext, Allow, lookupLimiter, takeToken, SetRate, rlTick

\* For any number of callers, keys, rates and buckets: the tables keep their cap, no
\* bucket gives out more than its burst and what the rates in force earned it, a
\* rate change reaches every tracked key, and first requests of one key share a
\* bucket (AllowIP, AllowASN, SetIPRate, evictOldestLocked, cleanup).
THEOREM LimitsAreKept == RateLimitSpec => LimitsHold
<1>1. RateLimitInit => RLInv
  BY RateLimitInitial
<1>2. RLInv /\ [RateLimitNext]_rateLimitVars => RLInv'
  BY RateLimitInductive
<1>3. RLInv => RLTableBounded /\ RLRateCurrent
  BY DEF RLInv, RLEntries, RLTableBounded, RLRateCurrent, Range
<1>4. RLInv => RLNoOverdraft
  <2> SUFFICES ASSUME RLInv, NEW b \in DOMAIN rlBucket
               PROVE  rlSpent[b] + rlBucket[b].tokens <= rlCredit[b]
    BY DEF RLNoOverdraft
  <2>1. PICK e : e = (rlNow - rlBucket[b].seen) * rlBucket[b].rate
    OBVIOUS
  <2>2. e \in Nat
    <3>1. rlNow - rlBucket[b].seen \in Nat /\ rlBucket[b].rate \in Nat
      BY BucketFields DEF RLInv, RLTyped, RLSettled
    <3> QED
      BY <2>1, <3>1
  <2>3. rlSpent[b] + rlBucket[b].tokens + e <= rlCredit[b]
    BY <2>1 DEF RLInv, RLSettled
  <2> QED
    BY <2>2, <2>3, BucketFields
<1>5. RLInv /\ [RateLimitNext]_rateLimitVars
        => [\A kind \in RLKinds : \A k \in DOMAIN rlTable[kind] \cap DOMAIN rlTable'[kind] :
              rlTable'[kind][k] = rlTable[kind][k]]_rateLimitVars
  BY BucketsStay
<1> QED
  BY <1>1, <1>2, <1>3, <1>4, <1>5, PTL DEF RateLimitSpec, LimitsHold, RLKeepsBucket

-----------------------------------------------------------------------------
(***************************************************************************)
(* Sustained downloads: a client counts a section once for each resource   *)
(* of it that it holds, whatever was added, moved, aged or pushed out.     *)
(***************************************************************************)

SusEntries == [key : SusResources, age : 0..(SusWindow + 1)]

SusClientType ==
  [req : [SusAges -> Int], bytes : [SusAges -> Int], res : Seq(SusEntries),
   refs : [SusSections -> Nat], seen : Nat, pub : {SusNone} \cup Nat, sel : {SusNone} \cup 0..SusMaxHold]

SusKeys(res) == {res[i].key : i \in DOMAIN res}
SusKeysIn(res, s) == {k \in SusKeys(res) : SusSectionOf[k] = s}

SusDistinct(res) == \A i, j \in DOMAIN res : res[i].key = res[j].key => i = j
SusByAge(res) == \A i, j \in DOMAIN res : i < j => res[i].age <= res[j].age

\* A client counts a section once for each resource of it that it holds; it holds
\* no resource twice, and the newer one in front.
SusCounts(refs, res) == \A s \in SusSections : refs[s] = Cardinality(SusKeysIn(res, s))

SusClientOk(c) ==
  /\ c \in SusClientType
  /\ SusDistinct(c.res) /\ SusByAge(c.res)
  /\ SusCounts(c.refs, c.res)

\* What it holds is the end of its walk.
SusOnWalk(res, walk) ==
  /\ Len(res) <= Len(walk)
  /\ \A i \in 1..Len(res) : res[i].key = walk[i]

SusWalkOk(walk) ==
  /\ walk \in Seq(SusResources)
  /\ \A i, j \in DOMAIN walk : walk[i] = walk[j] => i = j

LEMMA SusSectionsOf ==
  ASSUME NEW k \in SusResources
  PROVE  SusSectionOf[k] \in SusSections
BY SusAssumption DEF SusSections, Range

LEMMA SusRes ==
  ASSUME NEW res \in Seq(SusEntries)
  PROVE  /\ Len(res) \in Nat /\ DOMAIN res = 1..Len(res)
         /\ \A i \in 1..Len(res) : /\ res[i] \in SusEntries
                                   /\ res[i].key \in SusResources
                                   /\ res[i].age \in 0..(SusWindow + 1)
                                   /\ res[i].age \in Nat
<1>1. Len(res) \in Nat /\ DOMAIN res = 1..Len(res)
  BY LenProperties
<1>2. \A i \in 1..Len(res) : res[i] \in SusEntries
  BY ElementOfSeq
<1>3. \A e \in SusEntries : e.key \in SusResources /\ e.age \in 0..(SusWindow + 1) /\ e.age \in Nat
  BY SusAssumption DEF SusEntries
<1> QED
  BY <1>1, <1>2, <1>3

LEMMA SusFinite ==
  ASSUME NEW res \in Seq(SusEntries), NEW s
  PROVE  IsFiniteSet(SusKeysIn(res, s)) /\ Cardinality(SusKeysIn(res, s)) \in Nat
<1>1. SusKeysIn(res, s) \subseteq SusResources
  BY SusRes DEF SusKeysIn, SusKeys
<1> QED
  BY <1>1, FS_Subset, FS_CardinalityType, SusAssumption

\* The places of a section and its keys are as many.
LEMMA SusPlaces ==
  ASSUME NEW res \in Seq(SusEntries), SusDistinct(res), NEW s
  PROVE  /\ Cardinality(inSection(res, s)) = Cardinality(SusKeysIn(res, s))
         /\ Cardinality(inSection(res, s)) \in Nat
<1> DEFINE f == [i \in inSection(res, s) |-> res[i].key]
<1>1. inSection(res, s) \subseteq 1..Len(res) /\ Len(res) \in Nat
  BY SusRes DEF inSection
<1>2. IsFiniteSet(inSection(res, s))
  <2>1. 1 \in Int /\ Len(res) \in Int
    BY <1>1
  <2>2. IsFiniteSet(1..Len(res))
    BY <2>1, FS_Interval
  <2> QED
    BY <1>1, <2>2, FS_Subset
<1>3. f \in Bijection(inSection(res, s), SusKeysIn(res, s))
  <2>1. f \in [inSection(res, s) -> SusKeysIn(res, s)]
    BY DEF inSection, SusKeysIn, SusKeys
  <2>2. \A i, j \in inSection(res, s) : f[i] = f[j] => i = j
    BY DEF inSection, SusDistinct
  <2>3. \A k \in SusKeysIn(res, s) : \E i \in inSection(res, s) : f[i] = k
    BY DEF inSection, SusKeysIn, SusKeys
  <2> QED
    BY <2>1, <2>2, <2>3 DEF Bijection, Injection, Surjection, IsInjective
<1>4. ExistsBijection(inSection(res, s), SusKeysIn(res, s))
  BY <1>3 DEF ExistsBijection
<1> QED
  BY <1>2, <1>4, FS_Bijection, FS_CardinalityType

\* A part of a sequence, and a sequence less one of its places.
LEMMA SusPart ==
  ASSUME NEW S, NEW seq \in Seq(S), NEW m \in 1..(Len(seq) + 1), NEW n \in 0..Len(seq)
  PROVE  /\ SubSeq(seq, m, n) \in Seq(S)
         /\ Len(SubSeq(seq, m, n)) = IF m <= n THEN n - m + 1 ELSE 0
         /\ \A i \in 1..(n - m + 1) : SubSeq(seq, m, n)[i] = seq[m + i - 1]
<1>1. Len(seq) \in Nat /\ \A i \in 1..Len(seq) : seq[i] \in S
  BY LenProperties, ElementOfSeq
<1>2. m \in Int /\ n \in Int /\ \A i \in m..n : i \in 1..Len(seq)
  BY <1>1
<1>3. \A i \in m..n : seq[i] \in S
  BY <1>1, <1>2
<1> QED
  BY <1>2, <1>3, SubSeqProperties

LEMMA SusRemoved ==
  ASSUME NEW S, NEW seq \in Seq(S), NEW m \in 1..Len(seq)
  PROVE  /\ RemoveAt(seq, m) \in Seq(S)
         /\ Len(RemoveAt(seq, m)) = Len(seq) - 1
         /\ \A i \in 1..(Len(seq) - 1) :
              RemoveAt(seq, m)[i] = IF i < m THEN seq[i] ELSE seq[i + 1]
<1>0. Len(seq) \in Nat
  BY LenProperties
<1> DEFINE a == SubSeq(seq, 1, m - 1)  b == SubSeq(seq, m + 1, Len(seq))
<1>1. /\ 1 \in 1..(Len(seq) + 1) /\ m - 1 \in 0..Len(seq)
      /\ m + 1 \in 1..(Len(seq) + 1) /\ Len(seq) \in 0..Len(seq)
  BY <1>0
<1>2. /\ a \in Seq(S) /\ Len(a) = IF 1 <= m - 1 THEN m - 1 - 1 + 1 ELSE 0
      /\ \A i \in 1..(m - 1 - 1 + 1) : a[i] = seq[1 + i - 1]
  BY <1>1, SusPart
<1>3. /\ b \in Seq(S) /\ Len(b) = IF m + 1 <= Len(seq) THEN Len(seq) - (m + 1) + 1 ELSE 0
      /\ \A i \in 1..(Len(seq) - (m + 1) + 1) : b[i] = seq[m + 1 + i - 1]
  BY <1>1, SusPart
<1>4. /\ a \o b \in Seq(S) /\ Len(a \o b) = Len(a) + Len(b)
      /\ \A i \in 1..(Len(a) + Len(b)) : (a \o b)[i] = IF i <= Len(a) THEN a[i] ELSE b[i - Len(a)]
  BY <1>2, <1>3, ConcatProperties
<1>5. RemoveAt(seq, m) = a \o b
  BY DEF RemoveAt
<1> HIDE DEF a, b
<1>6. Len(a) = m - 1 /\ Len(b) = Len(seq) - m
  BY <1>0, <1>2, <1>3
<1>7. \A i \in 1..(Len(seq) - 1) : (a \o b)[i] = IF i < m THEN seq[i] ELSE seq[i + 1]
  <2> SUFFICES ASSUME NEW i \in 1..(Len(seq) - 1)
               PROVE  (a \o b)[i] = IF i < m THEN seq[i] ELSE seq[i + 1]
    OBVIOUS
  <2>1. CASE i < m
    BY <2>1, <1>0, <1>2, <1>4, <1>6
  <2>2. CASE ~(i < m)
    <3>1. (a \o b)[i] = b[i - (m - 1)] /\ i - (m - 1) \in 1..(Len(seq) - (m + 1) + 1)
      BY <2>2, <1>0, <1>4, <1>6
    <3>2. m + 1 + (i - (m - 1)) - 1 = i + 1
      BY <1>0
    <3> QED
      BY <2>2, <3>1, <3>2, <1>3
  <2> QED BY <2>1, <2>2
<1> QED
  BY <1>0, <1>4, <1>5, <1>6, <1>7

LEMMA SusPushed ==
  ASSUME NEW S, NEW seq \in Seq(S), NEW e \in S
  PROVE  /\ <<e>> \o seq \in Seq(S)
         /\ Len(<<e>> \o seq) = Len(seq) + 1
         /\ (<<e>> \o seq)[1] = e
         /\ \A i \in 2..(Len(seq) + 1) : (<<e>> \o seq)[i] = seq[i - 1]
<1>0. Len(seq) \in Nat
  BY LenProperties
<1>1. <<e>> \in Seq(S) /\ Len(<<e>>) = 1 /\ <<e>>[1] = e
  OBVIOUS
<1>2. /\ <<e>> \o seq \in Seq(S) /\ Len(<<e>> \o seq) = Len(<<e>>) + Len(seq)
      /\ \A i \in 1..(Len(<<e>>) + Len(seq)) :
           (<<e>> \o seq)[i] = IF i <= Len(<<e>>) THEN <<e>>[i] ELSE seq[i - Len(<<e>>)]
  BY <1>1, ConcatProperties
<1>3. \A i \in 1..(1 + Len(seq)) :
           (<<e>> \o seq)[i] = IF i <= 1 THEN <<e>>[i] ELSE seq[i - 1]
  BY <1>1, <1>2
<1>4. (<<e>> \o seq)[1] = e
  BY <1>0, <1>1, <1>3
<1>5. \A i \in 2..(Len(seq) + 1) : (<<e>> \o seq)[i] = seq[i - 1]
  BY <1>0, <1>3
<1> QED
  BY <1>0, <1>1, <1>2, <1>4, <1>5

\* What stays, oldest dropped, is within the resources; all it drops is stale.
LEMMA SusFresh ==
  ASSUME NEW res \in Seq(SusEntries)
  PROVE  freshPrefix(res) \in 0..Len(res)
<1> DEFINE C == {n \in 0..Len(res) : \A i \in (n + 1)..Len(res) : res[i].age > SusWindow}
<1>1. Len(res) \in Nat
  BY SusRes
<1>2. C \in SUBSET Nat /\ Len(res) \in C
  BY <1>1
<1>3. Min(C) \in C
  BY <1>2, SmallestOf
<1> QED
  BY <1>3 DEF freshPrefix

\* A prefix keeps what its client knows, and lets go of the sections of the rest.
LEMMA SusReleased ==
  ASSUME NEW res \in Seq(SusEntries), NEW refs \in [SusSections -> Nat],
         SusDistinct(res), SusByAge(res), SusCounts(refs, res), NEW n \in 0..Len(res)
  PROVE  LET kept == SubSeq(res, 1, n)
             gone == SubSeq(res, n + 1, Len(res))
         IN /\ kept \in Seq(SusEntries) /\ Len(kept) = n
            /\ \A i \in 1..n : kept[i] = res[i]
            /\ gone \in Seq(SusEntries)
            /\ SusKeys(kept) = {res[i].key : i \in 1..n}
            /\ SusDistinct(kept) /\ SusByAge(kept)
            /\ releaseSections(refs, gone) \in [SusSections -> Nat]
            /\ SusCounts(releaseSections(refs, gone), kept)
<1> DEFINE kept == SubSeq(res, 1, n)  gone == SubSeq(res, n + 1, Len(res))
<1>0. Len(res) \in Nat /\ DOMAIN res = 1..Len(res)
  BY SusRes
<1>1. /\ 1 \in 1..(Len(res) + 1) /\ n + 1 \in 1..(Len(res) + 1)
      /\ Len(res) \in 0..Len(res)
  BY <1>0
<1>2. /\ kept \in Seq(SusEntries) /\ Len(kept) = n /\ DOMAIN kept = 1..n
      /\ \A i \in 1..n : kept[i] = res[i]
  <2>1. /\ kept \in Seq(SusEntries) /\ Len(kept) = IF 1 <= n THEN n - 1 + 1 ELSE 0
        /\ \A i \in 1..(n - 1 + 1) : kept[i] = res[1 + i - 1]
    BY <1>1, SusPart
  <2>2. Len(kept) = n
    BY <2>1, <1>0
  <2>3. DOMAIN kept = 1..n
    BY <2>1, <2>2, SusRes
  <2> HIDE DEF kept
  <2> QED
    BY <2>1, <2>2, <2>3, <1>0
<1>3. /\ gone \in Seq(SusEntries) /\ DOMAIN gone = 1..(Len(res) - n)
      /\ \A i \in 1..(Len(res) - n) : gone[i] = res[n + i]
  <2>1. /\ gone \in Seq(SusEntries)
        /\ Len(gone) = IF n + 1 <= Len(res) THEN Len(res) - (n + 1) + 1 ELSE 0
        /\ \A i \in 1..(Len(res) - (n + 1) + 1) : gone[i] = res[n + 1 + i - 1]
    BY <1>1, SusPart
  <2>2. DOMAIN gone = 1..Len(gone)
    BY <2>1, SusRes
  <2> HIDE DEF gone
  <2>3. Len(gone) = Len(res) - n
    <3>1. Len(gone) = IF n + 1 <= Len(res) THEN Len(res) - (n + 1) + 1 ELSE 0
      BY <2>1
    <3>2. PICK l \in Nat : l = Len(res)
      BY <1>0
    <3> QED
      BY <3>1, <3>2
  <2>4. ASSUME NEW i \in 1..(Len(res) - n)
        PROVE  gone[i] = res[n + i]
    <3>1. i \in 1..(Len(res) - (n + 1) + 1) /\ n + 1 + i - 1 = n + i
      BY <1>0
    <3> QED
      BY <2>1, <3>1
  <2> QED
    BY <2>1, <2>2, <2>3, <2>4
<1> HIDE DEF kept, gone
<1>4. SusKeys(kept) = {res[i].key : i \in 1..n}
  BY <1>2 DEF SusKeys
<1>5. SusDistinct(kept) /\ SusByAge(kept)
  <2>1. \A i \in 1..n : i \in 1..Len(res)
    BY <1>0
  <2> QED
    BY <1>0, <1>2, <2>1 DEF SusDistinct, SusByAge
<1>6. SusDistinct(gone)
  <2>1. \A i \in 1..(Len(res) - n) : n + i \in 1..Len(res)
    BY <1>0
  <2>2. ASSUME NEW i \in 1..(Len(res) - n), NEW j \in 1..(Len(res) - n), gone[i].key = gone[j].key
        PROVE  i = j
    <3>1. res[n + i].key = res[n + j].key
      BY <1>3, <2>2
    <3>2. n + i = n + j
      BY <1>0, <2>1, <3>1 DEF SusDistinct
    <3> QED
      BY <1>0, <3>2
  <2> QED
    BY <1>3, <2>2 DEF SusDistinct
<1>7. \A s \in SusSections : refs[s] = Cardinality(SusKeysIn(kept, s)) + Cardinality(SusKeysIn(gone, s))
  <2> TAKE s \in SusSections
  <2>1. SusKeysIn(res, s) = SusKeysIn(kept, s) \cup SusKeysIn(gone, s)
    <3>1. ASSUME NEW i \in 1..Len(res)
          PROVE  res[i].key \in SusKeys(kept) \cup SusKeys(gone)
      <4>1. CASE i <= n
        <5>1. i \in 1..n
          BY <1>0, <4>1
        <5> QED BY <5>1, <1>2 DEF SusKeys
      <4>2. CASE ~(i <= n)
        <5>1. i - n \in 1..(Len(res) - n) /\ n + (i - n) = i
          BY <1>0, <4>2
        <5>2. gone[i - n] = res[i]
          BY <5>1, <1>3
        <5> QED BY <5>1, <5>2, <1>3 DEF SusKeys
      <4> QED BY <4>1, <4>2
    <3>2. \A i \in 1..n : i \in 1..Len(res)
      BY <1>0
    <3>3. \A i \in 1..(Len(res) - n) : n + i \in 1..Len(res)
      BY <1>0
    <3>4. SusKeys(kept) \subseteq SusKeys(res) /\ SusKeys(gone) \subseteq SusKeys(res)
      <4>1. \A i \in 1..n : kept[i].key \in SusKeys(res)
        BY <1>0, <1>2, <3>2 DEF SusKeys
      <4>2. \A i \in 1..(Len(res) - n) : gone[i].key \in SusKeys(res)
        <5> TAKE i \in 1..(Len(res) - n)
        <5>1. gone[i] = res[n + i] /\ n + i \in DOMAIN res
          BY <1>0, <1>3, <3>3
        <5> QED
          BY <5>1 DEF SusKeys
      <4>3. SusKeys(kept) = {kept[i].key : i \in 1..n}
        BY <1>2 DEF SusKeys
      <4>4. SusKeys(gone) = {gone[i].key : i \in 1..(Len(res) - n)}
        BY <1>3 DEF SusKeys
      <4> QED
        BY <4>1, <4>2, <4>3, <4>4
    <3>5. SusKeys(res) \subseteq SusKeys(kept) \cup SusKeys(gone)
      BY <1>0, <3>1 DEF SusKeys
    <3> QED
      BY <3>4, <3>5 DEF SusKeysIn
  <2>2. SusKeysIn(kept, s) \cap SusKeysIn(gone, s) = {}
    <3>1. ASSUME NEW i \in 1..n, NEW j \in 1..(Len(res) - n), kept[i].key = gone[j].key
          PROVE  FALSE
      <4>1. i \in DOMAIN res /\ n + j \in DOMAIN res /\ i # n + j
        BY <1>0
      <4>2. kept[i] = res[i] /\ gone[j] = res[n + j]
        BY <1>2, <1>3
      <4>3. res[i].key = res[n + j].key
        BY <4>2, <3>1
      <4> QED
        BY <4>1, <4>3 DEF SusDistinct
    <3> QED
      BY <3>1, <1>2, <1>3 DEF SusKeysIn, SusKeys
  <2>3. /\ IsFiniteSet(SusKeysIn(kept, s)) /\ Cardinality(SusKeysIn(kept, s)) \in Nat
        /\ IsFiniteSet(SusKeysIn(gone, s)) /\ Cardinality(SusKeysIn(gone, s)) \in Nat
    BY <1>2, <1>3, SusFinite
  <2>4. Cardinality(SusKeysIn(res, s)) =
          Cardinality(SusKeysIn(kept, s)) + Cardinality(SusKeysIn(gone, s)) - Cardinality({})
    BY <2>1, <2>2, <2>3, FS_Union
  <2>5. Cardinality({}) = 0
    BY FS_EmptySet
  <2> QED
    BY <2>3, <2>4, <2>5 DEF SusCounts
<1>8. ASSUME NEW s \in SusSections
      PROVE  /\ releaseSections(refs, gone)[s] = Cardinality(SusKeysIn(kept, s))
             /\ releaseSections(refs, gone)[s] \in Nat
  <2>1. /\ Cardinality(inSection(gone, s)) = Cardinality(SusKeysIn(gone, s))
        /\ Cardinality(SusKeysIn(gone, s)) \in Nat /\ Cardinality(SusKeysIn(kept, s)) \in Nat
    BY <1>2, <1>3, <1>6, SusPlaces, SusFinite
  <2>2. releaseSections(refs, gone)[s] =
          IF refs[s] > Cardinality(inSection(gone, s)) THEN refs[s] - Cardinality(inSection(gone, s)) ELSE 0
    BY DEF releaseSections
  <2> QED
    BY <2>1, <2>2, <1>7
<1>9. releaseSections(refs, gone) = [s \in SusSections |-> releaseSections(refs, gone)[s]]
  BY DEF releaseSections
<1>10. releaseSections(refs, gone) \in [SusSections -> Nat]
  BY <1>8, <1>9
<1>11. SusCounts(releaseSections(refs, gone), kept)
  BY <1>8 DEF SusCounts
<1> QED
  BY <1>2, <1>3, <1>4, <1>5, <1>10, <1>11 DEF kept, gone

LEMMA SusSet ==
  ASSUME NEW D, NEW f \in [D -> Int], NEW k, NEW v \in Int
  PROVE  [f EXCEPT ![k] = v] \in [D -> Int]
OBVIOUS

LEMMA SusPruned ==
  ASSUME NEW c, SusClientOk(c)
  PROVE  /\ SusClientOk(prune(c))
         /\ prune(c).sel = c.sel /\ Len(prune(c).res) <= Len(c.res)
         /\ \A i \in 1..Len(prune(c).res) : prune(c).res[i] = c.res[i]
<1> DEFINE n == freshPrefix(c.res)
           kept == SubSeq(c.res, 1, n)  gone == SubSeq(c.res, n + 1, Len(c.res))
<1>1. c \in SusClientType /\ c.res \in Seq(SusEntries) /\ c.refs \in [SusSections -> Nat]
  BY DEF SusClientOk, SusClientType
<1>2. n \in 0..Len(c.res) /\ Len(c.res) \in Nat
  BY <1>1, SusFresh, SusRes
<1> HIDE DEF n
<1>3. /\ kept \in Seq(SusEntries) /\ Len(kept) = n
      /\ \A i \in 1..n : kept[i] = c.res[i]
      /\ SusDistinct(kept) /\ SusByAge(kept)
      /\ releaseSections(c.refs, gone) \in [SusSections -> Nat]
      /\ SusCounts(releaseSections(c.refs, gone), kept)
  BY <1>1, <1>2, SusReleased DEF SusClientOk
<1> HIDE DEF kept, gone
<1>4. /\ prune(c).res = kept /\ prune(c).refs = releaseSections(c.refs, gone)
      /\ prune(c).sel = c.sel
  BY <1>1 DEF prune, SusClientType, kept, gone, n
<1>5. prune(c) \in SusClientType
  <2>1. /\ [c.req EXCEPT ![SusWindow + 1] = 0] \in [SusAges -> Int]
        /\ [c.bytes EXCEPT ![SusWindow + 1] = 0] \in [SusAges -> Int]
    <3>1. c.req \in [SusAges -> Int] /\ c.bytes \in [SusAges -> Int]
      BY <1>1 DEF SusClientType
    <3> QED
      BY <3>1, SusSet
  <2>2. prune(c) = [c EXCEPT !.req = [c.req EXCEPT ![SusWindow + 1] = 0],
                             !.bytes = [c.bytes EXCEPT ![SusWindow + 1] = 0],
                             !.res = kept, !.refs = releaseSections(c.refs, gone)]
    BY <1>1 DEF prune, SusClientType, kept, gone, n
  <2> QED
    BY <1>1, <1>3, <2>1, <2>2 DEF SusClientType
<1> QED
  BY <1>2, <1>3, <1>4, <1>5 DEF SusClientOk

\* The newest resource in front of what is left.
LEMMA SusAdmitted ==
  ASSUME NEW rest \in Seq(SusEntries), SusDistinct(rest), SusByAge(rest),
         NEW key \in SusResources, key \notin SusKeys(rest)
  PROVE  /\ admit(rest, key) \in Seq(SusEntries)
         /\ Len(admit(rest, key)) = Len(rest) + 1
         /\ admit(rest, key)[1].key = key
         /\ \A i \in 2..(Len(rest) + 1) : admit(rest, key)[i] = rest[i - 1]
         /\ SusKeys(admit(rest, key)) = SusKeys(rest) \cup {key}
         /\ SusDistinct(admit(rest, key)) /\ SusByAge(admit(rest, key))
<1>0. Len(rest) \in Nat /\ DOMAIN rest = 1..Len(rest)
  BY SusRes
<1>1. PICK e : e = [key |-> key, age |-> 0]
  OBVIOUS
<1>2. e \in SusEntries /\ e.key = key /\ e.age = 0
  BY <1>1, SusAssumption DEF SusEntries
<1>3. PICK new : new = admit(rest, key)
  OBVIOUS
<1>4. /\ new \in Seq(SusEntries) /\ Len(new) = Len(rest) + 1 /\ new[1] = e
      /\ \A i \in 2..(Len(rest) + 1) : new[i] = rest[i - 1]
  BY <1>1, <1>2, <1>3, SusPushed DEF admit
<1>5. DOMAIN new = 1..(Len(rest) + 1)
  BY <1>4, SusRes
<1>6. \A i \in 1..(Len(rest) + 1) : \/ i = 1 /\ new[i] = e
                                    \/ i # 1 /\ i - 1 \in DOMAIN rest /\ new[i] = rest[i - 1]
  <2> TAKE i \in 1..(Len(rest) + 1)
  <2>1. CASE i = 1
    BY <2>1, <1>4
  <2>2. CASE i # 1
    <3>1. i \in 2..(Len(rest) + 1) /\ i - 1 \in 1..Len(rest)
      BY <2>2, <1>0
    <3> QED BY <2>2, <3>1, <1>0, <1>4
  <2> QED BY <2>1, <2>2
<1>7. SusKeys(new) = SusKeys(rest) \cup {key}
  <2>1. SusKeys(new) \subseteq SusKeys(rest) \cup {key}
    BY <1>2, <1>5, <1>6 DEF SusKeys
  <2>2. key \in SusKeys(new)
    <3>1. 1 \in DOMAIN new /\ new[1].key = key
      BY <1>0, <1>2, <1>4, <1>5
    <3> QED BY <3>1 DEF SusKeys
  <2>3. \A j \in DOMAIN rest : rest[j].key \in SusKeys(new)
    <3> TAKE j \in DOMAIN rest
    <3>1. j + 1 \in 2..(Len(rest) + 1) /\ j + 1 \in DOMAIN new /\ (j + 1) - 1 = j
      BY <1>0, <1>5
    <3>2. new[j + 1] = rest[j]
      BY <3>1, <1>4
    <3> QED BY <3>1, <3>2 DEF SusKeys
  <2> QED
    BY <2>1, <2>2, <2>3 DEF SusKeys
<1>8. SusDistinct(new)
  <2> SUFFICES ASSUME NEW i \in 1..(Len(rest) + 1), NEW j \in 1..(Len(rest) + 1),
                      new[i].key = new[j].key
               PROVE  i = j
    BY <1>5 DEF SusDistinct
  <2>1. CASE i = 1 /\ j = 1
    BY <2>1
  <2>2. CASE i = 1 /\ j # 1
    <3>1. rest[j - 1].key = key /\ j - 1 \in DOMAIN rest
      BY <2>2, <1>2, <1>6
    <3> QED BY <3>1 DEF SusKeys
  <2>3. CASE i # 1 /\ j = 1
    <3>1. rest[i - 1].key = key /\ i - 1 \in DOMAIN rest
      BY <2>3, <1>2, <1>6
    <3> QED BY <3>1 DEF SusKeys
  <2>4. CASE i # 1 /\ j # 1
    <3>1. /\ rest[i - 1].key = rest[j - 1].key
          /\ i - 1 \in DOMAIN rest /\ j - 1 \in DOMAIN rest
      BY <2>4, <1>6
    <3>2. i - 1 = j - 1
      BY <3>1 DEF SusDistinct
    <3> QED BY <3>2, <1>0
  <2> QED BY <2>1, <2>2, <2>3, <2>4
<1>9. SusByAge(new)
  <2> SUFFICES ASSUME NEW i \in 1..(Len(rest) + 1), NEW j \in 1..(Len(rest) + 1), i < j
               PROVE  new[i].age <= new[j].age
    BY <1>5 DEF SusByAge
  <2>1. j # 1 /\ j - 1 \in DOMAIN rest /\ new[j] = rest[j - 1]
    BY <1>0, <1>6
  <2>2. CASE i = 1
    <3>1. rest[j - 1].age \in Nat
      BY <2>1, <1>0, SusRes
    <3> QED BY <2>1, <2>2, <3>1, <1>2, <1>6
  <2>3. CASE i # 1
    <3>1. i - 1 \in DOMAIN rest /\ new[i] = rest[i - 1] /\ i - 1 < j - 1
      BY <2>3, <1>0, <1>6
    <3> QED BY <2>1, <3>1 DEF SusByAge
  <2> QED BY <2>2, <2>3
<1> QED
  BY <1>2, <1>3, <1>4, <1>7, <1>8, <1>9

\* A resource taken out of the middle.
LEMMA SusTakenOut ==
  ASSUME NEW res \in Seq(SusEntries), SusDistinct(res), SusByAge(res), NEW m \in 1..Len(res)
  PROVE  /\ RemoveAt(res, m) \in Seq(SusEntries)
         /\ SusDistinct(RemoveAt(res, m)) /\ SusByAge(RemoveAt(res, m))
         /\ SusKeys(RemoveAt(res, m)) = SusKeys(res) \ {res[m].key}
<1>0. Len(res) \in Nat /\ DOMAIN res = 1..Len(res)
  BY SusRes
<1>1. PICK out : out = RemoveAt(res, m)
  OBVIOUS
<1>2. /\ out \in Seq(SusEntries) /\ Len(out) = Len(res) - 1
      /\ \A i \in 1..(Len(res) - 1) : out[i] = IF i < m THEN res[i] ELSE res[i + 1]
  BY <1>1, SusRemoved
<1>3. DOMAIN out = 1..(Len(res) - 1)
  BY <1>2, SusRes
<1> DEFINE at(i) == IF i < m THEN i ELSE i + 1
<1>4. \A i \in 1..(Len(res) - 1) : at(i) \in DOMAIN res /\ at(i) # m /\ out[i] = res[at(i)]
  BY <1>0, <1>2
<1>5. \A i, j \in 1..(Len(res) - 1) : /\ at(i) = at(j) => i = j
                                      /\ i < j => at(i) < at(j)
  BY <1>0
<1>6. ASSUME NEW k \in DOMAIN res, k # m
      PROVE  \E i \in 1..(Len(res) - 1) : at(i) = k
  <2>1. CASE k < m
    <3>1. k \in 1..(Len(res) - 1) /\ at(k) = k
      BY <2>1, <1>0
    <3> QED BY <3>1
  <2>2. CASE ~(k < m)
    <3>1. k - 1 \in 1..(Len(res) - 1) /\ at(k - 1) = k
      BY <2>2, <1>0, <1>6
    <3> QED BY <3>1
  <2> QED BY <2>1, <2>2
<1> HIDE DEF at
<1>7. SusDistinct(out)
  <2> SUFFICES ASSUME NEW i \in 1..(Len(res) - 1), NEW j \in 1..(Len(res) - 1),
                      out[i].key = out[j].key
               PROVE  i = j
    BY <1>3 DEF SusDistinct
  <2>1. at(i) = at(j)
    BY <1>4 DEF SusDistinct
  <2> QED BY <2>1, <1>5
<1>8. SusByAge(out)
  <2> SUFFICES ASSUME NEW i \in 1..(Len(res) - 1), NEW j \in 1..(Len(res) - 1), i < j
               PROVE  out[i].age <= out[j].age
    BY <1>3 DEF SusByAge
  <2>1. at(i) < at(j)
    BY <1>5
  <2> QED BY <2>1, <1>4 DEF SusByAge
<1>9. SusKeys(out) = SusKeys(res) \ {res[m].key}
  <2>1. ASSUME NEW i \in 1..(Len(res) - 1)
        PROVE  out[i].key \in SusKeys(res) \ {res[m].key}
    <3>1. at(i) \in DOMAIN res /\ at(i) # m /\ out[i] = res[at(i)] /\ m \in DOMAIN res
      BY <1>0, <1>4
    <3>2. res[at(i)].key # res[m].key
      BY <3>1 DEF SusDistinct
    <3> QED BY <3>1, <3>2 DEF SusKeys
  <2>2. ASSUME NEW k \in DOMAIN res, res[k].key # res[m].key
        PROVE  res[k].key \in SusKeys(out)
    <3>1. PICK i \in 1..(Len(res) - 1) : at(i) = k
      BY <1>6, <2>2
    <3> QED BY <3>1, <1>3, <1>4 DEF SusKeys
  <2>3. SusKeys(out) \subseteq SusKeys(res) \ {res[m].key}
    BY <2>1, <1>3 DEF SusKeys
  <2>4. SusKeys(res) \ {res[m].key} \subseteq SusKeys(out)
    BY <2>2 DEF SusKeys
  <2> QED BY <2>3, <2>4
<1> QED
  BY <1>1, <1>2, <1>7, <1>8, <1>9

\* The history of a walk keeps each resource once, the latest first.
LEMMA SusWalked ==
  ASSUME NEW walk, SusWalkOk(walk), NEW key \in SusResources
  PROVE  /\ SusWalkOk(walkedOn(walk, key))
         /\ walkedOn(walk, key)[1] = key
         /\ \/ /\ \A i \in DOMAIN walk : walk[i] # key
               /\ Len(walkedOn(walk, key)) = Len(walk) + 1
               /\ \A i \in 2..(Len(walk) + 1) : walkedOn(walk, key)[i] = walk[i - 1]
            \/ \E m \in 1..Len(walk) :
                 /\ walk[m] = key
                 /\ Len(walkedOn(walk, key)) = Len(walk)
                 /\ \A i \in 2..Len(walk) : walkedOn(walk, key)[i] = IF i <= m THEN walk[i - 1] ELSE walk[i]
<1>0. walk \in Seq(SusResources) /\ Len(walk) \in Nat /\ DOMAIN walk = 1..Len(walk)
  BY LenProperties DEF SusWalkOk
<1> DEFINE at == {i \in DOMAIN walk : walk[i] = key}
<1>1. PICK new : new = walkedOn(walk, key)
  OBVIOUS
<1>2. CASE at = {}
  <2>1. new = <<key>> \o walk
    BY <1>1, <1>2 DEF walkedOn
  <2>2. /\ new \in Seq(SusResources) /\ Len(new) = Len(walk) + 1 /\ new[1] = key
        /\ \A i \in 2..(Len(walk) + 1) : new[i] = walk[i - 1]
    BY <2>1, <1>0, SusPushed
  <2>3. \A i \in DOMAIN walk : walk[i] # key
    BY <1>2
  <2>4. ASSUME NEW i \in 1..(Len(walk) + 1), NEW j \in 1..(Len(walk) + 1), new[i] = new[j]
        PROVE  i = j
    <3>1. \A x \in 1..(Len(walk) + 1) : x = 1 \/ (x - 1 \in DOMAIN walk /\ new[x] = walk[x - 1])
      BY <2>2, <1>0
    <3>2. CASE i = 1 \/ j = 1
      BY <3>1, <3>2, <2>2, <2>3, <2>4
    <3>3. CASE i # 1 /\ j # 1
      <4>1. i - 1 = j - 1
        BY <3>1, <3>3, <2>4 DEF SusWalkOk
      <4> QED BY <4>1, <1>0
    <3> QED BY <3>2, <3>3
  <2>5. DOMAIN new = 1..(Len(walk) + 1)
    BY <2>2, LenProperties
  <2>6. SusWalkOk(new)
    BY <2>2, <2>4, <2>5 DEF SusWalkOk
  <2> QED
    BY <1>1, <2>2, <2>3, <2>6
<1>3. CASE at # {}
  <2>1. at \in SUBSET Nat
    BY <1>0
  <2>2. PICK m : m = Min(at)
    OBVIOUS
  <2>3. m \in 1..Len(walk) /\ walk[m] = key
    BY <2>1, <2>2, <1>0, <1>3, SmallestOf
  <2>4. PICK out : out = RemoveAt(walk, m)
    OBVIOUS
  <2>5. new = <<key>> \o out
    BY <1>1, <1>3, <2>2, <2>4 DEF walkedOn
  <2>6. /\ out \in Seq(SusResources) /\ Len(out) = Len(walk) - 1
        /\ \A i \in 1..(Len(walk) - 1) : out[i] = IF i < m THEN walk[i] ELSE walk[i + 1]
    BY <1>0, <2>3, <2>4, SusRemoved
  <2>7. /\ new \in Seq(SusResources) /\ Len(new) = Len(out) + 1 /\ new[1] = key
        /\ \A i \in 2..(Len(out) + 1) : new[i] = out[i - 1]
    BY <2>5, <2>6, SusPushed
  <2>8. Len(new) = Len(walk)
    BY <2>6, <2>7, <1>0
  <2>9. ASSUME NEW i \in 2..Len(walk)
        PROVE  new[i] = IF i <= m THEN walk[i - 1] ELSE walk[i]
    <3>1. i \in 2..(Len(out) + 1) /\ i - 1 \in 1..(Len(walk) - 1) /\ (i - 1) + 1 = i
      BY <2>6, <1>0
    <3>2. new[i] = IF i - 1 < m THEN walk[i - 1] ELSE walk[(i - 1) + 1]
      BY <3>1, <2>6, <2>7
    <3>3. i - 1 < m <=> i <= m
      BY <2>3, <1>0
    <3> QED BY <3>1, <3>2, <3>3
  <2>10. ASSUME NEW i \in 1..Len(walk), NEW j \in 1..Len(walk), new[i] = new[j]
         PROVE  i = j
    <3> DEFINE p(x) == IF x <= m THEN x - 1 ELSE x
    <3>1. \A x \in 1..Len(walk) : x = 1 \/ (p(x) \in DOMAIN walk /\ p(x) # m /\ new[x] = walk[p(x)])
      <4> TAKE x \in 1..Len(walk)
      <4>1. CASE x = 1
        BY <4>1
      <4>2. CASE x # 1
        <5>1. x \in 2..Len(walk) /\ p(x) \in DOMAIN walk /\ p(x) # m
          BY <4>2, <2>3, <1>0
        <5> QED BY <5>1, <2>9
      <4> QED BY <4>1, <4>2
    <3>2. \A x \in DOMAIN walk : walk[x] = key => x = m
      BY <2>3, <1>0 DEF SusWalkOk
    <3>3. CASE i = 1 /\ j = 1
      BY <3>3
    <3>4. CASE i = 1 /\ j # 1
      BY <3>1, <3>2, <3>4, <2>7, <2>10
    <3>5. CASE i # 1 /\ j = 1
      BY <3>1, <3>2, <3>5, <2>7, <2>10
    <3>6. CASE i # 1 /\ j # 1
      <4>1. walk[p(i)] = walk[p(j)] /\ p(i) \in DOMAIN walk /\ p(j) \in DOMAIN walk
        BY <3>1, <3>6, <2>10
      <4>2. p(i) = p(j)
        BY <4>1 DEF SusWalkOk
      <4>3. p(i) # m /\ p(j) # m
        BY <3>1, <3>6
      <4> QED BY <4>2, <4>3, <2>3, <1>0
    <3> QED BY <3>3, <3>4, <3>5, <3>6
  <2>11. DOMAIN new = 1..Len(walk)
    BY <2>7, <2>8, LenProperties
  <2>12. SusWalkOk(new)
    BY <2>7, <2>10, <2>11 DEF SusWalkOk
  <2> QED
    BY <1>1, <2>3, <2>7, <2>8, <2>9, <2>12
<1> QED
  BY <1>2, <1>3

LEMMA SusCountsBy ==
  ASSUME NEW refs, NEW r1, NEW r2, SusCounts(refs, r1), SusKeys(r1) = SusKeys(r2)
  PROVE  SusCounts(refs, r2)
BY DEF SusCounts, SusKeysIn

\* One more resource adds one to its section.
LEMMA SusCountedIn ==
  ASSUME NEW refs \in [SusSections -> Nat], NEW room \in Seq(SusEntries), SusCounts(refs, room),
         NEW new, NEW key \in SusResources, key \notin SusKeys(room),
         SusKeys(new) = SusKeys(room) \cup {key}
  PROVE  counted(refs, key) \in [SusSections -> Nat] /\ SusCounts(counted(refs, key), new)
<1>1. PICK t \in SusSections : t = SusSectionOf[key]
  BY SusSectionsOf
<1>2. PICK r : r = counted(refs, key)
  OBVIOUS
<1>3. r = [refs EXCEPT ![t] = refs[t] + 1]
  BY <1>1, <1>2 DEF counted
<1>4. r \in [SusSections -> Nat]
  BY <1>1, <1>3
<1>5. ASSUME NEW s \in SusSections
      PROVE  r[s] = Cardinality(SusKeysIn(new, s))
  <2>1. refs[s] = Cardinality(SusKeysIn(room, s)) /\ IsFiniteSet(SusKeysIn(room, s))
    BY SusFinite DEF SusCounts
  <2>2. CASE s = t
    <3>1. SusKeysIn(new, s) = SusKeysIn(room, s) \cup {key} /\ key \notin SusKeysIn(room, s)
      BY <1>1, <2>2 DEF SusKeysIn
    <3>2. Cardinality(SusKeysIn(new, s)) = Cardinality(SusKeysIn(room, s)) + 1
      BY <2>1, <3>1, FS_AddElement
    <3> QED BY <1>3, <2>1, <2>2, <3>2
  <2>3. CASE s # t
    <3>1. SusKeysIn(new, s) = SusKeysIn(room, s)
      BY <1>1, <2>3 DEF SusKeysIn
    <3> QED BY <1>3, <2>1, <2>3, <3>1
  <2> QED BY <2>2, <2>3
<1> QED
  BY <1>2, <1>4, <1>5 DEF SusCounts

LEMMA SusObserved ==
  ASSUME NEW c, SusClientOk(c), NEW key \in SusResources
  PROVE  LET o == observeResource(c, key)
             m == Min(placesOf(c.res, key))
         IN /\ SusClientOk(o) /\ o.sel = c.sel
            /\ o.res[1].key = key
            /\ \/ /\ m \in 1..Len(c.res) /\ c.res[m].key = key
                  /\ Len(o.res) = Len(c.res)
                  /\ \A i \in 2..Len(c.res) :
                       o.res[i] = IF i <= m THEN c.res[i - 1] ELSE c.res[i]
               \/ /\ \A i \in 1..Len(c.res) : c.res[i].key # key
                  /\ Len(o.res) \in 1..(Len(c.res) + 1)
                  /\ \A i \in 2..Len(o.res) : o.res[i] = c.res[i - 1]
<1>1. /\ c \in SusClientType /\ c.res \in Seq(SusEntries) /\ c.refs \in [SusSections -> Nat]
      /\ SusDistinct(c.res) /\ SusByAge(c.res) /\ SusCounts(c.refs, c.res)
  BY DEF SusClientOk, SusClientType
<1>2. Len(c.res) \in Nat /\ DOMAIN c.res = 1..Len(c.res)
  BY <1>1, SusRes
<1>3. PICK o : o = observeResource(c, key)
  OBVIOUS
<1>4. CASE placesOf(c.res, key) # {}
  <2>1. placesOf(c.res, key) \in SUBSET Nat
    BY <1>2 DEF placesOf
  <2>2. PICK m : m = Min(placesOf(c.res, key))
    OBVIOUS
  <2>3. m \in 1..Len(c.res) /\ c.res[m].key = key
    BY <1>2, <1>4, <2>1, <2>2, SmallestOf DEF placesOf
  <2>4. PICK out : out = RemoveAt(c.res, m)
    OBVIOUS
  <2>5. o = [c EXCEPT !.res = admit(out, key)]
    BY <1>1, <1>3, <1>4, <2>2, <2>4 DEF observeResource, SusClientType
  <2>6. /\ out \in Seq(SusEntries) /\ SusDistinct(out) /\ SusByAge(out)
        /\ SusKeys(out) = SusKeys(c.res) \ {key}
    BY <1>1, <2>3, <2>4, SusTakenOut
  <2>7. /\ Len(out) = Len(c.res) - 1
        /\ \A i \in 1..(Len(c.res) - 1) : out[i] = IF i < m THEN c.res[i] ELSE c.res[i + 1]
    BY <1>1, <2>3, <2>4, SusRemoved
  <2>8. PICK new : new = admit(out, key)
    OBVIOUS
  <2>9. /\ new \in Seq(SusEntries) /\ Len(new) = Len(out) + 1 /\ new[1].key = key
        /\ \A i \in 2..(Len(out) + 1) : new[i] = out[i - 1]
        /\ SusKeys(new) = SusKeys(out) \cup {key}
        /\ SusDistinct(new) /\ SusByAge(new)
    BY <2>6, <2>8, SusAdmitted
  <2>10. o.res = new /\ o.refs = c.refs /\ o.sel = c.sel /\ o \in SusClientType
    BY <1>1, <2>5, <2>8, <2>9 DEF SusClientType
  <2>11. key \in SusKeys(c.res)
    BY <1>2, <2>3 DEF SusKeys
  <2>12. SusCounts(c.refs, new)
    <3>1. SusKeys(c.res) = SusKeys(new)
      BY <2>6, <2>9, <2>11
    <3> QED BY <3>1, <1>1, SusCountsBy
  <2>13. SusClientOk(o)
    BY <2>9, <2>10, <2>12 DEF SusClientOk
  <2>14. Len(new) = Len(c.res)
    BY <1>2, <2>7, <2>9
  <2>15. ASSUME NEW i \in 2..Len(c.res)
         PROVE  new[i] = IF i <= m THEN c.res[i - 1] ELSE c.res[i]
    <3>1. i \in 2..(Len(out) + 1) /\ i - 1 \in 1..(Len(c.res) - 1) /\ (i - 1) + 1 = i
      BY <2>7, <1>2
    <3>2. new[i] = IF i - 1 < m THEN c.res[i - 1] ELSE c.res[(i - 1) + 1]
      BY <3>1, <2>7, <2>9
    <3>3. i - 1 < m <=> i <= m
      BY <2>3, <1>2
    <3> QED BY <3>1, <3>2, <3>3
  <2> QED
    BY <1>3, <2>2, <2>3, <2>9, <2>10, <2>13, <2>14, <2>15
<1>5. CASE placesOf(c.res, key) = {}
  <2> DEFINE full == Len(c.res) >= SusMaxResources
  <2>1. PICK room : room = IF full THEN Front(c.res) ELSE c.res
    OBVIOUS
  <2>2. PICK refs : refs = IF full THEN releaseSections(c.refs, <<Last(c.res)>>) ELSE c.refs
    OBVIOUS
  <2>3. o = [c EXCEPT !.res = admit(room, key), !.refs = counted(refs, key)]
    BY <1>1, <1>3, <1>5, <2>1, <2>2 DEF observeResource, SusClientType
  <2>4. /\ room \in Seq(SusEntries) /\ SusDistinct(room) /\ SusByAge(room)
        /\ Len(room) \in 0..Len(c.res)
        /\ \A i \in 1..Len(room) : room[i] = c.res[i]
        /\ SusKeys(room) \subseteq SusKeys(c.res)
        /\ refs \in [SusSections -> Nat] /\ SusCounts(refs, room)
    <3>1. CASE ~full
      BY <3>1, <1>1, <1>2, <2>1, <2>2
    <3>2. CASE full
      <4>1. PICK l \in Nat : l = Len(c.res)
        BY <1>2
      <4>2. l >= 1
        BY <3>2, <4>1, SusAssumption
      <4>3. l - 1 \in 0..Len(c.res) /\ (l - 1) + 1 = l
        BY <4>1, <4>2
      <4>4. PICK gone : gone = SubSeq(c.res, (l - 1) + 1, Len(c.res))
        OBVIOUS
      <4>5. gone = <<Last(c.res)>>
        <5>1. l \in 1..Len(c.res) /\ Len(c.res) \in l..Len(c.res) /\ Len(c.res) + 1 \in Int
          BY <4>1, <4>2
        <5>2. SubSeq(c.res, l, Len(c.res)) = <<c.res[l]>> \o SubSeq(c.res, l + 1, Len(c.res))
          BY <5>1, <1>1, SubSeqRecursiveFirst
        <5>3. SubSeq(c.res, l + 1, Len(c.res)) = <<>>
          <6>1. l + 1 \in Int /\ Len(c.res) \in Int /\ Len(c.res) < l + 1
            BY <4>1
          <6> QED BY <6>1, SubSeqEmpty
        <5>4. c.res[l] \in SusEntries
          BY <5>1, <1>1, SusRes
        <5>5. <<c.res[l]>> \in Seq(SusEntries)
          BY <5>4
        <5>6. <<c.res[l]>> \o <<>> = <<c.res[l]>>
          BY <5>5, ConcatEmptySeq
        <5> QED
          BY <5>2, <5>3, <5>6, <4>1, <4>3, <4>4 DEF Last
      <4>6. room = SubSeq(c.res, 1, l - 1) /\ refs = releaseSections(c.refs, gone)
        BY <2>1, <2>2, <3>2, <4>1, <4>5 DEF Front
      <4>7. /\ room \in Seq(SusEntries) /\ Len(room) = l - 1
            /\ \A i \in 1..(l - 1) : room[i] = c.res[i]
            /\ SusKeys(room) = {c.res[i].key : i \in 1..(l - 1)}
            /\ SusDistinct(room) /\ SusByAge(room)
            /\ refs \in [SusSections -> Nat]
            /\ SusCounts(refs, room)
        BY <1>1, <4>3, <4>4, <4>6, SusReleased
      <4>8. \A i \in 1..(l - 1) : i \in DOMAIN c.res
        BY <1>2, <4>1
      <4>9. SusKeys(room) \subseteq SusKeys(c.res)
        BY <4>7, <4>8 DEF SusKeys
      <4> QED
        BY <4>3, <4>7, <4>9
    <3> QED BY <3>1, <3>2
  <2>5. key \notin SusKeys(c.res) /\ \A i \in 1..Len(c.res) : c.res[i].key # key
    BY <1>2, <1>5 DEF placesOf, SusKeys
  <2>6. PICK new : new = admit(room, key)
    OBVIOUS
  <2>7. /\ new \in Seq(SusEntries) /\ Len(new) = Len(room) + 1 /\ new[1].key = key
        /\ \A i \in 2..(Len(room) + 1) : new[i] = room[i - 1]
        /\ SusKeys(new) = SusKeys(room) \cup {key}
        /\ SusDistinct(new) /\ SusByAge(new)
    BY <2>4, <2>5, <2>6, SusAdmitted
  <2>8. PICK cn : cn = counted(refs, key)
    OBVIOUS
  <2>9. cn \in [SusSections -> Nat] /\ SusCounts(cn, new)
    BY <2>4, <2>5, <2>7, <2>8, SusCountedIn
  <2>10. o.res = new /\ o.refs = cn /\ o.sel = c.sel /\ o \in SusClientType
    BY <1>1, <2>3, <2>6, <2>7, <2>8, <2>9 DEF SusClientType
  <2>11. SusClientOk(o)
    BY <2>7, <2>9, <2>10 DEF SusClientOk
  <2>12. Len(new) \in 1..(Len(c.res) + 1)
    BY <1>2, <2>4, <2>7
  <2>13. ASSUME NEW i \in 2..Len(new)
         PROVE  new[i] = c.res[i - 1]
    <3>1. i \in 2..(Len(room) + 1) /\ i - 1 \in 1..Len(room)
      BY <1>2, <2>4, <2>7
    <3> QED BY <3>1, <2>4, <2>7
  <2> QED
    BY <1>3, <2>5, <2>7, <2>10, <2>11, <2>12, <2>13
<1> QED
  BY <1>4, <1>5

\* The resources stay the end of the walk.
LEMMA SusStaysOnWalk ==
  ASSUME NEW c, SusClientOk(c), NEW key \in SusResources,
         NEW walk, SusWalkOk(walk), SusOnWalk(c.res, walk)
  PROVE  SusOnWalk(observeResource(c, key).res, walkedOn(walk, key))
<1>1. c.res \in Seq(SusEntries)
  BY DEF SusClientOk, SusClientType
<1>2. PICK r : r = c.res
  OBVIOUS
<1>3. PICK o : o = observeResource(c, key).res
  OBVIOUS
<1>4. PICK w : w = walkedOn(walk, key)
  OBVIOUS
<1>5. /\ Len(r) \in Nat /\ Len(walk) \in Nat /\ DOMAIN walk = 1..Len(walk)
      /\ Len(r) <= Len(walk) /\ \A i \in 1..Len(r) : r[i].key = walk[i]
  BY <1>1, <1>2, SusRes, LenProperties DEF SusWalkOk, SusOnWalk
<1>6. /\ o[1].key = key /\ w[1] = key
  BY <1>3, <1>4, SusObserved, SusWalked
<1>7. \/ \E m \in 1..Len(r) :
           /\ r[m].key = key
           /\ Len(o) = Len(r)
           /\ \A i \in 2..Len(r) : o[i] = IF i <= m THEN r[i - 1] ELSE r[i]
      \/ /\ \A i \in 1..Len(r) : r[i].key # key
         /\ Len(o) \in 1..(Len(r) + 1)
         /\ \A i \in 2..Len(o) : o[i] = r[i - 1]
  <2>1. PICK m : m = Min(placesOf(c.res, key))
    OBVIOUS
  <2>2. PICK f : f = observeResource(c, key)
    OBVIOUS
  <2>3. \/ /\ m \in 1..Len(c.res) /\ c.res[m].key = key
           /\ Len(f.res) = Len(c.res)
           /\ \A i \in 2..Len(c.res) :
                f.res[i] = IF i <= m THEN c.res[i - 1] ELSE c.res[i]
        \/ /\ \A i \in 1..Len(c.res) : c.res[i].key # key
           /\ Len(f.res) \in 1..(Len(c.res) + 1)
           /\ \A i \in 2..Len(f.res) : f.res[i] = c.res[i - 1]
    BY <2>1, <2>2, SusObserved
  <2>4. \/ /\ m \in 1..Len(r) /\ r[m].key = key
           /\ Len(o) = Len(r)
           /\ \A i \in 2..Len(r) : o[i] = IF i <= m THEN r[i - 1] ELSE r[i]
        \/ /\ \A i \in 1..Len(r) : r[i].key # key
           /\ Len(o) \in 1..(Len(r) + 1)
           /\ \A i \in 2..Len(o) : o[i] = r[i - 1]
    <3>1. o = f.res
      BY <1>3, <2>2
    <3> QED BY <1>2, <2>3, <3>1
  <2>5. CASE /\ m \in 1..Len(r) /\ r[m].key = key
             /\ Len(o) = Len(r)
             /\ \A i \in 2..Len(r) : o[i] = IF i <= m THEN r[i - 1] ELSE r[i]
    BY <2>5
  <2> QED
    BY <2>4, <2>5
<1>8. \/ /\ \A i \in DOMAIN walk : walk[i] # key
         /\ Len(w) = Len(walk) + 1
         /\ \A i \in 2..(Len(walk) + 1) : w[i] = walk[i - 1]
      \/ \E m \in 1..Len(walk) :
           /\ walk[m] = key
           /\ Len(w) = Len(walk)
           /\ \A i \in 2..Len(walk) : w[i] = IF i <= m THEN walk[i - 1] ELSE walk[i]
  BY <1>4, SusWalked
<1>9. CASE \E m \in 1..Len(r) :
             /\ r[m].key = key
             /\ Len(o) = Len(r)
             /\ \A i \in 2..Len(r) : o[i] = IF i <= m THEN r[i - 1] ELSE r[i]
  <2>1. PICK m \in 1..Len(r) :
           /\ r[m].key = key
           /\ Len(o) = Len(r)
           /\ \A i \in 2..Len(r) : o[i] = IF i <= m THEN r[i - 1] ELSE r[i]
    BY <1>9
  <2>2. m \in 1..Len(walk) /\ walk[m] = key
    BY <2>1, <1>5
  <2>3. \A x \in 1..Len(walk) : walk[x] = key => x = m
    BY <2>2, <1>5 DEF SusWalkOk
  <2>4. /\ Len(w) = Len(walk)
        /\ \A i \in 2..Len(walk) : w[i] = IF i <= m THEN walk[i - 1] ELSE walk[i]
    BY <1>5, <1>8, <2>2, <2>3
  <2>5. ASSUME NEW i \in 1..Len(r)
        PROVE  o[i].key = w[i]
    <3>1. CASE i = 1
      BY <3>1, <1>6
    <3>2. CASE i # 1
      <4>1. i \in 2..Len(r) /\ i \in 2..Len(walk) /\ i - 1 \in 1..Len(r)
        BY <3>2, <1>5
      <4> QED BY <4>1, <2>1, <2>4, <1>5
    <3> QED BY <3>1, <3>2
  <2> QED
    BY <1>3, <1>4, <1>5, <2>1, <2>4, <2>5 DEF SusOnWalk
<1>10. CASE /\ \A i \in 1..Len(r) : r[i].key # key
            /\ Len(o) \in 1..(Len(r) + 1)
            /\ \A i \in 2..Len(o) : o[i] = r[i - 1]
  <2>1. /\ Len(o) <= Len(w)
        /\ \A i \in 2..Len(o) : w[i] = walk[i - 1]
    <3>1. CASE /\ Len(w) = Len(walk) + 1
               /\ \A i \in 2..(Len(walk) + 1) : w[i] = walk[i - 1]
      BY <3>1, <1>5, <1>10
    <3>2. CASE \E m \in 1..Len(walk) :
                 /\ walk[m] = key
                 /\ Len(w) = Len(walk)
                 /\ \A i \in 2..Len(walk) : w[i] = IF i <= m THEN walk[i - 1] ELSE walk[i]
      <4>1. PICK m \in 1..Len(walk) :
                 /\ walk[m] = key
                 /\ Len(w) = Len(walk)
                 /\ \A i \in 2..Len(walk) : w[i] = IF i <= m THEN walk[i - 1] ELSE walk[i]
        BY <3>2
      <4>2. ~(m \in 1..Len(r))
        BY <4>1, <1>5, <1>10
      <4>3. Len(r) < m
        BY <4>2, <1>5
      <4>4. Len(o) <= m
        BY <4>3, <1>5, <1>10
      <4>5. ASSUME NEW i \in 2..Len(o)
            PROVE  w[i] = walk[i - 1]
        <5>1. i \in 2..Len(walk) /\ i <= m
          BY <4>4, <1>5, <1>10
        <5> QED BY <5>1, <4>1
      <4> QED
        BY <4>1, <4>4, <4>5, <1>10, <1>5
    <3> QED BY <3>1, <3>2, <1>8
  <2>2. ASSUME NEW i \in 1..Len(o)
        PROVE  o[i].key = w[i]
    <3>1. CASE i = 1
      BY <3>1, <1>6
    <3>2. CASE i # 1
      <4>1. i \in 2..Len(o) /\ i - 1 \in 1..Len(r)
        BY <3>2, <1>5, <1>10
      <4>2. o[i] = r[i - 1] /\ w[i] = walk[i - 1] /\ r[i - 1].key = walk[i - 1]
        BY <4>1, <1>5, <1>10, <2>1
      <4> QED BY <4>2
    <3> QED BY <3>1, <3>2
  <2> QED
    BY <1>3, <1>4, <2>1, <2>2 DEF SusOnWalk
<1> QED
  BY <1>7, <1>9, <1>10

-----------------------------------------------------------------------------
(* The table and the evaluation. *)

SusInv ==
  /\ DOMAIN susTable \subseteq SusClients
  /\ susWalk \in [SusClients -> Seq(SusResources)]
  /\ susUnder \in [SusClients -> 0..SusMaxHold]
  /\ \A ip \in SusClients : SusWalkOk(susWalk[ip])
  /\ \A ip \in DOMAIN susTable :
       /\ SusClientOk(susTable[ip])
       /\ SusOnWalk(susTable[ip].res, susWalk[ip])
       /\ susTable[ip].sel # SusNone => susUnder[ip] = susTable[ip].sel
  /\ \A d \in susEmitted : d.held => susUnder[d.ip] < SusMaxHold

LEMMA SusOlder ==
  ASSUME NEW x \in {SusNone} \cup Nat, NEW cap \in Nat
  PROVE  /\ x = SusNone => older(x, cap) = SusNone
         /\ x # SusNone => /\ older(x, cap) \in 0..cap
                           /\ older(x, cap) = IF x + 1 <= cap THEN x + 1 ELSE cap
<1>1. CASE x = SusNone
  BY <1>1 DEF older
<1>2. CASE x # SusNone
  <2>1. x \in Nat
    BY <1>2
  <2>2. {x + 1, cap} \in SUBSET Nat /\ {x + 1, cap} # {}
    BY <2>1
  <2>3. PICK m : m = Min({x + 1, cap})
    OBVIOUS
  <2>4. m \in {x + 1, cap} /\ m <= x + 1 /\ m <= cap
    BY <2>2, <2>3, SmallestOf
  <2>5. older(x, cap) = m
    BY <1>2, <2>3 DEF older
  <2> QED
    BY <1>2, <2>1, <2>4, <2>5
<1> QED
  BY <1>1, <1>2

LEMMA SusAsked ==
  ASSUME NEW c, SusClientOk(c), NEW key \in SusResources
  PROVE  /\ SusClientOk(asked(c, key)) /\ asked(c, key).sel = c.sel
         /\ asked(c, key).res = observeResource(c, key).res
<1>1. PICK o : o = observeResource(c, key)
  OBVIOUS
<1>2. SusClientOk(o) /\ o.sel = c.sel
  BY <1>1, SusObserved
<1>3. o \in SusClientType /\ o.req \in [SusAges -> Int] /\ 0 \in SusAges
  <2>1. o \in SusClientType
    BY <1>2 DEF SusClientOk
  <2>2. o.req \in [SusAges -> Int]
    BY <2>1 DEF SusClientType
  <2>3. 0 \in SusAges
    BY SusAssumption DEF SusAges
  <2> QED BY <2>1, <2>2, <2>3
<1>4. PICK r : r = [o.req EXCEPT ![0] = o.req[0] + 1]
  OBVIOUS
<1>5. r \in [SusAges -> Int]
  <2>1. o.req[0] + 1 \in Int
    BY <1>3
  <2> QED BY <1>3, <1>4, <2>1, SusSet
<1>8. PICK z \in Nat : z = 0
  OBVIOUS
<1>6. asked(c, key) = [o EXCEPT !.req = r, !.seen = z]
  BY <1>8, <1>1, <1>3, <1>4 DEF asked, SusClientType
<1>7. /\ asked(c, key) \in SusClientType /\ asked(c, key).sel = o.sel
      /\ asked(c, key).res = o.res /\ asked(c, key).refs = o.refs
  BY <1>3, <1>5, <1>6 DEF SusClientType
<1> QED
  BY <1>1, <1>2, <1>7 DEF SusClientOk

LEMMA SusServed ==
  ASSUME NEW c, SusClientOk(c)
  PROVE  SusClientOk(served(c)) /\ served(c).sel = c.sel /\ served(c).res = c.res
<1>3. c \in SusClientType /\ c.bytes \in [SusAges -> Int] /\ 0 \in SusAges
  <2>1. c \in SusClientType
    BY DEF SusClientOk
  <2>2. c.bytes \in [SusAges -> Int]
    BY <2>1 DEF SusClientType
  <2>3. 0 \in SusAges
    BY SusAssumption DEF SusAges
  <2> QED BY <2>1, <2>2, <2>3
<1>4. PICK r : r = [c.bytes EXCEPT ![0] = c.bytes[0] + 1]
  OBVIOUS
<1>5. r \in [SusAges -> Int]
  <2>1. c.bytes[0] + 1 \in Int
    BY <1>3
  <2> QED BY <1>3, <1>4, <2>1, SusSet
<1>8. PICK z \in Nat : z = 0
  OBVIOUS
<1>6. served(c) = [c EXCEPT !.bytes = r, !.seen = z]
  BY <1>8, <1>3, <1>4 DEF served, SusClientType
<1>7. /\ served(c) \in SusClientType /\ served(c).sel = c.sel
      /\ served(c).res = c.res /\ served(c).refs = c.refs
  BY <1>3, <1>5, <1>6 DEF SusClientType
<1> QED
  BY <1>7 DEF SusClientOk

LEMMA SusJudged ==
  ASSUME NEW c, SusClientOk(c), NEW sel \in {SusNone} \cup 0..SusMaxHold, NEW published
  PROVE  /\ SusClientOk(judged(c, sel, published)) /\ judged(c, sel, published).sel = sel
         /\ judged(c, sel, published).res = c.res
<1>1. c \in SusClientType /\ c.pub \in {SusNone} \cup Nat
  BY DEF SusClientOk, SusClientType
<1>2. PICK p \in {SusNone} \cup Nat : p = IF published THEN 0 ELSE c.pub
  BY <1>1
<1>3. judged(c, sel, published) = [c EXCEPT !.sel = sel, !.pub = p]
  BY <1>1, <1>2 DEF judged, SusClientType
<1>4. /\ judged(c, sel, published) \in SusClientType /\ judged(c, sel, published).sel = sel
      /\ judged(c, sel, published).res = c.res /\ judged(c, sel, published).refs = c.refs
  BY <1>1, <1>3 DEF SusClientType
<1> QED
  BY <1>4 DEF SusClientOk

LEMMA SusShifted ==
  ASSUME NEW b \in [SusAges -> Int]
  PROVE  shift(b) \in [SusAges -> Int]
<1>1. ASSUME NEW a \in SusAges
      PROVE  (IF a = 0 THEN 0 ELSE b[a - 1] + IF a = SusWindow + 1 THEN b[a] ELSE 0) \in Int
  <2>1. a # 0 => a - 1 \in SusAges
    BY SusAssumption DEF SusAges
  <2>2. b[a] \in Int /\ (a # 0 => b[a - 1] \in Int)
    BY <2>1
  <2> QED BY <2>2
<1> QED
  BY <1>1 DEF shift

LEMMA SusAged ==
  ASSUME NEW c, SusClientOk(c)
  PROVE  /\ SusClientOk(olderClient(c)) /\ olderClient(c).sel = older(c.sel, SusMaxHold)
         /\ Len(olderClient(c).res) = Len(c.res)
         /\ \A i \in 1..Len(c.res) : olderClient(c).res[i].key = c.res[i].key
<1>1. /\ c \in SusClientType /\ c.res \in Seq(SusEntries) /\ c.refs \in [SusSections -> Nat]
      /\ SusDistinct(c.res) /\ SusByAge(c.res) /\ SusCounts(c.refs, c.res)
  BY DEF SusClientOk, SusClientType
<1>2. /\ Len(c.res) \in Nat /\ DOMAIN c.res = 1..Len(c.res)
      /\ \A i \in 1..Len(c.res) : c.res[i].key \in SusResources /\ c.res[i].age \in Nat
  BY <1>1, SusRes
<1>3. PICK r : r = olderResources(c.res)
  OBVIOUS
<1>4. ASSUME NEW i \in 1..Len(c.res)
      PROVE  /\ r[i].key = c.res[i].key /\ r[i].age = older(c.res[i].age, SusWindow + 1)
             /\ r[i] \in SusEntries
  <2>1. r[i] = [key |-> c.res[i].key, age |-> older(c.res[i].age, SusWindow + 1)]
    BY <1>3 DEF olderResources
  <2>2. older(c.res[i].age, SusWindow + 1) \in 0..(SusWindow + 1)
    <3>1. c.res[i].age \in Nat /\ c.res[i].age # SusNone /\ SusWindow + 1 \in Nat
      BY <1>2, SusAssumption DEF SusNone
    <3> QED BY <3>1, SusOlder
  <2> QED BY <1>2, <2>1, <2>2 DEF SusEntries
<1>5. r \in Seq(SusEntries) /\ Len(r) = Len(c.res) /\ DOMAIN r = 1..Len(c.res)
  <2>1. r = [i \in 1..Len(c.res) |-> r[i]]
    BY <1>3 DEF olderResources
  <2>2. r \in [1..Len(c.res) -> SusEntries]
    BY <1>4, <2>1
  <2> QED BY <1>2, <2>2, FunIsSeq
<1>6. SusDistinct(r)
  BY <1>1, <1>2, <1>4, <1>5 DEF SusDistinct
<1>7. SusByAge(r)
  <2> SUFFICES ASSUME NEW i \in 1..Len(c.res), NEW j \in 1..Len(c.res), i < j
               PROVE  r[i].age <= r[j].age
    BY <1>5 DEF SusByAge
  <2>1. PICK x \in Nat : x = c.res[i].age
    BY <1>2
  <2>2. PICK y \in Nat : y = c.res[j].age
    BY <1>2
  <2>3. x <= y
    BY <1>1, <1>2, <2>1, <2>2 DEF SusByAge
  <2>4. PICK w \in Nat : w = SusWindow + 1
    BY SusAssumption
  <2>5. x # SusNone /\ y # SusNone
    BY DEF SusNone
  <2>6. /\ older(x, w) = IF x + 1 <= w THEN x + 1 ELSE w
        /\ older(y, w) = IF y + 1 <= w THEN y + 1 ELSE w
    BY <2>5, SusOlder
  <2>7. older(x, w) <= older(y, w)
    BY <2>3, <2>6
  <2> QED BY <1>4, <2>1, <2>2, <2>4, <2>7
<1>8. SusCounts(c.refs, r)
  <2>1. SusKeys(c.res) = SusKeys(r)
    BY <1>2, <1>4, <1>5 DEF SusKeys
  <2> QED BY <2>1, <1>1, SusCountsBy
<1>9. olderClient(c) \in SusClientType /\ olderClient(c).res = r /\ olderClient(c).refs = c.refs
      /\ olderClient(c).sel = older(c.sel, SusMaxHold)
  <2>1. /\ c.req \in [SusAges -> Int] /\ c.bytes \in [SusAges -> Int]
        /\ c.seen \in Nat /\ c.pub \in {SusNone} \cup Nat
        /\ c.sel \in {SusNone} \cup 0..SusMaxHold
    BY <1>1 DEF SusClientType
  <2>2. PICK q \in [SusAges -> Int] : q = shift(c.req)
    BY <2>1, SusShifted
  <2>3. PICK b \in [SusAges -> Int] : b = shift(c.bytes)
    BY <2>1, SusShifted
  <2>4. 2 * SusWindow + 1 \in Nat /\ SusPublish \in Nat /\ SusMaxHold \in Nat
    BY SusAssumption
  <2>5. PICK s \in Nat : s = older(c.seen, 2 * SusWindow + 1)
    <3>1. c.seen # SusNone
      BY <2>1 DEF SusNone
    <3> QED BY <2>1, <2>4, <3>1, SusOlder
  <2>6. PICK p \in {SusNone} \cup Nat : p = older(c.pub, SusPublish)
    BY <2>1, <2>4, SusOlder
  <2>7. PICK l \in {SusNone} \cup 0..SusMaxHold : l = older(c.sel, SusMaxHold)
    <3>1. c.sel \in {SusNone} \cup Nat
      BY <2>1
    <3> QED BY <3>1, <2>4, SusOlder
  <2>8. olderClient(c) = [c EXCEPT !.req = q, !.bytes = b, !.res = r, !.seen = s, !.pub = p, !.sel = l]
    BY <1>1, <1>3, <2>2, <2>3, <2>5, <2>6, <2>7 DEF olderClient, SusClientType
  <2> QED
    BY <1>1, <1>5, <2>7, <2>8 DEF SusClientType
<1> QED
  BY <1>4, <1>5, <1>6, <1>7, <1>8, <1>9 DEF SusClientOk

LEMMA SusEmptyOk ==
  SusClientOk(SusEmpty) /\ SusEmpty.res = <<>> /\ SusEmpty.sel = SusNone
<1>1. /\ SusEmpty.res = <<>> /\ SusEmpty.sel = SusNone
      /\ SusEmpty.refs = [s \in SusSections |-> 0]
  BY DEF SusEmpty
<1>2. SusEmpty \in SusClientType
  <2>1. [a \in SusAges |-> 0] \in [SusAges -> Int] /\ [s \in SusSections |-> 0] \in [SusSections -> Nat]
    OBVIOUS
  <2>2. <<>> \in Seq(SusEntries)
    OBVIOUS
  <2> QED BY <2>1, <2>2 DEF SusEmpty, SusClientType
<1>3. SusDistinct(<<>>) /\ SusByAge(<<>>)
  BY DEF SusDistinct, SusByAge
<1>4. SusCounts([s \in SusSections |-> 0], <<>>)
  <2>1. \A s : SusKeysIn(<<>>, s) = {}
    BY DEF SusKeysIn, SusKeys
  <2> QED BY <2>1, FS_EmptySet DEF SusCounts
<1> QED
  BY <1>1, <1>2, <1>3, <1>4 DEF SusClientOk

LEMMA SusEmptyWalk ==
  SusWalkOk(<<>>) /\ <<>> \in Seq(SusResources)
BY DEF SusWalkOk

LEMMA SusInitial == SustainedInit => SusInv
<1> SUFFICES ASSUME SustainedInit PROVE SusInv
  OBVIOUS
<1>1. /\ susTable = <<>> /\ susEmitted = {}
      /\ susWalk = [c \in SusClients |-> <<>>] /\ susUnder = [c \in SusClients |-> 0]
  BY DEF SustainedInit
<1>2. DOMAIN susTable = {}
  BY <1>1
<1>3. 0 \in 0..SusMaxHold
  BY SusAssumption
<1> QED
  BY <1>1, <1>2, <1>3, SusEmptyWalk DEF SusInv

\* The part of the invariant a client brings with it.
SusHolds(c, walk, under) ==
  /\ SusClientOk(c)
  /\ SusOnWalk(c.res, walk)
  /\ c.sel # SusNone => under = c.sel

LEMMA SusAskedStep ==
  ASSUME SusInv, NEW ip \in SusClients, NEW key \in SusResources, ObserveRequest(ip, key)
  PROVE  SusInv'
<1> DEFINE full == ip \notin DOMAIN susTable /\ Cardinality(DOMAIN susTable) >= SusMaxClients
<1>1. PICK T : T = IF full THEN Restrict(susTable, DOMAIN susTable \ {Last(susOrder)}) ELSE susTable
  OBVIOUS
<1>2. /\ DOMAIN T \subseteq DOMAIN susTable
      /\ \A x \in DOMAIN T : T[x] = susTable[x]
  BY <1>1 DEF Restrict
<1>3. PICK old : old = IF ip \in DOMAIN T THEN T[ip] ELSE SusEmpty
  OBVIOUS
<1>4. PICK c : c = prune(old)
  OBVIOUS
<1>5. PICK n : n = asked(c, key)
  OBVIOUS
<1>6. /\ susTable' = entered(T, ip, n)
      /\ susWalk' = [x \in SusClients |->
                      IF x = ip THEN walkedOn(susWalk[ip], key)
                      ELSE IF x \notin DOMAIN T THEN <<>> ELSE susWalk[x]]
      /\ susEmitted' = susEmitted /\ susUnder' = susUnder
  BY <1>1, <1>3, <1>4, <1>5 DEF ObserveRequest
<1>7. SusHolds(old, susWalk[ip], susUnder[ip])
  <2>1. CASE ip \in DOMAIN T
    BY <2>1, <1>2, <1>3 DEF SusInv, SusHolds
  <2>2. CASE ip \notin DOMAIN T
    <3>1. old = SusEmpty
      BY <2>2, <1>3
    <3>2. Len(<<>>) <= Len(susWalk[ip])
      <4>1. Len(susWalk[ip]) \in Nat
        BY LenProperties DEF SusInv
      <4> QED BY <4>1
    <3>3. SusOnWalk(<<>>, susWalk[ip])
      BY <3>2 DEF SusOnWalk
    <3> QED BY <3>1, <3>3, SusEmptyOk DEF SusHolds
  <2> QED BY <2>1, <2>2
<1>8. SusHolds(c, susWalk[ip], susUnder[ip])
  <2>1. /\ SusClientOk(c) /\ c.sel = old.sel /\ Len(c.res) <= Len(old.res)
        /\ \A i \in 1..Len(c.res) : c.res[i] = old.res[i]
    BY <1>4, <1>7, SusPruned DEF SusHolds
  <2>2. Len(c.res) \in Nat /\ Len(old.res) \in Nat /\ Len(susWalk[ip]) \in Nat
    BY <2>1, <1>7, SusRes, LenProperties DEF SusInv, SusHolds, SusClientOk, SusClientType
  <2>3. \A i \in 1..Len(c.res) : i \in 1..Len(old.res)
    BY <2>1, <2>2
  <2>4. SusOnWalk(c.res, susWalk[ip])
    BY <2>1, <2>2, <2>3, <1>7 DEF SusHolds, SusOnWalk
  <2> QED
    BY <2>1, <2>4, <1>7 DEF SusHolds
<1>9. SusWalkOk(susWalk[ip])
  BY DEF SusInv
<1>10. SusHolds(n, walkedOn(susWalk[ip], key), susUnder[ip])
  <2>1. SusClientOk(n) /\ n.sel = c.sel /\ n.res = observeResource(c, key).res
    BY <1>5, <1>8, SusAsked DEF SusHolds
  <2>2. SusOnWalk(observeResource(c, key).res, walkedOn(susWalk[ip], key))
    BY <1>8, <1>9, SusStaysOnWalk DEF SusHolds
  <2> QED
    BY <2>1, <2>2, <1>8 DEF SusHolds
<1>11. /\ SusWalkOk(walkedOn(susWalk[ip], key))
       /\ walkedOn(susWalk[ip], key) \in Seq(SusResources)
  BY <1>9, SusWalked DEF SusWalkOk
<1>12. \A x \in SusClients : SusWalkOk(susWalk'[x]) /\ susWalk'[x] \in Seq(SusResources)
  BY <1>6, <1>11, SusEmptyWalk DEF SusInv
<1>13. susWalk' \in [SusClients -> Seq(SusResources)]
  BY <1>6, <1>12
<1>14. /\ DOMAIN susTable' = DOMAIN T \cup {ip}
       /\ \A x \in DOMAIN susTable' : susTable'[x] = IF x = ip THEN n ELSE susTable[x]
  BY <1>2, <1>6 DEF entered
<1>15. DOMAIN susTable' \subseteq SusClients
  BY <1>2, <1>14 DEF SusInv
<1>16. \A x \in DOMAIN susTable' : SusHolds(susTable'[x], susWalk'[x], susUnder'[x])
  <2> TAKE x \in DOMAIN susTable'
  <2>1. CASE x = ip
    BY <2>1, <1>6, <1>10, <1>14
  <2>2. CASE x # ip
    <3>1. x \in DOMAIN T /\ x \in SusClients
      BY <2>2, <1>14, <1>15
    <3>2. susTable'[x] = susTable[x] /\ susWalk'[x] = susWalk[x] /\ susUnder'[x] = susUnder[x]
      BY <3>1, <2>2, <1>6, <1>14
    <3> QED BY <3>1, <3>2, <1>2 DEF SusInv, SusHolds
  <2> QED BY <2>1, <2>2
<1> QED
  BY <1>6, <1>12, <1>13, <1>15, <1>16 DEF SusInv, SusHolds

LEMMA SusServedStep ==
  ASSUME SusInv, NEW ip \in SusClients, ObserveBytes(ip)
  PROVE  SusInv'
<1>1. ip \in DOMAIN susTable
  BY DEF ObserveBytes
<1>2. PICK old : old = susTable[ip]
  OBVIOUS
<1>3. PICK c : c = prune(old)
  OBVIOUS
<1>4. PICK n : n = served(c)
  OBVIOUS
<1>5. /\ susTable' = entered(susTable, ip, n)
      /\ susEmitted' = susEmitted /\ susWalk' = susWalk /\ susUnder' = susUnder
  BY <1>2, <1>3, <1>4 DEF ObserveBytes
<1>6. SusHolds(old, susWalk[ip], susUnder[ip])
  BY <1>1, <1>2 DEF SusInv, SusHolds
<1>7. /\ SusClientOk(n) /\ n.sel = old.sel /\ Len(n.res) <= Len(old.res)
      /\ \A i \in 1..Len(n.res) : n.res[i] = old.res[i]
  <2>1. /\ SusClientOk(c) /\ c.sel = old.sel /\ Len(c.res) <= Len(old.res)
        /\ \A i \in 1..Len(c.res) : c.res[i] = old.res[i]
    BY <1>3, <1>6, SusPruned DEF SusHolds
  <2>2. SusClientOk(n) /\ n.sel = c.sel /\ n.res = c.res
    BY <1>4, <2>1, SusServed
  <2> QED
    BY <2>1, <2>2
<1>8. SusHolds(n, susWalk[ip], susUnder[ip])
  <2>2. Len(n.res) \in Nat /\ Len(old.res) \in Nat /\ Len(susWalk[ip]) \in Nat
    BY <1>7, <1>6, SusRes, LenProperties DEF SusInv, SusHolds, SusClientOk, SusClientType
  <2>3. \A i \in 1..Len(n.res) : i \in 1..Len(old.res)
    BY <1>7, <2>2
  <2>4. SusOnWalk(n.res, susWalk[ip])
    BY <1>7, <2>2, <2>3, <1>6 DEF SusHolds, SusOnWalk
  <2> QED
    BY <1>7, <2>4, <1>6 DEF SusHolds
<1>9. /\ DOMAIN susTable' = DOMAIN susTable
      /\ \A x \in DOMAIN susTable' : susTable'[x] = IF x = ip THEN n ELSE susTable[x]
  BY <1>1, <1>5 DEF entered
<1>10. \A x \in DOMAIN susTable' : SusHolds(susTable'[x], susWalk'[x], susUnder'[x])
  BY <1>5, <1>8, <1>9 DEF SusInv, SusHolds
<1> QED
  BY <1>5, <1>9, <1>10 DEF SusInv, SusHolds

\* What an assessment says of a client's hold.
LEMMA SusAssessed ==
  ASSUME NEW c, NEW good, NEW factor, c.sel \in {SusNone} \cup 0..SusMaxHold
  PROVE  LET a == assess(c, good, factor)
             over == matchThresholds(c, factor) # {}
         IN /\ a.sel \in {SusNone} \cup 0..SusMaxHold
            /\ over => a.sel = 0 /\ ~a.held
            /\ ~over /\ a.sel # SusNone => a.sel = c.sel
            /\ a.emit /\ a.held => ~over /\ c.sel # SusNone /\ c.sel < SusMaxHold
<1>1. 0 \in 0..SusMaxHold /\ SusMaxHold \in Nat /\ SusHold \in Nat /\ SusHold <= SusMaxHold
  BY SusAssumption
<1>2. CASE matchThresholds(c, factor) # {}
  BY <1>1, <1>2 DEF assess
<1>3. CASE matchThresholds(c, factor) = {} /\ (c.sel = SusNone \/ released(c, good))
  BY <1>1, <1>3 DEF assess
<1>4. CASE matchThresholds(c, factor) = {} /\ c.sel # SusNone /\ ~released(c, good)
  <2>1. assess(c, good, factor) = [sel |-> c.sel, emit |-> TRUE, held |-> TRUE]
    BY <1>4 DEF assess, heldSince
  <2>2. ~(c.sel >= IF good THEN SusHold ELSE SusMaxHold)
    BY <1>4 DEF released
  <2>3. c.sel \in Nat
    BY <1>4
  <2>4. c.sel < SusMaxHold
    BY <1>1, <2>2, <2>3
  <2> QED
    BY <1>4, <2>1, <2>4
<1> QED
  BY <1>2, <1>3, <1>4

LEMMA SusEvaluateStep ==
  ASSUME SusInv, Evaluate
  PROVE  SusInv'
<1> DEFINE c(ip) == prune(susTable[ip])
           good(ip) == ip \in susVerified
           over(ip) == matchThresholds(c(ip), factorOf(ip)) # {}
           a(ip) == assess(c(ip), good(ip), factorOf(ip))
           publish(ip) == a(ip).emit /\ (c(ip).pub = SusNone \/ c(ip).pub >= SusPublish)
           left(ip) == judged(c(ip), a(ip).sel, publish(ip))
<1>1. PICK kept : kept = {ip \in DOMAIN susTable : susTable[ip].seen <= 2 * SusWindow}
  OBVIOUS
<1>2. /\ susTable' = [ip \in kept |-> left(ip)]
      /\ susEmitted' = {actOnSustainedDecision(ip, a(ip).held) : ip \in {x \in kept : publish(x)}}
      /\ susWalk' = [x \in SusClients |-> IF x \in kept THEN susWalk[x] ELSE <<>>]
      /\ susUnder' = [x \in SusClients |-> IF x \in kept /\ over(x) THEN 0 ELSE susUnder[x]]
  BY <1>1 DEF Evaluate
<1>3. kept \subseteq DOMAIN susTable /\ kept \subseteq SusClients
  BY <1>1 DEF SusInv
<1>4. ASSUME NEW ip \in kept
      PROVE  /\ SusClientOk(left(ip)) /\ left(ip).sel = a(ip).sel
             /\ SusOnWalk(left(ip).res, susWalk[ip])
             /\ over(ip) => a(ip).sel = 0 /\ ~a(ip).held
             /\ ~over(ip) /\ a(ip).sel # SusNone => susUnder[ip] = a(ip).sel
             /\ a(ip).emit /\ a(ip).held => ~over(ip) /\ susUnder[ip] < SusMaxHold
  <2>1. PICK old : old = susTable[ip]
    OBVIOUS
  <2>2. SusHolds(old, susWalk[ip], susUnder[ip])
    BY <1>3, <2>1 DEF SusInv, SusHolds
  <2>3. PICK p : p = prune(old)
    OBVIOUS
  <2>4. /\ SusClientOk(p) /\ p.sel = old.sel /\ Len(p.res) <= Len(old.res)
        /\ \A i \in 1..Len(p.res) : p.res[i] = old.res[i]
    BY <2>2, <2>3, SusPruned DEF SusHolds
  <2>5. p.sel \in {SusNone} \cup 0..SusMaxHold
    BY <2>4 DEF SusClientOk, SusClientType
  <2>6. PICK g : g = good(ip)
    OBVIOUS
  <2>7. PICK f : f = factorOf(ip)
    OBVIOUS
  <2>8. PICK d : d = assess(p, g, f)
    OBVIOUS
  <2>9. /\ d.sel \in {SusNone} \cup 0..SusMaxHold
        /\ matchThresholds(p, f) # {} => d.sel = 0 /\ ~d.held
        /\ ~(matchThresholds(p, f) # {}) /\ d.sel # SusNone => d.sel = p.sel
        /\ d.emit /\ d.held => ~(matchThresholds(p, f) # {}) /\ p.sel # SusNone /\ p.sel < SusMaxHold
    BY <2>5, <2>8, SusAssessed
  <2>10. a(ip) = d /\ (over(ip) <=> matchThresholds(p, f) # {})
    BY <2>1, <2>3, <2>6, <2>7, <2>8
  <2>11. PICK w : w = publish(ip)
    OBVIOUS
  <2>12. left(ip) = judged(p, d.sel, w)
    BY <2>1, <2>3, <2>10, <2>11
  <2>13. SusClientOk(left(ip)) /\ left(ip).sel = d.sel /\ left(ip).res = p.res
    BY <2>4, <2>9, <2>12, SusJudged
  <2>14. Len(p.res) \in Nat /\ Len(old.res) \in Nat /\ Len(susWalk[ip]) \in Nat
    BY <2>2, <2>4, <1>3, SusRes, LenProperties DEF SusInv, SusHolds, SusClientOk, SusClientType
  <2>15. \A i \in 1..Len(p.res) : i \in 1..Len(old.res)
    BY <2>4, <2>14
  <2>16. SusOnWalk(p.res, susWalk[ip])
    BY <2>2, <2>4, <2>14, <2>15 DEF SusHolds, SusOnWalk
  <2> HIDE DEF c, good, over, a, publish, left
  <2> QED
    BY <2>2, <2>4, <2>9, <2>10, <2>13, <2>16 DEF SusHolds
<1> HIDE DEF c, good, over, a, publish, left
<1>5. 0 \in 0..SusMaxHold /\ 0 # SusNone
  BY SusAssumption DEF SusNone
<1>6. susUnder' \in [SusClients -> 0..SusMaxHold]
  BY <1>2, <1>5 DEF SusInv
<1>7. /\ susWalk' \in [SusClients -> Seq(SusResources)]
      /\ \A x \in SusClients : SusWalkOk(susWalk'[x])
  BY <1>2, SusEmptyWalk DEF SusInv
<1>8. DOMAIN susTable' = kept /\ \A ip \in kept : susTable'[ip] = left(ip)
  BY <1>2
<1>9. \A ip \in DOMAIN susTable' : SusHolds(susTable'[ip], susWalk'[ip], susUnder'[ip])
  <2> SUFFICES ASSUME NEW ip \in kept
               PROVE  SusHolds(left(ip), susWalk'[ip], susUnder'[ip])
    BY <1>8
  <2>1. ip \in SusClients
    BY <1>3
  <2>2. susWalk'[ip] = susWalk[ip] /\ susUnder'[ip] = IF over(ip) THEN 0 ELSE susUnder[ip]
    BY <1>2, <2>1
  <2>3. left(ip).sel # SusNone => susUnder'[ip] = left(ip).sel
    BY <1>4, <2>2
  <2> QED
    BY <1>4, <2>2, <2>3 DEF SusHolds
<1>10. ASSUME NEW d \in susEmitted', d.held
       PROVE  susUnder'[d.ip] < SusMaxHold
  <2>1. PICK ip \in kept : publish(ip) /\ d = actOnSustainedDecision(ip, a(ip).held)
    BY <1>2
  <2>2. d.ip = ip /\ (d.held <=> a(ip).held)
    BY <2>1 DEF actOnSustainedDecision
  <2>3. a(ip).emit
    BY <2>1 DEF publish
  <2>4. ~over(ip) /\ susUnder[ip] < SusMaxHold
    BY <1>4, <1>10, <2>2, <2>3
  <2>5. susUnder'[ip] = susUnder[ip]
    BY <1>2, <1>3, <2>4
  <2> QED
    BY <2>2, <2>4, <2>5
<1> QED
  BY <1>3, <1>6, <1>7, <1>8, <1>9, <1>10 DEF SusInv, SusHolds

LEMMA SusTickStep ==
  ASSUME SusInv, susTick
  PROVE  SusInv'
<1>1. /\ susTable' = [ip \in DOMAIN susTable |-> olderClient(susTable[ip])]
      /\ susUnder' = [x \in SusClients |-> older(susUnder[x], SusMaxHold)]
      /\ susEmitted' = {} /\ susWalk' = susWalk
  BY DEF susTick
<1>2. ASSUME NEW x \in SusClients
      PROVE  older(susUnder[x], SusMaxHold) \in 0..SusMaxHold
  <2>1. susUnder[x] \in Nat /\ susUnder[x] # SusNone /\ SusMaxHold \in Nat
    BY SusAssumption DEF SusInv, SusNone
  <2> QED BY <2>1, SusOlder
<1>3. susUnder' \in [SusClients -> 0..SusMaxHold]
  BY <1>1, <1>2
<1>4. DOMAIN susTable' = DOMAIN susTable
  BY <1>1
<1>5. ASSUME NEW ip \in DOMAIN susTable
      PROVE  SusHolds(susTable'[ip], susWalk'[ip], susUnder'[ip])
  <2>1. PICK old : old = susTable[ip]
    OBVIOUS
  <2>2. SusHolds(old, susWalk[ip], susUnder[ip]) /\ ip \in SusClients
    BY <2>1 DEF SusInv, SusHolds
  <2>3. PICK n : n = olderClient(old)
    OBVIOUS
  <2>4. /\ SusClientOk(n) /\ n.sel = older(old.sel, SusMaxHold)
        /\ Len(n.res) = Len(old.res)
        /\ \A i \in 1..Len(old.res) : n.res[i].key = old.res[i].key
    BY <2>2, <2>3, SusAged DEF SusHolds
  <2>5. SusOnWalk(n.res, susWalk[ip])
    BY <2>2, <2>4 DEF SusHolds, SusOnWalk
  <2>6. old.sel \in {SusNone} \cup Nat /\ SusMaxHold \in Nat
    BY <2>2, SusAssumption DEF SusHolds, SusClientOk, SusClientType
  <2>7. old.sel = SusNone => n.sel = SusNone
    BY <2>4, <2>6, SusOlder
  <2>8. susTable'[ip] = n /\ susUnder'[ip] = older(susUnder[ip], SusMaxHold)
    BY <1>1, <2>1, <2>2, <2>3
  <2> QED
    BY <1>1, <2>2, <2>4, <2>5, <2>7, <2>8 DEF SusHolds
<1> QED
  BY <1>1, <1>3, <1>4, <1>5 DEF SusInv, SusHolds

LEMMA SusStep == SusInv /\ [SustainedNext]_sustainedVars => SusInv'
<1> SUFFICES ASSUME SusInv, [SustainedNext]_sustainedVars PROVE SusInv'
  OBVIOUS
<1>1. CASE UNCHANGED sustainedVars
  BY <1>1 DEF SusInv, sustainedVars
<1>2. ASSUME NEW ip \in SusClients, NEW key \in SusResources, ObserveRequest(ip, key)
      PROVE  SusInv'
  BY <1>2, SusAskedStep
<1>3. ASSUME NEW ip \in SusClients, ObserveBytes(ip)
      PROVE  SusInv'
  BY <1>3, SusServedStep
<1>4. ASSUME NEW ip \in SusClients, markVerified(ip)
      PROVE  SusInv'
  BY <1>4 DEF markVerified, SusInv
<1>5. CASE stopEnforcing
  BY <1>5 DEF stopEnforcing, SusInv
<1>6. CASE Evaluate
  BY <1>6, SusEvaluateStep
<1>7. CASE susTick
  BY <1>7, SusTickStep
<1> QED
  BY <1>1, <1>2, <1>3, <1>4, <1>5, <1>6, <1>7 DEF SustainedNext

\* Whoever is not over the thresholds falls short of one of them.
LEMMA SusExplained ==
  ASSUME NEW c, NEW f
  PROVE  (blockers(c, f) = {}) <=> (matchThresholds(c, f) # {})
<1> DEFINE R == total(c.req) >= SusMinRequests * f
           N == Len(c.res) >= SusMinResources
           S == sectionCount(c) >= SusMinSections
           B == total(c.bytes) >= SusMinBytes * f
           D == Len(c.res) * 100 <= sectionCount(c) * SusMaxPercent
<1>1. CASE matchThresholds(c, f) # {}
  BY <1>1 DEF blockers
<1>2. CASE matchThresholds(c, f) = {}
  <2>1. CASE floorsShort(c, f) # {}
    BY <1>2, <2>1 DEF blockers
  <2>2. CASE floorsShort(c, f) = {}
    <3>1. R /\ N /\ S
      <4>1. ~R => "requests" \in floorsShort(c, f)
        BY DEF floorsShort
      <4>2. ~N => "resources" \in floorsShort(c, f)
        BY DEF floorsShort
      <4>3. ~S => "sections" \in floorsShort(c, f)
        BY DEF floorsShort
      <4> HIDE DEF R, N, S
      <4> QED BY <4>1, <4>2, <4>3, <2>2
    <3>2. R /\ N /\ S /\ B => "volume" \in matchThresholds(c, f)
      BY DEF matchThresholds
    <3>3. ~B
      <4> HIDE DEF R, N, S, B
      <4> QED BY <3>1, <3>2, <1>2
    <3>4. "bytes" \in blockers(c, f)
      BY <1>2, <2>2, <3>3 DEF blockers
    <3> QED BY <3>4, <1>2
  <2> QED BY <2>1, <2>2
<1> QED BY <1>1, <1>2

LEMMA SusAnswers == SusInv => DownloadsExact
<1> SUFFICES ASSUME SusInv PROVE DownloadsExact
  OBVIOUS
<1>1. SusRefsExact
  <2> SUFFICES ASSUME NEW ip \in DOMAIN susTable, NEW s \in SusSections
               PROVE  susTable[ip].refs[s] = Cardinality(inSection(susTable[ip].res, s))
    BY DEF SusRefsExact, inSection
  <2>1. PICK c : c = susTable[ip]
    OBVIOUS
  <2>2. /\ c.res \in Seq(SusEntries) /\ SusDistinct(c.res) /\ SusCounts(c.refs, c.res)
    BY <2>1 DEF SusInv, SusClientOk, SusClientType
  <2>3. Cardinality(inSection(c.res, s)) = Cardinality(SusKeysIn(c.res, s))
    BY <2>2, SusPlaces
  <2> QED BY <2>1, <2>2, <2>3 DEF SusCounts
<1>2. SusRetainsNewest
  <2> SUFFICES ASSUME NEW ip \in DOMAIN susTable
               PROVE  /\ IsPrefix([i \in DOMAIN susTable[ip].res |-> susTable[ip].res[i].key], susWalk[ip])
                      /\ SusByAge(susTable[ip].res)
    BY DEF SusRetainsNewest, SusByAge
  <2>1. PICK r : r = susTable[ip].res
    OBVIOUS
  <2>2. PICK w : w = susWalk[ip]
    OBVIOUS
  <2>3. /\ r \in Seq(SusEntries) /\ SusByAge(r) /\ SusOnWalk(r, w)
        /\ w \in Seq(SusResources)
    BY <2>1, <2>2 DEF SusInv, SusClientOk, SusClientType
  <2>4. /\ Len(r) \in Nat /\ DOMAIN r = 1..Len(r) /\ Len(w) \in Nat
        /\ \A i \in 1..Len(r) : r[i].key \in SusResources
    BY <2>3, SusRes, LenProperties
  <2>5. PICK l \in Nat : l = Len(r)
    BY <2>4
  <2>6. PICK k : k = [i \in 1..l |-> r[i].key]
    OBVIOUS
  <2>7. k \in [1..l -> SusResources]
    BY <2>4, <2>5, <2>6
  <2>8. k \in Seq(SusResources) /\ Len(k) = l
    BY <2>7, FunIsSeq
  <2>9. /\ 1 \in 1..(l + 1) /\ l \in 0..l /\ 1 \in 1..(Len(w) + 1) /\ l \in 0..Len(w)
    BY <2>3, <2>4, <2>5 DEF SusOnWalk
  <2>10. PICK u : u = SubSeq(k, 1, l)
    OBVIOUS
  <2>11. PICK v : v = SubSeq(w, 1, l)
    OBVIOUS
  <2>12. /\ u \in Seq(SusResources) /\ Len(u) = IF 1 <= l THEN l - 1 + 1 ELSE 0
         /\ \A i \in 1..(l - 1 + 1) : u[i] = k[1 + i - 1]
    BY <2>8, <2>9, <2>10, SusPart
  <2>13. /\ v \in Seq(SusResources) /\ Len(v) = IF 1 <= l THEN l - 1 + 1 ELSE 0
         /\ \A i \in 1..(l - 1 + 1) : v[i] = w[1 + i - 1]
    BY <2>3, <2>9, <2>11, SusPart
  <2>14. Len(u) = l /\ Len(v) = l
    BY <2>12, <2>13
  <2>15. ASSUME NEW i \in 1..l
         PROVE  u[i] = v[i]
    <3>1. i \in 1..(l - 1 + 1) /\ 1 + i - 1 = i
      OBVIOUS
    <3>2. u[i] = k[i] /\ v[i] = w[i]
      BY <3>1, <2>12, <2>13
    <3>3. k[i] = r[i].key /\ r[i].key = w[i]
      BY <2>3, <2>5, <2>6 DEF SusOnWalk
    <3> QED BY <3>2, <3>3
  <2>16. u = v
    BY <2>12, <2>13, <2>14, <2>15, SeqEqual
  <2>17. IsPrefix(k, w)
    BY <2>5, <2>8, <2>3, <2>10, <2>11, <2>16 DEF IsPrefix, SusOnWalk
  <2> QED
    BY <2>1, <2>2, <2>3, <2>4, <2>5, <2>6, <2>17
<1>3. SusBlockersExplain
  BY SusExplained DEF SusBlockersExplain
<1>4. SusHoldCeiling
  BY DEF SusInv, SusHoldCeiling
<1> QED
  BY <1>1, <1>2, <1>3, <1>4 DEF DownloadsExact

\* A client is selected for what it holds now, whatever the numbers of clients,
\* resources and sections and whatever the thresholds: eviction, expiry and
\* refresh keep the section counts exact and the newest resources in order, who
\* is spared is told why, and a hold ends (observeResource, Prune, Evaluate,
\* Snapshot).
THEOREM SelectedForWhatIsHeld == SustainedSpec => []DownloadsExact
<1>1. SustainedInit => SusInv
  BY SusInitial
<1>2. SusInv /\ [SustainedNext]_sustainedVars => SusInv'
  BY SusStep
<1>3. SusInv => DownloadsExact
  BY SusAnswers
<1> QED
  BY <1>1, <1>2, <1>3, PTL DEF SustainedSpec

-----------------------------------------------------------------------------
(***************************************************************************)
(* Request patterns: the bounded samples of a pattern are those of the     *)
(* connections it counts, so what a signal says of a client happened.      *)
(***************************************************************************)

PatRecords(A, N, S, T, P) ==
  [seen : A, first : N, attempts : N, incomplete : N, timings : S, ttls : T, ports : P,
   portAge : A, asn : N, moves : N, conn : N, connAge : A, reuse : N, rapid : N]
PatTypes ==
  PatRecords({PatNever} \cup Nat, Nat, Seq(Nat), Seq(1..255), SUBSET Nat)

\* A pattern as it is before its first connection and between any two: the
\* ports it remembers are those of its burst, its gaps those since its first.
PatOk(p, burst) ==
  /\ p \in PatTypes
  /\ p.portAge = PatNever => p.ports = {}
  /\ p.portAge \in 0..PatPortWindow => p.ports \subseteq burst
  /\ p.seen = PatNever => p = PatNew
  /\ p.seen # PatNever /\ p.attempts <= PatSamples => p.attempts = Len(p.timings) + 1
  /\ p.seen # PatNever /\ p.attempts <= PatSamples /\ p.first <= PatExpiry
       => gapsLead(p.timings, p.first, p.seen)

PatInv ==
  /\ IsFiniteSet(DOMAIN patTable) /\ Cardinality(DOMAIN patTable) <= PatMax
  /\ DOMAIN patTable \subseteq PatIPs
  /\ DOMAIN patBurst = PatIPs
  /\ \A ip \in PatIPs : patBurst[ip] \subseteq Nat /\ IsFiniteSet(patBurst[ip])
  /\ \A ip \in DOMAIN patTable :
       PatOk(patTable[ip], patBurst[ip]) /\ patTable[ip].seen # PatNever
  /\ \A s \in patEmitted : s.ip \in DOMAIN patTable => s.kind \in analyzePattern(patTable[s.ip])

LEMMA PatNewOk ==
  ASSUME NEW burst
  PROVE  PatOk(PatNew, burst)
<1>1. <<>> \in Seq(Nat) /\ <<>> \in Seq(1..255) /\ {} \in SUBSET Nat
  OBVIOUS
<1>2. PatNew \in PatTypes
  BY <1>1 DEF PatNew, PatTypes, PatRecords
<1> QED
  BY <1>2 DEF PatOk, PatNew

LEMMA PatKept ==
  ASSUME NEW S, NEW s \in Seq(S), NEW x \in S
  PROVE  /\ patKeep(s, x) \in Seq(S)
         /\ Len(s) < PatSamples => patKeep(s, x) = Append(s, x)
<1>1. Len(s) \in Nat /\ PatSamples \in Nat \ {0}
  BY LenProperties, PatternsAssumption
<1>2. CASE Len(s) < PatSamples
  <2>1. Append(s, x) \in Seq(S)
    BY AppendProperties
  <2> QED BY <1>2, <2>1 DEF patKeep
<1>3. CASE ~(Len(s) < PatSamples)
  <2>1. s # <<>>
    BY <1>1, <1>3
  <2>2. Tail(s) \in Seq(S)
    BY <2>1, HeadTailProperties
  <2>3. Append(Tail(s), x) \in Seq(S)
    BY <2>2, AppendProperties
  <2> QED BY <1>3, <2>3 DEF patKeep
<1> QED BY <1>2, <1>3

\* A further gap leads on to a connection of now.
LEMMA PatGapMore ==
  ASSUME NEW gaps \in Seq(Nat), NEW first \in Nat, NEW latest \in Nat,
         gapsLead(gaps, first, latest)
  PROVE  gapsLead(Append(gaps, latest), first, 0)
<1>1. PICK n \in Nat : n = Len(gaps)
  BY LenProperties
<1>2. PICK age \in [0..n -> latest..first] :
        /\ age[0] = first /\ age[n] = latest
        /\ \A i \in 1..n : age[i] = age[i - 1] - gaps[i]
  BY <1>1 DEF gapsLead
<1>3. PICK more : more = Append(gaps, latest)
  OBVIOUS
<1>4. Len(more) = n + 1 /\ more[n + 1] = latest /\ \A i \in 1..n : more[i] = gaps[i]
  BY <1>1, <1>3, AppendProperties
<1>5. PICK b : b = [i \in 0..(n + 1) |-> IF i = n + 1 THEN 0 ELSE age[i]]
  OBVIOUS
<1>6. ASSUME NEW i \in 0..(n + 1)
      PROVE  b[i] \in 0..first
  <2>1. CASE i = n + 1
    BY <2>1, <1>5
  <2>2. CASE i # n + 1
    <3>1. i \in 0..n
      BY <2>2
    <3>2. age[i] \in latest..first
      BY <3>1, <1>2
    <3> QED BY <2>2, <3>2, <1>5
  <2> QED BY <2>1, <2>2
<1>7. b \in [0..(n + 1) -> 0..first]
  BY <1>5, <1>6
<1>8. b[0] = first /\ b[n + 1] = 0
  BY <1>2, <1>5
<1>9. ASSUME NEW i \in 1..(n + 1)
      PROVE  b[i] = b[i - 1] - more[i]
  <2>1. CASE i = n + 1
    <3>1. i - 1 = n /\ n \in 0..(n + 1) /\ n # n + 1 /\ i \in 0..(n + 1)
      BY <2>1
    <3>2. b[i - 1] = latest /\ b[i] = 0 /\ more[i] = latest
      BY <3>1, <2>1, <1>2, <1>4, <1>5
    <3> QED BY <3>2
  <2>2. CASE i # n + 1
    <3>1. i \in 1..n /\ i \in 0..(n + 1) /\ i - 1 \in 0..(n + 1) /\ i - 1 # n + 1
      BY <2>2
    <3>2. b[i] = age[i] /\ b[i - 1] = age[i - 1] /\ more[i] = gaps[i]
      BY <3>1, <2>2, <1>4, <1>5
    <3> QED BY <3>1, <3>2, <1>2
  <2> QED BY <2>1, <2>2
<1> QED
  BY <1>3, <1>4, <1>7, <1>8, <1>9 DEF gapsLead

LEMMA PatGapNone ==
  gapsLead(<<>>, 0, 0)
<1>1. PICK b : b = [i \in 0..0 |-> 0]
  OBVIOUS
<1>2. b \in [0..0 -> 0..0] /\ b[0] = 0
  BY <1>1
<1>3. Len(<<>>) = 0 /\ 1..0 = {}
  OBVIOUS
<1> QED
  BY <1>2, <1>3 DEF gapsLead

\* All the connections are a tick further away.
LEMMA PatGapOlder ==
  ASSUME NEW gaps \in Seq(Nat), NEW first \in Nat, NEW latest \in Nat,
         gapsLead(gaps, first, latest)
  PROVE  gapsLead(gaps, first + 1, latest + 1) /\ latest <= first
<1>1. PICK n \in Nat : n = Len(gaps)
  BY LenProperties
<1>2. PICK age \in [0..n -> latest..first] :
        /\ age[0] = first /\ age[n] = latest
        /\ \A i \in 1..n : age[i] = age[i - 1] - gaps[i]
  BY <1>1 DEF gapsLead
<1>3. PICK b : b = [i \in 0..n |-> age[i] + 1]
  OBVIOUS
<1>4. \A i \in 0..n : age[i] \in latest..first
  BY <1>2
<1>5. \A i \in 0..n : b[i] \in (latest + 1)..(first + 1)
  BY <1>3, <1>4
<1>6. b \in [0..n -> (latest + 1)..(first + 1)]
  BY <1>3, <1>5
<1>7. b[0] = first + 1 /\ b[n] = latest + 1
  BY <1>2, <1>3
<1>8. ASSUME NEW i \in 1..n
      PROVE  b[i] = b[i - 1] - gaps[i]
  <2>1. i \in 0..n /\ i - 1 \in 0..n
    OBVIOUS
  <2>2. PICK x \in Int : x = age[i]
    BY <1>4, <2>1
  <2>3. PICK y \in Int : y = age[i - 1]
    BY <1>4, <2>1
  <2>4. PICK g \in Nat : g = gaps[i]
    BY <1>1, ElementOfSeq
  <2>5. b[i] = x + 1 /\ b[i - 1] = y + 1 /\ x = y - g
    BY <1>2, <1>3, <2>1, <2>2, <2>3, <2>4
  <2>6. gaps[i] = g /\ x \in Int /\ y \in Int
    BY <2>2, <2>3, <2>4
  <2> QED BY <2>5, <2>6
<1>9. latest <= first
  <2>1. age[0] \in latest..first
    BY <1>4
  <2> QED BY <2>1
<1>10. gapsLead(gaps, first + 1, latest + 1)
  BY <1>1, <1>6, <1>7, <1>8 DEF gapsLead
<1> QED
  BY <1>9, <1>10

\* A connection recorded.
LEMMA PatRecorded ==
  ASSUME NEW burst, NEW p, PatOk(p, burst), NEW meta \in PatMetas
  PROVE  /\ PatOk(recorded(p, meta),
                  IF meta.port = 0 THEN burst
                  ELSE IF p.portAge \in 0..PatPortWindow THEN burst \cup {meta.port}
                  ELSE {meta.port})
         /\ recorded(p, meta).seen # PatNever
<1>1. /\ meta.ttl \in 0..255 /\ meta.port \in Nat /\ meta.asn \in Nat
      /\ meta.conn \in Nat /\ meta.incomplete \in BOOLEAN
  BY PatternsAssumption
<1>2. p \in PatTypes
  BY DEF PatOk
<1>3. /\ p.seen \in {PatNever} \cup Nat /\ p.first \in Nat /\ p.attempts \in Nat
      /\ p.incomplete \in Nat /\ p.timings \in Seq(Nat) /\ p.ttls \in Seq(1..255)
      /\ p.ports \in SUBSET Nat /\ p.portAge \in {PatNever} \cup Nat /\ p.asn \in Nat
      /\ p.moves \in Nat /\ p.conn \in Nat /\ p.connAge \in {PatNever} \cup Nat
      /\ p.reuse \in Nat /\ p.rapid \in Nat
  BY <1>2 DEF PatTypes, PatRecords
<1>4. PICK z \in Nat : z = 0
  OBVIOUS
<1>5. z \in {PatNever} \cup Nat /\ z # PatNever
  BY DEF PatNever
<1> DEFINE reused == meta.conn # 0 /\ meta.conn = p.conn
<1>6. PICK timings \in Seq(Nat) : timings = IF p.seen = PatNever THEN p.timings ELSE patKeep(p.timings, gapSince(p))
  BY <1>3, PatKept DEF gapSince
<1>7. PICK attempts \in Nat : attempts = p.attempts + 1
  BY <1>3
<1>8. PICK ttls \in Seq(1..255) : ttls = IF meta.ttl = 0 THEN p.ttls ELSE patKeep(p.ttls, meta.ttl)
  <2>1. meta.ttl # 0 => meta.ttl \in 1..255
    BY <1>1
  <2> QED BY <1>3, <2>1, PatKept
<1>9. PICK ports \in SUBSET Nat : ports = IF meta.port = 0 THEN p.ports ELSE portsKept(p) \cup {meta.port}
  BY <1>1, <1>3 DEF portsKept
<1>10. PICK portAge \in {PatNever} \cup Nat : portAge = IF meta.port = 0 THEN p.portAge ELSE 0
  BY <1>3
<1>11. PICK incomplete \in Nat : incomplete = p.incomplete + IF meta.incomplete THEN 1 ELSE 0
  <2>1. PICK d \in Nat : d = IF meta.incomplete THEN 1 ELSE 0
    OBVIOUS
  <2>2. PICK m \in Nat : m = p.incomplete
    BY <1>3
  <2>3. m + d \in Nat
    BY <2>1, <2>2
  <2> QED BY <2>1, <2>2, <2>3
<1>12. PICK moves \in Nat : moves = p.moves + IF meta.asn # 0 /\ p.asn # 0 /\ meta.asn # p.asn THEN 1 ELSE 0
  <2>1. PICK d \in Nat : d = IF meta.asn # 0 /\ p.asn # 0 /\ meta.asn # p.asn THEN 1 ELSE 0
    OBVIOUS
  <2>2. PICK m \in Nat : m = p.moves
    BY <1>3
  <2>3. m + d \in Nat
    BY <2>1, <2>2
  <2> QED BY <2>1, <2>2, <2>3
<1>13. PICK asn \in Nat : asn = IF meta.asn = 0 THEN p.asn ELSE meta.asn
  BY <1>1, <1>3
<1>14. PICK reuse \in Nat : reuse = p.reuse + IF reused THEN 1 ELSE 0
  <2>1. PICK d \in Nat : d = IF reused THEN 1 ELSE 0
    OBVIOUS
  <2>2. PICK m \in Nat : m = p.reuse
    BY <1>3
  <2>3. m + d \in Nat
    BY <2>1, <2>2
  <2> QED BY <2>1, <2>2, <2>3
<1>15. PICK rapid \in Nat : rapid = p.rapid + IF reused /\ p.connAge = 0 THEN 1 ELSE 0
  <2>1. PICK d \in Nat : d = IF reused /\ p.connAge = 0 THEN 1 ELSE 0
    OBVIOUS
  <2>2. PICK m \in Nat : m = p.rapid
    BY <1>3
  <2>3. m + d \in Nat
    BY <2>1, <2>2
  <2> QED BY <2>1, <2>2, <2>3
<1>16. PICK conn \in Nat : conn = IF meta.conn = 0 THEN p.conn ELSE meta.conn
  BY <1>1, <1>3
<1>17. PICK connAge \in {PatNever} \cup Nat : connAge = IF meta.conn = 0 THEN p.connAge ELSE 0
  BY <1>3
<1>18. PICK n : n = recorded(p, meta)
  OBVIOUS
<1>19. n = [p EXCEPT !.timings = timings, !.seen = z, !.attempts = attempts, !.ttls = ttls,
                     !.ports = ports, !.portAge = portAge, !.incomplete = incomplete,
                     !.moves = moves, !.asn = asn, !.reuse = reuse, !.rapid = rapid,
                     !.conn = conn, !.connAge = connAge]
  BY <1>2, <1>4, <1>6, <1>7, <1>8, <1>9, <1>10, <1>11, <1>12, <1>13, <1>14, <1>15, <1>16,
     <1>17, <1>18 DEF recorded, PatTypes, PatRecords
<1>20. /\ n \in PatTypes
       /\ n.seen = z /\ n.first = p.first /\ n.attempts = attempts /\ n.timings = timings
       /\ n.ports = ports /\ n.portAge = portAge
  <2>1. p \in PatRecords({PatNever} \cup Nat, Nat, Seq(Nat), Seq(1..255), SUBSET Nat)
    BY <1>2 DEF PatTypes
  <2>2. PICK A : A = {PatNever} \cup Nat
    OBVIOUS
  <2>3. PICK N : N = Nat
    OBVIOUS
  <2>4. PICK S : S = Seq(Nat)
    OBVIOUS
  <2>5. PICK T : T = Seq(1..255)
    OBVIOUS
  <2>6. PICK P : P = SUBSET Nat
    OBVIOUS
  <2>7. /\ p \in PatRecords(A, N, S, T, P)
        /\ z \in A /\ attempts \in N /\ timings \in S /\ ttls \in T /\ ports \in P
        /\ portAge \in A /\ incomplete \in N /\ moves \in N /\ asn \in N /\ reuse \in N
        /\ rapid \in N /\ conn \in N /\ connAge \in A
    BY <2>1, <2>2, <2>3, <2>4, <2>5, <2>6, <1>5, <1>6, <1>7, <1>8, <1>9, <1>10, <1>11, <1>12,
       <1>13, <1>14, <1>15, <1>16, <1>17
  <2>8. /\ n \in PatRecords(A, N, S, T, P)
        /\ n.seen = z /\ n.first = p.first /\ n.attempts = attempts /\ n.timings = timings
        /\ n.ports = ports /\ n.portAge = portAge
    BY <2>7, <1>19 DEF PatRecords
  <2> QED
    BY <2>2, <2>3, <2>4, <2>5, <2>6, <2>8 DEF PatTypes
<1>21. PICK later : later = IF meta.port = 0 THEN burst
                            ELSE IF p.portAge \in 0..PatPortWindow THEN burst \cup {meta.port}
                            ELSE {meta.port}
  OBVIOUS
<1>22. /\ n.portAge = PatNever => n.ports = {}
       /\ n.portAge \in 0..PatPortWindow => n.ports \subseteq later
  <2>1. CASE meta.port = 0
    BY <2>1, <1>9, <1>10, <1>20, <1>21 DEF PatOk
  <2>2. CASE meta.port # 0
    <3>1. n.portAge # PatNever
      BY <2>2, <1>10, <1>20 DEF PatNever
    <3>2. CASE p.portAge \in 0..PatPortWindow
      BY <2>2, <3>1, <3>2, <1>9, <1>20, <1>21 DEF portsKept, PatOk
    <3>3. CASE ~(p.portAge \in 0..PatPortWindow)
      <4>1. p.portAge = PatNever \/ p.portAge > PatPortWindow
        BY <3>3, <1>3, PatternsAssumption
      <4> QED BY <2>2, <3>1, <3>3, <4>1, <1>9, <1>20, <1>21 DEF portsKept
    <3> QED BY <3>2, <3>3
  <2> QED BY <2>1, <2>2
<1>23. ASSUME n.attempts <= PatSamples
       PROVE  /\ n.attempts = Len(n.timings) + 1
              /\ n.first <= PatExpiry => gapsLead(n.timings, n.first, n.seen)
  <2>1. CASE p.seen = PatNever
    <3>1. p.timings = <<>> /\ p.first = 0 /\ p.attempts = 0
      BY <2>1 DEF PatOk, PatNew
    <3>2. n.timings = <<>> /\ n.first = 0 /\ n.seen = 0 /\ n.attempts = 1
      BY <2>1, <3>1, <1>4, <1>6, <1>7, <1>20
    <3> QED BY <3>2, PatGapNone
  <2>2. CASE p.seen # PatNever
    <3>1. p.seen \in Nat /\ PatSamples \in Nat /\ Len(p.timings) \in Nat
      BY <2>2, <1>3, PatternsAssumption, LenProperties
    <3>2. p.attempts <= PatSamples /\ p.attempts < PatSamples
      <4>1. PICK a \in Nat : a = p.attempts
        BY <1>3
      <4>2. a + 1 <= PatSamples
        BY <4>1, <1>7, <1>20, <1>23
      <4> QED BY <3>1, <4>1, <4>2
    <3>3. p.attempts = Len(p.timings) + 1
      BY <2>2, <3>2 DEF PatOk
    <3>4. n.timings = Append(p.timings, p.seen)
      <4>1. Len(p.timings) < PatSamples
        BY <3>1, <3>2, <3>3
      <4>2. n.timings = patKeep(p.timings, p.seen)
        BY <2>2, <1>6, <1>20 DEF gapSince
      <4>3. PICK g \in Nat : g = p.seen
        BY <3>1
      <4>4. PICK t \in Seq(Nat) : t = p.timings
        BY <1>3
      <4>5. patKeep(t, g) = Append(t, g)
        BY <4>1, <4>4, PatKept
      <4> QED BY <4>2, <4>3, <4>4, <4>5
    <3>5. Len(n.timings) = Len(p.timings) + 1
      BY <3>1, <3>4, <1>3, AppendProperties
    <3>6. p.first <= PatExpiry => gapsLead(p.timings, p.first, p.seen)
      BY <2>2, <3>2 DEF PatOk
    <3>7. p.first <= PatExpiry => gapsLead(n.timings, n.first, n.seen)
      BY <3>1, <3>4, <3>6, <1>3, <1>4, <1>20, PatGapMore
    <3> QED
      BY <3>3, <3>5, <3>7, <1>7, <1>20
  <2> QED BY <2>1, <2>2
<1> QED
  BY <1>5, <1>18, <1>20, <1>21, <1>22, <1>23 DEF PatOk

\* A table one over its size is cut to within it.
LEMMA PatCut ==
  ASSUME NEW T, IsFiniteSet(DOMAIN T), Cardinality(DOMAIN T) <= PatMax + 1, NEW seen,
         NEW U \in enforceMaxSizeBatch(T, PatMax, PatHeadroom, seen)
  PROVE  /\ DOMAIN U \subseteq DOMAIN T /\ \A x \in DOMAIN U : U[x] = T[x]
         /\ IsFiniteSet(DOMAIN U) /\ Cardinality(DOMAIN U) <= PatMax
<1>1. PICK size \in Nat : size = Cardinality(DOMAIN T)
  BY FS_CardinalityType
<1>2. PICK over : over = overflow(size, PatMax, PatHeadroom)
  OBVIOUS
<1>3. PatMax \in Nat \ {0} /\ PatHeadroom \in Nat \ {0}
  BY PatternsAssumption
<1>4. over \in Nat /\ (size = PatMax + 1 => over >= 1)
  <2>1. PICK q \in Nat : q = PatMax \div PatHeadroom
    BY <1>3
  <2>2. CASE size <= PatMax
    <3>1. over = 0
      BY <2>2, <1>2 DEF overflow
    <3> QED BY <3>1, <2>2, <1>1, <1>3
  <2>3. CASE ~(size <= PatMax)
    <3>1. over = size - PatMax + q
      BY <2>1, <2>3, <1>2, <1>3 DEF overflow
    <3>2. size = PatMax + 1
      BY <2>3, <1>1, <1>3
    <3> QED BY <3>1, <3>2, <1>1, <1>3
  <2> QED BY <2>2, <2>3
<1>5. PICK n : n = Min({over, size})
  OBVIOUS
<1>6. n \in {over, size}
  <2>1. {over, size} \in SUBSET Nat /\ {over, size} # {}
    BY <1>4
  <2> QED BY <2>1, <1>5, SmallestOf
<1>7. PICK S \in kSubset(n, DOMAIN T) : U = Restrict(T, DOMAIN T \ S)
  BY <1>1, <1>2, <1>5 DEF enforceMaxSizeBatch, removeOldestN
<1>8. S \subseteq DOMAIN T /\ Cardinality(S) = n
  BY <1>7 DEF kSubset
<1>9. DOMAIN U = DOMAIN T \ S /\ \A x \in DOMAIN U : U[x] = T[x]
  BY <1>7 DEF Restrict
<1>10. IsFiniteSet(DOMAIN U) /\ Cardinality(DOMAIN U) = size - n
  <2>1. /\ IsFiniteSet(DOMAIN T \ S)
        /\ Cardinality(DOMAIN T \ S) = Cardinality(DOMAIN T) - Cardinality(DOMAIN T \cap S)
    BY FS_Difference
  <2>2. DOMAIN T \cap S = S
    BY <1>8
  <2> QED BY <2>1, <2>2, <1>1, <1>8, <1>9
<1>11. Cardinality(DOMAIN U) <= PatMax
  BY <1>1, <1>3, <1>4, <1>6, <1>10
<1> QED
  BY <1>9, <1>10, <1>11

LEMMA PatAgedIs ==
  ASSUME NEW x \in {PatNever} \cup Nat
  PROVE  /\ x = PatNever => patAged(x) = PatNever
         /\ x # PatNever => /\ patAged(x) \in Nat /\ patAged(x) # PatNever
                            /\ patAged(x) = IF x + 1 <= PatExpiry + 1 THEN x + 1 ELSE PatExpiry + 1
<1>1. CASE x = PatNever
  BY <1>1 DEF patAged
<1>2. CASE x # PatNever
  <2>1. x \in Nat /\ PatExpiry \in Nat
    BY <1>2, PatternsAssumption
  <2>2. {x + 1, PatExpiry + 1} \in SUBSET Nat /\ {x + 1, PatExpiry + 1} # {}
    BY <2>1
  <2>3. PICK m : m = Min({x + 1, PatExpiry + 1})
    OBVIOUS
  <2>4. m \in {x + 1, PatExpiry + 1} /\ m <= x + 1 /\ m <= PatExpiry + 1
    BY <2>2, <2>3, SmallestOf
  <2>5. patAged(x) = m
    BY <1>2, <2>3 DEF patAged
  <2> QED
    BY <1>2, <2>1, <2>4, <2>5 DEF PatNever
<1> QED
  BY <1>1, <1>2

LEMMA PatOlderOk ==
  ASSUME NEW burst, NEW p, PatOk(p, burst), p.seen # PatNever
  PROVE  PatOk(patOlder(p), burst) /\ patOlder(p).seen # PatNever
<1>1. p \in PatRecords({PatNever} \cup Nat, Nat, Seq(Nat), Seq(1..255), SUBSET Nat)
  BY DEF PatOk, PatTypes
<1>2. /\ p.seen \in {PatNever} \cup Nat /\ p.first \in Nat /\ p.portAge \in {PatNever} \cup Nat
      /\ p.connAge \in {PatNever} \cup Nat /\ p.timings \in Seq(Nat) /\ p.attempts \in Nat
  BY <1>1 DEF PatRecords
<1>3. /\ PatExpiry \in Nat /\ PatPortWindow \in Nat /\ PatPortWindow <= PatExpiry
      /\ PatSamples \in Nat
  BY PatternsAssumption
<1>4. PICK s \in Nat : s = patAged(p.seen)
  BY <1>2, PatAgedIs
<1>5. PICK f \in Nat : f = patAged(p.first)
  <2>1. p.first \in {PatNever} \cup Nat /\ p.first # PatNever
    BY <1>2 DEF PatNever
  <2> QED BY <2>1, PatAgedIs
<1>6. PICK a \in {PatNever} \cup Nat : a = patAged(p.portAge)
  BY <1>2, PatAgedIs
<1>7. PICK c \in {PatNever} \cup Nat : c = patAged(p.connAge)
  BY <1>2, PatAgedIs
<1>8. PICK n : n = patOlder(p)
  OBVIOUS
<1>9. n = [p EXCEPT !.seen = s, !.first = f, !.portAge = a, !.connAge = c]
  BY <1>1, <1>4, <1>5, <1>6, <1>7, <1>8 DEF patOlder, PatRecords
<1>10. /\ n \in PatTypes
       /\ n.seen = s /\ n.first = f /\ n.attempts = p.attempts
       /\ n.timings = p.timings /\ n.ports = p.ports /\ n.portAge = a
  <2>2. PICK A : A = {PatNever} \cup Nat
    OBVIOUS
  <2>3. PICK N : N = Nat
    OBVIOUS
  <2>4. PICK S : S = Seq(Nat)
    OBVIOUS
  <2>5. PICK T : T = Seq(1..255)
    OBVIOUS
  <2>6. PICK P : P = SUBSET Nat
    OBVIOUS
  <2>7. /\ p \in PatRecords(A, N, S, T, P)
        /\ s \in A /\ f \in N /\ a \in A /\ c \in A
    BY <2>2, <2>3, <2>4, <2>5, <2>6, <1>1, <1>4, <1>5, <1>6, <1>7
  <2>8. /\ n \in PatRecords(A, N, S, T, P)
        /\ n.seen = s /\ n.first = f /\ n.attempts = p.attempts
        /\ n.timings = p.timings /\ n.ports = p.ports /\ n.portAge = a
    BY <2>7, <1>9 DEF PatRecords
  <2> QED
    BY <2>2, <2>3, <2>4, <2>5, <2>6, <2>8 DEF PatTypes
<1>11. n.seen # PatNever
  BY <1>4, <1>10 DEF PatNever
<1>12. n.portAge = PatNever => n.ports = {}
  <2>1. n.portAge = PatNever => p.portAge = PatNever
    BY <1>2, <1>6, <1>10, PatAgedIs
  <2> QED BY <2>1, <1>10 DEF PatOk
<1>13. n.portAge \in 0..PatPortWindow => n.ports \subseteq burst
  <2> SUFFICES ASSUME a \in 0..PatPortWindow PROVE p.portAge \in 0..PatPortWindow
    BY <1>10 DEF PatOk
  <2>1. a # PatNever
    BY <1>3 DEF PatNever
  <2>2. p.portAge # PatNever
    BY <2>1, <1>2, <1>6, PatAgedIs
  <2>3. PICK x \in Nat : x = p.portAge
    BY <2>2, <1>2
  <2>4. a = IF x + 1 <= PatExpiry + 1 THEN x + 1 ELSE PatExpiry + 1
    BY <2>2, <2>3, <1>2, <1>6, PatAgedIs
  <2> QED BY <2>3, <2>4, <1>3
<1>14. ASSUME n.attempts <= PatSamples
       PROVE  /\ n.attempts = Len(n.timings) + 1
              /\ n.first <= PatExpiry => gapsLead(n.timings, n.first, n.seen)
  <2>1. n.attempts = Len(n.timings) + 1
    BY <1>10, <1>14 DEF PatOk
  <2>2. ASSUME n.first <= PatExpiry
        PROVE  gapsLead(n.timings, n.first, n.seen)
    <3>1. PICK x \in Nat : x = p.first
      BY <1>2
    <3>2. PICK y \in Nat : y = p.seen
      BY <1>2
    <3>3. f = IF x + 1 <= PatExpiry + 1 THEN x + 1 ELSE PatExpiry + 1
      <4>1. x \in {PatNever} \cup Nat /\ x # PatNever
        BY DEF PatNever
      <4> QED BY <4>1, <3>1, <1>5, PatAgedIs
    <3>4. x <= PatExpiry /\ f = x + 1
      BY <3>3, <2>2, <1>3, <1>10
    <3>5. gapsLead(p.timings, x, y)
      BY <3>1, <3>2, <3>4, <1>10, <1>14 DEF PatOk
    <3>6. gapsLead(p.timings, x + 1, y + 1) /\ y <= x
      BY <3>5, <1>2, PatGapOlder
    <3>7. s = IF y + 1 <= PatExpiry + 1 THEN y + 1 ELSE PatExpiry + 1
      BY <3>2, <1>2, <1>4, PatAgedIs
    <3>8. s = y + 1
      BY <3>4, <3>6, <3>7, <1>3
    <3> QED BY <3>4, <3>6, <3>8, <1>10
  <2> QED BY <2>1, <2>2
<1> QED
  BY <1>8, <1>10, <1>11, <1>12, <1>13, <1>14 DEF PatOk

LEMMA PatInitial == PatternsInit => PatInv
<1> SUFFICES ASSUME PatternsInit PROVE PatInv
  OBVIOUS
<1>1. patTable = <<>> /\ patEmitted = {} /\ patBurst = [ip \in PatIPs |-> {}]
  BY DEF PatternsInit
<1>2. DOMAIN patTable = {}
  BY <1>1
<1>3. IsFiniteSet({}) /\ Cardinality({}) <= PatMax
  BY FS_EmptySet, PatternsAssumption
<1> QED
  BY <1>1, <1>2, <1>3 DEF PatInv

LEMMA PatRecordStep ==
  ASSUME PatInv, NEW ip \in PatIPs, NEW meta \in PatMetas, RecordConnection(ip, meta)
  PROVE  PatInv'
<1> DEFINE new == ip \notin DOMAIN patTable
<1>1. PICK T : T = IF new THEN patWith(patTable, ip, PatNew) ELSE patTable
  OBVIOUS
<1>2. PICK seen : seen = [x \in DOMAIN T |->
                IF T[x].seen = PatNever THEN -(PatExpiry + 2) ELSE -T[x].seen]
  OBVIOUS
<1>3. PICK p : p = recorded(T[ip], meta)
  OBVIOUS
<1>4. PICK U \in (IF new THEN enforceMaxSizeBatch(T, PatMax, PatHeadroom, seen) ELSE {T}) :
          /\ patTable' = IF ip \in DOMAIN U THEN patWith(U, ip, p) ELSE U
          /\ patBurst' = [x \in PatIPs |->
               IF x \notin DOMAIN U THEN {} ELSE IF x # ip \/ meta.port = 0 THEN patBurst[x]
               ELSE IF T[x].portAge \in 0..PatPortWindow THEN patBurst[x] \cup {meta.port}
               ELSE {meta.port}]
  <2> DEFINE T0 == IF new THEN patWith(patTable, ip, PatNew) ELSE patTable
             seen0 == [x \in DOMAIN T0 |->
                IF T0[x].seen = PatNever THEN -(PatExpiry + 2) ELSE -T0[x].seen]
             p0 == recorded(T0[ip], meta)
  <2>1. \E U \in (IF new THEN enforceMaxSizeBatch(T0, PatMax, PatHeadroom, seen0) ELSE {T0}) :
          /\ patTable' = IF ip \in DOMAIN U THEN patWith(U, ip, p0) ELSE U
          /\ patBurst' = [x \in PatIPs |->
               IF x \notin DOMAIN U THEN {} ELSE IF x # ip \/ meta.port = 0 THEN patBurst[x]
               ELSE IF T0[x].portAge \in 0..PatPortWindow THEN patBurst[x] \cup {meta.port}
               ELSE {meta.port}]
    BY DEF RecordConnection
  <2>2. T = T0
    BY <1>1
  <2>3. seen = seen0 /\ p = p0
    BY <2>2, <1>2, <1>3
  <2> HIDE DEF T0, seen0, p0
  <2> QED
    BY <2>1, <2>2, <2>3
<1>5. patEmitted' = {[ip |-> ip, kind |-> k] : k \in analyzePattern(p)}
  BY <1>1, <1>3 DEF RecordConnection
<1>6. /\ DOMAIN T = DOMAIN patTable \cup {ip}
      /\ \A x \in DOMAIN T : PatOk(T[x], patBurst[x])
      /\ \A x \in DOMAIN T : x # ip => T[x].seen # PatNever
  <2>1. CASE new
    <3>1. /\ DOMAIN T = DOMAIN patTable \cup {ip}
          /\ \A x \in DOMAIN T : T[x] = IF x = ip THEN PatNew ELSE patTable[x]
      BY <1>1, <2>1 DEF patWith
    <3> QED BY <3>1, PatNewOk DEF PatInv
  <2>2. CASE ~new
    BY <1>1, <2>2 DEF PatInv
  <2> QED BY <2>1, <2>2
<1>7. IsFiniteSet(DOMAIN T) /\ Cardinality(DOMAIN T) <= PatMax + 1 /\ (~new => Cardinality(DOMAIN T) <= PatMax)
  <2>1. IsFiniteSet(DOMAIN patTable) /\ Cardinality(DOMAIN patTable) \in Nat
        /\ Cardinality(DOMAIN patTable) <= PatMax /\ PatMax \in Nat
    BY FS_CardinalityType, PatternsAssumption DEF PatInv
  <2>2. /\ IsFiniteSet(DOMAIN patTable \cup {ip})
        /\ Cardinality(DOMAIN patTable \cup {ip}) =
             IF ip \in DOMAIN patTable THEN Cardinality(DOMAIN patTable)
             ELSE Cardinality(DOMAIN patTable) + 1
    BY <2>1, FS_AddElement
  <2> QED BY <2>1, <2>2, <1>6
<1>8. /\ DOMAIN U \subseteq DOMAIN T /\ \A x \in DOMAIN U : U[x] = T[x]
      /\ IsFiniteSet(DOMAIN U) /\ Cardinality(DOMAIN U) <= PatMax
  <2>1. CASE new
    BY <2>1, <1>4, <1>7, PatCut
  <2>2. CASE ~new
    BY <2>2, <1>4, <1>7
  <2> QED BY <2>1, <2>2
<1>9. /\ DOMAIN patTable' = DOMAIN U
      /\ \A x \in DOMAIN U : patTable'[x] = IF x = ip THEN p ELSE T[x]
  <2>1. CASE ip \in DOMAIN U
    BY <2>1, <1>4, <1>8 DEF patWith
  <2>2. CASE ip \notin DOMAIN U
    BY <2>2, <1>4, <1>8
  <2> QED BY <2>1, <2>2
<1>10. DOMAIN patTable' \subseteq PatIPs
  BY <1>6, <1>8, <1>9 DEF PatInv
<1>11. meta.port \in Nat
  BY PatternsAssumption
<1>12. /\ DOMAIN patBurst' = PatIPs
       /\ \A x \in PatIPs : patBurst'[x] \subseteq Nat /\ IsFiniteSet(patBurst'[x])
  <2>1. DOMAIN patBurst' = PatIPs
    BY <1>4
  <2>2. ASSUME NEW x \in PatIPs
        PROVE  patBurst'[x] \subseteq Nat /\ IsFiniteSet(patBurst'[x])
    <3>1. patBurst[x] \subseteq Nat /\ IsFiniteSet(patBurst[x])
      BY DEF PatInv
    <3>2. patBurst'[x] \in {{}, patBurst[x], patBurst[x] \cup {meta.port}, {} \cup {meta.port}}
      BY <1>4
    <3>3. /\ IsFiniteSet({}) /\ IsFiniteSet(patBurst[x] \cup {meta.port})
          /\ IsFiniteSet({} \cup {meta.port})
      BY <3>1, FS_EmptySet, FS_AddElement
    <3> QED BY <3>1, <3>2, <3>3, <1>11
  <2> QED BY <2>1, <2>2
<1>13. ASSUME NEW x \in DOMAIN patTable'
       PROVE  PatOk(patTable'[x], patBurst'[x]) /\ patTable'[x].seen # PatNever
  <2>1. x \in DOMAIN U /\ x \in DOMAIN T /\ x \in PatIPs
    BY <1>8, <1>9, <1>10
  <2>2. CASE x = ip
    <3>1. PICK b : b = patBurst[ip]
      OBVIOUS
    <3>2. PICK t : t = T[ip]
      OBVIOUS
    <3>3. PatOk(t, b)
      BY <2>1, <2>2, <3>1, <3>2, <1>6
    <3>4. /\ PatOk(recorded(t, meta),
                  IF meta.port = 0 THEN b
                  ELSE IF t.portAge \in 0..PatPortWindow THEN b \cup {meta.port}
                  ELSE {meta.port})
          /\ recorded(t, meta).seen # PatNever
      BY <3>3, PatRecorded
    <3>5. patBurst'[ip] = IF meta.port = 0 THEN b
                          ELSE IF t.portAge \in 0..PatPortWindow THEN b \cup {meta.port}
                          ELSE {meta.port}
      BY <2>1, <2>2, <3>1, <3>2, <1>4
    <3>6. patTable'[ip] = recorded(t, meta)
      BY <2>1, <2>2, <3>2, <1>3, <1>9
    <3> QED BY <2>2, <3>4, <3>5, <3>6
  <2>3. CASE x # ip
    <3>1. patTable'[x] = T[x] /\ patBurst'[x] = patBurst[x]
      BY <2>1, <2>3, <1>4, <1>9
    <3> QED BY <2>1, <2>3, <3>1, <1>6
  <2> QED BY <2>2, <2>3
<1>14. ASSUME NEW s \in patEmitted', s.ip \in DOMAIN patTable'
       PROVE  s.kind \in analyzePattern(patTable'[s.ip])
  <2>1. PICK k \in analyzePattern(p) : s = [ip |-> ip, kind |-> k]
    BY <1>5
  <2>2. s.ip = ip /\ s.kind = k
    BY <2>1
  <2>3. patTable'[ip] = p
    BY <2>2, <1>9, <1>14
  <2> QED BY <2>1, <2>2, <2>3
<1> QED
  BY <1>8, <1>9, <1>10, <1>12, <1>13, <1>14 DEF PatInv

LEMMA PatCleanupStep ==
  ASSUME PatInv, patCleanup
  PROVE  PatInv'
<1>1. PICK seen : patTable' = removeEntriesOlderThan(patTable, -PatExpiry, seen)
  BY DEF patCleanup
<1>2. /\ DOMAIN patTable' \subseteq DOMAIN patTable
      /\ \A x \in DOMAIN patTable' : patTable'[x] = patTable[x]
  BY <1>1 DEF removeEntriesOlderThan, Restrict
<1>3. /\ patBurst' = [ip \in PatIPs |-> IF ip \in DOMAIN patTable' THEN patBurst[ip] ELSE {}]
      /\ patEmitted' = {}
  BY DEF patCleanup
<1>4. IsFiniteSet(DOMAIN patTable') /\ Cardinality(DOMAIN patTable') <= PatMax
  <2>1. /\ IsFiniteSet(DOMAIN patTable) /\ Cardinality(DOMAIN patTable) \in Nat
        /\ Cardinality(DOMAIN patTable) <= PatMax /\ PatMax \in Nat
    BY FS_CardinalityType, PatternsAssumption DEF PatInv
  <2>2. /\ IsFiniteSet(DOMAIN patTable')
        /\ Cardinality(DOMAIN patTable') <= Cardinality(DOMAIN patTable)
    BY <2>1, <1>2, FS_Subset
  <2>3. Cardinality(DOMAIN patTable') \in Nat
    BY <2>2, FS_CardinalityType
  <2> QED BY <2>1, <2>2, <2>3
<1>5. \A ip \in PatIPs : patBurst'[ip] \subseteq Nat /\ IsFiniteSet(patBurst'[ip])
  BY <1>3, FS_EmptySet DEF PatInv
<1>6. \A ip \in DOMAIN patTable' : ip \in PatIPs /\ patBurst'[ip] = patBurst[ip]
  BY <1>2, <1>3 DEF PatInv
<1> QED
  BY <1>2, <1>3, <1>4, <1>5, <1>6 DEF PatInv

LEMMA PatTickStep ==
  ASSUME PatInv, patTick
  PROVE  PatInv'
<1>1. /\ patTable' = [ip \in DOMAIN patTable |-> patOlder(patTable[ip])]
      /\ patEmitted' = {} /\ patBurst' = patBurst
  BY DEF patTick
<1>2. \A ip \in DOMAIN patTable :
        PatOk(patOlder(patTable[ip]), patBurst[ip]) /\ patOlder(patTable[ip]).seen # PatNever
  BY PatOlderOk DEF PatInv
<1>3. DOMAIN patTable' = DOMAIN patTable /\ \A ip \in DOMAIN patTable : patTable'[ip] = patOlder(patTable[ip])
  BY <1>1
<1> QED
  BY <1>1, <1>2, <1>3 DEF PatInv

LEMMA PatStep == PatInv /\ [PatternsNext]_patternVars => PatInv'
<1> SUFFICES ASSUME PatInv, [PatternsNext]_patternVars PROVE PatInv'
  OBVIOUS
<1>1. CASE UNCHANGED patternVars
  BY <1>1 DEF PatInv, patternVars
<1>2. ASSUME NEW ip \in PatIPs, NEW meta \in PatMetas, RecordConnection(ip, meta)
      PROVE  PatInv'
  BY <1>2, PatRecordStep
<1>3. CASE patCleanup
  BY <1>3, PatCleanupStep
<1>4. CASE patTick
  BY <1>4, PatTickStep
<1> QED
  BY <1>1, <1>2, <1>3, <1>4 DEF PatternsNext

-----------------------------------------------------------------------------
(* What the signals of a connection say. *)

\* The mode is one of the samples.
LEMMA PatModeIsSample ==
  ASSUME NEW s \in Seq(1..255), Len(s) >= 1
  PROVE  \E i \in 1..Len(s) : ttlMode(s) = s[i]
<1> DEFINE times(k, v) == Cardinality({i \in 1..k : s[i] = v})
           counts == {times(Len(s), s[i]) : i \in DOMAIN s}
<1>1. PICK n \in Nat \ {0} : n = Len(s) /\ DOMAIN s = 1..n
  BY LenProperties
<1>2. ASSUME NEW k \in 0..n, NEW v
      PROVE  times(k, v) \in 0..n
  <2>1. k \in Int /\ 1 \in Int /\ n \in Int
    OBVIOUS
  <2>2. IsFiniteSet(1..k) /\ Cardinality(1..k) = IF 1 > k THEN 0 ELSE k - 1 + 1
    BY <2>1, FS_Interval
  <2>3. {i \in 1..k : s[i] = v} \in SUBSET (1..k)
    OBVIOUS
  <2>4. IsFiniteSet({i \in 1..k : s[i] = v}) /\ times(k, v) <= Cardinality(1..k)
    BY <2>2, <2>3, FS_Subset
  <2>5. times(k, v) \in Nat
    BY <2>4, FS_CardinalityType
  <2> HIDE DEF times
  <2>6. Cardinality(1..k) <= n
    BY <2>2
  <2>7. Cardinality(1..k) \in Nat
    BY <2>2
  <2> QED BY <2>4, <2>5, <2>6, <2>7
\* The largest count.
<1>3. Max(counts) \in counts
  <2> DEFINE below == {n - c : c \in counts}
  <2>1. counts \subseteq 0..n /\ counts # {}
    <3> HIDE DEF times
    <3> QED BY <1>1, <1>2
  <2> HIDE DEF counts
  <2>2. below \in SUBSET Nat /\ below # {}
    <3>1. \A c \in 0..n : n - c \in Nat
      BY <1>1
    <3>2. \A c \in counts : n - c \in Nat
      BY <2>1, <3>1
    <3> QED BY <2>1, <3>2
  <2>3. PICK m : m = Min(below)
    OBVIOUS
  <2>4. m \in below /\ \A y \in below : m <= y
    BY <2>2, <2>3, SmallestOf
  <2>5. PICK c \in counts : m = n - c
    BY <2>4
  <2>6. ASSUME NEW d \in counts
        PROVE  c >= d
    <3>1. n - c <= n - d
      BY <2>4, <2>5
    <3>2. c \in 0..n /\ d \in 0..n
      BY <2>1
    <3> QED BY <3>1, <3>2
  <2> QED BY <2>5, <2>6 DEF Max
\* A sample reaches it at its last place.
<1>4. PICK x \in 1..n : Max(counts) = times(n, s[x])
  BY <1>1, <1>3
<1>5. \E k \in 1..n : times(k, s[k]) = Max(counts)
  <2> DEFINE after == {n - i : i \in {j \in 1..n : s[j] = s[x]}}
  <2>1. after \in SUBSET Nat /\ after # {}
    OBVIOUS
  <2>2. PICK m : m = Min(after)
    OBVIOUS
  <2>3. m \in after /\ \A y \in after : m <= y
    BY <2>1, <2>2, SmallestOf
  <2>4. PICK k \in 1..n : s[k] = s[x] /\ m = n - k
    BY <2>3
  <2>5. ASSUME NEW j \in 1..n, s[j] = s[x]
        PROVE  j \in 1..k
    <3>1. n - k <= n - j
      BY <2>3, <2>4, <2>5
    <3> QED BY <3>1
  <2>6. {j \in 1..k : s[j] = s[k]} = {j \in 1..n : s[j] = s[x]}
    <3>1. \A j \in 1..k : j \in 1..n
      OBVIOUS
    <3> QED BY <3>1, <2>4, <2>5
  <2> QED BY <2>4, <2>6, <1>4
<1>6. PICK K : K = {k \in DOMAIN s : times(k, s[k]) = Max(counts)}
  OBVIOUS
<1>7. Min(K) \in 1..n
  <2>1. K \in SUBSET Nat /\ K # {} /\ K \subseteq 1..n
    <3> HIDE DEF times, counts
    <3> QED BY <1>1, <1>5, <1>6
  <2> QED BY <2>1, SmallestOf
<1>8. ttlMode(s) = s[Min(K)]
  BY <1>6 DEF ttlMode
<1> QED
  BY <1>1, <1>7, <1>8

\* A TTL of a host so many hops away says so.
LEMMA PatHops ==
  ASSUME NEW hops \in 0..63, NEW ttl, ttl = 64 - hops \/ ttl = 128 - hops \/ ttl = 255 - hops
  PROVE  impliedHops(ttl) = hops
<1>1. CASE ttl = 64 - hops
  BY <1>1 DEF impliedHops
<1>2. CASE ttl = 128 - hops
  <2>1. ~(ttl <= 64) /\ ttl <= 128
    BY <1>2
  <2> QED BY <1>2, <2>1 DEF impliedHops
<1>3. CASE ttl = 255 - hops
  <2>1. ~(ttl <= 64) /\ ~(ttl <= 128)
    BY <1>3
  <2> QED BY <1>3, <2>1 DEF impliedHops
<1> QED BY <1>1, <1>2, <1>3

LEMMA PatOneDistance ==
  ASSUME NEW s \in Seq(1..255), NEW hops \in 0..63,
         Range(s) \subseteq {64 - hops, 128 - hops, 255 - hops}
  PROVE  ~detectTTLAnomaly(s)
<1> SUFFICES ASSUME detectTTLAnomaly(s) PROVE FALSE
  OBVIOUS
<1>1. Len(s) >= 1
  <2>1. Len(s) \in Nat /\ Len(s) >= PatMinSamples /\ PatMinSamples \in Nat \ {0}
    BY LenProperties, PatternsAssumption DEF detectTTLAnomaly
  <2> QED BY <2>1
<1>2. DOMAIN s = 1..Len(s)
  BY LenProperties
<1>3. \A i \in DOMAIN s : impliedHops(s[i]) = hops
  <2> TAKE i \in DOMAIN s
  <2>1. PICK ttl : ttl = s[i]
    OBVIOUS
  <2>2. ttl = 64 - hops \/ ttl = 128 - hops \/ ttl = 255 - hops
    <3>1. ttl \in Range(s)
      BY <2>1 DEF Range
    <3> QED BY <3>1
  <2>3. impliedHops(ttl) = hops
    BY <2>2, PatHops, SMTT(30)
  <2> QED BY <2>1, <2>3
<1>4. impliedHops(ttlMode(s)) = hops
  BY <1>1, <1>2, <1>3, PatModeIsSample
<1>5. ~(absDiff(hops, hops) > 3)
  BY DEF absDiff
<1>6. PICK mode : mode = ttlMode(s)
  OBVIOUS
<1>7. {i \in DOMAIN s : absDiff(s[i], mode) > 20
                          /\ absDiff(impliedHops(s[i]), impliedHops(mode)) > 3} = {}
  BY <1>3, <1>4, <1>5, <1>6
<1>8. Cardinality({i \in DOMAIN s : absDiff(s[i], mode) > 20
                          /\ absDiff(impliedHops(s[i]), impliedHops(mode)) > 3}) >= 2
  BY <1>6 DEF detectTTLAnomaly
<1>9. Cardinality({}) >= 2
  BY <1>7, <1>8
<1> QED
  BY <1>9, FS_EmptySet

LEMMA PatAnswers == PatInv => PatternsTrue
<1> SUFFICES ASSUME PatInv PROVE PatternsTrue
  OBVIOUS
<1>1. PatTableBounded
  BY DEF PatInv, PatTableBounded
<1>2. PatTimingsSpan
  <2> SUFFICES ASSUME NEW ip \in DOMAIN patTable,
                      patTable[ip].attempts <= PatSamples, patTable[ip].first <= PatExpiry
               PROVE  /\ Len(patTable[ip].timings) = patTable[ip].attempts - 1
                      /\ gapsLead(patTable[ip].timings, patTable[ip].first, patTable[ip].seen)
    BY DEF PatTimingsSpan
  <2>1. PICK p : p = patTable[ip]
    OBVIOUS
  <2>2. PatOk(p, patBurst[ip]) /\ p.seen # PatNever
    BY <2>1 DEF PatInv
  <2>3. p.attempts = Len(p.timings) + 1 /\ gapsLead(p.timings, p.first, p.seen)
    BY <2>1, <2>2 DEF PatOk
  <2>4. Len(p.timings) \in Nat
    BY <2>2, LenProperties DEF PatOk, PatTypes, PatRecords
  <2> QED BY <2>1, <2>3, <2>4
<1>3. PatScanIsOneBurst
  <2> SUFFICES ASSUME NEW s \in patEmitted, s.kind = "ports", s.ip \in DOMAIN patTable
               PROVE  Cardinality(patBurst[s.ip]) > PatPortLimit
    BY DEF PatScanIsOneBurst
  <2>1. PICK p : p = patTable[s.ip]
    OBVIOUS
  <2>2. PICK burst : burst = patBurst[s.ip]
    OBVIOUS
  <2>3. /\ PatOk(p, burst) /\ IsFiniteSet(burst)
        /\ "ports" \in analyzePattern(p)
    BY <2>1, <2>2 DEF PatInv
  <2>4. Cardinality(recentPorts(p)) > PatPortLimit
    BY <2>3 DEF analyzePattern
  <2>5. recentPorts(p) \subseteq burst
    <3>1. CASE p.portAge > PatPortWindow
      BY <3>1 DEF recentPorts
    <3>2. CASE ~(p.portAge > PatPortWindow)
      <4>1. p.portAge = PatNever \/ p.portAge \in 0..PatPortWindow
        <5>1. p.portAge \in {PatNever} \cup Nat /\ PatPortWindow \in Nat
          BY <2>3, PatternsAssumption DEF PatOk, PatTypes, PatRecords
        <5> QED BY <5>1, <3>2
      <4> QED BY <3>2, <4>1, <2>3 DEF recentPorts, PatOk
    <3> QED BY <3>1, <3>2
  <2>6. Cardinality(recentPorts(p)) <= Cardinality(burst) /\ IsFiniteSet(recentPorts(p))
    BY <2>3, <2>5, FS_Subset
  <2>7. /\ Cardinality(recentPorts(p)) \in Nat /\ Cardinality(burst) \in Nat
        /\ PatPortLimit \in Nat
    BY <2>3, <2>6, FS_CardinalityType, PatternsAssumption
  <2> QED BY <2>2, <2>4, <2>6, <2>7
<1>4. PatSharedAddressNotFlagged
  <2> SUFFICES ASSUME NEW s \in patEmitted, s.kind = "ttl", s.ip \in DOMAIN patTable,
                      NEW hops \in 0..63,
                      Range(patTable[s.ip].ttls) \subseteq {64 - hops, 128 - hops, 255 - hops}
               PROVE  FALSE
    BY DEF PatSharedAddressNotFlagged
  <2>1. PICK p : p = patTable[s.ip]
    OBVIOUS
  <2>2. PatOk(p, patBurst[s.ip]) /\ "ttl" \in analyzePattern(p)
    BY <2>1 DEF PatInv
  <2>3. detectTTLAnomaly(p.ttls)
    BY <2>2 DEF analyzePattern
  <2>4. p.ttls \in Seq(1..255)
    BY <2>2 DEF PatOk, PatTypes, PatRecords
  <2> QED BY <2>1, <2>3, <2>4, PatOneDistance
<1> QED
  BY <1>1, <1>2, <1>3, <1>4 DEF PatternsTrue

\* What the pattern tracker raises happened, for any windows and sizes: the
\* table stays within its size although the newcomer has no LastSeen, the gaps
\* lead from an address's first connection to its latest, a scan is one burst,
\* and hosts at one distance behind an address are not spoofing
\* (RecordConnection, analyzePattern, Cleanup).
THEOREM PatternsHappened == PatternsSpec => []PatternsTrue
<1>1. PatternsInit => PatInv
  BY PatInitial
<1>2. PatInv /\ [PatternsNext]_patternVars => PatInv'
  BY PatStep
<1>3. PatInv => PatternsTrue
  BY PatAnswers
<1> QED
  BY <1>1, <1>2, <1>3, PTL DEF PatternsSpec

-----------------------------------------------------------------------------
(***************************************************************************)
(* Campaigns: the events a rollup keeps are those it was given, in order,  *)
(* and reading may stop early because no event lags behind the highest     *)
(* timestamp before it by more than the rollup has noted.                  *)
(***************************************************************************)

\* Where the members of a set of places stand in it.
LEMMA RankBounds ==
  ASSUME NEW n \in Nat, NEW S \in SUBSET (1..n)
  PROVE  /\ IsFiniteSet(S) /\ Cardinality(S) \in Nat
         /\ \A i \in S : Cardinality({j \in S : j <= i}) \in 1..Cardinality(S)
         /\ \A i, k \in S : i < k => Cardinality({j \in S : j <= i}) < Cardinality({j \in S : j <= k})
<1>0. \A i \in S : i \in Nat
  OBVIOUS
<1>1. IsFiniteSet(S) /\ Cardinality(S) \in Nat
  <2>1. IsFiniteSet(1..n)
    BY FS_Interval
  <2> QED BY <2>1, FS_Subset, FS_CardinalityType
<1>2. ASSUME NEW i \in S
      PROVE  /\ IsFiniteSet({j \in S : j <= i}) /\ Cardinality({j \in S : j <= i}) \in 1..Cardinality(S)
  <2>1. PICK T : T = {j \in S : j <= i}
    OBVIOUS
  <2>2. i \in T /\ T \in SUBSET S
    BY <2>1
  <2>3. IsFiniteSet(T) /\ Cardinality(T) <= Cardinality(S) /\ Cardinality(T) \in Nat
    BY <1>1, <2>2, FS_Subset, FS_CardinalityType
  <2>4. Cardinality(T) # 0
    BY <2>2, <2>3, FS_EmptySet
  <2> QED
    BY <1>1, <2>1, <2>3, <2>4
<1>3. ASSUME NEW i \in S, NEW k \in S, i < k
      PROVE  Cardinality({j \in S : j <= i}) < Cardinality({j \in S : j <= k})
  <2>1. PICK T : T = {j \in S : j <= i}
    OBVIOUS
  <2>2. PICK U : U = {j \in S : j <= k}
    OBVIOUS
  <2>3. k \in U /\ k \notin T /\ T \in SUBSET U
    <3>1. i \in Nat /\ k \in Nat
      BY <1>0
    <3>2. \A j \in S : j <= i => j <= k
      BY <1>0, <1>3, <3>1
    <3>3. k \in U
      BY <2>2, <3>1
    <3>4. k \notin T
      <4>1. ~(k <= i)
        BY <1>3, <3>1
      <4> QED BY <2>1, <4>1
    <3>5. T \in SUBSET U
      BY <2>1, <2>2, <3>2
    <3> QED BY <3>3, <3>4, <3>5
  <2>4. IsFiniteSet(U) /\ IsFiniteSet(T)
    BY <1>2, <2>1, <2>2
  <2>5. Cardinality(T) <= Cardinality(U) /\ Cardinality(T) # Cardinality(U)
    BY <2>3, <2>4, FS_Subset
  <2>6. Cardinality(T) \in Nat /\ Cardinality(U) \in Nat
    BY <2>4, FS_CardinalityType
  <2> QED
    BY <2>1, <2>2, <2>5, <2>6
<1> QED
  BY <1>1, <1>2, <1>3

Increasing(f, n) == \A i, j \in 1..n : i < j => f[i] < f[j]

\* Counting through a set of places: each once, in order.
LEMMA PlacesCounted ==
  ASSUME NEW n \in Nat, NEW S \in SUBSET (1..n)
  PROVE  /\ Cardinality(S) \in Nat /\ IsFiniteSet(S)
         /\ placesIn(S) \in [1..Cardinality(S) -> S]
         /\ Increasing(placesIn(S), Cardinality(S))
         /\ \A i \in S : \E m \in 1..Cardinality(S) : placesIn(S)[m] = i
         /\ \A m \in 1..Cardinality(S) : Cardinality({j \in S : j <= placesIn(S)[m]}) = m
<1> DEFINE rank == [i \in S |-> Cardinality({j \in S : j <= i})]
<1>1. PICK c \in Nat : c = Cardinality(S) /\ IsFiniteSet(S)
  BY RankBounds
<1>2. PICK r \in [S -> 1..c] : r = rank
  BY <1>1, RankBounds
<1>3. \A i \in S : r[i] = Cardinality({j \in S : j <= i})
  BY <1>2
<1>4. \A i, k \in S : i < k => r[i] < r[k]
  BY <1>3, RankBounds
<1>5. \A i \in S : i \in Nat /\ r[i] \in 1..c
  <2>1. \A i \in S : i \in Nat
    OBVIOUS
  <2> QED BY <2>1, <1>2
<1>6. \A i, k \in S : r[i] = r[k] => i = k
  BY <1>4, <1>5
<1>7. r \in Injection(S, 1..c)
  BY <1>6 DEF Injection, IsInjective
<1>8. IsFiniteSet(1..c) /\ Cardinality(1..c) = c
  BY FS_Interval
<1>9. r \in Surjection(S, 1..c)
  BY <1>1, <1>7, <1>8, FS_Injection
<1>10. \A m \in 1..c : \E i \in S : r[i] = m
  BY <1>9 DEF Surjection
<1>11. PICK f : f = placesIn(S)
  OBVIOUS
<1>12. f = [m \in 1..c |-> CHOOSE i \in S : Cardinality({j \in S : j <= i}) = m]
  BY <1>1, <1>11 DEF placesIn
<1>13. \A m \in 1..c : f[m] \in S /\ r[f[m]] = m
  <2> TAKE m \in 1..c
  <2>1. \E i \in S : Cardinality({j \in S : j <= i}) = m
    BY <1>3, <1>10
  <2>2. f[m] \in S /\ Cardinality({j \in S : j <= f[m]}) = m
    BY <1>12, <2>1
  <2> QED BY <1>3, <2>2
<1>14. f \in [1..c -> S]
  BY <1>12, <1>13
<1>15. ASSUME NEW i \in 1..c, NEW k \in 1..c, i < k
       PROVE  f[i] < f[k]
  <2>1. PICK a \in S : a = f[i] /\ r[a] = i
    BY <1>13
  <2>2. PICK b \in S : b = f[k] /\ r[b] = k
    BY <1>13
  <2>3. a \in Nat /\ b \in Nat /\ a # b
    BY <1>5, <1>15, <2>1, <2>2
  <2>4. ~(b < a)
    BY <1>4, <1>15, <2>1, <2>2
  <2> QED BY <2>1, <2>2, <2>3, <2>4
<1>16. \A i \in S : \E m \in 1..c : f[m] = i
  <2> TAKE i \in S
  <2>1. r[i] \in 1..c /\ f[r[i]] \in S /\ r[f[r[i]]] = r[i]
    BY <1>5, <1>13
  <2> QED BY <2>1, <1>6
<1>17. \A m \in 1..c : Cardinality({j \in S : j <= f[m]}) = m
  BY <1>3, <1>13
<1> QED
  BY <1>1, <1>11, <1>14, <1>15, <1>16, <1>17 DEF Increasing

\* There is one way to count in order.
LEMMA PlacesUnique ==
  ASSUME NEW n \in Nat, NEW S \in SUBSET (1..n), NEW m \in Nat, NEW g \in [1..m -> S],
         Increasing(g, m), \A i \in S : \E k \in 1..m : g[k] = i
  PROVE  m = Cardinality(S) /\ g = placesIn(S)
<1>1. PICK c \in Nat : c = Cardinality(S) /\ IsFiniteSet(S)
  BY PlacesCounted
<1>2. \A i \in S : i \in Nat
  OBVIOUS
<1>3. \A i, k \in 1..m : g[i] = g[k] => i = k
  <2> TAKE i, k \in 1..m
  <2>1. g[i] \in Nat /\ g[k] \in Nat
    BY <1>2
  <2> QED BY <2>1 DEF Increasing
<1>4. ASSUME NEW k \in 1..m
      PROVE  Cardinality({j \in S : j <= g[k]}) = k
  <2>1. PICK T : T = {j \in S : j <= g[k]}
    OBVIOUS
  <2>2. PICK h : h = [i \in 1..k |-> g[i]]
    OBVIOUS
  <2>3. \A i \in 1..k : i \in 1..m /\ h[i] = g[i]
    BY <2>2
  <2>4. \A i \in 1..k : h[i] \in T
    <3> TAKE i \in 1..k
    <3>1. i \in 1..m /\ g[i] \in S /\ g[i] \in Nat /\ g[k] \in Nat
      <4>1. i \in 1..m
        OBVIOUS
      <4>2. g[i] \in S /\ g[k] \in S
        BY <4>1
      <4> QED BY <1>2, <4>1, <4>2
    <3>2. i = k \/ g[i] < g[k]
      BY <3>1 DEF Increasing
    <3>3. g[i] <= g[k]
      BY <3>1, <3>2
    <3> QED BY <2>1, <2>3, <3>1, <3>3
  <2>5. h \in [1..k -> T]
    BY <2>2, <2>4
  <2>6. \A t \in T : \E i \in 1..k : h[i] = t
    <3> TAKE t \in T
    <3>1. PICK i \in 1..m : g[i] = t
      BY <2>1
    <3>2. ~(k < i)
      <4>1. t \in Nat /\ g[k] \in Nat /\ t <= g[k]
        BY <2>1, <1>2
      <4>2. k < i => g[k] < t
        BY <3>1 DEF Increasing
      <4> QED BY <4>1, <4>2
    <3> QED BY <3>1, <3>2, <2>3
  <2>7. h \in Surjection(1..k, T) /\ h \in Injection(1..k, T)
    BY <2>3, <2>5, <2>6, <1>3 DEF Surjection, Injection, IsInjective
  <2>8. IsFiniteSet(1..k) /\ Cardinality(1..k) = k
    BY FS_Interval
  <2>9. Cardinality(T) = Cardinality(1..k)
    BY <2>7, <2>8, FS_Surjection
  <2> QED BY <2>1, <2>8, <2>9
<1>5. m = c
  <2>1. g \in Surjection(1..m, S) /\ g \in Injection(1..m, S)
    BY <1>3 DEF Surjection, Injection, IsInjective
  <2>2. IsFiniteSet(1..m) /\ Cardinality(1..m) = m
    BY FS_Interval
  <2> QED BY <1>1, <2>1, <2>2, FS_Surjection
<1>6. \A k \in 1..c : g[k] = placesIn(S)[k]
  <2> TAKE k \in 1..c
  <2>0. placesIn(S) \in [1..c -> S] /\ Cardinality({j \in S : j <= placesIn(S)[k]}) = k
    BY <1>1, PlacesCounted
  <2>1. PICK p \in S : p = placesIn(S)[k]
    BY <2>0
  <2>2. PICK q \in 1..m : g[q] = p
    OBVIOUS
  <2>3. Cardinality({j \in S : j <= p}) = k
    BY <2>0, <2>1
  <2>4. Cardinality({j \in S : j <= p}) = q
    BY <2>2, <1>4
  <2> QED BY <2>1, <2>2, <2>3, <2>4
<1>7. PICK f \in [1..c -> S] : f = placesIn(S)
  BY <1>1, PlacesCounted
<1>8. g = f
  BY <1>5, <1>6, <1>7
<1> QED BY <1>1, <1>5, <1>7, <1>8

\* Of two sets of places, one taken into the other in order and onto its end:
\* counting through the larger ends as counting through the smaller.
EndsWith(t, b, s, a) == \A k \in 1..a : t[b - a + k] = s[k]
MapsToEnd(f, S, T) ==
  /\ \A i \in S : f[i] \in T
  /\ \A j \in T : (\E i \in S : f[i] = j) \/ (\A i \in S : j < f[i])
MapsOnto(f, S, T) == \A j \in T : \E i \in S : f[i] = j

PlacesAtEnd(f, S, T) ==
  /\ Cardinality(S) <= Cardinality(T)
  /\ \A k \in 1..Cardinality(S) :
       placesIn(T)[Cardinality(T) - Cardinality(S) + k] = f[placesIn(S)[k]]
  /\ MapsOnto(f, S, T) => Cardinality(S) = Cardinality(T)

LEMMA PlacesEndAlike ==
  ASSUME NEW n \in Nat, NEW S \in SUBSET (1..n), NEW m \in Nat, NEW T \in SUBSET (1..m),
         NEW f \in [1..n -> 1..m], Increasing(f, n), MapsToEnd(f, S, T)
  PROVE  PlacesAtEnd(f, S, T)
<1>1. PICK D : D = {j \in T : ~ \E i \in S : f[i] = j}
  OBVIOUS
<1>2. D \in SUBSET (1..m)
  BY <1>1
<1>3. PICK a \in Nat : a = Cardinality(S)
  BY PlacesCounted
<1>4. PICK d \in Nat : d = Cardinality(D) /\ IsFiniteSet(D)
  BY <1>2, PlacesCounted
<1>5. PICK g \in [1..a -> S] :
        g = placesIn(S) /\ Increasing(g, a) /\ \A i \in S : \E k \in 1..a : g[k] = i
  <2>1. PICK p : p = placesIn(S)
    OBVIOUS
  <2>2. p \in [1..a -> S] /\ Increasing(p, a) /\ \A i \in S : \E k \in 1..a : p[k] = i
    BY <1>3, <2>1, PlacesCounted
  <2> QED BY <2>1, <2>2
<1>6. PICK e \in [1..d -> D] :
        e = placesIn(D) /\ Increasing(e, d) /\ \A i \in D : \E k \in 1..d : e[k] = i
  <2>1. PICK p : p = placesIn(D)
    OBVIOUS
  <2>2. p \in [1..d -> D] /\ Increasing(p, d) /\ \A i \in D : \E k \in 1..d : p[k] = i
    BY <1>2, <1>4, <2>1, PlacesCounted
  <2> QED BY <2>1, <2>2
<1>7. PICK h : h = [k \in 1..(d + a) |-> IF k <= d THEN e[k] ELSE f[g[k - d]]]
  OBVIOUS
<1>8. \A k \in 1..d : k \in 1..(d + a) /\ h[k] = e[k] /\ e[k] \in D
  BY <1>7
<1>9. \A k \in 1..a : h[d + k] = f[g[k]] /\ g[k] \in S /\ f[g[k]] \in T
  <2> TAKE k \in 1..a
  <2>1. d + k \in 1..(d + a) /\ ~(d + k <= d) /\ (d + k) - d = k
    OBVIOUS
  <2>2. g[k] \in S
    OBVIOUS
  <2>3. f[g[k]] \in T
    BY <2>2 DEF MapsToEnd
  <2> QED BY <1>7, <2>1, <2>2, <2>3
<1>10. \A k \in 1..(d + a) : k \in 1..d \/ \E l \in 1..a : k = d + l
  <2> TAKE k \in 1..(d + a)
  <2>1. CASE k <= d
    BY <2>1
  <2>2. CASE ~(k <= d)
    <3>1. k - d \in 1..a /\ k = d + (k - d)
      BY <2>2
    <3> QED BY <3>1
  <2> QED BY <2>1, <2>2
<1>11. h \in [1..(d + a) -> T]
  <2>1. \A k \in 1..(d + a) : h[k] \in T
    <3> TAKE k \in 1..(d + a)
    <3>1. CASE k \in 1..d
      BY <1>1, <1>8, <3>1
    <3>2. CASE \E l \in 1..a : k = d + l
      BY <1>9, <3>2
    <3> QED BY <1>10, <3>1, <3>2
  <2> QED BY <1>7, <2>1
<1>12. Increasing(h, d + a)
  <2> SUFFICES ASSUME NEW x \in 1..(d + a), NEW y \in 1..(d + a), x < y
               PROVE  h[x] < h[y]
    BY DEF Increasing
  <2>1. CASE y \in 1..d
    <3>1. x \in 1..d
      BY <2>1
    <3> QED BY <1>6, <1>8, <2>1, <3>1 DEF Increasing
  <2>2. CASE x \in 1..d /\ \E l \in 1..a : y = d + l
    <3>1. PICK l \in 1..a : y = d + l
      BY <2>2
    <3>2. e[x] \in D /\ h[x] = e[x]
      BY <1>8, <2>2
    <3>3. e[x] < f[g[l]]
      BY <1>1, <1>9, <3>2 DEF MapsToEnd
    <3> QED BY <1>9, <3>1, <3>2, <3>3
  <2>3. CASE (\E l \in 1..a : x = d + l) /\ \E l \in 1..a : y = d + l
    <3>1. PICK l \in 1..a : x = d + l
      BY <2>3
    <3>2. PICK o \in 1..a : y = d + o
      BY <2>3
    <3>3. l < o
      BY <3>1, <3>2
    <3>4. g[l] < g[o] /\ g[l] \in 1..n /\ g[o] \in 1..n
      BY <1>5, <3>3 DEF Increasing
    <3>5. f[g[l]] < f[g[o]]
      BY <3>4 DEF Increasing
    <3> QED BY <1>9, <3>1, <3>2, <3>5
  <2>4. ~(y \in 1..d) => ((~ \E l \in 1..a : x = d + l) => x \in 1..d)
    BY <1>10
  <2> QED BY <1>10, <2>1, <2>2, <2>3, <2>4
<1>13. \A j \in T : \E k \in 1..(d + a) : h[k] = j
  <2> TAKE j \in T
  <2>1. CASE j \in D
    BY <1>6, <1>8, <2>1
  <2>2. CASE j \notin D
    <3>1. PICK i \in S : f[i] = j
      BY <1>1, <2>2
    <3>2. PICK k \in 1..a : g[k] = i
      BY <1>5
    <3>3. d + k \in 1..(d + a)
      OBVIOUS
    <3> QED BY <1>9, <3>1, <3>2, <3>3
  <2> QED BY <2>1, <2>2
<1>14. d + a = Cardinality(T) /\ h = placesIn(T)
  <2>1. d + a \in Nat
    OBVIOUS
  <2> QED BY <1>11, <1>12, <1>13, <2>1, PlacesUnique
<1>15. \A k \in 1..a : placesIn(T)[(d + a) - a + k] = f[g[k]]
  <2> TAKE k \in 1..a
  <2>1. (d + a) - a + k = d + k
    OBVIOUS
  <2> QED BY <1>9, <1>14, <2>1
<1>16. MapsOnto(f, S, T) => d = 0
  <2>1. MapsOnto(f, S, T) => D = {}
    BY <1>1 DEF MapsOnto
  <2> QED BY <1>4, <2>1, FS_EmptySet
<1>17. PICK b : b = Cardinality(T)
  OBVIOUS
<1>18. b = d + a /\ b \in Nat /\ a <= b /\ (d = 0 => a = b)
  <2>1. b = d + a
    BY <1>14, <1>17
  <2> QED BY <2>1
<1>19. \A k \in 1..a : placesIn(T)[b - a + k] = f[placesIn(S)[k]]
  BY <1>5, <1>15, <1>18
<1> QED
  BY <1>3, <1>16, <1>17, <1>18, <1>19 DEF PlacesAtEnd

-----------------------------------------------------------------------------
(* The least and the most of a set of times. *)

LEMMA LeastFound ==
  ASSUME NEW S \in SUBSET Int, S # {}, NEW b \in Int, \A x \in S : b <= x
  PROVE  LeastOf(S) \in S /\ LeastOf(S) \in Int /\ \A y \in S : LeastOf(S) <= y
<1>1. PICK T : T = {t \in Nat : t + b \in S}
  OBVIOUS
<1>2. T \in SUBSET Nat /\ T # {}
  <2>1. PICK x \in S : TRUE
    OBVIOUS
  <2>2. x - b \in Nat /\ (x - b) + b = x
    BY <2>1
  <2> QED BY <1>1, <2>1, <2>2
<1>3. PICK d \in T : \A e \in T : ~ (<<e, d>> \in OpToRel(<, Nat))
  BY <1>2, WFMin, NatLessThanWellFounded
<1>4. \A e \in T : d <= e
  <2> SUFFICES ASSUME NEW e \in T, e < d PROVE FALSE
    BY <1>2
  <2>1. <<e, d>> \in OpToRel(<, Nat)
    BY <1>2 DEF OpToRel
  <2> QED BY <1>3, <2>1
<1>5. d \in Nat /\ d + b \in S
  BY <1>1
<1>6. \A y \in S : d + b <= y
  <2> TAKE y \in S
  <2>1. y - b \in Nat /\ (y - b) + b = y
    OBVIOUS
  <2>2. d <= y - b
    BY <1>1, <1>4, <2>1
  <2> QED BY <1>5, <2>1, <2>2
<1>7. \E x \in S : \A y \in S : x <= y
  BY <1>5, <1>6
<1>8. LeastOf(S) \in S /\ \A y \in S : LeastOf(S) <= y
  BY <1>7 DEF LeastOf
<1> QED BY <1>8

LEMMA MostFound ==
  ASSUME NEW S \in SUBSET Int, S # {}, NEW b \in Int, \A x \in S : x <= b
  PROVE  MostOf(S) \in S /\ MostOf(S) \in Int /\ \A y \in S : y <= MostOf(S)
<1>1. PICK T : T = {t \in Nat : b - t \in S}
  OBVIOUS
<1>2. T \in SUBSET Nat /\ T # {}
  <2>1. PICK x \in S : TRUE
    OBVIOUS
  <2>2. b - x \in Nat /\ b - (b - x) = x
    BY <2>1
  <2> QED BY <1>1, <2>1, <2>2
<1>3. PICK d \in T : \A e \in T : ~ (<<e, d>> \in OpToRel(<, Nat))
  BY <1>2, WFMin, NatLessThanWellFounded
<1>4. \A e \in T : d <= e
  <2> SUFFICES ASSUME NEW e \in T, e < d PROVE FALSE
    BY <1>2
  <2>1. <<e, d>> \in OpToRel(<, Nat)
    BY <1>2 DEF OpToRel
  <2> QED BY <1>3, <2>1
<1>5. d \in Nat /\ b - d \in S
  BY <1>1
<1>6. \A y \in S : y <= b - d
  <2> TAKE y \in S
  <2>1. b - y \in Nat /\ b - (b - y) = y
    OBVIOUS
  <2>2. d <= b - y
    BY <1>1, <1>4, <2>1
  <2> QED BY <1>5, <2>1, <2>2
<1>7. \E x \in S : \A y \in S : y <= x
  BY <1>5, <1>6
<1>8. MostOf(S) \in S /\ \A y \in S : y <= MostOf(S)
  BY <1>7 DEF MostOf
<1> QED BY <1>8

\* Who is least is the least, and who is most the most.
LEMMA LeastIs ==
  ASSUME NEW S \in SUBSET Int, NEW x \in S, \A y \in S : x <= y
  PROVE  LeastOf(S) = x
<1>1. LeastOf(S) \in S /\ \A y \in S : LeastOf(S) <= y
  BY DEF LeastOf
<1>2. PICK m \in S : m = LeastOf(S) /\ \A y \in S : m <= y
  BY <1>1
<1>3. m \in Int /\ x \in Int /\ m <= x /\ x <= m
  BY <1>2
<1> QED BY <1>2, <1>3

LEMMA MostIs ==
  ASSUME NEW S \in SUBSET Int, NEW x \in S, \A y \in S : y <= x
  PROVE  MostOf(S) = x
<1>1. MostOf(S) \in S /\ \A y \in S : y <= MostOf(S)
  BY DEF MostOf
<1>2. PICK m \in S : m = MostOf(S) /\ \A y \in S : y <= m
  BY <1>1
<1>3. m \in Int /\ x \in Int /\ m <= x /\ x <= m
  BY <1>2
<1> QED BY <1>2, <1>3

LEMMA LeastMostOfTwo ==
  ASSUME NEW a \in Int, NEW b \in Int
  PROVE  /\ LeastOf({a, b}) = IF a <= b THEN a ELSE b
         /\ MostOf({a, b}) = IF a <= b THEN b ELSE a
<1>1. CASE a <= b
  <2>1. LeastOf({a, b}) = a
    BY <1>1, LeastIs
  <2>2. MostOf({a, b}) = b
    BY <1>1, MostIs
  <2> QED BY <1>1, <2>1, <2>2
<1>2. CASE ~(a <= b)
  <2>1. LeastOf({a, b}) = b
    BY <1>2, LeastIs
  <2>2. MostOf({a, b}) = a
    BY <1>2, MostIs
  <2> QED BY <1>2, <2>1, <2>2
<1> QED BY <1>1, <1>2

-----------------------------------------------------------------------------
(* The events of a rollup. *)

CmpEvents == [sig : CmpSignals, at : Int, highWater : Int]
CmpRings == [ring : Seq(CmpEvents), highWater : Int, maxLag : Int]

\* The highest timestamp before each event only grows, and none lags behind it
\* by more than the rollup has noted.
CmpOrdered(ring, high, lag) ==
  /\ \A i \in 1..Len(ring) : /\ ring[i].at <= ring[i].highWater /\ ring[i].highWater <= high
                             /\ ring[i].highWater - ring[i].at <= lag
  /\ \A i, j \in 1..Len(ring) : i <= j => ring[i].highWater <= ring[j].highWater

CmpEventsOk(e) == e \in CmpRings /\ CmpOrdered(e.ring, e.highWater, e.maxLag)

LEMMA RingTyped ==
  ASSUME NEW ring \in Seq(CmpEvents)
  PROVE  /\ Len(ring) \in Nat
         /\ \A i \in 1..Len(ring) : ring[i] \in CmpEvents /\ ring[i].sig \in CmpSignals
                                     /\ ring[i].at \in Int /\ ring[i].highWater \in Int
<1>1. Len(ring) \in Nat /\ DOMAIN ring = 1..Len(ring)
  BY LenProperties
<1>2. \A i \in 1..Len(ring) : ring[i] \in CmpEvents
  BY ElementOfSeq
<1>3. \A e \in CmpEvents : e.sig \in CmpSignals /\ e.at \in Int /\ e.highWater \in Int
  BY DEF CmpEvents
<1> QED BY <1>1, <1>2, <1>3

\* Some of the events, in order, are events in order.
LEMMA HeldInOrder ==
  ASSUME NEW ring \in Seq(CmpEvents), NEW high \in Int, NEW lag \in Int,
         CmpOrdered(ring, high, lag), NEW S \in SUBSET (1..Len(ring))
  PROVE  /\ heldAt(ring, S) \in Seq(CmpEvents) /\ Len(heldAt(ring, S)) = Cardinality(S)
         /\ CmpOrdered(heldAt(ring, S), high, lag)
         /\ Cardinality(S) \in Nat
         /\ placesIn(S) \in [1..Cardinality(S) -> 1..Len(ring)]
         /\ \A i \in 1..Cardinality(S) : heldAt(ring, S)[i] = ring[placesIn(S)[i]]
<1>1. /\ Len(ring) \in Nat
      /\ \A i \in 1..Len(ring) : ring[i] \in CmpEvents /\ ring[i].sig \in CmpSignals
                                  /\ ring[i].at \in Int /\ ring[i].highWater \in Int
  BY RingTyped
<1>2. PICK a \in Nat : a = Cardinality(S)
  BY <1>1, PlacesCounted
<1>3. PICK g : g = placesIn(S)
  OBVIOUS
<1>4. g \in [1..a -> S] /\ Increasing(g, a)
  BY <1>1, <1>2, <1>3, PlacesCounted
<1>5. PICK taken : taken = [i \in 1..a |-> ring[g[i]]]
  OBVIOUS
<1>6. taken = heldAt(ring, S)
  BY <1>2, <1>3, <1>5 DEF heldAt
<1>7. \A i \in 1..a : g[i] \in 1..Len(ring) /\ taken[i] = ring[g[i]]
  BY <1>4, <1>5
<1>8. taken \in [1..a -> CmpEvents]
  BY <1>1, <1>5, <1>7
<1>9. taken \in Seq(CmpEvents) /\ Len(taken) = a
  BY <1>8, FunIsSeq
<1>10. CmpOrdered(taken, high, lag)
  <2>1. ASSUME NEW i \in 1..a
        PROVE  /\ taken[i].at <= taken[i].highWater /\ taken[i].highWater <= high
               /\ taken[i].highWater - taken[i].at <= lag
    BY <1>7 DEF CmpOrdered
  <2>2. ASSUME NEW i \in 1..a, NEW j \in 1..a, i <= j
        PROVE  taken[i].highWater <= taken[j].highWater
    <3>1. g[i] \in 1..Len(ring) /\ g[j] \in 1..Len(ring) /\ g[i] \in Int /\ g[j] \in Int
      BY <1>1, <1>7
    <3>2. g[i] <= g[j]
      <4>1. CASE i = j
        BY <4>1, <3>1
      <4>2. CASE i < j
        <5>1. g[i] < g[j]
          BY <1>4, <4>2 DEF Increasing
        <5> QED BY <3>1, <5>1
      <4> QED BY <2>2, <4>1, <4>2
    <3>3. ring[g[i]].highWater <= ring[g[j]].highWater
      BY <3>1, <3>2 DEF CmpOrdered
    <3> QED BY <1>7, <3>3
  <2> QED BY <1>9, <2>1, <2>2 DEF CmpOrdered
<1>11. g \in [1..a -> 1..Len(ring)]
  BY <1>4
<1> QED
  BY <1>2, <1>3, <1>6, <1>7, <1>9, <1>10, <1>11

LEMMA LiveTimes ==
  ASSUME NEW e, CmpEventsOk(e), NEW cutoff \in Int, NEW n \in 0..Len(e.ring)
  PROVE  /\ liveBefore(e, n, cutoff) \in SUBSET Int
         /\ \A x \in liveBefore(e, n, cutoff) : cutoff <= x
         /\ \A x : x \in liveBefore(e, n, cutoff)
                     <=> \E i \in 1..n : e.ring[i].at = x /\ e.ring[i].at >= cutoff
<1>1. e.ring \in Seq(CmpEvents)
  BY DEF CmpEventsOk, CmpRings
<1>2. Len(e.ring) \in Nat /\ \A i \in 1..Len(e.ring) : e.ring[i].at \in Int
  BY <1>1, RingTyped
<1>3. \A i \in 1..n : i \in 1..Len(e.ring)
  BY <1>2
<1>4. \A x : x \in liveBefore(e, n, cutoff)
               <=> \E i \in 1..n : e.ring[i].at = x /\ e.ring[i].at >= cutoff
  BY DEF liveBefore
<1> QED BY <1>2, <1>3, <1>4

\* Past the place where the scan stops nothing has expired, and nothing is
\* older than the earliest that it has seen alive.
LEMMA ScanMayStop ==
  ASSUME NEW e, CmpEventsOk(e), NEW cutoff \in Int
  PROVE  /\ scanExpired(e, cutoff) \in 0..Len(e.ring)
         /\ \A i \in 1..Len(e.ring) : i > scanExpired(e, cutoff) =>
              /\ e.ring[i].at >= cutoff
              /\ liveBefore(e, scanExpired(e, cutoff), cutoff) # {}
              /\ LeastOf(liveBefore(e, scanExpired(e, cutoff), cutoff)) <= e.ring[i].at
<1>1. e.ring \in Seq(CmpEvents) /\ e.maxLag \in Int /\ CmpOrdered(e.ring, e.highWater, e.maxLag)
  BY DEF CmpEventsOk, CmpRings
<1>2. PICK n \in Nat : n = Len(e.ring)
  BY <1>1, RingTyped
<1>3. \A i \in 1..n : e.ring[i].at \in Int /\ e.ring[i].highWater \in Int
  BY <1>1, <1>2, RingTyped
<1>4. PICK stops : stops = {i \in 1..n :
                  LET live == liveBefore(e, i - 1, cutoff)
                  IN live # {} /\ e.ring[i].highWater - e.maxLag >= LeastOf(live)}
  OBVIOUS
<1>5. scanExpired(e, cutoff) = IF stops = {} THEN n ELSE LeastOf(stops) - 1
  BY <1>2, <1>4 DEF scanExpired
<1>6. CASE stops = {}
  <2>1. scanExpired(e, cutoff) = n
    BY <1>5, <1>6
  <2>2. \A i \in 1..n : ~(i > n)
    OBVIOUS
  <2> QED BY <1>2, <2>1, <2>2
<1>7. CASE stops # {}
  <2>1. stops \in SUBSET Int /\ \A x \in stops : 1 <= x
    BY <1>4
  <2>2. PICK m \in stops : m = LeastOf(stops)
    BY <1>7, <2>1, LeastFound
  <2>3. m \in 1..n /\ m - 1 \in 0..n
    BY <1>4, <2>2
  <2>4. scanExpired(e, cutoff) = m - 1
    BY <1>5, <1>7, <2>2
  <2>5. PICK live : live = liveBefore(e, m - 1, cutoff)
    OBVIOUS
  <2>6. live # {} /\ e.ring[m].highWater - e.maxLag >= LeastOf(live)
    BY <1>4, <2>2, <2>5
  <2>7. live \in SUBSET Int /\ \A x \in live : cutoff <= x
    BY <1>2, <2>3, <2>5, LiveTimes
  <2>8. PICK l \in Int : l = LeastOf(live) /\ cutoff <= l
    BY <2>6, <2>7, LeastFound
  <2>9. ASSUME NEW i \in 1..n, i > m - 1
        PROVE  e.ring[i].at >= cutoff /\ l <= e.ring[i].at
    <3>1. m <= i
      BY <2>3, <2>9
    <3>2. /\ e.ring[m].highWater <= e.ring[i].highWater
          /\ e.ring[i].highWater - e.ring[i].at <= e.maxLag
      BY <1>1, <1>2, <2>3, <3>1 DEF CmpOrdered
    <3>3. PICK a \in Int : a = e.ring[i].at
      BY <1>3
    <3>4. PICK h \in Int : h = e.ring[i].highWater
      BY <1>3
    <3>5. PICK hm \in Int : hm = e.ring[m].highWater
      BY <1>3, <2>3
    <3>6. PICK lag \in Int : lag = e.maxLag
      BY <1>1
    <3>7. hm <= h /\ h - a <= lag /\ hm - lag >= l
      BY <2>6, <2>8, <3>2, <3>3, <3>4, <3>5, <3>6
    <3>8. l <= a
      BY <3>7
    <3>9. cutoff <= a
      BY <2>8, <3>8
    <3> QED BY <3>3, <3>8, <3>9
  <2> QED
    BY <1>2, <2>3, <2>4, <2>5, <2>6, <2>8, <2>9
<1> QED BY <1>6, <1>7

CmpTimes(ring) == {ring[i].at : i \in 1..Len(ring)}

\* Nor can an event before the place where the reading backwards stops be newer.
LEMMA LatestIsLatest ==
  ASSUME NEW ring \in Seq(CmpEvents), NEW high \in Int, NEW lag \in Int,
         CmpOrdered(ring, high, lag), Len(ring) # 0
  PROVE  /\ latestTimestamp(ring) \in CmpTimes(ring)
         /\ \A i \in 1..Len(ring) : ring[i].at <= latestTimestamp(ring)
<1>1. PICK n \in Nat : n = Len(ring) /\ n # 0
  BY RingTyped
<1>2. \A i \in 1..n : ring[i].at \in Int /\ ring[i].highWater \in Int
  BY <1>1, RingTyped
<1>3. PICK times : times = [i \in 1..n |-> {ring[j].at : j \in i..n}]
  OBVIOUS
<1>4. ASSUME NEW i \in 1..n
      PROVE  /\ MostOf({ring[j].at : j \in i..n}) \in CmpTimes(ring)
             /\ MostOf({ring[j].at : j \in i..n}) \in Int
             /\ \A j \in i..n : ring[j].at <= MostOf({ring[k].at : k \in i..n})
  <2>1. PICK S : S = {ring[j].at : j \in i..n}
    OBVIOUS
  <2>2. \A j \in i..n : j \in 1..n
    OBVIOUS
  <2>3. S \in SUBSET Int
    BY <1>2, <2>1, <2>2
  <2>4. n \in i..n
    OBVIOUS
  <2>5. S # {}
    BY <2>1, <2>4
  <2>6. \A x \in S : x <= high
    <3> TAKE x \in S
    <3>1. PICK j \in i..n : x = ring[j].at
      BY <2>1
    <3>2. j \in 1..n /\ ring[j].at <= ring[j].highWater /\ ring[j].highWater <= high
      BY <2>2, <1>1 DEF CmpOrdered
    <3> QED BY <1>2, <3>1, <3>2
  <2>7. MostOf(S) \in S /\ MostOf(S) \in Int /\ \A y \in S : y <= MostOf(S)
    BY <2>3, <2>5, <2>6, MostFound
  <2>8. S \subseteq CmpTimes(ring)
    BY <1>1, <2>1, <2>2 DEF CmpTimes
  <2> QED BY <2>1, <2>7, <2>8
<1>5. PICK latestFrom : latestFrom = [i \in 1..n |-> MostOf({ring[j].at : j \in i..n})]
  OBVIOUS
<1>6. \A i \in 1..n : latestFrom[i] \in CmpTimes(ring) /\ latestFrom[i] \in Int
                      /\ \A j \in i..n : ring[j].at <= latestFrom[i]
  BY <1>4, <1>5
<1>7. PICK stops : stops = {i \in 1..(n - 1) : ring[i].highWater <= MostOf({ring[j].at : j \in (i + 1)..n})}
  OBVIOUS
<1>8. latestTimestamp(ring) = IF stops = {} THEN MostOf({ring[j].at : j \in 1..n})
                              ELSE MostOf({ring[j].at : j \in (MostOf(stops) + 1)..n})
  BY <1>1, <1>7 DEF latestTimestamp
<1>9. CASE stops = {}
  <2>1. latestTimestamp(ring) = latestFrom[1]
    BY <1>1, <1>5, <1>8, <1>9
  <2>2. 1 \in 1..n
    BY <1>1
  <2> QED BY <1>1, <1>6, <2>1, <2>2
<1>10. CASE stops # {}
  <2>1. stops \in SUBSET Int /\ \A x \in stops : x <= n
    BY <1>7
  <2>2. PICK m \in stops : m = MostOf(stops)
    <3>1. n \in Int
      OBVIOUS
    <3>2. MostOf(stops) \in stops
      BY <1>10, <2>1, <3>1, MostFound
    <3> QED BY <3>2
  <2>3. m \in 1..(n - 1) /\ m + 1 \in 1..n /\ m \in 1..n
    BY <1>7, <2>2
  <2>4. latestTimestamp(ring) = latestFrom[m + 1]
    BY <1>5, <1>8, <1>10, <2>2, <2>3
  <2>5. ring[m].highWater <= latestFrom[m + 1]
    BY <1>5, <1>7, <2>2, <2>3
  <2>6. ASSUME NEW i \in 1..n
        PROVE  ring[i].at <= latestFrom[m + 1]
    <3>1. CASE i <= m
      <4>1. ring[i].at <= ring[i].highWater /\ ring[i].highWater <= ring[m].highWater
        BY <1>1, <2>3, <3>1 DEF CmpOrdered
      <4>2. /\ ring[i].at \in Int /\ ring[i].highWater \in Int /\ ring[m].highWater \in Int
            /\ latestFrom[m + 1] \in Int
        BY <1>2, <1>6, <2>3
      <4> QED BY <2>5, <4>1, <4>2
    <3>2. CASE ~(i <= m)
      <4>1. i \in (m + 1)..n
        BY <2>3, <3>2
      <4> QED BY <1>6, <2>3, <4>1
    <3> QED BY <3>1, <3>2
  <2> QED BY <1>1, <1>6, <2>3, <2>4, <2>6
<1> QED BY <1>9, <1>10

CmpLive(ring, cutoff) == {i \in 1..Len(ring) : ring[i].at >= cutoff}

\* The times of the events held are those at their places.
LEMMA TimesHeld ==
  ASSUME NEW ring \in Seq(CmpEvents), NEW S \in SUBSET (1..Len(ring))
  PROVE  \A x : x \in CmpTimes(heldAt(ring, S)) <=> \E i \in S : ring[i].at = x
<1>1. PICK n \in Nat : n = Len(ring)
  BY RingTyped
<1>2. PICK a \in Nat : a = Cardinality(S)
  BY <1>1, PlacesCounted
<1>3. PICK g : g = placesIn(S)
  OBVIOUS
<1>4. g \in [1..a -> S] /\ \A i \in S : \E k \in 1..a : g[k] = i
  BY <1>1, <1>2, <1>3, PlacesCounted
<1>5. PICK taken : taken = heldAt(ring, S)
  OBVIOUS
<1>6. taken = [k \in 1..a |-> ring[g[k]]]
  BY <1>2, <1>3, <1>5 DEF heldAt
<1>7. \A i \in S : ring[i] \in CmpEvents
  BY RingTyped
<1>8. taken \in [1..a -> CmpEvents]
  BY <1>4, <1>6, <1>7
<1>9. Len(taken) = a
  BY <1>8, FunIsSeq
<1>10. \A k \in 1..a : taken[k].at = ring[g[k]].at /\ g[k] \in S
  BY <1>4, <1>6
<1>11. \A x : x \in CmpTimes(taken) <=> \E i \in S : ring[i].at = x
  <2> TAKE x
  <2>1. x \in CmpTimes(taken) <=> \E k \in 1..a : taken[k].at = x
    BY <1>9 DEF CmpTimes
  <2>2. ASSUME NEW k \in 1..a, taken[k].at = x
        PROVE  \E i \in S : ring[i].at = x
    <3>1. g[k] \in S /\ ring[g[k]].at = x
      BY <1>10, <2>2
    <3> QED BY <3>1
  <2>3. ASSUME NEW i \in S, ring[i].at = x
        PROVE  \E k \in 1..a : taken[k].at = x
    <3>1. PICK k \in 1..a : g[k] = i
      BY <1>4
    <3>2. taken[k].at = x
      BY <1>10, <2>3, <3>1
    <3> QED BY <3>2
  <2> QED BY <2>1, <2>2, <2>3
<1> QED BY <1>5, <1>11

\* What PruneBefore leaves and reports is what reading every event would.
LEMMA PrunedExactly ==
  ASSUME NEW e, CmpEventsOk(e), NEW cutoff \in Int
  PROVE  LET p == pruneBefore(e, cutoff)
             left == heldAt(e.ring, CmpLive(e.ring, cutoff))
         IN /\ p.events.ring = left /\ CmpEventsOk(p.events)
            /\ p.ok \in BOOLEAN /\ (p.ok <=> left # <<>>)
            /\ left # <<>> => /\ p.first \in Int /\ p.first = LeastOf(CmpTimes(left))
                              /\ p.last \in Int /\ p.last = MostOf(CmpTimes(left))
                              /\ \A i \in 1..Len(left) : left[i].at <= p.last
<1>1. /\ e.ring \in Seq(CmpEvents) /\ e.highWater \in Int /\ e.maxLag \in Int
      /\ CmpOrdered(e.ring, e.highWater, e.maxLag)
  BY DEF CmpEventsOk, CmpRings
<1>2. PICK n \in Nat : n = Len(e.ring)
  BY <1>1, RingTyped
<1>3. PICK S : S = CmpLive(e.ring, cutoff)
  OBVIOUS
<1>4. PICK stop : stop = scanExpired(e, cutoff)
  OBVIOUS
<1>5. /\ stop \in 0..n
      /\ \A i \in 1..n : i > stop => /\ e.ring[i].at >= cutoff
                                     /\ liveBefore(e, stop, cutoff) # {}
                                     /\ LeastOf(liveBefore(e, stop, cutoff)) <= e.ring[i].at
  BY <1>2, <1>4, ScanMayStop
<1>6. S = {i \in 1..n : i > stop \/ e.ring[i].at >= cutoff}
  BY <1>2, <1>3, <1>5 DEF CmpLive
<1>7. PICK left : left = heldAt(e.ring, S)
  OBVIOUS
<1>8. compacted(e, stop, cutoff) = left
  BY <1>2, <1>6, <1>7 DEF compacted
<1>9. PICK p : p = pruneBefore(e, cutoff)
  OBVIOUS
<1>10. p = IF left = <<>>
           THEN [events |-> [ring |-> <<>>, highWater |-> 0, maxLag |-> 0], ok |-> FALSE]
           ELSE [events |-> [e EXCEPT !.ring = left], ok |-> TRUE,
                 first |-> LeastOf(liveBefore(e, stop, cutoff)), last |-> latestTimestamp(left)]
  BY <1>4, <1>8, <1>9 DEF pruneBefore
<1>11. S \in SUBSET (1..Len(e.ring))
  BY <1>3 DEF CmpLive
<1>12. left \in Seq(CmpEvents) /\ CmpOrdered(left, e.highWater, e.maxLag)
  BY <1>1, <1>7, <1>11, HeldInOrder
<1>13. CASE left = <<>>
  <2>1. p = [events |-> [ring |-> <<>>, highWater |-> 0, maxLag |-> 0], ok |-> FALSE]
    BY <1>10, <1>13
  <2>2. p.events = [ring |-> <<>>, highWater |-> 0, maxLag |-> 0] /\ p.ok = FALSE
    BY <2>1
  <2>3. <<>> \in Seq(CmpEvents) /\ Len(<<>>) = 0
    BY EmptySeq
  <2>4. CmpOrdered(<<>>, 0, 0)
    BY <2>3 DEF CmpOrdered
  <2>5. CmpEventsOk(p.events) /\ p.events.ring = <<>>
    BY <2>2, <2>3, <2>4 DEF CmpEventsOk, CmpRings
  <2> QED
    BY <1>3, <1>7, <1>9, <1>13, <2>2, <2>5
<1>14. CASE left # <<>>
  <2>1. p = [events |-> [e EXCEPT !.ring = left], ok |-> TRUE,
             first |-> LeastOf(liveBefore(e, stop, cutoff)), last |-> latestTimestamp(left)]
    BY <1>10, <1>14
  <2>2. /\ p.events = [e EXCEPT !.ring = left] /\ p.ok = TRUE
        /\ p.first = LeastOf(liveBefore(e, stop, cutoff)) /\ p.last = latestTimestamp(left)
    BY <2>1
  <2>3. p.events.ring = left /\ CmpEventsOk(p.events)
    BY <1>12, <2>2 DEF CmpEventsOk, CmpRings
  <2>4. Len(left) # 0 /\ Len(left) \in Nat
    BY <1>12, <1>14, EmptySeq, RingTyped
  <2>5. \A x : x \in CmpTimes(left) <=> \E i \in S : e.ring[i].at = x
    BY <1>1, <1>7, <1>11, TimesHeld
  <2>6. CmpTimes(left) \in SUBSET Int
    BY <1>12, RingTyped DEF CmpTimes
  <2>7. p.last \in Int /\ p.last = MostOf(CmpTimes(left)) /\ \A i \in 1..Len(left) : left[i].at <= p.last
    <3>1. PICK l : l = latestTimestamp(left)
      OBVIOUS
    <3>2. l \in CmpTimes(left) /\ \A i \in 1..Len(left) : left[i].at <= l
      BY <1>1, <1>12, <2>4, <3>1, LatestIsLatest
    <3>3. \A y \in CmpTimes(left) : y <= l
      BY <3>2 DEF CmpTimes
    <3>4. l = MostOf(CmpTimes(left))
      BY <2>6, <3>2, <3>3, MostIs
    <3> QED BY <2>2, <2>6, <3>1, <3>2, <3>4
  <2>8. p.first \in Int /\ p.first = LeastOf(CmpTimes(left))
    <3>1. PICK live : live = liveBefore(e, stop, cutoff)
      OBVIOUS
    <3>2. /\ live \in SUBSET Int /\ \A x \in live : cutoff <= x
          /\ \A x : x \in live <=> \E i \in 1..stop : e.ring[i].at = x /\ e.ring[i].at >= cutoff
      BY <1>2, <1>5, <3>1, LiveTimes
    <3>3. CmpTimes(left) # {}
      <4>1. 1 \in 1..Len(left)
        BY <2>4
      <4> QED BY <4>1 DEF CmpTimes
    <3>4. PICK i \in S : TRUE
      BY <2>5, <3>3
    <3>5. \A j \in S : j \in 1..n /\ e.ring[j].at >= cutoff /\ (j \in 1..stop \/ j > stop)
      BY <1>2, <1>3, <1>5 DEF CmpLive
    <3>6. live # {}
      BY <1>5, <3>1, <3>2, <3>4, <3>5
    <3>7. PICK l : l = LeastOf(live) /\ l \in live /\ l \in Int /\ \A y \in live : l <= y
      BY <3>2, <3>6, LeastFound
    <3>8. l \in CmpTimes(left)
      <4>1. PICK j \in 1..stop : e.ring[j].at = l /\ e.ring[j].at >= cutoff
        BY <3>2, <3>7
      <4>2. j \in S
        BY <1>5, <1>6, <4>1
      <4> QED BY <2>5, <4>1, <4>2
    <3>9. \A y \in CmpTimes(left) : l <= y
      <4> TAKE y \in CmpTimes(left)
      <4>1. PICK j \in S : e.ring[j].at = y
        BY <2>5
      <4>2. CASE j \in 1..stop
        BY <3>2, <3>5, <3>7, <4>1, <4>2
      <4>3. CASE j > stop
        BY <1>5, <3>1, <3>5, <3>7, <4>1, <4>3
      <4> QED BY <3>5, <4>2, <4>3
    <3>10. l = LeastOf(CmpTimes(left))
      BY <2>6, <3>8, <3>9, LeastIs
    <3> QED BY <2>2, <3>1, <3>7, <3>10
  <2> QED
    BY <1>3, <1>7, <1>9, <1>14, <2>2, <2>3, <2>7, <2>8
<1> QED BY <1>13, <1>14

CmpPushed(p, e, s, at, n) ==
  /\ CmpEventsOk(p) /\ Len(p.ring) = n + 1
  /\ \A i \in 1..n : p.ring[i] = e.ring[i]
  /\ p.ring[n + 1].sig = s /\ p.ring[n + 1].at = at

LEMMA EventPushed ==
  ASSUME NEW e, CmpEventsOk(e), NEW s \in CmpSignals, NEW at \in Int
  PROVE  Len(e.ring) \in Nat /\ CmpPushed(cmpPush(e, s, at), e, s, at, Len(e.ring))
<1>1. /\ e.ring \in Seq(CmpEvents) /\ e.highWater \in Int /\ e.maxLag \in Int
      /\ CmpOrdered(e.ring, e.highWater, e.maxLag)
  BY DEF CmpEventsOk, CmpRings
<1>2. PICK n \in Nat : n = Len(e.ring)
  BY <1>1, RingTyped
<1>3. PICK high \in Int : high = IF e.ring = <<>> \/ at > e.highWater THEN at ELSE e.highWater
  BY <1>1
<1>4. PICK old \in Int : old = e.maxLag
  BY <1>1
<1>5. PICK lag \in Int : lag = maxLagAfter(e, high, at)
  <2>1. PICK x \in Int : x = high - at
    OBVIOUS
  <2>2. MostOf({old, x}) = IF old <= x THEN x ELSE old
    BY LeastMostOfTwo
  <2>3. MostOf({old, x}) \in Int
    BY <2>2
  <2> QED BY <1>4, <2>1, <2>3 DEF maxLagAfter
<1>6. high - at <= lag /\ old <= lag
  <2>1. PICK x \in Int : x = high - at
    OBVIOUS
  <2>2. lag = IF old <= x THEN x ELSE old
    BY <1>4, <1>5, <2>1, LeastMostOfTwo DEF maxLagAfter
  <2> QED BY <2>1, <2>2
<1>7. PICK ev \in CmpEvents : ev = [sig |-> s, at |-> at, highWater |-> high]
  BY DEF CmpEvents
<1>8. ev.sig = s /\ ev.at = at /\ ev.highWater = high
  BY <1>7
<1>9. PICK ring : ring = Append(e.ring, ev)
  OBVIOUS
<1>10. /\ ring \in Seq(CmpEvents) /\ Len(ring) = n + 1
       /\ \A i \in 1..n : ring[i] = e.ring[i]
       /\ ring[n + 1] = ev
  BY <1>1, <1>2, <1>9, AppendProperties
<1>11. PICK p : p = cmpPush(e, s, at)
  OBVIOUS
<1>12. p = [ring |-> ring, highWater |-> high, maxLag |-> lag]
  BY <1>3, <1>5, <1>7, <1>9, <1>11 DEF cmpPush
<1>13. at <= high
  BY <1>1, <1>3
<1>14. ASSUME NEW i \in 1..n
       PROVE  /\ e.ring[i].highWater \in Int /\ e.ring[i].at \in Int
              /\ e.ring[i].at <= e.ring[i].highWater /\ e.ring[i].highWater <= high
              /\ e.ring[i].highWater - e.ring[i].at <= lag
  <2>1. e.ring # <<>>
    BY <1>2, EmptySeq
  <2>2. PICK h \in Int : h = e.ring[i].highWater
    BY <1>1, <1>2, RingTyped
  <2>3. PICK a \in Int : a = e.ring[i].at
    BY <1>1, <1>2, RingTyped
  <2>4. a <= h /\ h <= e.highWater /\ h - a <= old
    BY <1>1, <1>2, <1>4, <2>2, <2>3 DEF CmpOrdered
  <2>5. e.highWater <= high
    BY <1>1, <1>3, <2>1
  <2>6. h <= high /\ h - a <= lag
    BY <1>1, <1>6, <2>4, <2>5
  <2> QED BY <2>2, <2>3, <2>4, <2>6
<1>15. \A i \in 1..(n + 1) : i \in 1..n \/ i = n + 1
  OBVIOUS
<1>16. CmpOrdered(ring, high, lag)
  <2>1. ASSUME NEW i \in 1..(n + 1)
        PROVE  /\ ring[i].at <= ring[i].highWater /\ ring[i].highWater <= high
               /\ ring[i].highWater - ring[i].at <= lag
    <3>1. CASE i \in 1..n
      BY <1>10, <1>14, <3>1
    <3>2. CASE i = n + 1
      BY <1>6, <1>8, <1>10, <1>13, <3>2
    <3> QED BY <1>15, <3>1, <3>2
  <2>2. ASSUME NEW i \in 1..(n + 1), NEW j \in 1..(n + 1), i <= j
        PROVE  ring[i].highWater <= ring[j].highWater
    <3>1. CASE j \in 1..n
      <4>1. i \in 1..n
        BY <2>2, <3>1
      <4>2. e.ring[i].highWater <= e.ring[j].highWater
        BY <1>1, <1>2, <2>2, <3>1, <4>1 DEF CmpOrdered
      <4> QED BY <1>10, <3>1, <4>1, <4>2
    <3>2. CASE j = n + 1
      <4>1. ring[i].highWater <= high
        BY <2>1
      <4> QED BY <1>8, <1>10, <3>2, <4>1
    <3> QED BY <1>15, <3>1, <3>2
  <2> QED BY <1>10, <2>1, <2>2 DEF CmpOrdered
<1>17. CmpEventsOk(p)
  BY <1>10, <1>12, <1>16 DEF CmpEventsOk, CmpRings
<1> QED
  BY <1>2, <1>8, <1>10, <1>11, <1>12, <1>17 DEF CmpPushed

\* What is left of the events when the oldest are given up.
LEMMA EventsTrimmed ==
  ASSUME NEW e, CmpEventsOk(e)
  PROVE  LET t == trimTo(e)
             n == Len(e.ring)
         IN /\ CmpEventsOk(t) /\ n \in Nat
            /\ n <= CmpMaxEvents => t = e
            /\ n > CmpMaxEvents =>
                 Len(t.ring) = CmpMaxEvents
                   /\ \A i \in 1..CmpMaxEvents : t.ring[i] = e.ring[n - CmpMaxEvents + i]
<1>1. /\ e \in CmpRings /\ e.ring \in Seq(CmpEvents) /\ e.highWater \in Int /\ e.maxLag \in Int
      /\ CmpOrdered(e.ring, e.highWater, e.maxLag)
  BY DEF CmpEventsOk, CmpRings
<1>2. PICK n \in Nat : n = Len(e.ring)
  BY <1>1, RingTyped
<1>3. PICK max \in Nat \ {0} : max = CmpMaxEvents
  BY CmpAssumption
<1>4. PICK t : t = trimTo(e)
  OBVIOUS
<1>5. CASE n <= max
  <2>1. t = [e EXCEPT !.ring = e.ring]
    BY <1>2, <1>3, <1>4, <1>5 DEF trimTo
  <2>2. t = e
    BY <1>1, <2>1 DEF CmpRings
  <2> QED BY <1>2, <1>3, <1>4, <1>5, <2>2
<1>6. CASE n > max
  <2>1. PICK ring : ring = SubSeq(e.ring, n - max + 1, n)
    OBVIOUS
  <2>2. t = [e EXCEPT !.ring = ring]
    BY <1>2, <1>3, <1>4, <1>6, <2>1 DEF trimTo
  <2>3. \A i \in (n - max + 1)..n : i \in 1..n /\ e.ring[i] \in CmpEvents
    BY <1>1, <1>2, <1>6, RingTyped
  <2>4. n - max + 1 \in Int /\ n \in Int /\ n - max + 1 <= n /\ n - (n - max + 1) + 1 = max
    BY <1>6
  <2>5. /\ ring \in Seq(CmpEvents) /\ Len(ring) = max
        /\ \A i \in 1..max : ring[i] = e.ring[(n - max + 1) + i - 1]
    BY <2>1, <2>3, <2>4, SubSeqProperties
  <2>6. \A i \in 1..max : n - max + i \in 1..n /\ ring[i] = e.ring[n - max + i]
    <3> TAKE i \in 1..max
    <3>1. (n - max + 1) + i - 1 = n - max + i /\ n - max + i \in 1..n
      BY <1>6
    <3> QED BY <2>5, <3>1
  <2>7. CmpOrdered(ring, e.highWater, e.maxLag)
    <3>1. ASSUME NEW i \in 1..max
          PROVE  /\ ring[i].at <= ring[i].highWater /\ ring[i].highWater <= e.highWater
                 /\ ring[i].highWater - ring[i].at <= e.maxLag
      BY <1>1, <1>2, <2>6 DEF CmpOrdered
    <3>2. ASSUME NEW i \in 1..max, NEW j \in 1..max, i <= j
          PROVE  ring[i].highWater <= ring[j].highWater
      <4>1. n - max + i <= n - max + j
        BY <3>2
      <4> QED BY <1>1, <1>2, <2>6, <4>1 DEF CmpOrdered
    <3> QED BY <2>5, <3>1, <3>2 DEF CmpOrdered
  <2>8. t.ring = ring /\ CmpEventsOk(t)
    BY <1>1, <2>2, <2>5, <2>7 DEF CmpEventsOk, CmpRings
  <2> QED BY <1>2, <1>3, <1>4, <1>6, <2>5, <2>6, <2>8
<1> QED BY <1>5, <1>6

-----------------------------------------------------------------------------
(* What a rollup holds of what it was given. *)

CmpLogs == Seq([sig : CmpSignals, at : Int])

LEMMA LogTyped ==
  ASSUME NEW log \in CmpLogs
  PROVE  Len(log) \in Nat /\ \A i \in 1..Len(log) : log[i].sig \in CmpSignals /\ log[i].at \in Int
<1>1. Len(log) \in Nat /\ \A i \in 1..Len(log) : log[i] \in [sig : CmpSignals, at : Int]
  BY LenProperties, ElementOfSeq DEF CmpLogs
<1> QED BY <1>1

\* The events came as given and in that order, and what is missing of the window
\* is older in the order of arrival than all that is there, in a full rollup.
CmpPlaced(ring, log, now, f) ==
  /\ f \in [1..Len(ring) -> 1..Len(log)]
  /\ Increasing(f, Len(ring))
  /\ \A i \in 1..Len(ring) : ring[i].sig = log[f[i]].sig /\ ring[i].at = log[f[i]].at
  /\ \A j \in 1..Len(log) : log[j].at >= now - CmpWindow =>
        \/ \E i \in 1..Len(ring) : f[i] = j
        \/ Len(log) > CmpMaxEvents /\ \A i \in 1..Len(ring) : j < f[i]

CmpGiven(ring, log, now) == \E f \in [1..Len(ring) -> 1..Len(log)] : CmpPlaced(ring, log, now, f)

LEMMA GivenPushed ==
  ASSUME NEW ring \in Seq(CmpEvents), NEW log \in CmpLogs, NEW now \in Int,
         CmpGiven(ring, log, now), NEW new \in Seq(CmpEvents), NEW r \in [sig : CmpSignals, at : Int],
         Len(new) = Len(ring) + 1, \A i \in 1..Len(ring) : new[i] = ring[i],
         new[Len(ring) + 1].sig = r.sig, new[Len(ring) + 1].at = r.at
  PROVE  Append(log, r) \in CmpLogs /\ CmpGiven(new, Append(log, r), now)
<1>1. PICK n \in Nat : n = Len(ring)
  BY RingTyped
<1>2. PICK m \in Nat : m = Len(log)
  BY LogTyped
<1>3. PICK f \in [1..n -> 1..m] : CmpPlaced(ring, log, now, f)
  BY <1>1, <1>2 DEF CmpGiven
<1>4. PICK more : more = Append(log, r)
  OBVIOUS
<1>5. /\ more \in CmpLogs /\ Len(more) = m + 1 /\ \A i \in 1..m : more[i] = log[i]
      /\ more[m + 1] = r
  BY <1>2, <1>4, AppendProperties DEF CmpLogs
<1>6. PICK g : g = [i \in 1..(n + 1) |-> IF i \in 1..n THEN f[i] ELSE m + 1]
  OBVIOUS
<1>7. \A i \in 1..n : i \in 1..(n + 1) /\ g[i] = f[i] /\ f[i] \in 1..m
  BY <1>6
<1>8. g[n + 1] = m + 1
  BY <1>6
<1>9. \A i \in 1..(n + 1) : i \in 1..n \/ i = n + 1
  OBVIOUS
<1>10. g \in [1..(n + 1) -> 1..(m + 1)]
  BY <1>6
<1>11. Increasing(g, n + 1)
  <2> SUFFICES ASSUME NEW i \in 1..(n + 1), NEW j \in 1..(n + 1), i < j
               PROVE  g[i] < g[j]
    BY DEF Increasing
  <2>1. i \in 1..n
    OBVIOUS
  <2>2. CASE j \in 1..n
    <3>1. f[i] < f[j]
      BY <1>1, <1>3, <2>1, <2>2 DEF CmpPlaced, Increasing
    <3> QED BY <1>7, <2>1, <2>2, <3>1
  <2>3. CASE j = n + 1
    BY <1>7, <1>8, <2>1, <2>3
  <2> QED BY <1>9, <2>2, <2>3
<1>12. \A i \in 1..(n + 1) : new[i].sig = more[g[i]].sig /\ new[i].at = more[g[i]].at
  <2> TAKE i \in 1..(n + 1)
  <2>1. CASE i \in 1..n
    <3>1. ring[i].sig = log[f[i]].sig /\ ring[i].at = log[f[i]].at
      BY <1>1, <1>3, <2>1 DEF CmpPlaced
    <3> QED BY <1>1, <1>5, <1>7, <2>1, <3>1
  <2>2. CASE i = n + 1
    BY <1>1, <1>5, <1>8, <2>2
  <2> QED BY <1>9, <2>1, <2>2
<1>13. ASSUME NEW j \in 1..(m + 1), more[j].at >= now - CmpWindow
       PROVE  \/ \E i \in 1..(n + 1) : g[i] = j
              \/ m + 1 > CmpMaxEvents /\ \A i \in 1..(n + 1) : j < g[i]
  <2>1. CASE j = m + 1
    <3>1. n + 1 \in 1..(n + 1)
      OBVIOUS
    <3> QED BY <1>8, <2>1, <3>1
  <2>2. CASE j \in 1..m /\ \E i \in 1..n : f[i] = j
    BY <1>7, <2>2
  <2>3. CASE j \in 1..m /\ m > CmpMaxEvents /\ \A i \in 1..n : j < f[i]
    <3>1. \A i \in 1..(n + 1) : j < g[i]
      <4> TAKE i \in 1..(n + 1)
      <4>1. CASE i \in 1..n
        BY <1>7, <2>3, <4>1
      <4>2. CASE i = n + 1
        BY <1>8, <2>3, <4>2
      <4> QED BY <1>9, <4>1, <4>2
    <3>2. m + 1 > CmpMaxEvents
      BY <2>3, CmpAssumption
    <3> QED BY <3>1, <3>2
  <2>4. j = m + 1 \/ (j \in 1..m /\ log[j].at >= now - CmpWindow)
    BY <1>5, <1>13
  <2>5. j \in 1..m /\ log[j].at >= now - CmpWindow =>
           (\E i \in 1..n : f[i] = j) \/ (m > CmpMaxEvents /\ \A i \in 1..n : j < f[i])
    BY <1>1, <1>2, <1>3 DEF CmpPlaced
  <2> QED BY <2>1, <2>2, <2>3, <2>4, <2>5
<1>14. CmpPlaced(new, more, now, g)
  BY <1>1, <1>5, <1>10, <1>11, <1>12, <1>13 DEF CmpPlaced
<1>15. Len(new) = n + 1 /\ Len(more) = m + 1
  BY <1>1, <1>5
<1> QED
  BY <1>4, <1>5, <1>10, <1>14, <1>15 DEF CmpGiven

\* Giving up events that have left the window changes nothing.
LEMMA GivenHeld ==
  ASSUME NEW e, CmpEventsOk(e), NEW log \in CmpLogs, NEW now \in Int,
         CmpGiven(e.ring, log, now), NEW cutoff \in Int, cutoff <= now - CmpWindow
  PROVE  CmpGiven(heldAt(e.ring, CmpLive(e.ring, cutoff)), log, now)
<1>1. /\ e.ring \in Seq(CmpEvents) /\ e.highWater \in Int /\ e.maxLag \in Int
      /\ CmpOrdered(e.ring, e.highWater, e.maxLag)
  BY DEF CmpEventsOk, CmpRings
<1>2. PICK ring \in Seq(CmpEvents) : ring = e.ring
  BY <1>1
<1>3. PICK n \in Nat : n = Len(ring)
  BY RingTyped
<1>4. PICK m \in Nat : m = Len(log)
  BY LogTyped
<1>5. PICK f \in [1..n -> 1..m] : CmpPlaced(ring, log, now, f)
  BY <1>2, <1>3, <1>4 DEF CmpGiven
<1>6. PICK S : S = CmpLive(ring, cutoff)
  OBVIOUS
<1>7. S \in SUBSET (1..n) /\ S \in SUBSET (1..Len(ring))
  BY <1>3, <1>6 DEF CmpLive
<1>8. PICK a \in Nat : a = Cardinality(S)
  BY <1>7, PlacesCounted
<1>9. PICK g : g = placesIn(S)
  OBVIOUS
<1>10. g \in [1..a -> S] /\ Increasing(g, a) /\ \A i \in S : \E k \in 1..a : g[k] = i
  BY <1>7, <1>8, <1>9, PlacesCounted
<1>11. PICK taken : taken = heldAt(ring, S)
  OBVIOUS
<1>12. Len(taken) = a /\ \A k \in 1..a : taken[k] = ring[g[k]]
  BY <1>1, <1>2, <1>7, <1>8, <1>9, <1>11, HeldInOrder
<1>13. PICK h : h = [k \in 1..a |-> f[g[k]]]
  OBVIOUS
<1>14. \A k \in 1..a : g[k] \in 1..n /\ h[k] = f[g[k]] /\ h[k] \in 1..m
  BY <1>7, <1>10, <1>13
<1>15. h \in [1..a -> 1..m]
  BY <1>13, <1>14
<1>16. Increasing(h, a)
  <2> SUFFICES ASSUME NEW i \in 1..a, NEW j \in 1..a, i < j
               PROVE  h[i] < h[j]
    BY DEF Increasing
  <2>1. g[i] < g[j]
    BY <1>10 DEF Increasing
  <2>2. f[g[i]] < f[g[j]]
    BY <1>3, <1>5, <1>14, <2>1 DEF CmpPlaced, Increasing
  <2> QED BY <1>14, <2>2
<1>17. \A k \in 1..a : taken[k].sig = log[h[k]].sig /\ taken[k].at = log[h[k]].at
  <2> TAKE k \in 1..a
  <2>1. ring[g[k]].sig = log[f[g[k]]].sig /\ ring[g[k]].at = log[f[g[k]]].at
    BY <1>3, <1>5, <1>14 DEF CmpPlaced
  <2> QED BY <1>12, <1>14, <2>1
<1>18. ASSUME NEW j \in 1..m, log[j].at >= now - CmpWindow
       PROVE  (\E k \in 1..a : h[k] = j) \/ (m > CmpMaxEvents /\ \A k \in 1..a : j < h[k])
  <2>1. CASE \E i \in 1..n : f[i] = j
    <3>1. PICK i \in 1..n : f[i] = j
      BY <2>1
    <3>2. ring[i].at = log[j].at
      BY <1>3, <1>5, <3>1 DEF CmpPlaced
    <3>3. ring[i].at >= cutoff
      <4>1. log[j].at \in Int /\ now - CmpWindow \in Int
        BY <1>4, LogTyped, CmpAssumption
      <4> QED BY <1>18, <3>2, <4>1
    <3>4. i \in S
      BY <1>3, <1>6, <3>3 DEF CmpLive
    <3>5. PICK k \in 1..a : g[k] = i
      BY <1>10, <3>4
    <3> QED BY <1>14, <3>1, <3>5
  <2>2. CASE m > CmpMaxEvents /\ \A i \in 1..n : j < f[i]
    BY <1>14, <2>2
  <2> QED BY <1>3, <1>4, <1>5, <1>18, <2>1, <2>2 DEF CmpPlaced
<1>19. CmpPlaced(taken, log, now, h)
  BY <1>4, <1>12, <1>15, <1>16, <1>17, <1>18 DEF CmpPlaced
<1> QED
  BY <1>2, <1>4, <1>6, <1>11, <1>12, <1>15, <1>19 DEF CmpGiven

\* Nor does giving up the oldest of a rollup that is full.
LEMMA GivenTrimmed ==
  ASSUME NEW e, CmpEventsOk(e), NEW log \in CmpLogs, NEW now \in Int,
         CmpGiven(e.ring, log, now)
  PROVE  CmpGiven(trimTo(e).ring, log, now)
<1>1. e.ring \in Seq(CmpEvents)
  BY DEF CmpEventsOk, CmpRings
<1>2. PICK ring \in Seq(CmpEvents) : ring = e.ring
  BY <1>1
<1>3. PICK n \in Nat : n = Len(ring)
  BY RingTyped
<1>4. PICK m \in Nat : m = Len(log)
  BY LogTyped
<1>5. PICK f \in [1..n -> 1..m] : CmpPlaced(ring, log, now, f)
  BY <1>2, <1>3, <1>4 DEF CmpGiven
<1>6. PICK max \in Nat \ {0} : max = CmpMaxEvents
  BY CmpAssumption
<1>7. PICK less : less = trimTo(e).ring
  OBVIOUS
<1>8. CASE n <= max
  <2>1. trimTo(e) = e
    BY <1>2, <1>3, <1>6, <1>8, EventsTrimmed
  <2> QED BY <2>1
<1>9. CASE n > max
  <2>1. Len(less) = max /\ \A i \in 1..max : less[i] = ring[n - max + i]
    BY <1>2, <1>3, <1>6, <1>7, <1>9, EventsTrimmed
  <2>2. PICK d \in Nat : d = n - max
    BY <1>9
  <2>3. \A i \in 1..max : d + i \in 1..n /\ less[i] = ring[d + i]
    BY <2>1, <2>2
  <2>4. PICK h : h = [i \in 1..max |-> f[d + i]]
    OBVIOUS
  <2>5. \A i \in 1..max : h[i] = f[d + i] /\ h[i] \in 1..m
    BY <2>3, <2>4
  <2>6. h \in [1..max -> 1..m]
    BY <2>4, <2>5
  <2>7. \A i, j \in 1..n : i < j => f[i] < f[j]
    BY <1>3, <1>5 DEF CmpPlaced, Increasing
  <2>8. Increasing(h, max)
    <3> SUFFICES ASSUME NEW i \in 1..max, NEW j \in 1..max, i < j
                 PROVE  h[i] < h[j]
      BY DEF Increasing
    <3>1. d + i < d + j
      OBVIOUS
    <3> QED BY <2>3, <2>5, <2>7, <3>1
  <2>9. \A i \in 1..max : less[i].sig = log[h[i]].sig /\ less[i].at = log[h[i]].at
    <3> TAKE i \in 1..max
    <3>1. ring[d + i].sig = log[f[d + i]].sig /\ ring[d + i].at = log[f[d + i]].at
      BY <1>3, <1>5, <2>3 DEF CmpPlaced
    <3> QED BY <2>3, <2>5, <3>1
  <2>10. m > max
    <3>1. \A i, j \in 1..n : f[i] = f[j] => i = j
      <4> TAKE i, j \in 1..n
      <4>1. f[i] \in Int /\ f[j] \in Int
        OBVIOUS
      <4> QED BY <2>7, <4>1
    <3>2. f \in Injection(1..n, 1..m)
      BY <3>1 DEF Injection, IsInjective
    <3>3. n <= m
      <4>1. /\ IsFiniteSet(1..n) /\ Cardinality(1..n) = n
            /\ IsFiniteSet(1..m) /\ Cardinality(1..m) = m
        BY FS_Interval
      <4> QED BY <3>2, <4>1, FS_Injection
    <3> QED BY <1>9, <3>3
  <2>11. ASSUME NEW j \in 1..m, log[j].at >= now - CmpWindow
         PROVE  (\E i \in 1..max : h[i] = j) \/ (m > max /\ \A i \in 1..max : j < h[i])
    <3>1. CASE \E i \in 1..n : f[i] = j
      <4>1. PICK i \in 1..n : f[i] = j
        BY <3>1
      <4>2. CASE i <= d
        <5>1. \A k \in 1..max : i < d + k
          BY <4>2
        <5>2. \A k \in 1..max : j < h[k]
          BY <2>3, <2>5, <2>7, <4>1, <5>1
        <5> QED BY <2>10, <5>2
      <4>3. CASE ~(i <= d)
        <5>1. i - d \in 1..max /\ d + (i - d) = i
          BY <2>2, <4>3
        <5>2. h[i - d] = j
          BY <2>5, <4>1, <5>1
        <5> QED BY <5>1, <5>2
      <4> QED BY <4>2, <4>3
    <3>2. CASE \A i \in 1..n : j < f[i]
      BY <2>3, <2>5, <2>10, <3>2
    <3> QED BY <1>3, <1>4, <1>5, <2>11, <3>1, <3>2 DEF CmpPlaced
  <2>12. CmpPlaced(less, log, now, h)
    BY <1>4, <1>6, <2>1, <2>6, <2>8, <2>9, <2>11 DEF CmpPlaced
  <2> QED
    BY <1>4, <1>7, <2>1, <2>6, <2>12 DEF CmpGiven
<1> QED BY <1>8, <1>9

-----------------------------------------------------------------------------
(* A campaign, from one record or evaluation to the next. *)

CmpReasons == {"", "destination_subnet_breadth", "destination_ip_breadth",
               "destination_port_breadth", "weak_source_breadth"}
CmpCampaigns ==
  [firstSeen : Int, lastSeen : Int, episode : Nat, lastReason : CmpReasons,
   lastDetection : Int, lastObserve : Int, events : CmpRings]

CmpCampaignOk(c, log, now) ==
  /\ c \in CmpCampaigns /\ CmpEventsOk(c.events)
  /\ log \in CmpLogs /\ CmpGiven(c.events.ring, log, now)
  /\ \A i \in 1..Len(c.events.ring) : c.events.ring[i].at <= c.lastSeen

\* The window of a rollup, in sequences of signals.
LEMMA CampaignPruned ==
  ASSUME NEW c, NEW log, NEW now \in Int, CmpCampaignOk(c, log, now),
         NEW upto \in Int, upto <= now
  PROVE  LET p == pruneCampaign(c, upto)
         IN CmpCampaignOk(p, log, now) /\ p.episode = c.episode /\ p.lastObserve = c.lastObserve
<1>1. /\ c \in CmpCampaigns /\ CmpEventsOk(c.events) /\ c.events.ring \in Seq(CmpEvents)
      /\ log \in CmpLogs /\ CmpGiven(c.events.ring, log, now)
  BY DEF CmpCampaignOk, CmpEventsOk, CmpRings
<1>2. PICK cutoff \in Int : cutoff = cutoffAt(upto) /\ cutoff <= now - CmpWindow
  BY CmpAssumption DEF cutoffAt
<1>3. PICK e : e = c.events
  OBVIOUS
<1>4. PICK p : p = pruneBefore(e, cutoff)
  OBVIOUS
<1>5. PICK left : left = heldAt(e.ring, CmpLive(e.ring, cutoff))
  OBVIOUS
<1>6. /\ p.events.ring = left /\ CmpEventsOk(p.events)
      /\ p.ok \in BOOLEAN /\ (p.ok <=> left # <<>>)
      /\ left # <<>> => /\ p.first \in Int /\ p.last \in Int
                        /\ \A i \in 1..Len(left) : left[i].at <= p.last
  BY <1>1, <1>2, <1>3, <1>4, <1>5, PrunedExactly
<1>7. CmpGiven(left, log, now)
  BY <1>1, <1>2, <1>3, <1>5, GivenHeld
<1>8. PICK q : q = pruneCampaign(c, upto)
  OBVIOUS
<1>9. q = IF c.events.ring = <<>> \/ c.firstSeen >= cutoff THEN c
          ELSE IF p.ok THEN [c EXCEPT !.events = p.events, !.firstSeen = p.first, !.lastSeen = p.last]
               ELSE [c EXCEPT !.events = p.events]
  BY <1>2, <1>3, <1>4, <1>8 DEF pruneCampaign
<1>10. CASE q = c
  BY <1>8, <1>10
<1>11. CASE p.ok /\ q = [c EXCEPT !.events = p.events, !.firstSeen = p.first, !.lastSeen = p.last]
  <2>1. PICK ev \in CmpRings : ev = p.events
    BY <1>6 DEF CmpEventsOk
  <2>2. PICK first \in Int : first = p.first
    BY <1>6, <1>11
  <2>3. PICK last \in Int : last = p.last
    BY <1>6, <1>11
  <2>4. q = [c EXCEPT !.events = ev, !.firstSeen = first, !.lastSeen = last]
    BY <1>11, <2>1, <2>2, <2>3
  <2>5. /\ q \in CmpCampaigns /\ q.events = ev /\ q.lastSeen = last
        /\ q.episode = c.episode /\ q.lastObserve = c.lastObserve
    BY <1>1, <2>4 DEF CmpCampaigns
  <2>6. \A i \in 1..Len(ev.ring) : ev.ring[i].at <= last
    BY <1>6, <1>11, <2>1, <2>3
  <2>7. CmpCampaignOk(q, log, now)
    BY <1>1, <1>6, <1>7, <2>1, <2>5, <2>6 DEF CmpCampaignOk
  <2> QED BY <1>8, <2>5, <2>7
<1>12. CASE ~p.ok /\ q = [c EXCEPT !.events = p.events]
  <2>1. PICK ev \in CmpRings : ev = p.events
    BY <1>6 DEF CmpEventsOk
  <2>2. q = [c EXCEPT !.events = ev]
    BY <1>12, <2>1
  <2>3. /\ q \in CmpCampaigns /\ q.events = ev
        /\ q.episode = c.episode /\ q.lastObserve = c.lastObserve
    BY <1>1, <2>2 DEF CmpCampaigns
  <2>4. ev.ring = <<>> /\ Len(ev.ring) = 0
    BY <1>6, <1>12, <2>1, EmptySeq
  <2>5. \A i \in 1..Len(ev.ring) : FALSE
    BY <2>4
  <2>6. CmpCampaignOk(q, log, now)
    BY <1>1, <1>6, <1>7, <2>1, <2>3, <2>5 DEF CmpCampaignOk
  <2> QED BY <1>8, <2>3, <2>6
<1> QED BY <1>6, <1>9, <1>10, <1>11, <1>12

\* The rollups of a signal, recorded one after another.
CmpLeft(log, now) == Len(log) <= CmpMaxEvents => \A j \in 1..Len(log) : log[j].at < now - CmpWindow

CmpRollups(cs, seq, log, now) ==
  /\ seq \in Nat
  /\ cs = [k \in DOMAIN cs |-> cs[k]] /\ log = [k \in DOMAIN log |-> log[k]]
  /\ DOMAIN cs \subseteq DOMAIN log
  /\ \A k \in DOMAIN cs : CmpCampaignOk(cs[k], log[k], now) /\ cs[k].episode \in 1..seq
  /\ \A k, l \in DOMAIN cs : cs[k].episode = cs[l].episode => k = l
  /\ \A k \in DOMAIN log \ DOMAIN cs : log[k] \in CmpLogs /\ CmpLeft(log[k], now)

CmpFollows(cs, seq, ds, next) ==
  /\ next \in Nat /\ seq <= next
  /\ \A k \in DOMAIN ds :
       \/ k \in DOMAIN cs /\ ds[k].episode = cs[k].episode /\ ds[k].lastObserve = cs[k].lastObserve
       \/ ds[k].episode > seq /\ ds[k].lastObserve = 0

LEMMA FollowsOn ==
  ASSUME NEW cs, NEW seq \in Nat, NEW ds, NEW seq2, NEW es, NEW seq3,
         CmpFollows(cs, seq, ds, seq2), CmpFollows(ds, seq2, es, seq3),
         \A k \in DOMAIN es : es[k].episode \in Nat
  PROVE  CmpFollows(cs, seq, es, seq3)
<1>1. seq2 \in Nat /\ seq3 \in Nat /\ seq <= seq2 /\ seq2 <= seq3 /\ seq <= seq3
  BY DEF CmpFollows
<1>2. ASSUME NEW k \in DOMAIN es
      PROVE  \/ k \in DOMAIN cs /\ es[k].episode = cs[k].episode /\ es[k].lastObserve = cs[k].lastObserve
             \/ es[k].episode > seq /\ es[k].lastObserve = 0
  <2>1. CASE k \in DOMAIN ds /\ es[k].episode = ds[k].episode /\ es[k].lastObserve = ds[k].lastObserve
    <3>1. \/ k \in DOMAIN cs /\ ds[k].episode = cs[k].episode /\ ds[k].lastObserve = cs[k].lastObserve
          \/ ds[k].episode > seq /\ ds[k].lastObserve = 0
      BY <2>1 DEF CmpFollows
    <3> QED BY <2>1, <3>1
  <2>2. CASE es[k].episode > seq2 /\ es[k].lastObserve = 0
    BY <1>1, <2>2
  <2> QED BY <2>1, <2>2 DEF CmpFollows
<1> QED BY <1>1, <1>2 DEF CmpFollows

\* What a rollup begins with.
LEMMA NothingGiven ==
  ASSUME NEW now \in Int
  PROVE  <<>> \in CmpLogs /\ CmpGiven(<<>>, <<>>, now)
<1>1. <<>> \in CmpLogs /\ Len(<<>>) = 0
  BY EmptySeq DEF CmpLogs
<1>2. PICK f : f = [i \in 1..0 |-> 0]
  OBVIOUS
<1>3. f \in [1..0 -> 1..0]
  BY <1>2
<1>4. CmpPlaced(<<>>, <<>>, now, f)
  BY <1>1, <1>3 DEF CmpPlaced, Increasing
<1> QED
  BY <1>1, <1>3, <1>4 DEF CmpGiven

LEMMA CampaignGrows ==
  ASSUME NEW c, NEW log, NEW now \in Int, CmpCampaignOk(c, log, now),
         NEW s \in CmpSignals, NEW at \in Int, at <= now
  PROVE  LET d == withSignal(c, s, at)
         IN /\ CmpCampaignOk(d, Append(log, [sig |-> s, at |-> at]), now)
            /\ d.episode = c.episode /\ d.lastObserve = c.lastObserve
<1>1. /\ c \in CmpCampaigns /\ CmpEventsOk(c.events) /\ log \in CmpLogs
      /\ CmpGiven(c.events.ring, log, now)
      /\ c.firstSeen \in Int /\ c.lastSeen \in Int /\ c.events.ring \in Seq(CmpEvents)
  BY DEF CmpCampaignOk, CmpCampaigns, CmpEventsOk, CmpRings
<1>2. PICK e : e = c.events
  OBVIOUS
<1>3. PICK n \in Nat : n = Len(e.ring)
  BY <1>1, <1>2, RingTyped
<1>4. PICK ev : ev = cmpPush(e, s, at)
  OBVIOUS
<1>5. /\ CmpEventsOk(ev) /\ Len(ev.ring) = n + 1
      /\ \A i \in 1..n : ev.ring[i] = e.ring[i]
      /\ ev.ring[n + 1].sig = s /\ ev.ring[n + 1].at = at
  <2>1. CmpPushed(ev, e, s, at, n)
    BY <1>1, <1>2, <1>3, <1>4, EventPushed
  <2> QED BY <2>1 DEF CmpPushed
<1>6. ev \in CmpRings /\ ev.ring \in Seq(CmpEvents)
  BY <1>5 DEF CmpEventsOk, CmpRings
<1>7. PICK first \in Int : first = LeastOf({c.firstSeen, at})
  <2>1. PICK x \in Int : x = c.firstSeen
    BY <1>1
  <2>2. LeastOf({x, at}) \in Int
    BY LeastMostOfTwo
  <2> QED BY <2>1, <2>2
<1>8. PICK last \in Int : last = MostOf({c.lastSeen, at}) /\ at <= last /\ c.lastSeen <= last
  <2>1. PICK x \in Int : x = c.lastSeen
    BY <1>1
  <2>2. MostOf({x, at}) = IF x <= at THEN at ELSE x
    BY LeastMostOfTwo
  <2>3. PICK y \in Int : y = MostOf({x, at})
    BY <2>2
  <2>4. at <= y /\ x <= y
    BY <2>2, <2>3
  <2> QED BY <2>1, <2>3, <2>4
<1>9. PICK r \in [sig : CmpSignals, at : Int] : r = [sig |-> s, at |-> at]
  OBVIOUS
<1>10. PICK more : more = Append(log, r)
  OBVIOUS
<1>11. more \in CmpLogs /\ CmpGiven(ev.ring, more, now)
  <2>1. r.sig = s /\ r.at = at
    BY <1>9
  <2> QED BY <1>1, <1>2, <1>3, <1>5, <1>6, <1>10, <2>1, GivenPushed
<1>12. PICK grown : grown = [c EXCEPT !.firstSeen = first, !.lastSeen = last, !.events = ev]
  OBVIOUS
<1>13. grown = [c EXCEPT !.firstSeen = LeastOf({@, at}), !.lastSeen = MostOf({@, at}),
                         !.events = cmpPush(@, s, at)]
  BY <1>2, <1>4, <1>7, <1>8, <1>12
<1>14. /\ grown \in CmpCampaigns /\ grown.events = ev /\ grown.lastSeen = last
       /\ grown.episode = c.episode /\ grown.lastObserve = c.lastObserve
  BY <1>1, <1>6, <1>12 DEF CmpCampaigns
<1>15. \A i \in 1..(n + 1) : ev.ring[i].at <= last
  <2> TAKE i \in 1..(n + 1)
  <2>1. CASE i = n + 1
    BY <1>5, <1>8, <2>1
  <2>2. CASE i # n + 1
    <3>1. i \in 1..n
      BY <2>2
    <3>2. e.ring[i].at \in Int /\ e.ring[i].at <= c.lastSeen
      BY <1>1, <1>2, <1>3, <3>1, RingTyped DEF CmpCampaignOk
    <3>3. e.ring[i].at <= last
      BY <1>1, <1>8, <3>2
    <3> QED BY <1>5, <3>1, <3>3
  <2> QED BY <2>1, <2>2
<1>16. CmpCampaignOk(grown, more, now)
  BY <1>5, <1>11, <1>14, <1>15 DEF CmpCampaignOk
<1>17. PICK pruned : pruned = pruneCampaign(grown, at)
  OBVIOUS
<1>18. /\ CmpCampaignOk(pruned, more, now) /\ pruned.episode = c.episode
       /\ pruned.lastObserve = c.lastObserve
  BY <1>14, <1>16, <1>17, CampaignPruned
<1>19. /\ pruned \in CmpCampaigns /\ CmpEventsOk(pruned.events)
       /\ CmpGiven(pruned.events.ring, more, now)
  BY <1>18 DEF CmpCampaignOk
<1>20. PICK p : p = pruned.events
  OBVIOUS
<1>21. PICK t : t = trimTo(p)
  OBVIOUS
<1>22. CmpEventsOk(t) /\ CmpGiven(t.ring, more, now) /\ t \in CmpRings
  <2>1. CmpEventsOk(t)
    BY <1>19, <1>20, <1>21, EventsTrimmed
  <2>2. CmpGiven(t.ring, more, now)
    BY <1>11, <1>19, <1>20, <1>21, GivenTrimmed
  <2> QED BY <2>1, <2>2 DEF CmpEventsOk
<1>23. \A i \in 1..Len(t.ring) : t.ring[i].at <= pruned.lastSeen
  <2>1. PICK l : l = Len(p.ring)
    OBVIOUS
  <2>2. \A i \in 1..l : p.ring[i].at <= pruned.lastSeen
    BY <1>18, <1>20, <2>1 DEF CmpCampaignOk
  <2>3. PICK max \in Nat \ {0} : max = CmpMaxEvents
    BY CmpAssumption
  <2>4. /\ l \in Nat /\ (l <= max => t = p)
        /\ l > max => Len(t.ring) = max /\ \A i \in 1..max : t.ring[i] = p.ring[l - max + i]
    BY <1>19, <1>20, <1>21, <2>1, <2>3, EventsTrimmed
  <2>5. CASE l <= max
    BY <2>1, <2>2, <2>4, <2>5
  <2>6. CASE l > max
    <3>1. \A i \in 1..max : l - max + i \in 1..l
      BY <2>4, <2>6
    <3> QED BY <2>2, <2>4, <2>6, <3>1
  <2> QED BY <2>4, <2>5, <2>6
<1>24. PICK d : d = [pruned EXCEPT !.events = t]
  OBVIOUS
<1>25. d = [pruned EXCEPT !.events = trimTo(@)]
  BY <1>20, <1>21, <1>24
<1>26. /\ d \in CmpCampaigns /\ d.events = t /\ d.lastSeen = pruned.lastSeen
       /\ d.episode = pruned.episode /\ d.lastObserve = pruned.lastObserve
  BY <1>19, <1>22, <1>24 DEF CmpCampaigns
<1>27. CmpCampaignOk(d, more, now)
  BY <1>11, <1>22, <1>23, <1>26 DEF CmpCampaignOk
<1>28. d = withSignal(c, s, at)
  BY <1>13, <1>17, <1>25 DEF withSignal
<1> QED
  BY <1>9, <1>10, <1>18, <1>26, <1>27, <1>28

LEMMA CampaignBegins ==
  ASSUME NEW now \in Int, NEW at \in Int, NEW episode \in Nat
  PROVE  /\ CmpCampaignOk(newCampaign(at, episode), <<>>, now)
         /\ newCampaign(at, episode).episode = episode
         /\ newCampaign(at, episode).lastObserve = 0
<1>1. <<>> \in CmpLogs /\ CmpGiven(<<>>, <<>>, now)
  BY NothingGiven
<1>2. <<>> \in Seq(CmpEvents) /\ Len(<<>>) = 0
  BY EmptySeq
<1>3. PICK e : e = [ring |-> <<>>, highWater |-> 0, maxLag |-> 0]
  OBVIOUS
<1>4. e \in CmpRings /\ e.ring = <<>>
  BY <1>2, <1>3 DEF CmpRings
<1>5. CmpEventsOk(e)
  BY <1>2, <1>4 DEF CmpEventsOk, CmpOrdered
<1>6. PICK z \in Int : z = 0
  OBVIOUS
<1>7. PICK r \in CmpReasons : r = ""
  BY DEF CmpReasons
<1>8. PICK c : c = newCampaign(at, episode)
  OBVIOUS
<1>9. c = [firstSeen |-> at, lastSeen |-> z, episode |-> episode, lastReason |-> r,
           lastDetection |-> z, lastObserve |-> z, events |-> e]
  BY <1>3, <1>6, <1>7, <1>8 DEF newCampaign
<1>10. c \in CmpCampaigns /\ c.events = e /\ c.episode = episode /\ c.lastObserve = z
  BY <1>4, <1>9 DEF CmpCampaigns
<1>11. CmpCampaignOk(c, <<>>, now)
  BY <1>1, <1>2, <1>4, <1>5, <1>10 DEF CmpCampaignOk
<1> QED BY <1>6, <1>8, <1>10, <1>11

LEMMA RolledUp ==
  ASSUME NEW cs, NEW seq, NEW log, NEW now \in Int, CmpRollups(cs, seq, log, now),
         NEW st, st.campaigns = cs, st.seq = seq, st.log = log,
         NEW k, NEW s \in CmpSignals, NEW at \in Int, at <= now
  PROVE  LET r == recordLocked(st, k, s, at)
         IN CmpRollups(r.campaigns, r.seq, r.log, now) /\ CmpFollows(cs, seq, r.campaigns, r.seq)
<1>1. PICK r : r = recordLocked(st, k, s, at)
  OBVIOUS
<1>2. seq \in Nat
  BY DEF CmpRollups
<1>3. PICK c : c = IF k \notin DOMAIN cs THEN newCampaign(at, seq + 1) ELSE cs[k]
  OBVIOUS
<1>4. PICK l : l = IF k \notin DOMAIN cs THEN <<>> ELSE log[k]
  OBVIOUS
<1>5. /\ CmpCampaignOk(c, l, now)
      /\ k \notin DOMAIN cs => c.episode = seq + 1 /\ c.lastObserve = 0
      /\ k \in DOMAIN cs => c = cs[k] /\ c.episode \in 1..seq
  <2>1. CASE k \notin DOMAIN cs
    <3>1. seq + 1 \in Nat
      BY <1>2
    <3> QED BY <1>3, <1>4, <2>1, <3>1, CampaignBegins
  <2>2. CASE k \in DOMAIN cs
    BY <1>3, <1>4, <2>2 DEF CmpRollups
  <2> QED BY <2>1, <2>2
<1>8. PICK d : d = withSignal(c, s, at)
  OBVIOUS
<1>9. PICK more : more = Append(l, [sig |-> s, at |-> at])
  OBVIOUS
<1>10. CmpCampaignOk(d, more, now) /\ d.episode = c.episode /\ d.lastObserve = c.lastObserve
  BY <1>5, <1>8, <1>9, CampaignGrows
<1>11. r = IF k \notin DOMAIN cs /\ Cardinality(DOMAIN cs) >= CmpMaxCampaigns THEN st
           ELSE [campaigns |-> cmpWith(cs, k, d), seq |-> IF k \notin DOMAIN cs THEN c.episode ELSE seq,
                 log |-> cmpWith(log, k, more)]
  BY <1>1, <1>3, <1>4, <1>8, <1>9 DEF recordLocked, nextEpisode
<1>12. CASE r = st
  <2>1. CmpFollows(cs, seq, cs, seq)
    BY <1>2 DEF CmpFollows
  <2> QED BY <1>1, <1>12, <2>1
<1>13. CASE r = [campaigns |-> cmpWith(cs, k, d), seq |-> IF k \notin DOMAIN cs THEN c.episode ELSE seq,
                 log |-> cmpWith(log, k, more)]
  <2>1. PICK next : next = IF k \notin DOMAIN cs THEN seq + 1 ELSE seq
    OBVIOUS
  <2>2. PICK ds : ds = cmpWith(cs, k, d)
    OBVIOUS
  <2>3. PICK logs : logs = cmpWith(log, k, more)
    OBVIOUS
  <2>4. r = [campaigns |-> ds, seq |-> next, log |-> logs]
    BY <1>5, <1>13, <2>1, <2>2, <2>3
  <2>5. r.campaigns = ds /\ r.seq = next /\ r.log = logs
    BY <2>4
  <2>6. /\ DOMAIN ds = DOMAIN cs \cup {k} /\ DOMAIN logs = DOMAIN log \cup {k}
        /\ ds[k] = d /\ logs[k] = more
        /\ \A x \in DOMAIN cs : x # k => ds[x] = cs[x]
        /\ \A x \in DOMAIN log : x # k => logs[x] = log[x]
        /\ ds = [x \in DOMAIN ds |-> ds[x]] /\ logs = [x \in DOMAIN logs |-> logs[x]]
    BY <2>2, <2>3 DEF cmpWith
  <2>7. next \in Nat /\ seq <= next /\ d.episode \in 1..next
    BY <1>2, <1>5, <1>10, <2>1
  <2>8. \A x \in DOMAIN cs : cs[x].episode \in 1..seq /\ cs[x].episode \in 1..next
    BY <1>2, <2>7 DEF CmpRollups
  <2>9. \A x \in DOMAIN cs : x # k => d.episode # cs[x].episode
    <3>1. CASE k \notin DOMAIN cs
      BY <1>2, <1>5, <1>10, <2>8, <3>1
    <3>2. CASE k \in DOMAIN cs
      BY <1>5, <1>10, <3>2 DEF CmpRollups
    <3> QED BY <3>1, <3>2
  <2>10. CmpRollups(ds, next, logs, now)
    <3>1. DOMAIN ds \subseteq DOMAIN logs
      BY <2>6 DEF CmpRollups
    <3>2. \A x \in DOMAIN ds : CmpCampaignOk(ds[x], logs[x], now) /\ ds[x].episode \in 1..next
      <4> TAKE x \in DOMAIN ds
      <4>1. CASE x = k
        BY <1>10, <2>6, <2>7, <4>1
      <4>2. CASE x # k
        BY <2>6, <2>8, <4>2 DEF CmpRollups
      <4> QED BY <4>1, <4>2
    <3>3. \A x, y \in DOMAIN ds : ds[x].episode = ds[y].episode => x = y
      <4> TAKE x, y \in DOMAIN ds
      <4>1. x = k \/ x \in DOMAIN cs
        BY <2>6
      <4>2. y = k \/ y \in DOMAIN cs
        BY <2>6
      <4> QED BY <2>6, <2>9, <4>1, <4>2 DEF CmpRollups
    <3>4. \A x \in DOMAIN logs \ DOMAIN ds : logs[x] \in CmpLogs /\ CmpLeft(logs[x], now)
      BY <2>6 DEF CmpRollups
    <3> QED BY <2>6, <2>7, <3>1, <3>2, <3>3, <3>4 DEF CmpRollups
  <2>11. CmpFollows(cs, seq, ds, next)
    <3>1. \A x \in DOMAIN ds :
            \/ x \in DOMAIN cs /\ ds[x].episode = cs[x].episode /\ ds[x].lastObserve = cs[x].lastObserve
            \/ ds[x].episode > seq /\ ds[x].lastObserve = 0
      <4> TAKE x \in DOMAIN ds
      <4>1. CASE x # k
        BY <2>6, <4>1
      <4>2. CASE x = k /\ k \in DOMAIN cs
        BY <1>5, <1>10, <2>6, <4>2
      <4>3. CASE x = k /\ k \notin DOMAIN cs
        <5>1. ds[x].episode = seq + 1 /\ ds[x].lastObserve = 0
          BY <1>5, <1>10, <2>6, <4>3
        <5> QED BY <1>2, <5>1
      <4> QED BY <4>1, <4>2, <4>3
    <3> QED BY <2>7, <3>1 DEF CmpFollows
  <2> QED BY <1>1, <2>5, <2>10, <2>11
<1> QED BY <1>11, <1>12, <1>13

\* A tick, and an evaluation.
LEMMA GivenLater ==
  ASSUME NEW ring, NEW log \in CmpLogs, NEW now \in Int, CmpGiven(ring, log, now),
         NEW then \in Int, now <= then
  PROVE  CmpGiven(ring, log, then)
<1>1. PICK f \in [1..Len(ring) -> 1..Len(log)] : CmpPlaced(ring, log, now, f)
  BY DEF CmpGiven
<1>2. \A j \in 1..Len(log) : log[j].at >= then - CmpWindow => log[j].at >= now - CmpWindow
  <2> TAKE j \in 1..Len(log)
  <2>1. log[j].at \in Int /\ CmpWindow \in Int
    BY LogTyped, CmpAssumption
  <2> QED BY <2>1
<1>3. CmpPlaced(ring, log, then, f)
  <2>1. /\ f \in [1..Len(ring) -> 1..Len(log)] /\ Increasing(f, Len(ring))
        /\ \A i \in 1..Len(ring) : ring[i].sig = log[f[i]].sig /\ ring[i].at = log[f[i]].at
    BY <1>1 DEF CmpPlaced
  <2>2. \A j \in 1..Len(log) : log[j].at >= then - CmpWindow =>
          \/ \E i \in 1..Len(ring) : f[i] = j
          \/ Len(log) > CmpMaxEvents /\ \A i \in 1..Len(ring) : j < f[i]
    BY <1>1, <1>2 DEF CmpPlaced
  <2> QED BY <2>1, <2>2 DEF CmpPlaced
<1> QED BY <1>1, <1>3 DEF CmpGiven

LEMMA RollupsLater ==
  ASSUME NEW cs, NEW seq, NEW log, NEW now \in Int, CmpRollups(cs, seq, log, now),
         NEW then \in Int, now <= then
  PROVE  CmpRollups(cs, seq, log, then)
<1>1. \A k \in DOMAIN cs : CmpCampaignOk(cs[k], log[k], then)
  <2> TAKE k \in DOMAIN cs
  <2>1. CmpCampaignOk(cs[k], log[k], now)
    BY DEF CmpRollups
  <2>2. log[k] \in CmpLogs /\ CmpGiven(cs[k].events.ring, log[k], now)
    BY <2>1 DEF CmpCampaignOk
  <2>3. CmpGiven(cs[k].events.ring, log[k], then)
    BY <2>2, GivenLater
  <2> QED BY <2>1, <2>3 DEF CmpCampaignOk
<1>2. \A k \in DOMAIN log \ DOMAIN cs : log[k] \in CmpLogs /\ CmpLeft(log[k], then)
  <2> TAKE k \in DOMAIN log \ DOMAIN cs
  <2>1. log[k] \in CmpLogs /\ CmpLeft(log[k], now)
    BY DEF CmpRollups
  <2>2. PICK l \in CmpLogs : l = log[k]
    BY <2>1
  <2>3. \A j \in 1..Len(l) : l[j].at < now - CmpWindow => l[j].at < then - CmpWindow
    <3> TAKE j \in 1..Len(l)
    <3>1. l[j].at \in Int /\ CmpWindow \in Int
      BY LogTyped, CmpAssumption
    <3> QED BY <3>1
  <2>4. CmpLeft(l, then)
    <3>1. CmpLeft(l, now)
      BY <2>1, <2>2
    <3> QED BY <2>3, <3>1 DEF CmpLeft
  <2> QED BY <2>2, <2>4
<1> QED BY <1>1, <1>2 DEF CmpRollups

\* A campaign that an evaluation deletes has nothing of the window left.
LEMMA OverHasLeft ==
  ASSUME NEW c, NEW log, NEW now \in Int, CmpCampaignOk(c, log, now),
         c.events.ring = <<>> \/ now - c.lastSeen > CmpRetention
  PROVE  log \in CmpLogs /\ CmpLeft(log, now)
<1>1. /\ log \in CmpLogs /\ CmpGiven(c.events.ring, log, now) /\ c.events.ring \in Seq(CmpEvents)
      /\ c.lastSeen \in Int
  BY DEF CmpCampaignOk, CmpEventsOk, CmpRings, CmpCampaigns
<1>2. PICK ring \in Seq(CmpEvents) : ring = c.events.ring
  BY <1>1
<1>3. PICK f \in [1..Len(ring) -> 1..Len(log)] : CmpPlaced(ring, log, now, f)
  BY <1>1, <1>2 DEF CmpGiven
<1>4. \A i \in 1..Len(ring) : ring[i].at < now - CmpWindow
  <2>1. CASE c.events.ring = <<>>
    <3>1. Len(ring) = 0
      BY <1>2, <2>1, EmptySeq
    <3> QED BY <3>1
  <2>2. CASE now - c.lastSeen > CmpRetention
    <3> TAKE i \in 1..Len(ring)
    <3>1. ring[i].at <= c.lastSeen /\ ring[i].at \in Int
      BY <1>2, RingTyped DEF CmpCampaignOk
    <3>2. CmpWindow \in Int /\ CmpRetention \in Int /\ CmpRetention >= CmpWindow
      BY CmpAssumption
    <3> QED BY <1>1, <2>2, <3>1, <3>2
  <2> QED BY <2>1, <2>2
<1>5. ASSUME Len(log) <= CmpMaxEvents, NEW j \in 1..Len(log)
      PROVE  log[j].at < now - CmpWindow
  <2>1. log[j].at \in Int /\ CmpWindow \in Int
    BY <1>1, LogTyped, CmpAssumption
  <2>2. Len(log) \in Nat /\ CmpMaxEvents \in Nat
    BY <1>1, LogTyped, CmpAssumption
  <2>3. SUFFICES ASSUME log[j].at >= now - CmpWindow PROVE FALSE
    BY <2>1
  <2>4. PICK i \in 1..Len(ring) : f[i] = j
    BY <1>3, <1>5, <2>2, <2>3 DEF CmpPlaced
  <2>5. ring[i].at = log[j].at
    BY <1>3, <2>4 DEF CmpPlaced
  <2> QED BY <1>4, <2>1, <2>3, <2>4, <2>5
<1> QED BY <1>1, <1>5 DEF CmpLeft

-----------------------------------------------------------------------------
(* The baseline. *)

CapUpTo(n, m, g) ==
  /\ g \in [0..n -> Nat \ {0, 1}]
  /\ \A i \in 0..n : g[i] = IF i <= 1 THEN m ELSE (3 * g[i - 1]) \div 2

LEMMA HalfMore ==
  ASSUME NEW x \in Nat \ {0, 1}
  PROVE  (3 * x) \div 2 \in Nat \ {0, 1}
OBVIOUS

LEMMA CapExists ==
  ASSUME NEW m \in Nat \ {0, 1}
  PROVE  \A n \in Nat : \E g : CapUpTo(n, m, g)
<1>1. PICK B : B = {n \in Nat : ~ \E g : CapUpTo(n, m, g)}
  OBVIOUS
<1>2. SUFFICES ASSUME B # {} PROVE FALSE
  BY <1>1
<1>3. PICK d \in B : \A e \in B : ~ (<<e, d>> \in OpToRel(<, Nat))
  BY <1>1, <1>2, WFMin, NatLessThanWellFounded
<1>4. d \in Nat /\ ~ \E g : CapUpTo(d, m, g)
  BY <1>1
<1>5. d # 0
  <2> SUFFICES ASSUME d = 0 PROVE FALSE
    OBVIOUS
  <2>1. PICK g : g = [i \in 0..0 |-> m]
    OBVIOUS
  <2>2. CapUpTo(0, m, g)
    BY <2>1 DEF CapUpTo
  <2> QED BY <1>4, <2>2
<1>6. PICK p \in Nat : d = p + 1
  BY <1>4, <1>5
<1>7. p \notin B
  <2>1. p < d
    BY <1>6
  <2>2. <<p, d>> \in OpToRel(<, Nat)
    BY <1>4, <2>1 DEF OpToRel
  <2> QED BY <1>3, <2>2
<1>8. PICK g : CapUpTo(p, m, g)
  BY <1>1, <1>7
<1>9. PICK h : h = [i \in 0..d |-> IF i <= p THEN g[i] ELSE IF i <= 1 THEN m ELSE (3 * g[p]) \div 2]
  OBVIOUS
<1>10. g \in [0..p -> Nat \ {0, 1}] /\ \A i \in 0..p : g[i] = IF i <= 1 THEN m ELSE (3 * g[i - 1]) \div 2
  BY <1>8 DEF CapUpTo
<1>11. \A i \in 0..p : i \in 0..d /\ h[i] = g[i] /\ h[i] \in Nat \ {0, 1}
  BY <1>6, <1>9, <1>10
<1>12. h[d] = (IF d <= 1 THEN m ELSE (3 * g[p]) \div 2) /\ h[d] \in Nat \ {0, 1}
  <2>1. h[d] = IF d <= 1 THEN m ELSE (3 * g[p]) \div 2
    BY <1>6, <1>9
  <2>2. PICK x \in Nat \ {0, 1} : x = g[p]
    BY <1>10
  <2>3. (3 * x) \div 2 \in Nat \ {0, 1}
    BY HalfMore
  <2> QED BY <2>1, <2>2, <2>3
<1>13. \A i \in 0..d : i \in 0..p \/ i = d
  BY <1>6
<1>14. h \in [0..d -> Nat \ {0, 1}]
  <2>1. \A i \in 0..d : h[i] \in Nat \ {0, 1}
    BY <1>11, <1>12, <1>13
  <2> QED BY <1>9, <2>1
<1>15. \A i \in 0..d : h[i] = IF i <= 1 THEN m ELSE (3 * h[i - 1]) \div 2
  <2> TAKE i \in 0..d
  <2>1. CASE i \in 0..p
    <3>1. CASE i <= 1
      BY <1>10, <1>11, <2>1, <3>1
    <3>2. CASE ~(i <= 1)
      <4>1. i - 1 \in 0..p
        BY <2>1, <3>2
      <4>2. g[i] = (3 * g[i - 1]) \div 2
        BY <1>10, <2>1, <3>2
      <4>3. h[i - 1] = g[i - 1] /\ h[i] = g[i]
        BY <1>11, <2>1, <4>1
      <4> QED BY <3>2, <4>2, <4>3
    <3> QED BY <3>1, <3>2
  <2>2. CASE i = d
    <3>1. d - 1 = p /\ p \in 0..p
      BY <1>6
    <3>2. h[d - 1] = g[p]
      BY <1>11, <3>1
    <3> QED BY <1>12, <2>2, <3>2
  <2> QED BY <1>13, <2>1, <2>2
<1>16. CapUpTo(d, m, h)
  BY <1>14, <1>15 DEF CapUpTo
<1> QED BY <1>4, <1>16

LEMMA CapUnique ==
  ASSUME NEW m \in Nat \ {0, 1}, NEW n \in Nat, NEW k \in 0..n, NEW g, NEW h,
         CapUpTo(n, m, g), CapUpTo(k, m, h)
  PROVE  g[k] = h[k]
<1>1. PICK B : B = {i \in 0..k : g[i] # h[i]}
  OBVIOUS
<1>2. SUFFICES ASSUME B # {} PROVE FALSE
  BY <1>1
<1>3. B \in SUBSET Nat
  BY <1>1
<1>4. PICK d \in B : \A e \in B : ~ (<<e, d>> \in OpToRel(<, Nat))
  BY <1>2, <1>3, WFMin, NatLessThanWellFounded
<1>5. d \in 0..k /\ d \in 0..n /\ g[d] # h[d]
  BY <1>1
<1>6. ~(d <= 1)
  BY <1>5 DEF CapUpTo
<1>7. d - 1 \in 0..k /\ d - 1 < d /\ d \in Nat /\ d - 1 \in Nat
  BY <1>5, <1>6
<1>8. d - 1 \notin B
  <2>1. <<d - 1, d>> \in OpToRel(<, Nat)
    BY <1>7 DEF OpToRel
  <2> QED BY <1>4, <2>1
<1>9. g[d - 1] = h[d - 1]
  BY <1>1, <1>7, <1>8
<1>10. g[d] = (3 * g[d - 1]) \div 2 /\ h[d] = (3 * h[d - 1]) \div 2
  BY <1>5, <1>6 DEF CapUpTo
<1> QED BY <1>5, <1>9, <1>10

\* The cap of the baseline: it begins at MinRate or above and grows by half.
LEMMA CapGrows ==
  ASSUME NEW first \in Nat
  PROVE  /\ \A n \in Nat : growthCap(first)[n] \in Nat \ {0, 1}
         /\ first <= growthCap(first)[1]
         /\ \A n \in Nat : n > 0 => growthCap(first)[n + 1] = (3 * growthCap(first)[n]) \div 2
<1>1. PICK m \in Nat \ {0, 1} : m = MostOf({first, cmpMinRate}) /\ first <= m
  <2>1. PICK two \in Int : two = cmpMinRate /\ two = 2
    BY DEF cmpMinRate
  <2>2. MostOf({first, two}) = IF first <= two THEN two ELSE first
    BY LeastMostOfTwo
  <2>3. PICK x : x = MostOf({first, two})
    OBVIOUS
  <2>4. x \in Nat \ {0, 1} /\ first <= x
    BY <2>1, <2>2, <2>3
  <2> QED BY <2>1, <2>3, <2>4
<1>2. PICK g : g = [n \in Nat |-> CHOOSE h : CapUpTo(n, m, h)]
  OBVIOUS
<1>3. \A n \in Nat : CapUpTo(n, m, g[n])
  BY <1>2, CapExists
<1>4. PICK f : f = [n \in Nat |-> g[n][n]]
  OBVIOUS
<1>5. ASSUME NEW n \in Nat
      PROVE  f[n] \in Nat \ {0, 1} /\ f[n] = IF n <= 1 THEN m ELSE (3 * f[n - 1]) \div 2
  <2>1. n \in 0..n
    OBVIOUS
  <2>2. f[n] = g[n][n]
    BY <1>4
  <2>3. g[n][n] \in Nat \ {0, 1} /\ g[n][n] = IF n <= 1 THEN m ELSE (3 * g[n][n - 1]) \div 2
    BY <1>3, <2>1 DEF CapUpTo
  <2>4. ~(n <= 1) => g[n][n - 1] = f[n - 1]
    <3> SUFFICES ASSUME ~(n <= 1) PROVE g[n][n - 1] = f[n - 1]
      OBVIOUS
    <3>1. PICK k \in Nat : k = n - 1
      OBVIOUS
    <3>2. k \in 0..n
      BY <3>1
    <3>3. g[n][k] = g[k][k]
      BY <1>3, <3>2, CapUnique
    <3> QED BY <1>4, <3>1, <3>3
  <2> QED BY <2>2, <2>3, <2>4
<1>6. f = [n \in Nat |-> IF n <= 1 THEN m ELSE (3 * f[n - 1]) \div 2]
  BY <1>4, <1>5
<1>7. PICK cap : cap = growthCap(first)
  OBVIOUS
<1>8. cap = CHOOSE c : c = [n \in Nat |-> IF n <= 1 THEN m ELSE (3 * c[n - 1]) \div 2]
  BY <1>1, <1>7 DEF growthCap
<1>9. cap = [n \in Nat |-> IF n <= 1 THEN m ELSE (3 * cap[n - 1]) \div 2]
  BY <1>6, <1>8
<1>10. \A n \in Nat : cap[n] = IF n <= 1 THEN m ELSE (3 * cap[n - 1]) \div 2
  BY <1>9
<1>11. ASSUME NEW n \in Nat
       PROVE  cap[n] \in Nat \ {0, 1}
  <2>1. PICK B : B = {i \in Nat : ~(cap[i] \in Nat \ {0, 1})}
    OBVIOUS
  <2>2. SUFFICES ASSUME B # {} PROVE FALSE
    BY <2>1
  <2>3. PICK d \in B : \A e \in B : ~ (<<e, d>> \in OpToRel(<, Nat))
    BY <2>1, <2>2, WFMin, NatLessThanWellFounded
  <2>4. d \in Nat /\ ~(cap[d] \in Nat \ {0, 1})
    BY <2>1
  <2>5. ~(d <= 1) /\ cap[d] = (3 * cap[d - 1]) \div 2
    BY <1>10, <2>4
  <2>6. d - 1 \in Nat /\ d - 1 < d
    BY <2>4, <2>5
  <2>7. <<d - 1, d>> \in OpToRel(<, Nat)
    BY <2>4, <2>6 DEF OpToRel
  <2>8. cap[d - 1] \in Nat \ {0, 1}
    BY <2>1, <2>3, <2>6, <2>7
  <2>9. PICK x \in Nat \ {0, 1} : x = cap[d - 1]
    BY <2>8
  <2>10. (3 * x) \div 2 \in Nat \ {0, 1}
    BY HalfMore
  <2> QED BY <2>4, <2>5, <2>9, <2>10
<1>12. cap[1] = m
  BY <1>10
<1>13. \A n \in Nat : n > 0 => cap[n + 1] = (3 * cap[n]) \div 2
  <2> TAKE n \in Nat
  <2>1. n > 0 => n + 1 \in Nat /\ ~(n + 1 <= 1) /\ (n + 1) - 1 = n
    OBVIOUS
  <2> QED BY <1>10, <2>1
<1> QED BY <1>1, <1>7, <1>11, <1>12, <1>13

CmpStates == [value : Nat, samples : Nat \ {0}, seen : Int, first : Nat]

\* An observation raises the baseline by half at most.
LEMMA GrownAtMost ==
  ASSUME NEW old \in Nat, NEW new \in Nat
  PROVE  /\ cmpGrown(old, new) \in Nat
         /\ \A top \in Nat \ {0, 1} : old <= top => cmpGrown(old, new) <= (3 * top) \div 2
<1>1. CASE new <= old
  <2>1. cmpGrown(old, new) = new
    BY <1>1 DEF cmpGrown
  <2>2. ASSUME NEW top \in Nat \ {0, 1}, old <= top
        PROVE  new <= (3 * top) \div 2
    BY <1>1, <2>2
  <2> QED BY <2>1, <2>2
<1>2. CASE ~(new <= old)
  <2>1. PICK two \in Int : two = cmpMinRate /\ two = 2
    BY DEF cmpMinRate
  <2>2. MostOf({old, two}) = IF old <= two THEN two ELSE old
    BY LeastMostOfTwo
  <2>3. PICK m \in Nat : m = MostOf({old, two}) /\ m = (IF old <= 2 THEN 2 ELSE old)
    BY <2>1, <2>2
  <2>4. PICK h \in Nat : h = (3 * m) \div 2
    OBVIOUS
  <2>5. MostOf({old, h}) = IF old <= h THEN h ELSE old
    BY LeastMostOfTwo
  <2>6. PICK t \in Nat : t = MostOf({old, h}) /\ t = (IF old <= h THEN h ELSE old)
    BY <2>5
  <2>7. LeastOf({new, t}) = IF new <= t THEN new ELSE t
    BY LeastMostOfTwo
  <2>8. PICK l \in Nat : l = LeastOf({new, t}) /\ l = (IF new <= t THEN new ELSE t)
    BY <2>7
  <2>9. cmpGrown(old, new) = l
    BY <1>2, <2>1, <2>3, <2>4, <2>6, <2>8 DEF cmpGrown, capGrowth
  <2>10. ASSUME NEW top \in Nat \ {0, 1}, old <= top
         PROVE  l <= (3 * top) \div 2
    <3>1. m <= top
      BY <2>3, <2>10
    <3>2. h <= (3 * top) \div 2
      BY <2>4, <3>1
    <3>3. old <= (3 * top) \div 2
      BY <2>10
    <3>4. t <= (3 * top) \div 2
      BY <2>6, <3>2, <3>3
    <3>5. l <= t
      BY <2>8
    <3> QED BY <3>4, <3>5
  <2> QED BY <2>9, <2>10
<1> QED BY <1>1, <1>2

-----------------------------------------------------------------------------
(* The evaluation. *)

\* What an evaluation leaves, and the logs it may forget.
CmpSweptTo(cs, now, sw, over) ==
  /\ DOMAIN sw = DOMAIN cs /\ \A k \in DOMAIN cs : sw[k] = pruneCampaign(cs[k], now)
  /\ over \subseteq DOMAIN cs
  /\ \A k \in over : sw[k].events.ring = <<>> \/ now - sw[k].lastSeen > CmpRetention

CmpForgets(cs, over, gone) == \A k \in gone : k \in over \/ k \notin DOMAIN cs

CmpKeeps(cs, seq, now, over, ds, logs) ==
  /\ CmpRollups(ds, seq, logs, now) /\ CmpFollows(cs, seq, ds, seq)
  /\ DOMAIN ds = DOMAIN cs \ over
  /\ \A k \in DOMAIN ds : ds[k].episode = cs[k].episode

LEMMA EvaluationSweeps ==
  ASSUME NEW cs, NEW seq, NEW log, NEW now \in Int, CmpRollups(cs, seq, log, now),
         NEW sw, NEW over, CmpSweptTo(cs, now, sw, over), NEW gone, CmpForgets(cs, over, gone)
  PROVE  CmpKeeps(cs, seq, now, over, cmpWithout(sw, over), cmpWithout(log, gone))
<1> DEFINE ds == cmpWithout(sw, over)
<1> DEFINE logs == cmpWithout(log, gone)
<1>1. seq \in Nat /\ DOMAIN cs \subseteq DOMAIN log
  BY DEF CmpRollups
<1>2. /\ DOMAIN sw = DOMAIN cs /\ over \subseteq DOMAIN cs
      /\ \A k \in DOMAIN cs : sw[k] = pruneCampaign(cs[k], now)
  BY DEF CmpSweptTo
<1>3. /\ DOMAIN ds = DOMAIN cs \ over /\ DOMAIN logs = DOMAIN log \ gone
      /\ \A k \in DOMAIN ds : ds[k] = sw[k]
      /\ \A k \in DOMAIN logs : logs[k] = log[k]
      /\ ds = [k \in DOMAIN ds |-> ds[k]] /\ logs = [k \in DOMAIN logs |-> logs[k]]
  BY <1>2 DEF cmpWithout
<1> HIDE DEF ds, logs
<1>4. \A k \in DOMAIN cs : /\ CmpCampaignOk(sw[k], log[k], now)
                           /\ sw[k].episode = cs[k].episode /\ sw[k].lastObserve = cs[k].lastObserve
  <2> TAKE k \in DOMAIN cs
  <2>1. CmpCampaignOk(cs[k], log[k], now)
    BY DEF CmpRollups
  <2>2. now <= now
    OBVIOUS
  <2> QED BY <1>2, <2>1, <2>2, CampaignPruned
<1>5. \A k \in DOMAIN ds : /\ k \in DOMAIN cs /\ k \in DOMAIN logs /\ k \notin gone
                           /\ ds[k] = sw[k] /\ logs[k] = log[k]
  BY <1>1, <1>3 DEF CmpForgets
<1>6. \A k \in DOMAIN ds : ds[k].episode = cs[k].episode /\ ds[k].lastObserve = cs[k].lastObserve
  BY <1>4, <1>5
<1>7. CmpFollows(cs, seq, ds, seq)
  <2>1. \A k \in DOMAIN ds : /\ k \in DOMAIN cs /\ ds[k].episode = cs[k].episode
                             /\ ds[k].lastObserve = cs[k].lastObserve
    BY <1>5, <1>6
  <2>2. seq <= seq
    BY <1>1
  <2> QED BY <1>1, <2>1, <2>2 DEF CmpFollows
<1>8. CmpRollups(ds, seq, logs, now)
  <2>1. \A k \in DOMAIN ds : CmpCampaignOk(ds[k], logs[k], now) /\ ds[k].episode \in 1..seq
    BY <1>4, <1>5, <1>6 DEF CmpRollups
  <2>2. \A k, l \in DOMAIN ds : ds[k].episode = ds[l].episode => k = l
    BY <1>5, <1>6 DEF CmpRollups
  <2>3. \A k \in DOMAIN logs \ DOMAIN ds : logs[k] \in CmpLogs /\ CmpLeft(logs[k], now)
    <3> TAKE k \in DOMAIN logs \ DOMAIN ds
    <3>1. logs[k] = log[k] /\ k \in DOMAIN log
      BY <1>3
    <3>2. CASE k \notin DOMAIN cs
      BY <3>1, <3>2 DEF CmpRollups
    <3>3. CASE k \in over
      <4>1. CmpCampaignOk(sw[k], log[k], now)
        BY <1>2, <1>4, <3>3
      <4>2. sw[k].events.ring = <<>> \/ now - sw[k].lastSeen > CmpRetention
        BY <3>3 DEF CmpSweptTo
      <4> QED BY <3>1, <4>1, <4>2, OverHasLeft
    <3> QED BY <1>3, <3>2, <3>3
  <2>4. DOMAIN ds \subseteq DOMAIN logs
    BY <1>5
  <2> QED BY <1>1, <1>3, <2>1, <2>2, <2>3, <2>4 DEF CmpRollups
<1>9. CmpKeeps(cs, seq, now, over, ds, logs)
  BY <1>3, <1>6, <1>7, <1>8 DEF CmpKeeps
<1> QED BY <1>9 DEF ds, logs

LEMMA ReasonTyped ==
  ASSUME NEW k, NEW c
  PROVE  reasonOf(k, c) \in CmpReasons
BY DEF reasonOf, CmpReasons

\* The ids of campaigns that have ended, and what each has fed the baseline.
CmpDeadOk(cs, seq, dead) ==
  \A d \in dead : d[2] \in 1..seq /\ \A k \in DOMAIN cs : cs[k].episode # d[2]

CmpFedTo(f) == f.since + (f.n - 1) * CmpWindow
CmpFeeds == [n : Nat \ {0}, since : Int]

CmpFedOk(cs, seq, fed, now) ==
  /\ DOMAIN fed \subseteq 1..seq
  /\ \A e \in DOMAIN fed : fed[e] \in CmpFeeds /\ CmpFedTo(fed[e]) <= now
  /\ \A k \in DOMAIN cs : cs[k].episode \in DOMAIN fed =>
       cs[k].lastObserve # 0 /\ CmpFedTo(fed[cs[k].episode]) <= cs[k].lastObserve

LEMMA FollowersFed ==
  ASSUME NEW cs, NEW seq \in Nat, NEW ds, NEW next, CmpFollows(cs, seq, ds, next),
         \A k \in DOMAIN ds : ds[k].episode \in 1..next,
         NEW dead, CmpDeadOk(cs, seq, dead), NEW fed, NEW now, CmpFedOk(cs, seq, fed, now)
  PROVE  CmpDeadOk(ds, next, dead) /\ CmpFedOk(ds, next, fed, now)
<1>1. next \in Nat /\ seq <= next /\ \A x \in 1..seq : x \in 1..next
  BY DEF CmpFollows
<1>2. \A k \in DOMAIN ds :
        \/ k \in DOMAIN cs /\ ds[k].episode = cs[k].episode /\ ds[k].lastObserve = cs[k].lastObserve
        \/ ds[k].episode > seq /\ ds[k].episode \notin 1..seq
  <2> TAKE k \in DOMAIN ds
  <2>1. ds[k].episode > seq => ds[k].episode \notin 1..seq
    BY <1>1
  <2> QED BY <2>1 DEF CmpFollows
<1>3. CmpDeadOk(ds, next, dead)
  BY <1>1, <1>2 DEF CmpDeadOk
<1>4. CmpFedOk(ds, next, fed, now)
  <2>1. DOMAIN fed \subseteq 1..next
    BY <1>1 DEF CmpFedOk
  <2>2. \A k \in DOMAIN ds : ds[k].episode \in DOMAIN fed =>
          ds[k].lastObserve # 0 /\ CmpFedTo(fed[ds[k].episode]) <= ds[k].lastObserve
    <3> TAKE k \in DOMAIN ds
    <3>1. CASE k \in DOMAIN cs /\ ds[k].episode = cs[k].episode /\ ds[k].lastObserve = cs[k].lastObserve
      BY <3>1 DEF CmpFedOk
    <3>2. CASE ds[k].episode \notin 1..seq
      BY <3>2 DEF CmpFedOk
    <3> QED BY <1>2, <3>1, <3>2
  <2> QED BY <2>1, <2>2 DEF CmpFedOk
<1> QED BY <1>3, <1>4

\* Feeding it once a window.
LEMMA FedOnceMore ==
  ASSUME NEW f \in CmpFeeds, NEW at \in Int, CmpFedTo(f) <= at, NEW now \in Int, now - at >= CmpWindow
  PROVE  [f EXCEPT !.n = @ + 1] \in CmpFeeds /\ CmpFedTo([f EXCEPT !.n = @ + 1]) <= now
<1>1. PICK W \in Nat \ {0} : W = CmpWindow
  BY CmpAssumption
<1>2. PICK n \in Nat \ {0} : n = f.n
  BY DEF CmpFeeds
<1>3. PICK since \in Int : since = f.since
  BY DEF CmpFeeds
<1>4. PICK g : g = [f EXCEPT !.n = @ + 1]
  OBVIOUS
<1>5. g \in CmpFeeds /\ g.n = n + 1 /\ g.since = since
  BY <1>2, <1>3, <1>4 DEF CmpFeeds
<1>6. PICK x \in Int : x = (n - 1) * W
  OBVIOUS
<1>7. ((n + 1) - 1) * W = x + W
  BY <1>6
<1>8. since + x <= at /\ now - at >= W
  BY <1>1, <1>2, <1>3, <1>6 DEF CmpFedTo
<1>9. since + (x + W) <= now
  BY <1>8
<1>10. CmpFedTo(g) = since + (x + W)
  BY <1>1, <1>5, <1>7 DEF CmpFedTo
<1> QED BY <1>4, <1>5, <1>9, <1>10

LEMMA WindowsFit ==
  ASSUME NEW a \in Nat, NEW W \in Nat \ {0}, NEW x \in Int, a * W <= x
  PROVE  a <= x \div W
<1>1. PICK q \in Int : q = x \div W
  OBVIOUS
<1>2. x < q * W + W
  BY <1>1
<1>3. SUFFICES ASSUME q + 1 <= a PROVE FALSE
  BY <1>1
<1>4. PICK d \in Nat : a = q + 1 + d
  BY <1>3
<1>5. a * W = q * W + W + d * W
  BY <1>4
<1>6. d * W \in Nat /\ q * W \in Int /\ a * W \in Int
  OBVIOUS
<1> QED BY <1>2, <1>5, <1>6

\* The baseline's values, each under its cap.
CmpStatesOk(ss) ==
  \A b \in DOMAIN ss : ss[b] \in CmpStates /\ ss[b].value <= growthCap(ss[b].first)[ss[b].samples]

CmpInv ==
  /\ cmpNow \in Nat \ {0}
  /\ CmpRollups(campaigns, episodeSeq, cmpLog, cmpNow)
  /\ CmpDeadOk(campaigns, episodeSeq, cmpDead)
  /\ CmpFedOk(campaigns, episodeSeq, cmpFed, cmpNow)
  /\ CmpStatesOk(cmpStates)
  /\ cmpRun \in [pc : {"idle", "report", "active"}, todo : SUBSET DOMAIN campaigns]
  /\ cmpRun.pc # "report" => cmpRun.todo = {}

LEMMA CmpInitInv == CampaignInit => CmpInv
<1> SUFFICES ASSUME CampaignInit PROVE CmpInv
  OBVIOUS
<1> DEFINE none == [k \in {} |-> 0]
<1>1. /\ campaigns = none /\ cmpStates = none /\ cmpLog = none /\ cmpFed = none
      /\ episodeSeq = 0 /\ cmpNow = CmpWindow /\ cmpRun = [pc |-> "idle", todo |-> {}] /\ cmpDead = {}
  BY DEF CampaignInit, cmpEmpty
<1>2. DOMAIN none = {} /\ none = [k \in DOMAIN none |-> none[k]]
  OBVIOUS
<1>3. cmpNow \in Nat \ {0}
  BY <1>1, CmpAssumption
<1> HIDE DEF none
<1>4. CmpRollups(campaigns, episodeSeq, cmpLog, cmpNow)
  BY <1>1, <1>2 DEF CmpRollups
<1>5. CmpDeadOk(campaigns, episodeSeq, cmpDead) /\ CmpFedOk(campaigns, episodeSeq, cmpFed, cmpNow)
  BY <1>1, <1>2 DEF CmpDeadOk, CmpFedOk
<1>6. CmpStatesOk(cmpStates)
  BY <1>1, <1>2 DEF CmpStatesOk
<1>7. /\ cmpRun \in [pc : {"idle", "report", "active"}, todo : SUBSET DOMAIN campaigns]
      /\ cmpRun.todo = {}
  BY <1>1, <1>2
<1> QED BY <1>3, <1>4, <1>5, <1>6, <1>7 DEF CmpInv

LEMMA CmpRecordInv ==
  ASSUME CmpInv, NEW s \in CmpSignals, NEW lag \in CmpLags, CampaignRecord(s, lag)
  PROVE  CmpInv'
<1>1. /\ CmpRollups(campaigns, episodeSeq, cmpLog, cmpNow) /\ cmpNow \in Int /\ episodeSeq \in Nat
  BY DEF CmpInv, CmpRollups
<1>2. PICK at \in Int : at = cmpNow - lag /\ at <= cmpNow
  BY <1>1, CmpAssumption
<1>3. PICK rs : rs = rollupsOf(s)
  OBVIOUS
<1>4. PICK st0 : st0 = [campaigns |-> campaigns, seq |-> episodeSeq, log |-> cmpLog]
  OBVIOUS
<1>5. PICK st1 : st1 = recordLocked(st0, rs[1], s, at)
  OBVIOUS
<1>6. PICK st2 : st2 = recordLocked(st1, rs[2], s, at)
  OBVIOUS
<1>7. PICK st3 : st3 = recordLocked(st2, rs[3], s, at)
  OBVIOUS
<1>8. /\ campaigns' = st3.campaigns /\ episodeSeq' = st3.seq /\ cmpLog' = st3.log
      /\ cmpRun.pc # "report"
      /\ UNCHANGED <<cmpStates, cmpRun, cmpNow, cmpDead, cmpFed>>
  BY <1>2, <1>3, <1>4, <1>5, <1>6, <1>7 DEF CampaignRecord
<1>9. /\ CmpRollups(st1.campaigns, st1.seq, st1.log, cmpNow)
      /\ CmpFollows(campaigns, episodeSeq, st1.campaigns, st1.seq)
  <2>1. st0.campaigns = campaigns /\ st0.seq = episodeSeq /\ st0.log = cmpLog
    BY <1>4
  <2> QED BY <1>1, <1>2, <1>5, <2>1, RolledUp
<1>10. /\ CmpRollups(st2.campaigns, st2.seq, st2.log, cmpNow)
       /\ CmpFollows(st1.campaigns, st1.seq, st2.campaigns, st2.seq)
  BY <1>1, <1>2, <1>6, <1>9, RolledUp
<1>11. /\ CmpRollups(st3.campaigns, st3.seq, st3.log, cmpNow)
       /\ CmpFollows(st2.campaigns, st2.seq, st3.campaigns, st3.seq)
  BY <1>1, <1>2, <1>7, <1>10, RolledUp
<1>12. st1.seq \in Nat /\ \A k \in DOMAIN st2.campaigns : st2.campaigns[k].episode \in Nat
  <2>1. st1.seq \in Nat /\ st2.seq \in Nat
    BY <1>9, <1>10 DEF CmpRollups
  <2>2. \A k \in DOMAIN st2.campaigns : st2.campaigns[k].episode \in 1..st2.seq
    BY <1>10 DEF CmpRollups
  <2> QED BY <2>1, <2>2
<1>13. st3.seq \in Nat /\ \A k \in DOMAIN st3.campaigns :
         st3.campaigns[k].episode \in 1..st3.seq /\ st3.campaigns[k].episode \in Nat
  <2>1. st3.seq \in Nat /\ \A k \in DOMAIN st3.campaigns : st3.campaigns[k].episode \in 1..st3.seq
    BY <1>11 DEF CmpRollups
  <2> QED BY <2>1
<1>14. CmpFollows(campaigns, episodeSeq, st2.campaigns, st2.seq)
  BY <1>1, <1>9, <1>10, <1>12, FollowsOn
<1>15. CmpFollows(campaigns, episodeSeq, st3.campaigns, st3.seq)
  BY <1>1, <1>11, <1>13, <1>14, FollowsOn
<1>16. CmpDeadOk(campaigns, episodeSeq, cmpDead) /\ CmpFedOk(campaigns, episodeSeq, cmpFed, cmpNow)
  BY DEF CmpInv
<1>17. CmpDeadOk(st3.campaigns, st3.seq, cmpDead) /\ CmpFedOk(st3.campaigns, st3.seq, cmpFed, cmpNow)
  BY <1>1, <1>13, <1>15, <1>16, FollowersFed
<1>18. CmpStatesOk(cmpStates)'
  BY <1>8 DEF CmpInv, CmpStatesOk
<1>19. /\ cmpRun' \in [pc : {"idle", "report", "active"}, todo : SUBSET (DOMAIN campaigns)']
       /\ cmpRun'.todo = {}
  <2>1. cmpRun \in [pc : {"idle", "report", "active"}, todo : SUBSET DOMAIN campaigns] /\ cmpRun.todo = {}
    BY <1>8 DEF CmpInv
  <2>2. cmpRun \in [pc : {"idle", "report", "active"}, todo : SUBSET (DOMAIN campaigns)']
    BY <2>1
  <2> QED BY <1>8, <2>1, <2>2
<1>20. cmpNow' \in Nat \ {0}
  BY <1>8 DEF CmpInv
<1>21. CmpRollups(campaigns, episodeSeq, cmpLog, cmpNow)'
  BY <1>8, <1>11
<1>22. CmpDeadOk(campaigns, episodeSeq, cmpDead)' /\ CmpFedOk(campaigns, episodeSeq, cmpFed, cmpNow)'
  BY <1>8, <1>17
<1> QED BY <1>18, <1>19, <1>20, <1>21, <1>22 DEF CmpInv

LEMMA CmpSweepInv ==
  ASSUME CmpInv, cmpSweep, UNCHANGED <<episodeSeq, cmpStates, cmpNow, cmpFed>>
  PROVE  /\ CmpRollups(campaigns, episodeSeq, cmpLog, cmpNow)'
         /\ CmpDeadOk(campaigns, episodeSeq, cmpDead)'
         /\ CmpFedOk(campaigns, episodeSeq, cmpFed, cmpNow)'
         /\ CmpStatesOk(cmpStates)' /\ cmpNow' \in Nat \ {0}
         /\ DOMAIN campaigns' = DOMAIN cmpSwept \ cmpOver
<1>1. /\ CmpRollups(campaigns, episodeSeq, cmpLog, cmpNow) /\ cmpNow \in Int /\ episodeSeq \in Nat
  BY DEF CmpInv, CmpRollups
<1>2. PICK sw : sw = cmpSwept
  OBVIOUS
<1>3. PICK over : over = cmpOver
  OBVIOUS
<1>4. sw = [k \in DOMAIN campaigns |-> pruneCampaign(campaigns[k], cmpNow)]
  BY <1>2 DEF cmpSwept
<1>5. over = {k \in DOMAIN campaigns : \/ sw[k].events.ring = <<>>
                                       \/ cmpNow - sw[k].lastSeen > CmpRetention}
  BY <1>2, <1>3 DEF cmpOver
<1>6. PICK gone : gone = {k \in DOMAIN cmpLog :
                           (k \in over \/ k \notin DOMAIN campaigns) /\ cmpFresh(cmpLog[k]) = {}}
  OBVIOUS
<1>7. /\ campaigns' = cmpWithout(sw, over) /\ cmpLog' = cmpWithout(cmpLog, gone)
      /\ cmpDead' = cmpDead \cup {<<k, campaigns[k].episode>> : k \in over}
  BY <1>2, <1>3, <1>6 DEF cmpSweep
<1>8. PICK ds : ds = cmpWithout(sw, over)
  OBVIOUS
<1>9. PICK logs : logs = cmpWithout(cmpLog, gone)
  OBVIOUS
<1>10. CmpSweptTo(campaigns, cmpNow, sw, over) /\ CmpForgets(campaigns, over, gone)
  BY <1>4, <1>5, <1>6 DEF CmpSweptTo, CmpForgets
<1>11. /\ CmpRollups(ds, episodeSeq, logs, cmpNow) /\ CmpFollows(campaigns, episodeSeq, ds, episodeSeq)
       /\ DOMAIN ds = DOMAIN campaigns \ over
       /\ \A k \in DOMAIN ds : ds[k].episode = campaigns[k].episode
  <2>1. CmpKeeps(campaigns, episodeSeq, cmpNow, over, ds, logs)
    BY <1>1, <1>8, <1>9, <1>10, EvaluationSweeps
  <2> QED BY <2>1 DEF CmpKeeps
<1>12. \A k \in DOMAIN ds : ds[k].episode \in 1..episodeSeq
  BY <1>11 DEF CmpRollups
<1>13. CmpDeadOk(ds, episodeSeq, cmpDead) /\ CmpFedOk(ds, episodeSeq, cmpFed, cmpNow)
  <2>1. CmpDeadOk(campaigns, episodeSeq, cmpDead) /\ CmpFedOk(campaigns, episodeSeq, cmpFed, cmpNow)
    BY DEF CmpInv
  <2> QED BY <1>1, <1>11, <1>12, <2>1, FollowersFed
<1>14. CmpDeadOk(ds, episodeSeq, cmpDead')
  <2>1. ASSUME NEW k \in over
        PROVE  /\ campaigns[k].episode \in 1..episodeSeq
               /\ \A l \in DOMAIN ds : ds[l].episode # campaigns[k].episode
    <3>1. k \in DOMAIN campaigns
      BY <1>5
    <3>2. \A l \in DOMAIN ds : l \in DOMAIN campaigns /\ l # k /\ ds[l].episode = campaigns[l].episode
      BY <1>11
    <3> QED BY <1>1, <3>1, <3>2 DEF CmpRollups
  <2>2. \A d \in cmpDead' : d \in cmpDead \/ \E k \in over : d[2] = campaigns[k].episode
    BY <1>7
  <2> QED BY <1>13, <2>1, <2>2 DEF CmpDeadOk
<1>15. campaigns' = ds /\ cmpLog' = logs /\ episodeSeq' = episodeSeq /\ cmpNow' = cmpNow /\ cmpFed' = cmpFed
  BY <1>7, <1>8, <1>9
<1>16. CmpRollups(campaigns, episodeSeq, cmpLog, cmpNow)'
  BY <1>11, <1>15
<1>17. CmpDeadOk(campaigns, episodeSeq, cmpDead)'
  BY <1>14, <1>15
<1>18. CmpFedOk(campaigns, episodeSeq, cmpFed, cmpNow)'
  BY <1>13, <1>15
<1>19. CmpStatesOk(cmpStates)'
  BY DEF CmpInv, CmpStatesOk
<1>20. cmpNow' \in Nat \ {0}
  BY <1>15 DEF CmpInv
<1>21. DOMAIN campaigns' = DOMAIN cmpSwept \ cmpOver
  BY <1>2, <1>3, <1>4, <1>11, <1>15
<1> QED BY <1>16, <1>17, <1>18, <1>19, <1>20, <1>21

LEMMA StatesRoomOk ==
  ASSUME CmpInv
  PROVE  CmpStatesOk(statesRoom)
<1>1. CmpStatesOk(cmpStates)
  BY DEF CmpInv
<1>2. PICK old : old = {b \in DOMAIN cmpStates : cmpStates[b].seen < cmpNow - 2 * CmpTau}
  OBVIOUS
<1>3. PICK left : left = cmpWithout(cmpStates, old)
  OBVIOUS
<1>4. \A b \in DOMAIN left : b \in DOMAIN cmpStates /\ left[b] = cmpStates[b]
  BY <1>3 DEF cmpWithout
<1>5. CmpStatesOk(left)
  BY <1>1, <1>4 DEF CmpStatesOk
<1>6. CmpStatesOk(cmpEmpty)
  <2>1. DOMAIN cmpEmpty = {}
    BY DEF cmpEmpty
  <2> QED BY <2>1 DEF CmpStatesOk
<1>7. statesRoom = cmpStates \/ statesRoom = left \/ statesRoom = cmpEmpty
  BY <1>2, <1>3 DEF statesRoom
<1> QED BY <1>1, <1>5, <1>6, <1>7

LEMMA StateWritten ==
  ASSUME NEW ss, CmpStatesOk(ss), NEW b, NEW st \in CmpStates,
         st.value <= growthCap(st.first)[st.samples]
  PROVE  CmpStatesOk(cmpWith(ss, b, st))
<1>1. PICK ts : ts = cmpWith(ss, b, st)
  OBVIOUS
<1>2. DOMAIN ts = DOMAIN ss \cup {b} /\ \A x \in DOMAIN ts : ts[x] = IF x = b THEN st ELSE ss[x]
  BY <1>1 DEF cmpWith
<1>3. \A x \in DOMAIN ts : ts[x] = st \/ (x \in DOMAIN ss /\ ts[x] = ss[x])
  BY <1>2
<1>4. CmpStatesOk(ts)
  BY <1>3 DEF CmpStatesOk
<1> QED BY <1>1, <1>4

\* Observe keeps every value under its cap.
LEMMA CmpObserved ==
  ASSUME CmpInv, NEW b, NEW rate \in Nat, cmpObserve(b, rate)
  PROVE  CmpStatesOk(cmpStates)'
<1>1. PICK ss : ss = statesRoom /\ CmpStatesOk(ss)
  BY StatesRoomOk
<1>2. PICK now \in Int : now = cmpNow
  BY DEF CmpInv
<1>3. CASE b \notin DOMAIN ss
  <2>1. PICK one \in Nat \ {0} : one = 1
    OBVIOUS
  <2>2. PICK st : st = [value |-> rate, samples |-> one, seen |-> now, first |-> rate]
    OBVIOUS
  <2>3. st \in CmpStates /\ st.value = rate /\ st.first = rate /\ st.samples = 1
    BY <2>1, <2>2 DEF CmpStates
  <2>4. rate <= growthCap(rate)[1]
    BY CapGrows
  <2>5. cmpStates' = cmpWith(ss, b, st)
    BY <1>1, <1>2, <1>3, <2>1, <2>2 DEF cmpObserve
  <2>6. CmpStatesOk(cmpWith(ss, b, st))
    BY <1>1, <2>3, <2>4, StateWritten
  <2> QED BY <2>5, <2>6
<1>4. CASE b \in DOMAIN ss
  <2>1. PICK st \in CmpStates : st = ss[b] /\ st.value <= growthCap(st.first)[st.samples]
    BY <1>1, <1>4 DEF CmpStatesOk
  <2>2. PICK old \in Nat : old = st.value
    BY <2>1 DEF CmpStates
  <2>3. PICK n \in Nat \ {0} : n = st.samples
    BY <2>1 DEF CmpStates
  <2>4. PICK first \in Nat : first = st.first
    BY <2>1 DEF CmpStates
  <2>5. PICK v \in (LeastOf({old, rate}))..(MostOf({old, rate})) :
          cmpStates' = cmpWith(ss, b,
            [st EXCEPT !.value = cmpGrown(old, v), !.samples = @ + 1, !.seen = cmpNow])
    BY <1>1, <1>4, <2>1, <2>2 DEF cmpObserve
  <2>6. v \in Nat
    <3>1. /\ LeastOf({old, rate}) = IF old <= rate THEN old ELSE rate
          /\ MostOf({old, rate}) = IF old <= rate THEN rate ELSE old
      BY LeastMostOfTwo
    <3> QED BY <3>1
  <2>7. PICK new \in Nat : new = cmpGrown(old, v)
    BY <2>6, GrownAtMost
  <2>8. PICK cap \in Nat \ {0, 1} : cap = growthCap(first)[n]
    BY CapGrows
  <2>9. growthCap(first)[n + 1] = (3 * cap) \div 2
    BY <2>8, CapGrows
  <2>10. new <= (3 * cap) \div 2
    BY <2>1, <2>2, <2>3, <2>4, <2>6, <2>7, <2>8, GrownAtMost
  <2>11. PICK m \in Nat \ {0} : m = n + 1
    OBVIOUS
  <2>12. PICK t : t = [st EXCEPT !.value = new, !.samples = m, !.seen = now]
    OBVIOUS
  <2>13. t \in CmpStates /\ t.value = new /\ t.samples = m /\ t.first = first
    BY <2>1, <2>4, <2>12 DEF CmpStates
  <2>14. t = [st EXCEPT !.value = cmpGrown(old, v), !.samples = @ + 1, !.seen = cmpNow]
    BY <1>2, <2>3, <2>7, <2>11, <2>12
  <2>15. t.value <= growthCap(t.first)[t.samples]
    BY <2>9, <2>10, <2>11, <2>13
  <2>16. CmpStatesOk(cmpWith(ss, b, t))
    BY <1>1, <2>13, <2>15, StateWritten
  <2> QED BY <2>5, <2>14, <2>16
<1> QED BY <1>3, <1>4

\* A report changes what a campaign notes of itself, not its events.
CmpNoted(c, o, r, t) == [c EXCEPT !.lastObserve = o, !.lastReason = r, !.lastDetection = t]
CmpNotes(cs, k, o, r, t, ds) == ds = [cs EXCEPT ![k] = CmpNoted(cs[k], o, r, t)]

LEMMA RollupsNoted ==
  ASSUME NEW cs, NEW seq, NEW log, NEW now \in Int, CmpRollups(cs, seq, log, now), NEW k \in DOMAIN cs,
         NEW o \in Int, NEW r \in CmpReasons, NEW t \in Int,
         NEW ds, CmpNotes(cs, k, o, r, t, ds)
  PROVE  /\ CmpRollups(ds, seq, log, now) /\ DOMAIN ds = DOMAIN cs
         /\ \A x \in DOMAIN ds : /\ ds[x].episode = cs[x].episode
                                 /\ ds[x].lastObserve = IF x = k THEN o ELSE cs[x].lastObserve
<1>1. CmpCampaignOk(cs[k], log[k], now)
  BY DEF CmpRollups
<1>2. PICK c \in CmpCampaigns : c = cs[k]
  BY <1>1 DEF CmpCampaignOk
<1>3. PICK d : d = CmpNoted(c, o, r, t)
  OBVIOUS
<1>4. /\ d \in CmpCampaigns /\ d.events = c.events /\ d.lastSeen = c.lastSeen
      /\ d.episode = c.episode /\ d.lastObserve = o
  BY <1>3 DEF CmpCampaigns, CmpNoted
<1>5. CmpCampaignOk(d, log[k], now)
  BY <1>1, <1>2, <1>4 DEF CmpCampaignOk
<1>6. /\ DOMAIN ds = DOMAIN cs /\ ds[k] = d /\ \A x \in DOMAIN cs : x # k => ds[x] = cs[x]
      /\ ds = [x \in DOMAIN ds |-> ds[x]]
  BY <1>2, <1>3 DEF CmpNotes
<1>7. \A x \in DOMAIN ds : /\ ds[x].episode = cs[x].episode
                           /\ ds[x].lastObserve = IF x = k THEN o ELSE cs[x].lastObserve
  <2> TAKE x \in DOMAIN ds
  <2>1. CASE x = k
    BY <1>2, <1>4, <1>6, <2>1
  <2>2. CASE x # k
    BY <1>6, <2>2
  <2> QED BY <2>1, <2>2
<1>8. \A x \in DOMAIN ds : CmpCampaignOk(ds[x], log[x], now) /\ ds[x].episode \in 1..seq
  <2> TAKE x \in DOMAIN ds
  <2>1. ds[x].episode \in 1..seq
    BY <1>6, <1>7 DEF CmpRollups
  <2>2. CASE x = k
    BY <1>5, <1>6, <2>1, <2>2
  <2>3. CASE x # k
    BY <1>6, <2>1, <2>3 DEF CmpRollups
  <2> QED BY <2>2, <2>3
<1>9. \A x, y \in DOMAIN ds : ds[x].episode = ds[y].episode => x = y
  BY <1>6, <1>7 DEF CmpRollups
<1>10. CmpRollups(ds, seq, log, now)
  BY <1>6, <1>8, <1>9 DEF CmpRollups
<1> QED BY <1>6, <1>7, <1>10

LEMMA CmpReportInv ==
  ASSUME CmpInv, NEW k \in cmpRun.todo, cmpReport(k)
  PROVE  CmpInv'
<1>1. /\ CmpRollups(campaigns, episodeSeq, cmpLog, cmpNow) /\ cmpNow \in Nat \ {0}
      /\ CmpDeadOk(campaigns, episodeSeq, cmpDead) /\ CmpFedOk(campaigns, episodeSeq, cmpFed, cmpNow)
      /\ cmpRun \in [pc : {"idle", "report", "active"}, todo : SUBSET DOMAIN campaigns]
      /\ k \in DOMAIN campaigns /\ episodeSeq \in Nat
  BY DEF CmpInv, CmpRollups
<1>2. PICK now \in Int : now = cmpNow /\ now # 0
  BY <1>1
<1>3. CmpCampaignOk(campaigns[k], cmpLog[k], cmpNow) /\ campaigns[k].episode \in 1..episodeSeq
  BY <1>1 DEF CmpRollups
<1>4. PICK c \in CmpCampaigns : c = campaigns[k] /\ CmpEventsOk(c.events)
  BY <1>3 DEF CmpCampaignOk
<1>5. PICK e : e = c.episode /\ e \in 1..episodeSeq
  BY <1>3, <1>4
<1>6. PICK r \in CmpReasons : r = reasonOf(k, c)
  BY ReasonTyped
<1>7. PICK o \in Int : o = IF feedsBaseline(c, r) THEN now ELSE c.lastObserve
  BY DEF CmpCampaigns
<1>8. PICK t \in Int : t = IF c.lastReason = r /\ c.lastDetection # 0 /\ cmpNow - c.lastDetection < CmpWindow
                           THEN c.lastDetection ELSE now
  BY DEF CmpCampaigns
<1>9. CmpNoted(c, o, r, t) = noted(c, r)
  BY <1>2, <1>7, <1>8 DEF CmpNoted, noted
<1>10. PICK ds : ds = [campaigns EXCEPT ![k] = CmpNoted(campaigns[k], o, r, t)]
  OBVIOUS
<1>11. /\ campaigns' = ds /\ cmpRun' = afterReport(cmpRun.todo \ {k})
       /\ UNCHANGED <<episodeSeq, cmpNow, cmpRecords, cmpLog, cmpDead>>
  <2>1. campaigns' = [campaigns EXCEPT ![k] = noted(campaigns[k], reasonOf(k, campaigns[k]))]
    BY DEF cmpReport
  <2>2. campaigns' = [campaigns EXCEPT ![k] = CmpNoted(campaigns[k], o, r, t)]
    BY <1>4, <1>6, <1>9, <2>1
  <2>3. cmpRun' = afterReport(cmpRun.todo \ {k}) /\ UNCHANGED <<episodeSeq, cmpNow, cmpRecords, cmpLog, cmpDead>>
    BY DEF cmpReport
  <2> QED BY <1>10, <2>2, <2>3
<1>12. /\ CmpRollups(ds, episodeSeq, cmpLog, cmpNow) /\ DOMAIN ds = DOMAIN campaigns
       /\ \A x \in DOMAIN ds : /\ ds[x].episode = campaigns[x].episode
                               /\ ds[x].lastObserve = IF x = k THEN o ELSE campaigns[x].lastObserve
  <2>1. CmpNotes(campaigns, k, o, r, t, ds)
    BY <1>10 DEF CmpNotes
  <2> QED BY <1>1, <2>1, RollupsNoted
<1>13. \/ /\ feedsBaseline(c, r)
          /\ cmpObserve(baselineKey(k, c), 2 * Len(c.events.ring))
          /\ cmpFed' = cmpWith(cmpFed, e,
               IF e \in DOMAIN cmpFed THEN [cmpFed[e] EXCEPT !.n = @ + 1] ELSE [n |-> 1, since |-> cmpNow])
       \/ ~feedsBaseline(c, r) /\ UNCHANGED <<cmpStates, cmpFed>>
  BY <1>4, <1>5, <1>6 DEF cmpReport
<1>14. CmpStatesOk(cmpStates)'
  <2>1. CASE UNCHANGED cmpStates
    BY <2>1 DEF CmpInv, CmpStatesOk
  <2>2. CASE cmpObserve(baselineKey(k, c), 2 * Len(c.events.ring))
    <3>1. PICK l \in Nat : l = Len(c.events.ring)
      BY <1>4, RingTyped DEF CmpEventsOk, CmpRings
    <3>2. PICK rate \in Nat : rate = 2 * l
      OBVIOUS
    <3> QED BY <2>2, <3>1, <3>2, CmpObserved
  <2> QED BY <1>13, <2>1, <2>2
<1>15. CmpDeadOk(ds, episodeSeq, cmpDead)
  BY <1>1, <1>12 DEF CmpDeadOk
<1>16. CmpFedOk(ds, episodeSeq, cmpFed', cmpNow)
  <2>1. CASE ~feedsBaseline(c, r) /\ UNCHANGED cmpFed
    <3>1. \A x \in DOMAIN ds : ds[x].lastObserve = campaigns[x].lastObserve
      BY <1>4, <1>7, <1>12, <2>1
    <3> QED BY <1>1, <1>12, <2>1, <3>1 DEF CmpFedOk
  <2>2. CASE feedsBaseline(c, r)
    <3>1. PICK f : f = IF e \in DOMAIN cmpFed THEN [cmpFed[e] EXCEPT !.n = @ + 1] ELSE [n |-> 1, since |-> cmpNow]
      OBVIOUS
    <3>2. f \in CmpFeeds /\ CmpFedTo(f) <= now
      <4>1. CASE e \in DOMAIN cmpFed
        <5>1. c.lastObserve # 0 /\ CmpFedTo(cmpFed[e]) <= c.lastObserve /\ cmpFed[e] \in CmpFeeds
          BY <1>1, <1>4, <1>5, <4>1 DEF CmpFedOk
        <5>2. PICK at \in Int : at = c.lastObserve
          BY DEF CmpCampaigns
        <5>3. now - at >= CmpWindow
          BY <1>2, <2>2, <5>1, <5>2 DEF feedsBaseline
        <5> QED BY <3>1, <4>1, <5>1, <5>2, <5>3, FedOnceMore
      <4>2. CASE e \notin DOMAIN cmpFed
        <5>1. PICK one \in Nat \ {0} : one = 1
          OBVIOUS
        <5>2. f = [n |-> one, since |-> now]
          BY <1>2, <3>1, <4>2, <5>1
        <5>3. f \in CmpFeeds /\ f.n = 1 /\ f.since = now
          BY <5>1, <5>2 DEF CmpFeeds
        <5>4. PICK W \in Int : W = CmpWindow
          BY CmpAssumption
        <5>5. (1 - 1) * W = 0
          OBVIOUS
        <5>6. CmpFedTo(f) = now + 0
          BY <5>3, <5>4, <5>5 DEF CmpFedTo
        <5> QED BY <5>3, <5>6
      <4> QED BY <4>1, <4>2
    <3>3. PICK fed : fed = cmpFed' /\ fed = cmpWith(cmpFed, e, f)
      BY <1>13, <2>2, <3>1
    <3>4. DOMAIN fed = DOMAIN cmpFed \cup {e} /\ \A x \in DOMAIN fed : fed[x] = IF x = e THEN f ELSE cmpFed[x]
      BY <3>3 DEF cmpWith
    <3>5. DOMAIN fed \subseteq 1..episodeSeq
      BY <1>1, <1>5, <3>4 DEF CmpFedOk
    <3>6. \A x \in DOMAIN fed : fed[x] \in CmpFeeds /\ CmpFedTo(fed[x]) <= cmpNow
      <4> TAKE x \in DOMAIN fed
      <4>1. CASE x = e
        BY <1>2, <3>2, <3>4, <4>1
      <4>2. CASE x # e
        BY <1>1, <3>4, <4>2 DEF CmpFedOk
      <4> QED BY <4>1, <4>2
    <3>7. \A x \in DOMAIN ds : ds[x].episode \in DOMAIN fed =>
            ds[x].lastObserve # 0 /\ CmpFedTo(fed[ds[x].episode]) <= ds[x].lastObserve
      <4> TAKE x \in DOMAIN ds
      <4>1. CASE x = k
        <5>1. ds[x].episode = e /\ ds[x].lastObserve = now
          BY <1>4, <1>5, <1>7, <1>12, <2>2, <4>1
        <5>2. fed[e] = f
          BY <3>4
        <5> QED BY <1>2, <3>2, <5>1, <5>2
      <4>2. CASE x # k
        <5>1. ds[x].episode = campaigns[x].episode /\ ds[x].lastObserve = campaigns[x].lastObserve
          BY <1>12, <4>2
        <5>2. campaigns[x].episode # e
          BY <1>1, <1>4, <1>5, <1>12, <4>2 DEF CmpRollups
        <5>3. ds[x].episode \in DOMAIN fed => /\ ds[x].episode \in DOMAIN cmpFed
                                              /\ fed[ds[x].episode] = cmpFed[ds[x].episode]
          BY <3>4, <5>1, <5>2
        <5>4. campaigns[x].episode \in DOMAIN cmpFed =>
                /\ campaigns[x].lastObserve # 0
                /\ CmpFedTo(cmpFed[campaigns[x].episode]) <= campaigns[x].lastObserve
          BY <1>1, <1>12 DEF CmpFedOk
        <5> QED BY <5>1, <5>3, <5>4
      <4> QED BY <4>1, <4>2
    <3>8. CmpFedOk(ds, episodeSeq, fed, cmpNow)
      BY <3>5, <3>6, <3>7 DEF CmpFedOk
    <3> QED BY <3>3, <3>8
  <2> QED BY <1>13, <2>1, <2>2
<1>17. /\ cmpRun' \in [pc : {"idle", "report", "active"}, todo : SUBSET DOMAIN ds]
       /\ cmpRun'.pc # "report" => cmpRun'.todo = {}
  <2>1. PICK todo \in SUBSET DOMAIN ds : todo = cmpRun.todo \ {k}
    BY <1>1, <1>12
  <2>2. PICK pc \in {"idle", "report", "active"} : pc = IF todo = {} THEN "active" ELSE "report"
    OBVIOUS
  <2>3. cmpRun' = [pc |-> pc, todo |-> todo]
    BY <1>11, <2>1, <2>2 DEF afterReport
  <2> QED BY <2>1, <2>2, <2>3
<1>18. CmpRollups(campaigns, episodeSeq, cmpLog, cmpNow)'
  BY <1>11, <1>12
<1>19. CmpDeadOk(campaigns, episodeSeq, cmpDead)' /\ CmpFedOk(campaigns, episodeSeq, cmpFed, cmpNow)'
  BY <1>11, <1>15, <1>16
<1>20. cmpNow' \in Nat \ {0}
  BY <1>1, <1>11
<1>21. cmpRun' \in [pc : {"idle", "report", "active"}, todo : SUBSET (DOMAIN campaigns)']
  BY <1>11, <1>17
<1> QED BY <1>14, <1>17, <1>18, <1>19, <1>20, <1>21 DEF CmpInv

LEMMA CmpNextInv == ASSUME CmpInv, [CampaignNext]_cmpVars PROVE CmpInv'
<1>1. /\ CmpRollups(campaigns, episodeSeq, cmpLog, cmpNow) /\ cmpNow \in Nat \ {0}
      /\ CmpDeadOk(campaigns, episodeSeq, cmpDead) /\ CmpFedOk(campaigns, episodeSeq, cmpFed, cmpNow)
      /\ CmpStatesOk(cmpStates)
      /\ cmpRun \in [pc : {"idle", "report", "active"}, todo : SUBSET DOMAIN campaigns]
      /\ cmpRun.pc # "report" => cmpRun.todo = {}
  BY DEF CmpInv
<1>2. CASE \E s \in CmpSignals, lag \in CmpLags : CampaignRecord(s, lag)
  BY <1>2, CmpRecordInv
<1>3. CASE CampaignEvaluate
  <2>1. cmpSweep /\ UNCHANGED <<episodeSeq, cmpStates, cmpNow, cmpFed>>
    BY <1>3 DEF CampaignEvaluate
  <2>2. /\ CmpRollups(campaigns, episodeSeq, cmpLog, cmpNow)'
        /\ CmpDeadOk(campaigns, episodeSeq, cmpDead)' /\ CmpFedOk(campaigns, episodeSeq, cmpFed, cmpNow)'
        /\ CmpStatesOk(cmpStates)' /\ cmpNow' \in Nat \ {0}
        /\ DOMAIN campaigns' = DOMAIN cmpSwept \ cmpOver
    BY <2>1, CmpSweepInv
  <2>3. PICK todo \in SUBSET (DOMAIN campaigns)' :
          todo = {k \in DOMAIN cmpSwept \ cmpOver : reasonOf(k, cmpSwept[k]) # ""}
    BY <2>2
  <2>4. PICK pc \in {"idle", "report", "active"} : pc = IF todo = {} THEN "active" ELSE "report"
    OBVIOUS
  <2>5. cmpRun' = [pc |-> pc, todo |-> todo]
    BY <1>3, <2>3, <2>4 DEF CampaignEvaluate, afterReport
  <2>6. /\ cmpRun' \in [pc : {"idle", "report", "active"}, todo : SUBSET (DOMAIN campaigns)']
        /\ cmpRun'.pc # "report" => cmpRun'.todo = {}
    BY <2>3, <2>4, <2>5
  <2> QED BY <2>2, <2>6 DEF CmpInv
<1>4. CASE ActiveCampaigns
  <2>1. cmpSweep /\ UNCHANGED <<episodeSeq, cmpStates, cmpNow, cmpFed>>
    BY <1>4 DEF ActiveCampaigns
  <2>2. /\ CmpRollups(campaigns, episodeSeq, cmpLog, cmpNow)'
        /\ CmpDeadOk(campaigns, episodeSeq, cmpDead)' /\ CmpFedOk(campaigns, episodeSeq, cmpFed, cmpNow)'
        /\ CmpStatesOk(cmpStates)' /\ cmpNow' \in Nat \ {0}
    BY <2>1, CmpSweepInv
  <2>3. cmpRun' = [cmpRun EXCEPT !.pc = "idle"] /\ cmpRun.todo = {}
    BY <1>1, <1>4 DEF ActiveCampaigns
  <2>4. PICK todo \in SUBSET (DOMAIN campaigns)' : todo = {}
    OBVIOUS
  <2>5. cmpRun' = [pc |-> "idle", todo |-> todo]
    BY <1>1, <2>3, <2>4
  <2>6. /\ cmpRun' \in [pc : {"idle", "report", "active"}, todo : SUBSET (DOMAIN campaigns)']
        /\ cmpRun'.pc # "report" => cmpRun'.todo = {}
    BY <2>4, <2>5
  <2> QED BY <2>2, <2>6 DEF CmpInv
<1>5. CASE cmpTick
  <2>1. /\ UNCHANGED <<campaigns, episodeSeq, cmpStates, cmpRun, cmpLog, cmpDead, cmpFed>>
        /\ cmpNow' = cmpNow + 1
    BY <1>5 DEF cmpTick
  <2>2. PICK then \in Int : then = cmpNow + 1 /\ cmpNow <= then /\ then \in Nat \ {0}
    BY <1>1
  <2>3. CmpRollups(campaigns, episodeSeq, cmpLog, then)
    <3>1. cmpNow \in Int
      BY <1>1
    <3> QED BY <1>1, <2>2, <3>1, RollupsLater
  <2>4. CmpFedOk(campaigns, episodeSeq, cmpFed, then)
    <3>1. \A e \in DOMAIN cmpFed : cmpFed[e] \in CmpFeeds /\ CmpFedTo(cmpFed[e]) <= then
      <4> TAKE e \in DOMAIN cmpFed
      <4>1. PICK f \in CmpFeeds : f = cmpFed[e] /\ CmpFedTo(f) <= cmpNow
        BY <1>1 DEF CmpFedOk
      <4>2. CmpFedTo(f) \in Int
        BY CmpAssumption DEF CmpFedTo, CmpFeeds
      <4>3. CmpFedTo(f) <= then
        BY <1>1, <2>2, <4>1, <4>2
      <4> QED BY <4>1, <4>3
    <3> QED BY <1>1, <3>1 DEF CmpFedOk
  <2>5. cmpNow' = then /\ cmpNow' \in Nat \ {0}
    BY <2>1, <2>2
  <2>6. CmpRollups(campaigns, episodeSeq, cmpLog, cmpNow)' /\ CmpFedOk(campaigns, episodeSeq, cmpFed, cmpNow)'
    BY <2>1, <2>3, <2>4, <2>5
  <2>7. CmpDeadOk(campaigns, episodeSeq, cmpDead)' /\ CmpStatesOk(cmpStates)'
    BY <1>1, <2>1
  <2>8. /\ cmpRun' \in [pc : {"idle", "report", "active"}, todo : SUBSET (DOMAIN campaigns)']
        /\ cmpRun'.pc # "report" => cmpRun'.todo = {}
    BY <1>1, <2>1
  <2> QED BY <2>5, <2>6, <2>7, <2>8 DEF CmpInv
<1>6. CASE \E k \in cmpRun.todo : cmpReport(k)
  BY <1>6, CmpReportInv
<1>7. CASE UNCHANGED cmpVars
  <2>1. UNCHANGED <<campaigns, episodeSeq, cmpStates, cmpRun, cmpNow, cmpLog, cmpDead, cmpFed>>
    BY <1>7 DEF cmpVars
  <2>2. CmpRollups(campaigns, episodeSeq, cmpLog, cmpNow)' /\ CmpFedOk(campaigns, episodeSeq, cmpFed, cmpNow)'
    BY <1>1, <2>1
  <2>3. CmpDeadOk(campaigns, episodeSeq, cmpDead)' /\ CmpStatesOk(cmpStates)'
    BY <1>1, <2>1
  <2>4. /\ cmpRun' \in [pc : {"idle", "report", "active"}, todo : SUBSET (DOMAIN campaigns)']
        /\ cmpRun'.pc # "report" => cmpRun'.todo = {}
        /\ cmpNow' \in Nat \ {0}
    BY <1>1, <2>1
  <2> QED BY <2>2, <2>3, <2>4 DEF CmpInv
<1> QED BY <1>2, <1>3, <1>4, <1>5, <1>6, <1>7 DEF CampaignNext

-----------------------------------------------------------------------------
(* What the invariant says of the campaigns. *)

LEMMA EndAlike ==
  ASSUME NEW R, NEW a \in Nat, NEW b \in Nat, a <= b, NEW s \in [1..a -> R], NEW t \in [1..b -> R],
         EndsWith(t, b, s, a)
  PROVE  IsSuffix(s, t)
<1>1. s \in Seq(R) /\ Len(s) = a /\ t \in Seq(R) /\ Len(t) = b
  BY FunIsSeq
<1>2. PICK u : u = [i \in 1..a |-> s[(a - i) + 1]]
  OBVIOUS
<1>3. PICK v : v = [i \in 1..b |-> t[(b - i) + 1]]
  OBVIOUS
<1>4. Reverse(s) = u /\ Reverse(t) = v
  BY <1>1, <1>2, <1>3 DEF Reverse
<1>5. u \in [1..a -> R]
  <2>1. \A i \in 1..a : (a - i) + 1 \in 1..a
    OBVIOUS
  <2> QED BY <1>2, <2>1
<1>6. v \in [1..b -> R]
  <2>1. \A i \in 1..b : (b - i) + 1 \in 1..b
    OBVIOUS
  <2> QED BY <1>3, <2>1
<1>7. u \in Seq(R) /\ Len(u) = a /\ v \in Seq(R) /\ Len(v) = b
  BY <1>5, <1>6, FunIsSeq
<1>8. \A i \in 1..a : u[i] = v[i]
  <2> TAKE i \in 1..a
  <2>1. PICK k \in 1..a : k = (a - i) + 1
    OBVIOUS
  <2>2. i \in 1..b /\ (b - i) + 1 = b - a + k
    BY <2>1
  <2>3. u[i] = s[k]
    BY <1>2, <2>1
  <2>4. v[i] = t[b - a + k]
    BY <1>3, <2>2
  <2> QED BY <2>3, <2>4 DEF EndsWith
<1>9. SubSeq(u, 1, a) = [i \in 1..a |-> u[i]] /\ SubSeq(v, 1, a) = [i \in 1..a |-> v[i]]
  BY <1>7
<1>10. SubSeq(u, 1, a) = SubSeq(v, 1, a)
  BY <1>8, <1>9
<1>11. IsSuffix(s, t)
  BY <1>4, <1>7, <1>10 DEF IsSuffix, IsPrefix
<1> QED BY <1>11

\* The window of a rollup is the end of the window of its log.
CmpPlain(s) == [i \in 1..Len(s) |-> [sig |-> s[i].sig, at |-> s[i].at]]

LEMMA WindowAlike ==
  ASSUME NEW ring \in Seq(CmpEvents), NEW log \in CmpLogs, NEW cutoff \in Int, NEW now \in Int,
         cutoff = now - CmpWindow, CmpGiven(ring, log, now)
  PROVE  LET kept == heldAt(CmpPlain(ring), CmpLive(ring, cutoff))
             given == heldAt(CmpPlain(log), CmpLive(log, cutoff))
         IN IsSuffix(kept, given) /\ (Len(log) <= CmpMaxEvents => kept = given)
<1>1. PICK n \in Nat : n = Len(ring) /\ \A i \in 1..n : ring[i].sig \in CmpSignals /\ ring[i].at \in Int
  <2>1. Len(ring) \in Nat /\ \A i \in 1..Len(ring) : ring[i] \in CmpEvents
    BY LenProperties, ElementOfSeq
  <2> QED BY <2>1 DEF CmpEvents
<1>2. PICK m \in Nat : m = Len(log) /\ \A j \in 1..m : log[j].sig \in CmpSignals /\ log[j].at \in Int
  BY LogTyped
<1>3. PICK max \in Nat : max = CmpMaxEvents
  BY CmpAssumption
<1>4. PICK f \in [1..n -> 1..m] : CmpPlaced(ring, log, now, f)
  BY <1>1, <1>2 DEF CmpGiven
<1>5. /\ Increasing(f, n)
      /\ \A i \in 1..n : ring[i].sig = log[f[i]].sig /\ ring[i].at = log[f[i]].at
      /\ \A j \in 1..m : log[j].at >= cutoff =>
           \/ \E i \in 1..n : f[i] = j
           \/ m > max /\ \A i \in 1..n : j < f[i]
  BY <1>1, <1>2, <1>3, <1>4 DEF CmpPlaced
<1>6. PICK S : /\ S = CmpLive(ring, cutoff) /\ S \in SUBSET (1..n)
               /\ \A i \in 1..n : i \in S <=> ring[i].at >= cutoff
  <2>1. PICK S : S = CmpLive(ring, cutoff)
    OBVIOUS
  <2>2. S \in SUBSET (1..n) /\ \A i \in 1..n : i \in S <=> ring[i].at >= cutoff
    BY <1>1, <2>1 DEF CmpLive
  <2> QED BY <2>1, <2>2
<1>7. PICK T : /\ T = CmpLive(log, cutoff) /\ T \in SUBSET (1..m)
               /\ \A j \in 1..m : j \in T <=> log[j].at >= cutoff
  <2>1. PICK T : T = CmpLive(log, cutoff)
    OBVIOUS
  <2>2. T \in SUBSET (1..m) /\ \A j \in 1..m : j \in T <=> log[j].at >= cutoff
    BY <1>2, <2>1 DEF CmpLive
  <2> QED BY <2>1, <2>2
<1>8. \A i \in S : f[i] \in T
  BY <1>5, <1>6, <1>7
<1>9. \A j \in T : (\E i \in S : f[i] = j) \/ (m > max /\ \A i \in S : j < f[i])
  <2> TAKE j \in T
  <2>1. j \in 1..m /\ log[j].at >= cutoff
    BY <1>7
  <2>2. CASE \E i \in 1..n : f[i] = j
    <3>1. PICK i \in 1..n : f[i] = j
      BY <2>2
    <3>2. ring[i].at >= cutoff
      BY <1>5, <2>1, <3>1
    <3> QED BY <1>6, <3>1, <3>2
  <2>3. CASE m > max /\ \A i \in 1..n : j < f[i]
    BY <1>6, <2>3
  <2> QED BY <1>5, <2>1, <2>2, <2>3
<1>10. PICK a \in Nat : a = Cardinality(S)
  BY <1>6, PlacesCounted
<1>11. PICK b \in Nat : b = Cardinality(T)
  BY <1>7, PlacesCounted
<1>12. MapsToEnd(f, S, T)
  BY <1>8, <1>9 DEF MapsToEnd
<1>13. /\ a <= b
       /\ \A k \in 1..a : placesIn(T)[b - a + k] = f[placesIn(S)[k]]
       /\ MapsOnto(f, S, T) => a = b
  <2>1. PlacesAtEnd(f, S, T)
    BY <1>5, <1>6, <1>7, <1>12, PlacesEndAlike
  <2> QED BY <1>10, <1>11, <2>1 DEF PlacesAtEnd
<1>14. m <= max => a = b
  BY <1>3, <1>9, <1>13 DEF MapsOnto
<1>15. PICK p : p = placesIn(S) /\ p \in [1..a -> S]
  BY <1>6, <1>10, PlacesCounted
<1>16. PICK q : q = placesIn(T) /\ q \in [1..b -> T]
  BY <1>7, <1>11, PlacesCounted
<1>17. PICK R : R = [sig : CmpSignals, at : Int]
  OBVIOUS
<1>18. PICK s : s = heldAt(CmpPlain(ring), S)
  OBVIOUS
<1>19. PICK t : t = heldAt(CmpPlain(log), T)
  OBVIOUS
<1>20. s = [k \in 1..a |-> [sig |-> ring[p[k]].sig, at |-> ring[p[k]].at]]
  <2>1. \A k \in 1..a : CmpPlain(ring)[p[k]] = [sig |-> ring[p[k]].sig, at |-> ring[p[k]].at]
    <3>1. \A k \in 1..a : p[k] \in 1..Len(ring)
      BY <1>1, <1>6, <1>15
    <3> QED BY <3>1 DEF CmpPlain
  <2>2. s = [k \in 1..a |-> CmpPlain(ring)[p[k]]]
    BY <1>10, <1>15, <1>18 DEF heldAt
  <2> QED BY <2>1, <2>2
<1>21. t = [k \in 1..b |-> [sig |-> log[q[k]].sig, at |-> log[q[k]].at]]
  <2>1. \A k \in 1..b : CmpPlain(log)[q[k]] = [sig |-> log[q[k]].sig, at |-> log[q[k]].at]
    <3>1. \A k \in 1..b : q[k] \in 1..Len(log)
      BY <1>2, <1>16, <1>7
    <3> QED BY <3>1 DEF CmpPlain
  <2>2. t = [k \in 1..b |-> CmpPlain(log)[q[k]]]
    BY <1>11, <1>16, <1>19 DEF heldAt
  <2> QED BY <2>1, <2>2
<1>22. s \in [1..a -> R]
  <2>1. \A k \in 1..a : ring[p[k]].sig \in CmpSignals /\ ring[p[k]].at \in Int
    BY <1>1, <1>6, <1>15
  <2> QED BY <1>17, <1>20, <2>1
<1>23. t \in [1..b -> R]
  <2>1. \A k \in 1..b : log[q[k]].sig \in CmpSignals /\ log[q[k]].at \in Int
    BY <1>2, <1>16, <1>7
  <2> QED BY <1>17, <1>21, <2>1
<1>24. EndsWith(t, b, s, a)
  <2> SUFFICES ASSUME NEW k \in 1..a PROVE t[b - a + k] = s[k]
    BY DEF EndsWith
  <2>1. b - a + k \in 1..b
    BY <1>13
  <2>2. PICK i \in 1..n : i = p[k]
    BY <1>6, <1>15
  <2>3. q[b - a + k] = f[i]
    BY <1>13, <1>15, <1>16, <2>2
  <2>4. t[b - a + k] = [sig |-> log[f[i]].sig, at |-> log[f[i]].at]
    BY <1>21, <2>1, <2>3
  <2>5. s[k] = [sig |-> ring[i].sig, at |-> ring[i].at]
    BY <1>20, <2>2
  <2> QED BY <1>5, <2>4, <2>5
<1>25. IsSuffix(s, t) /\ (a = b => s = t)
  <2>1. IsSuffix(s, t)
    BY <1>13, <1>22, <1>23, <1>24, EndAlike
  <2>2. ASSUME a = b PROVE s = t
    <3>1. \A k \in 1..a : t[k] = s[k]
      BY <1>24, <2>2 DEF EndsWith
    <3> QED BY <1>22, <1>23, <2>2, <3>1
  <2> QED BY <2>1, <2>2
<1>26. Len(log) <= CmpMaxEvents => s = t
  BY <1>2, <1>3, <1>14, <1>25
<1> QED BY <1>6, <1>18, <1>19, <1>25, <1>26, <1>7

LEMMA CmpPrunesExactly == ASSUME CmpInv PROVE CmpPruneExact
<1> SUFFICES ASSUME NEW k \in DOMAIN campaigns, NEW cutoff \in cutoffAt(cmpNow)..(cmpNow + 1)
             PROVE  LET e == campaigns[k].events
                        p == pruneBefore(e, cutoff)
                        left == heldAt(e.ring, {i \in 1..Len(e.ring) : e.ring[i].at >= cutoff})
                        times == {left[i].at : i \in 1..Len(left)}
                    IN /\ p.events.ring = left
                       /\ left # <<>> => p.first = LeastOf(times) /\ p.last = MostOf(times)
  BY DEF CmpPruneExact
<1>1. cutoff \in Int
  BY CmpAssumption DEF CmpInv, cutoffAt
<1>2. PICK e : e = campaigns[k].events /\ CmpEventsOk(e)
  BY DEF CmpInv, CmpRollups, CmpCampaignOk
<1>3. PICK p : p = pruneBefore(e, cutoff)
  OBVIOUS
<1>4. PICK left : left = heldAt(e.ring, CmpLive(e.ring, cutoff))
  OBVIOUS
<1>5. /\ p.events.ring = left
      /\ left # <<>> => p.first = LeastOf(CmpTimes(left)) /\ p.last = MostOf(CmpTimes(left))
  BY <1>1, <1>2, <1>3, <1>4, PrunedExactly
<1> QED BY <1>2, <1>3, <1>4, <1>5 DEF CmpLive, CmpTimes

LEMMA CmpWindowsComplete == ASSUME CmpInv PROVE CmpWindowComplete
<1>1. CmpRollups(campaigns, episodeSeq, cmpLog, cmpNow) /\ cmpNow \in Int
  BY DEF CmpInv
<1> DEFINE fresh(s) == heldAt([i \in 1..Len(s) |-> [sig |-> s[i].sig, at |-> s[i].at]], cmpFresh(s))
<1> SUFFICES ASSUME NEW k \in DOMAIN cmpLog
             PROVE  LET kept == fresh(IF k \in DOMAIN campaigns THEN campaigns[k].events.ring ELSE <<>>)
                    IN /\ IsSuffix(kept, fresh(cmpLog[k]))
                       /\ Len(cmpLog[k]) <= CmpMaxEvents => kept = fresh(cmpLog[k])
  BY DEF CmpWindowComplete
<1>2. PICK cutoff \in Int : cutoff = cmpNow - CmpWindow
  BY <1>1, CmpAssumption
<1>3. PICK log : log = cmpLog[k]
  OBVIOUS
<1>4. PICK ring : ring = IF k \in DOMAIN campaigns THEN campaigns[k].events.ring ELSE <<>>
  OBVIOUS
<1>5. ring \in Seq(CmpEvents) /\ log \in CmpLogs /\ CmpGiven(ring, log, cmpNow)
  <2>1. CASE k \in DOMAIN campaigns
    <3>1. CmpCampaignOk(campaigns[k], log, cmpNow) /\ ring = campaigns[k].events.ring
      BY <1>1, <1>3, <1>4, <2>1 DEF CmpRollups
    <3> QED BY <3>1 DEF CmpCampaignOk, CmpEventsOk, CmpRings
  <2>2. CASE k \notin DOMAIN campaigns
    <3>1. log \in CmpLogs /\ CmpLeft(log, cmpNow) /\ ring = <<>>
      BY <1>1, <1>3, <1>4, <2>2 DEF CmpRollups
    <3>2. ring \in Seq(CmpEvents) /\ Len(ring) = 0
      BY <3>1, EmptySeq
    <3>3. PICK f : f = [i \in 1..0 |-> 0]
      OBVIOUS
    <3>4. f \in [1..0 -> 1..Len(log)]
      BY <3>3
    <3>5. ASSUME NEW j \in 1..Len(log), log[j].at >= cmpNow - CmpWindow
          PROVE  Len(log) > CmpMaxEvents
      <4>1. PICK l \in Nat : l = Len(log)
        BY <3>1, LogTyped
      <4>2. PICK max \in Nat : max = CmpMaxEvents
        BY CmpAssumption
      <4>3. PICK at \in Int : at = log[j].at
        BY <3>1, LogTyped
      <4>4. at >= cutoff /\ (l <= max => at < cutoff)
        BY <1>2, <3>1, <3>5, <4>1, <4>2, <4>3 DEF CmpLeft
      <4> QED BY <4>1, <4>2, <4>4
    <3>6. CmpPlaced(ring, log, cmpNow, f)
      BY <3>2, <3>4, <3>5 DEF CmpPlaced, Increasing
    <3> QED BY <3>1, <3>2, <3>4, <3>6 DEF CmpGiven
  <2> QED BY <2>1, <2>2
<1>6. PICK kept : kept = heldAt(CmpPlain(ring), CmpLive(ring, cutoff))
  OBVIOUS
<1>7. PICK given : given = heldAt(CmpPlain(log), CmpLive(log, cutoff))
  OBVIOUS
<1>8. IsSuffix(kept, given) /\ (Len(log) <= CmpMaxEvents => kept = given)
  BY <1>1, <1>2, <1>5, <1>6, <1>7, WindowAlike
<1>9. kept = fresh(ring) /\ given = fresh(log)
  BY <1>2, <1>6, <1>7 DEF CmpPlain, CmpLive, cmpFresh, cutoffAt
<1> HIDE DEF fresh
<1> QED BY <1>3, <1>4, <1>8, <1>9

LEMMA CmpIdsAreFresh == ASSUME CmpInv PROVE CmpIdsFresh
<1>1. CmpDeadOk(campaigns, episodeSeq, cmpDead)
  BY DEF CmpInv
<1> SUFFICES ASSUME NEW k \in DOMAIN campaigns, <<k, campaigns[k].episode>> \in cmpDead PROVE FALSE
  BY DEF CmpIdsFresh
<1>2. PICK d \in cmpDead : d = <<k, campaigns[k].episode>>
  OBVIOUS
<1>3. campaigns[k].episode # d[2]
  BY <1>1 DEF CmpDeadOk
<1> QED BY <1>2, <1>3

LEMMA CmpTrainsAtMost == ASSUME CmpInv PROVE CmpTrainsOncePerWindow
<1> SUFFICES ASSUME NEW e \in DOMAIN cmpFed
             PROVE  cmpFed[e].n <= 1 + (cmpNow - cmpFed[e].since) \div CmpWindow
  BY DEF CmpTrainsOncePerWindow
<1>1. PICK f \in CmpFeeds : f = cmpFed[e] /\ CmpFedTo(f) <= cmpNow
  BY DEF CmpInv, CmpFedOk
<1>2. PICK n \in Nat \ {0} : n = f.n
  BY DEF CmpFeeds
<1>3. PICK since \in Int : since = f.since
  BY DEF CmpFeeds
<1>4. PICK W \in Nat \ {0} : W = CmpWindow
  BY CmpAssumption
<1>5. PICK x \in Int : x = cmpNow - since
  BY DEF CmpInv
<1>6. PICK a \in Nat : a = n - 1
  OBVIOUS
<1>7. PICK y \in Int : y = a * W
  OBVIOUS
<1>8. since + y <= cmpNow
  BY <1>1, <1>2, <1>3, <1>4, <1>6, <1>7 DEF CmpFedTo
<1>9. a * W <= x
  BY <1>5, <1>7, <1>8 DEF CmpInv
<1>10. a <= x \div W
  BY <1>9, WindowsFit
<1>11. n <= 1 + x \div W
  BY <1>6, <1>10
<1> QED BY <1>1, <1>2, <1>3, <1>4, <1>5, <1>11

LEMMA CmpInvSound == ASSUME CmpInv PROVE CampaignsSound
<1>1. CmpBaselineSlow
  BY DEF CmpInv, CmpStatesOk, CmpBaselineSlow
<1> QED
  BY <1>1, CmpPrunesExactly, CmpWindowsComplete, CmpIdsAreFresh, CmpTrainsAtMost DEF CampaignsSound

\* A campaign holds the signals of its window and reports their times, under an
\* id no ended campaign had; it trains the baseline once a window at most, and
\* the baseline grows no faster than by half (Record, PruneBefore, Evaluate,
\* ActiveCampaigns, observeBaselineLocked, capGrowthLocked).
THEOREM CampaignsAreSound == CampaignSpec => []CampaignsSound
<1>1. CampaignInit => CmpInv
  BY CmpInitInv
<1>2. CmpInv /\ [CampaignNext]_cmpVars => CmpInv'
  BY CmpNextInv
<1>3. CmpInv => CampaignsSound
  BY CmpInvSound
<1> QED
  BY <1>1, <1>2, <1>3, PTL DEF CampaignSpec

-----------------------------------------------------------------------------
(***************************************************************************)
(* The profiles: an honest clock shows the time that passed or a gap that  *)
(* is taken for another host, and making room never costs the newcomer.    *)
(***************************************************************************)

\* What a full table gives up is older than the newest.
LEMMA NewestStays ==
  ASSUME NEW T, IsFiniteSet(DOMAIN T), NEW ip \in DOMAIN T, NEW seen,
         \A y \in DOMAIN T : seen[y] \in Nat /\ (y # ip => seen[y] < seen[ip]),
         NEW U \in enforceMaxSizeBatch(T, ProfMax, ProfHeadroom, seen)
  PROVE  /\ ip \in DOMAIN U /\ IsFiniteSet(DOMAIN U)
         /\ \A x \in DOMAIN U : x \in DOMAIN T /\ U[x] = T[x]
<1>1. PICK size \in Nat : size = Cardinality(DOMAIN T)
  BY FS_CardinalityType
<1>2. PICK over : over = overflow(size, ProfMax, ProfHeadroom)
  OBVIOUS
<1>3. size >= 1
  BY <1>1, FS_EmptySet
<1>4. over \in Nat /\ over < size
  <2>1. PICK max \in Nat \ {0}, h \in Nat : max = ProfMax /\ h = ProfHeadroom /\ h >= 2
    BY ProfilesAssumption
  <2>2. PICK q \in Nat : q = max \div h
    BY <2>1
  <2>3. h * q <= max
    BY <2>1, <2>2
  <2>4. 2 * q <= h * q
    BY <2>1
  <2>5. q < max
    <3>1. PICK m \in Nat : m = h * q
      BY <2>1
    <3> QED BY <2>1, <2>3, <2>4, <3>1
  <2>6. over = IF size <= max THEN 0 ELSE size - max + q
    BY <1>2, <2>1, <2>2 DEF overflow
  <2> QED BY <1>3, <2>5, <2>6
<1>5. PICK n : n = Min({over, size})
  OBVIOUS
<1>6. n = over
  <2>1. {over, size} \in SUBSET Nat /\ {over, size} # {}
    BY <1>4
  <2>2. n \in {over, size} /\ n <= over
    BY <2>1, <1>5, SmallestOf
  <2> QED BY <2>2, <1>4
<1>7. PICK S \in kSubset(n, DOMAIN T) :
        /\ U = Restrict(T, DOMAIN T \ S)
        /\ \A x \in S, y \in DOMAIN T \ S : seen[x] <= seen[y]
  BY <1>1, <1>2, <1>5 DEF enforceMaxSizeBatch, removeOldestN
<1>8. S \subseteq DOMAIN T /\ Cardinality(S) = n
  BY <1>7 DEF kSubset
<1>9. S # DOMAIN T
  BY <1>1, <1>4, <1>6, <1>8
<1>10. ip \notin S
  <2> SUFFICES ASSUME ip \in S PROVE FALSE
    OBVIOUS
  <2>1. PICK y \in DOMAIN T : y \notin S
    BY <1>8, <1>9
  <2>2. seen[ip] <= seen[y] /\ seen[y] < seen[ip] /\ seen[y] \in Nat /\ seen[ip] \in Nat
    BY <1>7, <2>1
  <2> QED BY <2>2
<1>11. DOMAIN U = DOMAIN T \ S /\ \A x \in DOMAIN U : U[x] = T[x]
  BY <1>7 DEF Restrict
<1>12. IsFiniteSet(DOMAIN U)
  BY <1>11, FS_Subset
<1> QED BY <1>10, <1>11, <1>12

\* A remainder that wrapped any number of times shows the time that passed, or
\* differs from it by at least half of it.
LEMMA WrapShows ==
  ASSUME NEW f \in Nat, NEW n \in Nat, f <= n, NEW o \in Nat
  PROVE  LET delta == tsDelta((n + o) % ProfWrap, (f + o) % ProfWrap)
         IN /\ delta \in Int
            /\ delta = n - f \/ implausible(delta, n - f)
            /\ n - f < ProfWrap => delta = n - f
<1>1. PICK w \in Nat \ {0} : w = ProfWrap
  BY ProfilesAssumption
<1>2. PICK x \in Nat, y \in Nat : x = f + o /\ y = n + o
  OBVIOUS
<1>3. PICK a \in Nat, p \in Nat : a = x % w /\ a < w /\ x = w * p + a
  <2>1. x % w \in Nat /\ x \div w \in Nat /\ x % w < w /\ x = w * (x \div w) + (x % w)
    OBVIOUS
  <2> QED BY <2>1
<1>4. PICK b \in Nat, q \in Nat : b = y % w /\ b < w /\ y = w * q + b
  <2>1. y % w \in Nat /\ y \div w \in Nat /\ y % w < w /\ y = w * (y \div w) + (y % w)
    OBVIOUS
  <2> QED BY <2>1
<1>5. PICK t \in Nat : t = n - f
  OBVIOUS
<1>6. PICK k \in Int : (b >= a /\ k = q - p) \/ (~(b >= a) /\ k = q - p - 1)
  <2>1. q - p \in Int /\ q - p - 1 \in Int
    OBVIOUS
  <2> QED BY <2>1
<1>7. PICK d : d = tsDelta(b, a)
  OBVIOUS
<1>8. d \in Nat /\ d < w /\ d = IF b >= a THEN b - a ELSE b - a + w
  BY <1>1, <1>3, <1>4, <1>7 DEF tsDelta
<1>9. PICK m \in Int : m = w * k
  OBVIOUS
<1>10. t = d + m
  <2>1. PICK wp \in Int, wq \in Int : wp = w * p /\ wq = w * q
    OBVIOUS
  <2>2. w * (q - p) = wq - wp /\ w * (q - p - 1) = wq - wp - w
    BY <2>1
  <2>3. m = IF b >= a THEN wq - wp ELSE wq - wp - w
    BY <1>6, <1>9, <2>2
  <2>4. x = wp + a /\ y = wq + b
    BY <1>3, <1>4, <2>1
  <2>5. t = y - x
    BY <1>2, <1>5
  <2> QED BY <1>8, <2>3, <2>4, <2>5
<1>11. CASE k = 0
  <2>1. m = 0
    BY <1>9, <1>11
  <2>2. t = d
    BY <1>8, <1>10, <2>1
  <2> QED BY <1>1, <1>2, <1>3, <1>4, <1>5, <1>7, <1>8, <2>2
<1>12. CASE k >= 1
  <2>1. m >= w
    BY <1>9, <1>12
  <2>2. t >= w /\ t < m + m /\ t - d = m
    BY <1>8, <1>10, <2>1
  <2>3. implausible(d, t)
    <3>1. profAbs(d - t) = m
      BY <1>8, <1>10, <2>1 DEF profAbs
    <3> QED BY <2>1, <2>2, <3>1 DEF implausible, skewOver
  <2> QED BY <1>1, <1>2, <1>3, <1>4, <1>5, <1>7, <1>8, <2>2, <2>3
<1>13. CASE k < 0
  <2>1. w * k <= -w
    BY <1>13
  <2> QED BY <1>5, <1>8, <1>9, <1>10, <2>1
<1> QED BY <1>11, <1>12, <1>13

-----------------------------------------------------------------------------
ProfSkews ==
  [first : Nat, last : Nat, firstAt : Nat, lastAt : Nat, seq : Nat, obs : Nat,
   skew : [delta : Nat, time : Nat], changes : Nat]

\* What is kept of an address: seen by now, and of an honest one the time its
\* clock showed first and a skew that is none.
ProfSound(ip, p) ==
  /\ p \in ProfSkews /\ p.seq <= profOps /\ p.firstAt <= profNow /\ p.first < ProfWrap
  /\ Honest(ip) => /\ p.skew.delta = p.skew.time
                   /\ \A o \in ProfOffsets[ip] : p.first = (p.firstAt + o) % ProfWrap

ProfInv ==
  /\ profNow \in Nat /\ profOps \in Nat
  /\ IsFiniteSet(DOMAIN profSkew) /\ IsFiniteSet(DOMAIN profEnt)
  /\ \A ip \in DOMAIN profSkew : ip \in ProfIPs /\ ProfSound(ip, profSkew[ip])
  /\ \A ip \in DOMAIN profEnt : profEnt[ip].seq \in 0..profOps
  /\ ProfHonestSilent

\* A timestamp of an address, and what its profile becomes when it is new or reset.
LEMMA TimestampRange ==
  ASSUME ProfInv, NEW ip \in ProfIPs, NEW o \in ProfOffsets[ip]
  PROVE  /\ o \in Nat /\ (profNow + o) % ProfWrap \in Nat /\ (profNow + o) % ProfWrap < ProfWrap
         /\ Honest(ip) => \A p \in ProfOffsets[ip] : p = o
<1>1. PICK w \in Nat \ {0} : w = ProfWrap
  BY ProfilesAssumption
<1>2. o \in 0..(w - 1)
  BY <1>1, ProfilesAssumption
<1>3. PICK x \in Nat : x = profNow + o
  BY <1>2 DEF ProfInv
<1>4. x % w \in Nat /\ x % w < w
  OBVIOUS
<1>5. ASSUME Honest(ip) PROVE \A p \in ProfOffsets[ip] : p = o
  <2>1. PICK S : S = ProfOffsets[ip]
    OBVIOUS
  <2>2. IsFiniteSet(S)
    <3>1. IsFiniteSet(0..(w - 1))
      BY FS_Interval
    <3>2. S \subseteq 0..(w - 1)
      BY <1>1, <2>1, ProfilesAssumption
    <3> QED BY <3>1, <3>2, FS_Subset
  <2>3. Cardinality(S) = 1
    BY <1>5, <2>1 DEF Honest
  <2>4. \E off : S = {off}
    BY <2>2, <2>3, FS_Singleton
  <2> QED BY <2>1, <2>4
<1> QED BY <1>1, <1>2, <1>3, <1>4, <1>5

LEMMA NewSkewSound ==
  ASSUME ProfInv, NEW ip \in ProfIPs, NEW o \in ProfOffsets[ip], NEW changes \in Nat,
         NEW p, p = NewSkew((profNow + o) % ProfWrap, changes), profOps' = profOps + 1, profNow' = profNow
  PROVE  ProfSound(ip, p)' /\ p.seq = profOps'
<1>1. PICK ts \in Nat : ts = (profNow + o) % ProfWrap /\ ts < ProfWrap
  BY TimestampRange
<1>2. /\ p = [first |-> ts, last |-> ts, firstAt |-> profNow, lastAt |-> profNow, seq |-> profOps + 1,
               obs |-> 1, skew |-> [delta |-> 1, time |-> 1], changes |-> changes]
      /\ profNow \in Nat /\ profOps \in Nat
  BY <1>1 DEF NewSkew, NoSkew, ProfInv
<1>3. /\ p \in ProfSkews /\ p.seq = profOps + 1 /\ p.firstAt = profNow /\ p.first = ts
      /\ p.skew.delta = p.skew.time
  BY <1>2 DEF ProfSkews
<1>4. Honest(ip) => \A x \in ProfOffsets[ip] : ts = (profNow + x) % ProfWrap
  BY <1>1, TimestampRange
<1> QED BY <1>1, <1>2, <1>3, <1>4 DEF ProfSound, Honest

\* A skew that is none never differs from another that is none.
LEMMA NoSkewNoChange ==
  ASSUME NEW a \in [delta : Nat, time : Nat], NEW b \in [delta : Nat, time : Nat],
         a.delta = a.time, b.delta = b.time
  PROVE  ~skewChanged(a, b) /\ ~skewOver(a.delta, a.time, 10000)
<1>1. PICK t \in Nat, u \in Nat : t = a.time /\ u = b.time
  OBVIOUS
<1>2. a.delta - a.time = 0 /\ b.delta - b.time = 0
  BY <1>1
<1>3. 0 * u = 0 /\ 0 * t = 0
  BY <1>1
<1>4. PICK m \in Nat : m = 500 * t * u
  <2>1. PICK v \in Nat : v = 500 * t
    BY <1>1
  <2>2. v * u \in Nat
    BY <1>1
  <2> QED BY <2>1, <2>2
<1>5. profAbs(0) = 0
  BY DEF profAbs
<1>6. ~skewChanged(a, b)
  <2>1. skewChanged(a, b) <=> profAbs(0 * u - 0 * t) * 1000000 > m
    BY <1>1, <1>2, <1>4 DEF skewChanged
  <2>2. profAbs(0 * u - 0 * t) = 0
    BY <1>3, <1>5
  <2> QED BY <1>4, <2>1, <2>2
<1>7. ~skewOver(a.delta, a.time, 10000)
  BY <1>1, <1>2, <1>5 DEF skewOver
<1> QED BY <1>6, <1>7

\* What an observation leaves of a profile that was there.
ProfGoesOn(ip, p, n, E) ==
  /\ ProfSound(ip, n)' /\ n.seq = profOps'
  /\ \A s \in E : s.ip = ip /\ (Honest(ip) => s.kind \notin {"change", "skew"})
  /\ Honest(ip) /\ profNow - p.lastAt >= ProfResetGap /\ profNow - p.firstAt < ProfWrap
       => n.firstAt = p.firstAt

LEMMA KnownTimestamp ==
  ASSUME ProfInv, NEW ip \in ProfIPs, NEW o \in ProfOffsets[ip],
         ProcessTimestamp(ip, (profNow + o) % ProfWrap), ip \in DOMAIN profSkew
  PROVE  \E n : /\ profSkew' = [profSkew EXCEPT ![ip] = n]
                /\ ProfGoesOn(ip, profSkew[ip], n, profEmitted')
<1>1. PICK ts \in Nat : ts = (profNow + o) % ProfWrap
  BY TimestampRange
<1>2. PICK p \in ProfSkews : p = profSkew[ip]
  BY DEF ProfInv, ProfSound
<1>3. PICK time, delta : time = profNow - p.firstAt /\ delta = tsDelta(ts, p.first)
  OBVIOUS
<1>4. PICK q : q = [p EXCEPT !.obs = @ + 1, !.last = ts, !.lastAt = profNow, !.seq = profOps + 1]
  OBVIOUS
<1>5. PICK skew : skew = [delta |-> delta, time |-> time]
  OBVIOUS
<1>8. /\ profOps' = profOps + 1 /\ profNow' = profNow /\ profOps \in Nat /\ profNow \in Nat
      /\ p.firstAt \in Nat /\ p.firstAt <= profNow /\ p.first < ProfWrap /\ time \in Nat /\ p.changes \in Nat
      /\ Honest(ip) => p.skew.delta = p.skew.time /\ p.first = (p.firstAt + o) % ProfWrap
  BY <1>2, <1>3 DEF ProcessTimestamp, ProfInv, ProfSound, ProfSkews
<1>9. \/ /\ ts < p.last /\ profNow - p.lastAt < ProfResetGap
         /\ profSkew' = [profSkew EXCEPT ![ip] = NewSkew(ts, p.changes)] /\ profEmitted' = {}
      \/ profSkew' = [profSkew EXCEPT ![ip] = q] /\ profEmitted' = {}
      \/ /\ implausible(delta, time)
         /\ profSkew' = [profSkew EXCEPT ![ip] = NewSkew(ts, p.changes)] /\ profEmitted' = {}
      \/ /\ ~implausible(delta, time)
         /\ \E more \in {0, 1} :
              profSkew' = [profSkew EXCEPT ![ip] = [q EXCEPT !.skew = skew, !.changes = @ + more]]
         /\ \A s \in profEmitted' :
              /\ s.ip = ip
              /\ \/ s.kind = "change" /\ skewChanged(skew, p.skew)
                 \/ s.kind = "skew" /\ skewOver(delta, time, 10000)
  <2> DEFINE ts0 == (profNow + o) % ProfWrap
             p0 == profSkew[ip]
             time0 == profNow - p0.firstAt
             delta0 == tsDelta(ts0, p0.first)
             q0 == [p0 EXCEPT !.obs = @ + 1, !.last = ts0, !.lastAt = profNow, !.seq = profOps + 1]
             skew0 == [delta |-> delta0, time |-> time0]
             changed == skewChanged(skew0, p0.skew) /\ q0.obs >= ProfChangeObs /\ time0 >= ProfChangeTime
             anomalous == skewOver(delta0, time0, 10000) /\ q0.obs >= ProfAnomObs /\ time0 >= ProfAnomTime
             more0 == IF changed THEN 1 ELSE 0
             kinds == (IF changed THEN {"change"} ELSE {}) \cup (IF anomalous THEN {"skew"} ELSE {})
  <2>1. \/ /\ ts0 < p0.last /\ profNow - p0.lastAt < ProfResetGap
           /\ profSkew' = [profSkew EXCEPT ![ip] = NewSkew(ts0, p0.changes)] /\ profEmitted' = {}
        \/ profSkew' = [profSkew EXCEPT ![ip] = q0] /\ profEmitted' = {}
        \/ /\ implausible(delta0, time0)
           /\ profSkew' = [profSkew EXCEPT ![ip] = NewSkew(ts0, p0.changes)] /\ profEmitted' = {}
        \/ /\ ~implausible(delta0, time0)
           /\ profSkew' = [profSkew EXCEPT ![ip] = [q0 EXCEPT !.skew = skew0, !.changes = @ + more0]]
           /\ profEmitted' = {[ip |-> ip, kind |-> k] : k \in kinds}
    BY DEF ProcessTimestamp
  <2>2. /\ "change" \in kinds => skewChanged(skew0, p0.skew)
        /\ "skew" \in kinds => skewOver(delta0, time0, 10000)
        /\ \A k \in kinds : k \in {"change", "skew"}
    OBVIOUS
  <2>3. more0 \in {0, 1}
    OBVIOUS
  <2>4. ts = ts0 /\ p = p0
    BY <1>1, <1>2
  <2>5. time = time0 /\ delta = delta0
    BY <1>3, <2>4
  <2>6. q = q0 /\ skew = skew0
    BY <1>4, <1>5, <2>4, <2>5
  <2> HIDE DEF ts0, p0, time0, delta0, q0, skew0, changed, anomalous, more0, kinds
  <2>7. ASSUME profSkew' = [profSkew EXCEPT ![ip] = [q0 EXCEPT !.skew = skew0, !.changes = @ + more0]]
        PROVE  \E more \in {0, 1} :
                 profSkew' = [profSkew EXCEPT ![ip] = [q EXCEPT !.skew = skew, !.changes = @ + more]]
    BY <2>3, <2>6, <2>7
  <2>8. ASSUME profEmitted' = {[ip |-> ip, kind |-> k] : k \in kinds}, NEW s \in profEmitted'
        PROVE  /\ s.ip = ip
               /\ \/ s.kind = "change" /\ skewChanged(skew, p.skew)
                  \/ s.kind = "skew" /\ skewOver(delta, time, 10000)
    <3>1. PICK k \in kinds : s = [ip |-> ip, kind |-> k]
      BY <2>8
    <3> QED BY <2>2, <2>4, <2>5, <2>6, <3>1
  <2> QED BY <2>1, <2>4, <2>5, <2>6, <2>7, <2>8
<1>10. q \in ProfSkews /\ q.seq = profOps + 1 /\ q.firstAt = p.firstAt /\ q.first = p.first /\ q.skew = p.skew
  <2>1. q = [first |-> p.first, last |-> ts, firstAt |-> p.firstAt, lastAt |-> profNow,
             seq |-> profOps + 1, obs |-> p.obs + 1, skew |-> p.skew, changes |-> p.changes]
    BY <1>4 DEF ProfSkews
  <2>2. p.obs + 1 \in Nat /\ profOps + 1 \in Nat
    BY <1>2, <1>8 DEF ProfSkews
  <2> QED BY <1>1, <1>2, <1>8, <2>1, <2>2 DEF ProfSkews
<1>11. Honest(ip) => /\ delta \in Int
                     /\ (delta = time \/ implausible(delta, time))
                     /\ time < ProfWrap => delta = time
  BY <1>1, <1>3, <1>8, WrapShows, TimestampRange
<1>12. Honest(ip) => \A x \in ProfOffsets[ip] : x = o
  BY TimestampRange
<1>13. ProfSound(ip, q)'
  BY <1>8, <1>10, <1>12 DEF ProfSound, Honest
<1>14. \A n : n = NewSkew(ts, p.changes) => ProfSound(ip, n)' /\ n.seq = profOps'
  BY <1>1, <1>8, NewSkewSound
<1>15. Honest(ip) /\ time < ProfWrap => ~implausible(delta, time)
  <2> SUFFICES ASSUME Honest(ip), time < ProfWrap PROVE ~implausible(delta, time)
    OBVIOUS
  <2>1. delta = time /\ delta - time = 0
    BY <1>8, <1>11
  <2>2. profAbs(0) = 0
    BY DEF profAbs
  <2> QED BY <1>8, <2>1, <2>2 DEF implausible, skewOver
<1>16. CASE /\ ts < p.last /\ profNow - p.lastAt < ProfResetGap
            /\ profSkew' = [profSkew EXCEPT ![ip] = NewSkew(ts, p.changes)] /\ profEmitted' = {}
  <2>1. PICK n : n = NewSkew(ts, p.changes)
    OBVIOUS
  <2>2. ~(profNow - p.lastAt >= ProfResetGap)
    BY <1>2, <1>16, <1>8, ProfilesAssumption DEF ProfSkews
  <2> QED BY <1>2, <1>14, <1>16, <2>1, <2>2 DEF ProfGoesOn
<1>17. CASE profSkew' = [profSkew EXCEPT ![ip] = q] /\ profEmitted' = {}
  BY <1>2, <1>8, <1>10, <1>13, <1>17 DEF ProfGoesOn
<1>18. CASE /\ implausible(delta, time)
            /\ profSkew' = [profSkew EXCEPT ![ip] = NewSkew(ts, p.changes)] /\ profEmitted' = {}
  <2>1. PICK n : n = NewSkew(ts, p.changes)
    OBVIOUS
  <2> QED BY <1>2, <1>3, <1>14, <1>15, <1>18, <2>1 DEF ProfGoesOn
<1>19. CASE /\ ~implausible(delta, time)
            /\ \E more \in {0, 1} :
                 profSkew' = [profSkew EXCEPT ![ip] = [q EXCEPT !.skew = skew, !.changes = @ + more]]
            /\ \A s \in profEmitted' :
                 /\ s.ip = ip
                 /\ \/ s.kind = "change" /\ skewChanged(skew, p.skew)
                    \/ s.kind = "skew" /\ skewOver(delta, time, 10000)
  <2>1. PICK m \in Nat : profSkew' = [profSkew EXCEPT ![ip] = [q EXCEPT !.skew = skew, !.changes = m]]
    <3>1. PICK more \in {0, 1} :
            profSkew' = [profSkew EXCEPT ![ip] = [q EXCEPT !.skew = skew, !.changes = q.changes + more]]
      BY <1>19
    <3>2. q.changes + more \in Nat
      BY <1>10 DEF ProfSkews
    <3> QED BY <3>1, <3>2
  <2>2. delta \in Nat
    <3>1. PICK w \in Nat \ {0} : w = ProfWrap
      BY ProfilesAssumption
    <3>2. PICK f \in Nat : f = p.first
      BY <1>2 DEF ProfSkews
    <3>3. f < w
      BY <1>2, <3>1, <3>2 DEF ProfInv, ProfSound
    <3> QED BY <1>1, <1>3, <3>1, <3>2, <3>3 DEF tsDelta
  <2>3. skew \in [delta : Nat, time : Nat]
    BY <1>5, <1>8, <2>2
  <2>4. PICK n : n = [q EXCEPT !.skew = skew, !.changes = m]
    OBVIOUS
  <2>5. n \in ProfSkews /\ n.seq = profOps + 1 /\ n.firstAt = p.firstAt /\ n.first = p.first /\ n.skew = skew
    BY <1>10, <2>3, <2>4 DEF ProfSkews
  <2>6. Honest(ip) => skew.delta = skew.time
    BY <1>5, <1>11, <1>19
  <2>7. ProfSound(ip, n)'
    BY <1>8, <1>12, <2>5, <2>6 DEF ProfSound, Honest
  <2>8. Honest(ip) => profEmitted' = {}
    <3> SUFFICES ASSUME Honest(ip) PROVE profEmitted' = {}
      OBVIOUS
    <3>1. p.skew \in [delta : Nat, time : Nat] /\ p.skew.delta = p.skew.time
      BY <1>2, <1>8 DEF ProfSkews
    <3>2. ~skewChanged(skew, p.skew) /\ ~skewOver(skew.delta, skew.time, 10000)
      BY <2>3, <2>6, <3>1, NoSkewNoChange
    <3> QED BY <1>5, <1>19, <3>2
  <2>9. ProfGoesOn(ip, p, n, profEmitted')
    BY <1>8, <1>19, <2>5, <2>7, <2>8 DEF ProfGoesOn
  <2> QED BY <1>2, <2>1, <2>4, <2>9
<1> QED BY <1>9, <1>16, <1>17, <1>18, <1>19

\* What an observation does to the table: the address is in it with the latest
\* number, the others stay as they were or leave.
ProfTracks(ip) ==
  /\ ip \in DOMAIN profSkew' /\ profSkew'[ip].seq = profOps'
  /\ \A x \in DOMAIN profSkew' : x # ip => x \in DOMAIN profSkew /\ profSkew'[x] = profSkew[x]

LEMMA SoundStays ==
  ASSUME NEW ip, NEW p, ProfSound(ip, p), profOps \in Nat, profNow \in Nat,
         profOps' \in {profOps, profOps + 1}, profNow' \in {profNow, profNow + 1}
  PROVE  ProfSound(ip, p)'
<1>1. PICK a \in Nat, b \in Nat : a = p.seq /\ b = p.firstAt
  BY DEF ProfSound, ProfSkews
<1>2. p.seq <= profOps' /\ p.firstAt <= profNow'
  BY <1>1 DEF ProfSound
<1> QED BY <1>2 DEF ProfSound, Honest

LEMMA TimestampTracks ==
  ASSUME ProfInv, NEW ip \in ProfIPs, NEW o \in ProfOffsets[ip],
         ProcessTimestamp(ip, (profNow + o) % ProfWrap)
  PROVE  /\ ProfTracks(ip) /\ ProfInv'
         /\ ip \in DOMAIN profSkew => \E n : profSkew'[ip] = n /\ ProfGoesOn(ip, profSkew[ip], n, profEmitted')
<1>1. /\ profOps' = profOps + 1 /\ profNow' = profNow /\ profOps \in Nat /\ profNow \in Nat
      /\ IsFiniteSet(DOMAIN profSkew) /\ profEnt' = profEnt
  BY DEF ProcessTimestamp, ProfInv
<1>2. CASE ip \in DOMAIN profSkew
  <2>1. PICK n : /\ profSkew' = [profSkew EXCEPT ![ip] = n]
                 /\ ProfGoesOn(ip, profSkew[ip], n, profEmitted')
    BY <1>2, KnownTimestamp
  <2>2. /\ DOMAIN profSkew' = DOMAIN profSkew /\ profSkew'[ip] = n
        /\ \A x \in DOMAIN profSkew : x # ip => profSkew'[x] = profSkew[x]
    BY <1>2, <2>1
  <2>3. ProfTracks(ip)
    BY <1>2, <2>1, <2>2 DEF ProfTracks, ProfGoesOn
  <2>4. ProfHonestSilent'
    BY <2>1 DEF ProfGoesOn, ProfHonestSilent, Honest
  <2>5. ProfSound(ip, n)'
    BY <2>1 DEF ProfGoesOn
  <2>6. ASSUME NEW x \in DOMAIN profSkew PROVE x \in ProfIPs /\ ProfSound(x, profSkew[x])'
    <3>1. CASE x = ip
      BY <2>2, <2>5, <3>1 DEF ProfSound
    <3>2. CASE x # ip
      <4>1. x \in ProfIPs /\ ProfSound(x, profSkew[x]) /\ profSkew'[x] = profSkew[x]
        BY <2>2, <3>2 DEF ProfInv
      <4>2. PICK p : p = profSkew[x]
        OBVIOUS
      <4>3. ProfSound(x, p)'
        BY <1>1, <4>1, <4>2, SoundStays
      <4> QED BY <4>1, <4>2, <4>3 DEF ProfSound
    <3> QED BY <3>1, <3>2
  <2>7. ProfInv'
    BY <1>1, <2>2, <2>4, <2>6 DEF ProfInv
  <2> QED BY <1>2, <2>1, <2>2, <2>3, <2>7
<1>3. CASE ip \notin DOMAIN profSkew
  <2>1. PICK n : n = NewSkew((profNow + o) % ProfWrap, 0)
    OBVIOUS
  <2>2. PICK T : T = profPut(profSkew, ip, n)
    OBVIOUS
  <2>3. PICK seen : seen = [x \in DOMAIN profSkew \cup {ip} |->
                              IF x = ip THEN bornAt(profOps + 1) ELSE profSkew[x].seq]
    OBVIOUS
  <2>4. profSkew' \in enforceMaxSizeBatch(T, ProfMax, ProfHeadroom, seen) /\ profEmitted' = {}
    BY <1>3, <2>1, <2>2, <2>3 DEF ProcessTimestamp
  <2>5. /\ DOMAIN T = DOMAIN profSkew \cup {ip} /\ T[ip] = n
        /\ \A x \in DOMAIN profSkew : T[x] = profSkew[x]
    BY <1>3, <2>2 DEF profPut
  <2>6. IsFiniteSet(DOMAIN T)
    BY <1>1, <2>5, FS_AddElement
  <2>7. \A y \in DOMAIN T : seen[y] \in Nat /\ (y # ip => seen[y] < seen[ip])
    BY <1>1, <2>3, <2>5 DEF bornAt, ProfInv, ProfSound, ProfSkews
  <2>8. PICK U : U = profSkew'
    OBVIOUS
  <2>9. /\ ip \in DOMAIN U /\ IsFiniteSet(DOMAIN U)
        /\ \A x \in DOMAIN U : x \in DOMAIN T /\ U[x] = T[x]
    BY <2>4, <2>5, <2>6, <2>7, <2>8, NewestStays
  <2>10. ProfSound(ip, n)' /\ n.seq = profOps'
    BY <1>1, <2>1, NewSkewSound
  <2>11. ProfTracks(ip)
    BY <2>5, <2>8, <2>9, <2>10 DEF ProfTracks
  <2>12. ASSUME NEW x \in DOMAIN U PROVE x \in ProfIPs /\ ProfSound(x, profSkew[x])'
    <3>1. CASE x = ip
      BY <2>5, <2>8, <2>9, <2>10, <3>1 DEF ProfSound
    <3>2. CASE x # ip
      <4>1. x \in DOMAIN profSkew /\ profSkew'[x] = profSkew[x]
        BY <2>5, <2>8, <2>9, <3>2
      <4>2. PICK p : p = profSkew[x]
        OBVIOUS
      <4>3. x \in ProfIPs /\ ProfSound(x, p)'
        BY <1>1, <4>1, <4>2, SoundStays DEF ProfInv
      <4> QED BY <4>1, <4>2, <4>3 DEF ProfSound
    <3> QED BY <3>1, <3>2
  <2>13. ProfHonestSilent'
    BY <2>4 DEF ProfHonestSilent
  <2>14. ProfInv'
    BY <1>1, <2>8, <2>9, <2>12, <2>13 DEF ProfInv
  <2> QED BY <1>3, <2>11, <2>14
<1> QED BY <1>2, <1>3

LEMMA EntropyTracks ==
  ASSUME ProfInv, NEW ip \in ProfIPs, NEW score, ProcessEntropy(ip, score)
  PROVE  /\ ip \in DOMAIN profEnt' /\ profEnt'[ip].seq = profOps'
         /\ profSkew' = profSkew /\ ProfInv'
<1>1. /\ profOps' = profOps + 1 /\ profNow' = profNow /\ profOps \in Nat /\ profNow \in Nat
      /\ IsFiniteSet(DOMAIN profEnt) /\ profSkew' = profSkew
      /\ \A x \in DOMAIN profEnt : profEnt[x].seq \in 0..profOps
  BY DEF ProcessEntropy, ProfInv
<1>2. PICK fresh : fresh = [obs |-> 0, low |-> 0, high |-> 0, at |-> profNow, seq |-> profOps + 1]
  OBVIOUS
<1>3. PICK T : T = IF ip \notin DOMAIN profEnt THEN profPut(profEnt, ip, fresh) ELSE profEnt
  OBVIOUS
<1>4. PICK seen : seen = [x \in DOMAIN T |-> IF x = ip THEN bornAt(profOps + 1) ELSE T[x].seq]
  OBVIOUS
<1>5. PICK p : p = [T[ip] EXCEPT !.obs = @ + 1, !.at = profNow, !.seq = profOps + 1,
                         !.low = @ + IF lowEntropy(score) THEN 1 ELSE 0,
                         !.high = @ + IF highEntropy(score) THEN 1 ELSE 0]
  OBVIOUS
<1>6. PICK U \in (IF ip \notin DOMAIN profEnt THEN enforceMaxSizeBatch(T, ProfMax, ProfHeadroom, seen) ELSE {T}) :
        profEnt' = IF ip \in DOMAIN U THEN [U EXCEPT ![ip] = p] ELSE U
  BY <1>2, <1>3, <1>4, <1>5 DEF ProcessEntropy
<1>7. /\ ip \in DOMAIN T /\ IsFiniteSet(DOMAIN T)
      /\ \A x \in DOMAIN T : x # ip => x \in DOMAIN profEnt /\ T[x] = profEnt[x]
  <2>1. CASE ip \in DOMAIN profEnt
    BY <1>1, <1>3, <2>1
  <2>2. CASE ip \notin DOMAIN profEnt
    <3>1. T = profPut(profEnt, ip, fresh)
      BY <1>3, <2>2
    <3>2. /\ DOMAIN T = DOMAIN profEnt \cup {ip}
          /\ \A x \in DOMAIN T : x # ip => x \in DOMAIN profEnt /\ T[x] = profEnt[x]
      BY <3>1 DEF profPut
    <3>3. IsFiniteSet(DOMAIN T)
      BY <1>1, <3>2, FS_AddElement
    <3> QED BY <3>2, <3>3
  <2> QED BY <2>1, <2>2
<1>8. /\ ip \in DOMAIN U /\ IsFiniteSet(DOMAIN U)
      /\ \A x \in DOMAIN U : x \in DOMAIN T /\ U[x] = T[x]
  <2>1. CASE ip \in DOMAIN profEnt
    BY <1>6, <1>7, <2>1
  <2>2. CASE ip \notin DOMAIN profEnt
    <3>1. U \in enforceMaxSizeBatch(T, ProfMax, ProfHeadroom, seen)
      BY <1>6, <2>2
    <3>2. \A y \in DOMAIN T : seen[y] \in Nat /\ (y # ip => seen[y] < seen[ip])
      BY <1>1, <1>4, <1>7 DEF bornAt
    <3> QED BY <1>7, <3>1, <3>2, NewestStays
  <2> QED BY <2>1, <2>2
<1>9. profEnt' = [U EXCEPT ![ip] = p]
  BY <1>6, <1>8
<1>10. p.seq = profOps + 1
  <2>1. PICK t : t = T[ip]
    OBVIOUS
  <2>2. CASE ip \in DOMAIN profEnt
    <3>1. t = profEnt[ip]
      BY <1>3, <2>1, <2>2
    <3> QED BY <1>5, <2>1, <3>1
  <2>3. CASE ip \notin DOMAIN profEnt
    <3>1. t = fresh
      BY <1>3, <2>1, <2>3 DEF profPut
    <3> QED BY <1>2, <1>5, <2>1, <3>1
  <2> QED BY <2>2, <2>3
<1>11. \A x \in DOMAIN profEnt' : profEnt'[x].seq \in 0..(profOps + 1)
  BY <1>1, <1>7, <1>8, <1>9, <1>10
<1>12. ProfHonestSilent'
  <2>1. \A s \in profEmitted' : s.kind \in {"low", "high", "mixed"}
    BY DEF ProcessEntropy
  <2> QED BY <2>1 DEF ProfHonestSilent
<1>13. \A x \in DOMAIN profSkew : x \in ProfIPs /\ ProfSound(x, profSkew[x])'
  <2> SUFFICES ASSUME NEW x \in DOMAIN profSkew PROVE x \in ProfIPs /\ ProfSound(x, profSkew[x])'
    OBVIOUS
  <2>1. PICK q : q = profSkew[x]
    OBVIOUS
  <2>2. x \in ProfIPs /\ ProfSound(x, q)'
    BY <1>1, <2>1, SoundStays DEF ProfInv
  <2> QED BY <1>1, <2>1, <2>2 DEF ProfSound
<1>14. ProfInv'
  BY <1>1, <1>8, <1>9, <1>11, <1>12, <1>13 DEF ProfInv
<1> QED BY <1>1, <1>8, <1>9, <1>10, <1>14

LEMMA ProfilesInitial == ProfilesInit => ProfInv
<1> SUFFICES ASSUME ProfilesInit PROVE ProfInv
  OBVIOUS
<1>1. DOMAIN profSkew = {} /\ DOMAIN profEnt = {} /\ profEmitted = {} /\ profNow = 0 /\ profOps = 0
  BY DEF ProfilesInit
<1> QED BY <1>1, FS_EmptySet DEF ProfInv, ProfHonestSilent

LEMMA ProfAgeKeeps ==
  ASSUME ProfInv, profCleanup \/ profTick
  PROVE  /\ ProfInv' /\ profOps' = profOps
         /\ \A x \in DOMAIN profSkew' : x \in DOMAIN profSkew /\ profSkew'[x] = profSkew[x]
<1>1. /\ profOps' = profOps /\ profNow' \in {profNow, profNow + 1} /\ profEmitted' = {}
      /\ profOps \in Nat /\ profNow \in Nat
      /\ IsFiniteSet(DOMAIN profSkew) /\ IsFiniteSet(DOMAIN profEnt)
  BY DEF profCleanup, profTick, ProfInv
<1>2. \A x \in DOMAIN profSkew' : x \in DOMAIN profSkew /\ profSkew'[x] = profSkew[x]
  BY DEF profCleanup, profTick, removeEntriesOlderThan, Restrict
<1>3. \A x \in DOMAIN profEnt' : x \in DOMAIN profEnt /\ profEnt'[x] = profEnt[x]
  BY DEF profCleanup, profTick, removeEntriesOlderThan, Restrict
<1>4. IsFiniteSet(DOMAIN profSkew') /\ IsFiniteSet(DOMAIN profEnt')
  BY <1>1, <1>2, <1>3, FS_Subset
<1>5. ASSUME NEW x \in DOMAIN profSkew' PROVE x \in ProfIPs /\ ProfSound(x, profSkew[x])'
  <2>1. PICK p : p = profSkew[x]
    OBVIOUS
  <2>2. x \in ProfIPs /\ ProfSound(x, p)'
    BY <1>1, <1>2, <2>1, SoundStays DEF ProfInv
  <2> QED BY <1>2, <2>1, <2>2 DEF ProfSound
<1>6. ProfInv'
  BY <1>1, <1>3, <1>4, <1>5 DEF ProfInv, ProfHonestSilent
<1> QED BY <1>1, <1>2, <1>6

\* Every step keeps the profiles right, keeps the reference point of an honest
\* clock over one wraparound, and tracks what it observes.
LEMMA ProfilesStep ==
  ASSUME ProfInv, [ProfilesNext]_profileVars
  PROVE  /\ ProfInv'
         /\ \A ip \in DOMAIN profSkew \cap DOMAIN profSkew' :
              LET p == profSkew[ip]
              IN /\ Honest(ip) /\ profSkew'[ip] # p
                 /\ profNow - p.lastAt >= ProfResetGap /\ profNow - p.firstAt < ProfWrap
                 => profSkew'[ip].firstAt = p.firstAt
         /\ profOps' # profOps => \E ip \in ProfIPs :
              \/ ip \in DOMAIN profSkew' /\ profSkew'[ip].seq = profOps'
              \/ ip \in DOMAIN profEnt' /\ profEnt'[ip].seq = profOps'
<1>1. CASE \E ip \in ProfIPs : \E o \in ProfOffsets[ip] : ProcessTimestamp(ip, (profNow + o) % ProfWrap)
  <2>0. PICK ip \in ProfIPs : \E o \in ProfOffsets[ip] : ProcessTimestamp(ip, (profNow + o) % ProfWrap)
    BY <1>1
  <2>1. PICK o \in ProfOffsets[ip] : ProcessTimestamp(ip, (profNow + o) % ProfWrap)
    BY <2>0
  <2>2. /\ ProfTracks(ip) /\ ProfInv'
        /\ ip \in DOMAIN profSkew => \E n : profSkew'[ip] = n /\ ProfGoesOn(ip, profSkew[ip], n, profEmitted')
    BY <2>1, TimestampTracks
  <2> QED BY <2>2 DEF ProfTracks, ProfGoesOn
<1>2. CASE \E ip \in ProfIPs, score \in ProfScores : ProcessEntropy(ip, score)
  BY <1>2, EntropyTracks
<1>3. CASE profCleanup \/ profTick
  BY <1>3, ProfAgeKeeps
<1>4. CASE UNCHANGED profileVars
  BY <1>4 DEF profileVars, ProfInv, ProfSound, ProfHonestSilent, Honest
<1> QED BY <1>1, <1>2, <1>3, <1>4 DEF ProfilesNext

\* For any clocks, wraparound, gaps, thresholds and sizes with a headroom of at
\* least two: a host whose clock keeps time is never reported for it, one
\* wraparound after a pause does not cost it its reference point, and an
\* address observed is tracked although the table is full (ProcessTimestamp,
\* ProcessEntropy, EnforceMaxSizeBatch).
THEOREM ProfilesAreFair == ProfilesSpec => ProfilesFair
<1>1. ProfilesInit => ProfInv
  BY ProfilesInitial
<1>2. ProfInv /\ [ProfilesNext]_profileVars => ProfInv'
  BY ProfilesStep
<1>3. ProfInv => ProfHonestSilent
  BY DEF ProfInv
<1>4. ProfInv /\ [ProfilesNext]_profileVars =>
        [\A ip \in DOMAIN profSkew \cap DOMAIN profSkew' :
           LET p == profSkew[ip]
           IN /\ Honest(ip) /\ profSkew'[ip] # p
              /\ profNow - p.lastAt >= ProfResetGap /\ profNow - p.firstAt < ProfWrap
              => profSkew'[ip].firstAt = p.firstAt]_profileVars
  BY ProfilesStep
<1>5. ProfInv /\ [ProfilesNext]_profileVars =>
        [profOps' # profOps => \E ip \in ProfIPs :
           \/ ip \in DOMAIN profSkew' /\ profSkew'[ip].seq = profOps'
           \/ ip \in DOMAIN profEnt' /\ profEnt'[ip].seq = profOps']_profileVars
  BY ProfilesStep
<1> QED
  BY <1>1, <1>2, <1>3, <1>4, <1>5, PTL
  DEF ProfilesSpec, ProfilesFair, ProfSurvivesWrap, ProfNewcomerTracked
=============================================================================
