------------------------------- MODULE RateLimit -------------------------------
(***************************************************************************)
(* The analyzer's token-bucket limiter (pkg/ratelimit/limiter.go).  A      *)
(* request looks its bucket up under the read lock, inserts one under the  *)
(* write lock when there is none, and spends a token under the bucket's    *)
(* own lock: between these steps the bucket may be evicted, cleaned up or  *)
(* given another rate.  A bucket keeps its identity after it has left the  *)
(* table, since a request may still hold it.                               *)
(*                                                                         *)
(* cleanup and evictOldestLocked hold the limiter's lock throughout; a     *)
(* token spent between their look at a bucket and its removal is the same  *)
(* as one spent after the removal, so each is one step.                    *)
(***************************************************************************)
EXTENDS Integers, FiniteSets, FiniteSetsExt, Functions, Sequences

CONSTANTS
  RLRequests,    \* concurrent callers of Allow
  RLKeys,        \* RLKeys["ip"], RLKeys["asn"]: the keys of each table
  RLUnknown,     \* UnknownASN, and no ASN at all
  RLBurst,       \* burst capacity
  RLRates,       \* rates an operator may set, the first one included
  RLSettable,    \* the tables whose rate an operator changes
  RLRate0,       \* configured rate
  RLMaxEntries,  \* maxIPLimiters, maxASNLimiters
  RLSample,      \* evictionSampleSize
  RLMaxAge,      \* maxAge
  RLMaxTime,     \* bound of the model: the clock
  RLMaxBuckets,  \* bound of the model: buckets created
  RLMaxCalls     \* bound of the model: calls of Allow

RLKinds == {"ip", "asn"}

ASSUME RateLimitAssumption ==
  /\ DOMAIN RLKeys = RLKinds /\ RLUnknown \notin RLKeys["asn"]
  /\ RLBurst \in Nat \ {0} /\ RLRates \subseteq Nat /\ RLRate0 \in RLRates
  /\ RLMaxEntries \in Nat \ {0} /\ RLSample \in Nat \ {0} /\ RLSettable \subseteq RLKinds

VARIABLES
  rlTable,   \* rlTable[kind]: ipLimiters, asnLimiters
  rlBucket,  \* every bucket made: its key, tokens, rate and lastSeen
  rlRate,    \* ipRate, asnRate
  rlReq,     \* rlReq[r]: where the call is, and the bucket it holds
  rlNow,     \* the clock
  rlCalls,   \* calls of Allow so far
  rlCredit,  \* history: rlCredit[b], what b's rate has earned it since it was made
  rlSpent    \* history: rlSpent[b], tokens b gave out

rateLimitVars == <<rlTable, rlBucket, rlRate, rlReq, rlNow, rlCalls, rlCredit, rlSpent>>

RLIdle == [pc |-> "idle"]

RateLimitInit ==
  /\ rlTable = [kind \in RLKinds |-> <<>>]
  /\ rlBucket = <<>>
  /\ rlRate = [kind \in RLKinds |-> RLRate0]
  /\ rlReq = [r \in RLRequests |-> RLIdle]
  /\ rlNow = 0 /\ rlCalls = 0 /\ rlCredit = <<>> /\ rlSpent = <<>>

-----------------------------------------------------------------------------
\* Tokens of b once its elapsed time is credited at its own rate.
refilled(b) == Min({b.tokens + (rlNow - b.seen) * b.rate, RLBurst})

\* Allow(ip, asn): the address first, the ASN only when it passed.
Allow(r) ==
  /\ rlReq[r].pc = "idle" /\ rlCalls < RLMaxCalls
  /\ rlCalls' = rlCalls + 1
  /\ \E ip \in RLKeys["ip"], asn \in RLKeys["asn"] \cup {RLUnknown} :
       rlReq' = [rlReq EXCEPT ![r] = [pc |-> "lookup", kind |-> "ip", key |-> ip, asn |-> asn]]
  /\ UNCHANGED <<rlTable, rlBucket, rlRate, rlNow, rlCredit, rlSpent>>

\* The call goes on with the bucket it found or made.
withBucket(q, id) == [pc |-> "take", kind |-> q.kind, key |-> q.key, asn |-> q.asn, bucket |-> id]

\* The fast path reads the table.
lookupLimiter(r) ==
  LET q == rlReq[r]
      T == rlTable[q.kind]
  IN /\ q.pc = "lookup"
     /\ rlReq' = [rlReq EXCEPT ![r] =
                    IF q.key \in DOMAIN T THEN withBucket(q, T[q.key])
                    ELSE [q EXCEPT !.pc = "insert"]]
     /\ UNCHANGED <<rlCalls, rlTable, rlBucket, rlRate, rlNow, rlCredit, rlSpent>>

\* Mutant: the table is not looked at again under the write lock.
presentOnFastPath(kind, key) == FALSE

\* The second look, under the write lock.
present(kind, key) == key \in DOMAIN rlTable[kind]

\* A full table loses the oldest of a sample of its entries.
evicted(T) ==
  LET size == Cardinality(DOMAIN T)
      samples == kSubset(Min({RLSample, size}), DOMAIN T)
  IN IF size < RLMaxEntries THEN {T}
     ELSE {Restrict(T, DOMAIN T \ {k}) :
             k \in {o \in DOMAIN T : \E S \in samples :
                      /\ o \in S
                      /\ \A x \in S : rlBucket[T[o]].seen <= rlBucket[T[x]].seen}}

putLimiter(T, key, b) == [k \in DOMAIN T \cup {key} |-> IF k = key THEN b ELSE T[k]]

\* Under the write lock: the bucket somebody else put there, or a new one.
insertLimiter(r) ==
  LET q == rlReq[r]
      b == Len(rlBucket) + 1
  IN /\ q.pc = "insert"
     /\ \/ /\ present(q.kind, q.key)
           /\ rlReq' = [rlReq EXCEPT ![r] = withBucket(q, rlTable[q.kind][q.key])]
           /\ UNCHANGED <<rlTable, rlBucket, rlCredit, rlSpent>>
        \/ /\ ~present(q.kind, q.key) /\ b <= RLMaxBuckets
           /\ \E T \in evicted(rlTable[q.kind]) :
                rlTable' = [rlTable EXCEPT ![q.kind] = putLimiter(T, q.key, b)]
           /\ rlBucket' = Append(rlBucket, [kind |-> q.kind, key |-> q.key, tokens |-> RLBurst,
                                            rate |-> rlRate[q.kind], seen |-> rlNow])
           /\ rlReq' = [rlReq EXCEPT ![r] = withBucket(q, b)]
           /\ rlCredit' = Append(rlCredit, RLBurst) /\ rlSpent' = Append(rlSpent, 0)
     /\ UNCHANGED <<rlRate, rlNow, rlCalls>>

\* TokenBucket.Allow: refill, and take a token if there is a whole one.  An
\* address that passes goes on to its ASN, unless that is not known.
takeToken(r) ==
  LET q == rlReq[r]
      b == rlBucket[q.bucket]
      allowed == refilled(b) >= 1
  IN /\ q.pc = "take"
     /\ rlBucket' = [rlBucket EXCEPT ![q.bucket] =
                       [b EXCEPT !.tokens = refilled(b) - IF allowed THEN 1 ELSE 0,
                                 !.seen = rlNow]]
     /\ rlSpent' = [rlSpent EXCEPT ![q.bucket] = @ + IF allowed THEN 1 ELSE 0]
     /\ rlReq' = [rlReq EXCEPT ![r] =
                    IF allowed /\ q.kind = "ip" /\ q.asn # RLUnknown
                    THEN [pc |-> "lookup", kind |-> "asn", key |-> q.asn, asn |-> q.asn]
                    ELSE RLIdle]
     /\ UNCHANGED <<rlCalls, rlTable, rlRate, rlNow, rlCredit>>

\* setRate settles the bucket at its old rate first.
setRate(b, rate) == [b EXCEPT !.tokens = refilled(b), !.seen = rlNow, !.rate = rate]

tracked(kind) == Range(rlTable[kind])

\* SetIPRate, SetASNRate: the limiter's rate and every tracked bucket's.
SetRate(kind, rate) ==
  /\ rate # rlRate[kind]
  /\ rlRate' = [rlRate EXCEPT ![kind] = rate]
  /\ rlBucket' = [b \in DOMAIN rlBucket |->
                    IF b \in tracked(kind) THEN setRate(rlBucket[b], rate) ELSE rlBucket[b]]
  /\ UNCHANGED <<rlCalls, rlTable, rlReq, rlNow, rlCredit, rlSpent>>

\* cleanup drops the buckets not used for maxAge, from both tables.
cleanup ==
  LET fresh(kind) == {k \in DOMAIN rlTable[kind] :
                        rlBucket[rlTable[kind][k]].seen >= rlNow - RLMaxAge}
  IN /\ \E kind \in RLKinds : fresh(kind) # DOMAIN rlTable[kind]
     /\ rlTable' = [kind \in RLKinds |-> Restrict(rlTable[kind], fresh(kind))]
     /\ UNCHANGED <<rlCalls, rlBucket, rlRate, rlReq, rlNow, rlCredit, rlSpent>>

rlTick ==
  /\ rlNow < RLMaxTime
  /\ rlNow' = rlNow + 1
  /\ rlCredit' = [b \in DOMAIN rlCredit |-> rlCredit[b] + rlBucket[b].rate]
  /\ UNCHANGED <<rlCalls, rlTable, rlBucket, rlRate, rlReq, rlSpent>>

RateLimitNext ==
  \/ \E r \in RLRequests : Allow(r) \/ lookupLimiter(r) \/ insertLimiter(r) \/ takeToken(r)
  \/ \E kind \in RLSettable, rate \in RLRates : SetRate(kind, rate)
  \/ cleanup \/ rlTick

RateLimitSpec == RateLimitInit /\ [][RateLimitNext]_rateLimitVars

-----------------------------------------------------------------------------
(* Properties. *)

\* Neither table grows past its cap, however many keys race to be inserted.
RLTableBounded ==
  \A kind \in RLKinds : Cardinality(DOMAIN rlTable[kind]) <= RLMaxEntries

\* A bucket never gives out more than its burst and what its rates earned it
\* while they were in force: a rate change is not paid retroactively.
RLNoOverdraft ==
  \A b \in DOMAIN rlBucket : rlSpent[b] + rlBucket[b].tokens <= rlCredit[b]

\* A rate change reaches every tracked key, also one inserted meanwhile.
RLRateCurrent ==
  \A kind \in RLKinds : \A b \in Range(rlTable[kind]) : rlBucket[b].rate = rlRate[kind]

\* Two first requests of one key share a bucket: a tracked bucket is never
\* replaced by a full one.
RLKeepsBucket ==
  [][\A kind \in RLKinds : \A k \in DOMAIN rlTable[kind] \cap DOMAIN rlTable'[kind] :
       rlTable'[kind][k] = rlTable[kind][k]]_rateLimitVars

\* Every key has one bucket, at the rate in force, that gives out no more than
\* it earned, in a table within its cap, however first requests, eviction and
\* rate changes meet (AllowIP, AllowASN, SetIPRate, cleanup).
LimitsHold ==
  /\ [](RLTableBounded /\ RLNoOverdraft /\ RLRateCurrent)
  /\ RLKeepsBucket
=============================================================================
