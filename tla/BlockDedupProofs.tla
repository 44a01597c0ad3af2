--------------------------- MODULE BlockDedupProofs ---------------------------
(***************************************************************************)
(* Proofs about the analyzer's block command plane, for any number of      *)
(* streams, broadcasters and sources, any TTL, any limits and any choice   *)
(* of flags.                                                               *)
(***************************************************************************)
EXTENDS BlockDedup, FiniteSetTheorems, SequenceTheorems, WellFoundedInduction, TLAPS

-----------------------------------------------------------------------------
(***************************************************************************)
(* The inductive invariant.                                                *)
(***************************************************************************)

\* The values of the variables, the reservations and the decisions in progress
\* aside.
PlaneTyped ==
  /\ now \in 1..MaxTime
  /\ conn \in [Streams -> {"new", "open", "ending", "gone"}]
  /\ keySeq \in Nat
  /\ key \in [Streams -> 0..keySeq]
  /\ role \in [Streams -> Roles]
  /\ stopped \in BOOLEAN
  /\ evidence \in [Sources -> Time]
  /\ swept \in Time
  /\ inflight \subseteq [src : Sources, to : Streams]
  /\ fanout \in [Streams -> Seq(Item)]
  /\ inHand \in [Streams -> Seq(Item)]
  /\ worker \in [Streams -> {"none", "run", "draining", "done"}]
  /\ issued \in [Sources -> [Streams -> Time]]
  /\ got \in [Sources -> [Streams -> Time]]
  /\ decisions \in 0..MaxDecisions

OpsTyped == DOMAIN op = Procs /\ \A p \in Procs : IsOp(op[p])

\* A stream has its key from registration on, and no two share one.
KeysUnique ==
  /\ \A s \in Streams : conn[s] = "new" <=> key[s] = 0
  /\ \A s, u \in Streams : key[s] = key[u] /\ key[s] # 0 => s = u

\* What a decision in progress addresses: streams that did register, and for a
\* Broadcast every stream that is still registered and was registered before
\* one of its recipients.
DecisionsSound ==
  \A p \in Procs :
    /\ p \in Broadcasters => op[p].pc \in {"idle", "reserve"}
    /\ p \in Streams /\ op[p].pc # "idle" => key[p] # 0
    /\ op[p].pc = "verdict" => op[p].excluded = {}
    /\ op[p].pc = "reserve" =>
         /\ \A s \in op[p].targets \cup op[p].excluded : key[s] # 0
         /\ op[p].scope = "broadcast" <=> p \in Broadcasters
         /\ op[p].scope = "broadcast" =>
              \A s \in Registered, u \in op[p].targets :
                 key[s] <= key[u] => s \in op[p].targets \cup op[p].excluded

\* The fan-out worker starts with its stream, stops only once that
\* has ended, and has nothing in hand then.
WorkersSound ==
  \A s \in Streams :
    /\ worker[s] # "none" => conn[s] # "new"
    /\ worker[s] \in {"draining", "done"} => conn[s] \in {"ending", "gone"}
    /\ inHand[s] # << >> => worker[s] = "run"
    /\ Len(inHand[s]) <= 1
    /\ worker[s] = "done" => fanout[s] = << >>

\* No decision is recorded ahead of the clock.
IssuedInPast == \A x \in Sources, s \in Streams : issued[x][s] <= now

\* What a mark stands for, the clock aside.
MarkHolds(m, k) == m.at # 0 /\ k <= m.upTo /\ k \notin m.skip

\* The Broadcast entries of a reservation, and their count.
BcastKeys(r) == {k \in DOMAIN r.sent : r.sent[k].broadcast}
CountExact(r) == r.bcastEntries = Cardinality(BcastKeys(r)) /\ r.bcastEntries <= MaxSent

\* An entry, and a mark for a connected stream, carry the time of the last
\* decision that addressed the stream.
TimesExact(r, x) ==
  \A s \in Streams :
    /\ key[s] \in DOMAIN r.sent => r.sent[key[s]].at = issued[x][s]
    /\ s \in Registered /\ MarkHolds(r.bcast, key[s]) => issued[x][s] = r.bcast.at

\* The stream has the block of the last decision that addressed it.
Delivered(x, s) == got[x][s] # 0 /\ got[x][s] >= issued[x][s]

\* A goroutine of Broadcast is about to send the block of x to s.
Sending(x, s) == [src |-> x, to |-> s] \in inflight

\* A block of x reserved at time t that is on its way through the queue of s.
Queued(x, s, t) ==
  \/ \E i \in DOMAIN fanout[s] : fanout[s][i].src = x /\ fanout[s][i].at = t
  \/ \E i \in DOMAIN inHand[s] : inHand[s][i].src = x /\ inHand[s][i].at = t
  \/ \E p \in Streams : /\ op[p].pc = "send" /\ op[p].src = x
                        /\ s \in op[p].todo /\ op[p].at = t

\* What stands for an open stream is delivered or on its way: a Broadcast's
\* block with a goroutine of its own, any other with the very item whose
\* failure would release the entry.
BlocksCarried(r, x) ==
  \A s \in Streams : conn[s] = "open" =>
    /\ MarkHolds(r.bcast, key[s]) => Delivered(x, s) \/ Sending(x, s)
    /\ key[s] \in DOMAIN r.sent =>
         \/ Delivered(x, s)
         \/ r.sent[key[s]].broadcast /\ Sending(x, s)
         \/ ~r.sent[key[s]].broadcast /\ Queued(x, s, r.sent[key[s]].at)

ReservationSound(r, x) ==
  /\ IsReservation(r)
  /\ CountExact(r)
  /\ TimesExact(r, x)
  /\ BlocksCarried(r, x)

BlockDedupInv ==
  /\ PlaneTyped
  /\ OpsTyped
  /\ KeysUnique
  /\ DecisionsSound
  /\ WorkersSound
  /\ IssuedInPast
  /\ DOMAIN recentBlocks = Sources
  /\ \A x \in Sources : ReservationSound(recentBlocks[x], x)

-----------------------------------------------------------------------------
(***************************************************************************)
(* The operators on reservations.                                          *)
(***************************************************************************)

\* The largest of some bounded numbers is one of them.
LEMMA MaxOfBounded ==
  ASSUME NEW n \in Nat, NEW S \in SUBSET (0..n), S # {}
  PROVE  Max(S) \in S /\ \A y \in S : y <= Max(S)
<1> DEFINE T == {n - y : y \in S}
<1>1. T \subseteq Nat /\ T # {}
  <2>1. \A y \in S : n - y \in Nat
    OBVIOUS
  <2> QED BY <2>1
<1>2. PICK d \in T : \A e \in T : ~ (<<e, d>> \in OpToRel(<, Nat))
  BY <1>1, WFMin, NatLessThanWellFounded
<1>3. \A e \in T : e >= d
  <2> SUFFICES ASSUME NEW e \in T, e < d PROVE FALSE
    BY <1>1
  <2> HIDE DEF T
  <2>1. e \in Nat /\ d \in Nat
    BY <1>1
  <2>2. <<e, d>> \in OpToRel(<, Nat)
    BY <2>1 DEF OpToRel
  <2> QED BY <1>2, <2>2
<1>4. PICK m \in S : d = n - m
  OBVIOUS
<1>5. \A y \in S : m >= y
  <2> TAKE y \in S
  <2>1. n - y >= d
    BY <1>3
  <2> QED BY <1>4, <2>1
<1>6. Max(S) \in S /\ \A y \in S : Max(S) >= y
  BY <1>5 DEF Max
<1> QED BY <1>6

\* The keys of a set of streams are no more than the streams.
LEMMA KeysBounded ==
  ASSUME NEW f, NEW S, IsFiniteSet(S), NEW K,
         \A k \in K : \E s \in S : k = f[s], \A s \in S : f[s] \in K
  PROVE  IsFiniteSet(K) /\ Cardinality(K) <= Cardinality(S)
<1> DEFINE g == [s \in S |-> f[s]]
<1>1. g \in [S -> K] /\ \A k \in K : \E s \in S : g[s] = k
  OBVIOUS
<1> HIDE DEF g
<1>2. g \in Surjection(S, K)
  BY <1>1 DEF Surjection
<1> QED BY <1>2, FS_Surjection

\* The Broadcast entries are finitely many.
LEMMA BcastKeysFinite ==
  ASSUME NEW r, IsReservation(r), keySeq \in Nat
  PROVE  /\ IsFiniteSet(BcastKeys(r)) /\ Cardinality(BcastKeys(r)) \in Nat
         /\ BcastKeys(r) \subseteq DOMAIN r.sent
         /\ DOMAIN r.sent \subseteq 1..keySeq
         /\ r.bcastEntries \in Int
<1>1. BcastKeys(r) \subseteq DOMAIN r.sent /\ DOMAIN r.sent \subseteq 1..keySeq
  BY DEF BcastKeys, IsReservation
<1>2. BcastKeys(r) \in SUBSET (1..keySeq) /\ IsFiniteSet(1..keySeq)
  BY <1>1, FS_Interval
<1>3. IsFiniteSet(BcastKeys(r)) /\ Cardinality(BcastKeys(r)) \in Nat
  BY <1>2, FS_Subset, FS_CardinalityType
<1> QED BY <1>1, <1>3 DEF IsReservation

\* deleteSent takes the entries out and keeps the count exact.
LEMMA DeleteSent ==
  ASSUME NEW r, IsReservation(r), CountExact(r), keySeq \in Nat,
         NEW K, MaxSent \in Nat
  PROVE  LET d == deleteSent(r, K)
         IN  /\ IsReservation(d) /\ CountExact(d)
             /\ DOMAIN d.sent = DOMAIN r.sent \ K
             /\ \A k \in DOMAIN d.sent : d.sent[k] = r.sent[k]
             /\ d.at = r.at /\ d.published = r.published /\ d.bcast = r.bcast
             /\ d.bcastEntries <= r.bcastEntries
<1> DEFINE d == deleteSent(r, K)
           gone == {k \in K \cap DOMAIN r.sent : r.sent[k].broadcast}
           rest == [k \in DOMAIN r.sent \ K |-> r.sent[k]]
<1>1. d = [at |-> r.at, published |-> r.published, sent |-> rest,
           bcastEntries |-> r.bcastEntries - Cardinality(gone), bcast |-> r.bcast]
  <2> DEFINE n == r.bcastEntries - Cardinality(gone)
  <2>1. r = [at |-> r.at, published |-> r.published, sent |-> r.sent,
             bcastEntries |-> r.bcastEntries, bcast |-> r.bcast]
    BY DEF IsReservation
  <2>2. d = [r EXCEPT !.sent = rest, !.bcastEntries = n]
    BY <2>1 DEF deleteSent
  <2> HIDE DEF d, rest, n
  <2>3. d = [at |-> r.at, published |-> r.published, sent |-> rest,
             bcastEntries |-> n, bcast |-> r.bcast]
    BY <2>1, <2>2
  <2> QED BY <2>3 DEF n
<1>2. /\ d.sent = rest /\ d.at = r.at /\ d.published = r.published /\ d.bcast = r.bcast
      /\ d.bcastEntries = r.bcastEntries - Cardinality(gone)
      /\ d = [at |-> d.at, published |-> d.published, sent |-> d.sent,
              bcastEntries |-> d.bcastEntries, bcast |-> d.bcast]
  BY <1>1
<1>3. DOMAIN rest = DOMAIN r.sent \ K /\ \A k \in DOMAIN rest : rest[k] = r.sent[k]
  OBVIOUS
<1>4. /\ r.sent \in [DOMAIN r.sent -> [at : 1..MaxTime, broadcast : BOOLEAN]]
      /\ DOMAIN r.sent \subseteq 1..keySeq
  BY DEF IsReservation
<1>5. rest \in [DOMAIN rest -> [at : 1..MaxTime, broadcast : BOOLEAN]]
  BY <1>3, <1>4
<1>6. /\ IsFiniteSet(BcastKeys(r)) /\ Cardinality(BcastKeys(r)) \in Nat
      /\ r.bcastEntries \in Int
  BY BcastKeysFinite
<1>7. /\ IsFiniteSet(gone) /\ Cardinality(gone) \in Nat
      /\ Cardinality(gone) <= Cardinality(BcastKeys(r))
  <2>1. gone \in SUBSET BcastKeys(r)
    BY DEF BcastKeys
  <2> QED BY <1>6, <2>1, FS_Subset, FS_CardinalityType
<1>8. Cardinality(BcastKeys(d)) = Cardinality(BcastKeys(r)) - Cardinality(gone)
  <2> DEFINE left == BcastKeys(d)
             all == BcastKeys(r)
  <2>1. /\ \A k : k \in left <=> k \in DOMAIN r.sent /\ k \notin K /\ r.sent[k].broadcast
        /\ \A k : k \in all <=> k \in DOMAIN r.sent /\ r.sent[k].broadcast
        /\ \A k : k \in gone <=> k \in DOMAIN r.sent /\ k \in K /\ r.sent[k].broadcast
    BY <1>2, <1>3 DEF BcastKeys
  <2>2. IsFiniteSet(all) /\ IsFiniteSet(gone) /\ Cardinality(gone) \in Nat
    BY <1>6, <1>7
  <2> HIDE DEF left, all, gone
  <2>3. all = left \cup gone /\ left \cap gone = {} /\ left \in SUBSET all
    BY <2>1
  <2>4. IsFiniteSet(left) /\ Cardinality(left) \in Nat
    BY <2>2, <2>3, FS_Subset, FS_CardinalityType
  <2>5. Cardinality(left \cup gone) = Cardinality(left) + Cardinality(gone) - Cardinality({})
    BY <2>2, <2>3, <2>4, FS_Union
  <2>6. Cardinality(all) = Cardinality(left) + Cardinality(gone) - 0
    BY <2>3, <2>5, FS_EmptySet
  <2>7. Cardinality(left) = Cardinality(all) - Cardinality(gone)
    BY <2>2, <2>4, <2>6
  <2> QED BY <2>7 DEF left, all, gone
<1> HIDE DEF d, gone, rest
<1>9. d.bcastEntries \in Int /\ d.bcastEntries <= r.bcastEntries
  BY <1>2, <1>6, <1>7
<1>10. CountExact(d)
  BY <1>2, <1>6, <1>7, <1>8, <1>9 DEF CountExact
<1>11. IsReservation(d)
  BY <1>2, <1>3, <1>4, <1>5, <1>9 DEF IsReservation
<1>12. DOMAIN d.sent = DOMAIN r.sent \ K /\ \A k \in DOMAIN d.sent : d.sent[k] = r.sent[k]
  BY <1>2, <1>3
<1> QED BY <1>2, <1>9, <1>10, <1>11, <1>12 DEF d

\* setSent enters the keys and keeps the count exact.
LEMMA SetSent ==
  ASSUME NEW r, IsReservation(r), CountExact(r), keySeq \in Nat, MaxSent \in Nat,
         NEW K \in SUBSET (1..keySeq), NEW t \in 1..MaxTime, NEW b \in BOOLEAN,
         NEW e, e = [at |-> t, broadcast |-> b],
         b => r.bcastEntries + Cardinality(K) <= MaxSent
  PROVE  LET d == setSent(r, K, t, b)
         IN  /\ IsReservation(d) /\ CountExact(d)
             /\ DOMAIN d.sent = DOMAIN r.sent \cup K
             /\ \A k \in K : d.sent[k] = e
             /\ \A k \in DOMAIN r.sent \ K : d.sent[k] = r.sent[k]
             /\ d.at = r.at /\ d.published = r.published /\ d.bcast = r.bcast
<1> DEFINE d == setSent(r, K, t, b)
           gone == {k \in K \cap DOMAIN r.sent : r.sent[k].broadcast}
           more == [k \in DOMAIN r.sent \cup K |->
                      IF k \in K THEN [at |-> t, broadcast |-> b] ELSE r.sent[k]]
           n == r.bcastEntries - Cardinality(gone) + (IF b THEN Cardinality(K) ELSE 0)
<1>1. d = [at |-> r.at, published |-> r.published, sent |-> more,
           bcastEntries |-> n, bcast |-> r.bcast]
  <2>1. r = [at |-> r.at, published |-> r.published, sent |-> r.sent,
             bcastEntries |-> r.bcastEntries, bcast |-> r.bcast]
    BY DEF IsReservation
  <2>2. d = [r EXCEPT !.sent = more, !.bcastEntries = n]
    BY <2>1 DEF setSent
  <2> HIDE DEF d, more, n
  <2> QED BY <2>1, <2>2
<1>2. /\ d.sent = more /\ d.at = r.at /\ d.published = r.published /\ d.bcast = r.bcast
      /\ d.bcastEntries = n
      /\ d = [at |-> d.at, published |-> d.published, sent |-> d.sent,
              bcastEntries |-> d.bcastEntries, bcast |-> d.bcast]
  <2> HIDE DEF d, more, n
  <2> QED BY <1>1
<1>3. /\ DOMAIN more = DOMAIN r.sent \cup K
      /\ \A k \in K : more[k] = [at |-> t, broadcast |-> b]
      /\ \A k \in DOMAIN r.sent \ K : more[k] = r.sent[k]
  OBVIOUS
<1>4. /\ r.sent \in [DOMAIN r.sent -> [at : 1..MaxTime, broadcast : BOOLEAN]]
      /\ DOMAIN r.sent \subseteq 1..keySeq
  BY DEF IsReservation
<1>5. more \in [DOMAIN more -> [at : 1..MaxTime, broadcast : BOOLEAN]]
  <2>1. \A k \in DOMAIN more : more[k] \in [at : 1..MaxTime, broadcast : BOOLEAN]
    BY <1>3, <1>4
  <2> QED BY <2>1
<1>6. /\ IsFiniteSet(BcastKeys(r)) /\ Cardinality(BcastKeys(r)) \in Nat
      /\ r.bcastEntries \in Int
  BY BcastKeysFinite
<1>7. IsFiniteSet(gone) /\ Cardinality(gone) \in Nat
  <2>1. gone \in SUBSET BcastKeys(r)
    BY DEF BcastKeys
  <2> QED BY <1>6, <2>1, FS_Subset, FS_CardinalityType
<1>8. IsFiniteSet(K) /\ Cardinality(K) \in Nat
  <2>1. IsFiniteSet(1..keySeq)
    BY FS_Interval
  <2> QED BY <2>1, FS_Subset, FS_CardinalityType
<1>9. Cardinality(BcastKeys(d)) = Cardinality(BcastKeys(r)) - Cardinality(gone)
                                    + (IF b THEN Cardinality(K) ELSE 0)
  <2> DEFINE new == BcastKeys(d)
             old == BcastKeys(r)
             left == old \ gone
  <2>1. /\ \A k : k \in new <=> \/ k \in K /\ b
                                \/ k \in DOMAIN r.sent /\ k \notin K /\ r.sent[k].broadcast
        /\ \A k : k \in old <=> k \in DOMAIN r.sent /\ r.sent[k].broadcast
        /\ \A k : k \in gone <=> k \in DOMAIN r.sent /\ k \in K /\ r.sent[k].broadcast
    BY <1>2, <1>3 DEF BcastKeys
  <2>2. IsFiniteSet(old) /\ IsFiniteSet(gone) /\ Cardinality(gone) \in Nat
    BY <1>6, <1>7
  <2> HIDE DEF new, old, gone
  <2>3. old = left \cup gone /\ left \cap gone = {} /\ left \in SUBSET old
    BY <2>1
  <2>4. IsFiniteSet(left) /\ Cardinality(left) \in Nat
    <3> HIDE DEF left
    <3> QED BY <2>2, <2>3, FS_Subset, FS_CardinalityType
  <2>5. /\ b => new = left \cup K /\ left \cap K = {}
        /\ ~b => new = left
    BY <2>1
  <2> HIDE DEF left
  <2>6. Cardinality(left \cup gone) = Cardinality(left) + Cardinality(gone) - Cardinality({})
    BY <2>2, <2>3, <2>4, FS_Union
  <2>7. Cardinality(old) = Cardinality(left) + Cardinality(gone) - 0
    BY <2>3, <2>6, FS_EmptySet
  <2>8. Cardinality(left) = Cardinality(old) - Cardinality(gone)
    BY <2>2, <2>4, <2>7
  <2>9. CASE b
    <3>1. Cardinality(left \cup K) = Cardinality(left) + Cardinality(K) - Cardinality({})
      BY <1>8, <2>4, <2>5, <2>9, FS_Union
    <3>2. Cardinality(new) = Cardinality(left) + Cardinality(K) - 0
      BY <2>5, <2>9, <3>1, FS_EmptySet
    <3>3. Cardinality(new) = Cardinality(old) - Cardinality(gone) + Cardinality(K)
      BY <1>8, <2>4, <2>8, <3>2
    <3> QED BY <2>9, <3>3 DEF new, old, gone
  <2>10. CASE ~b
    <3>1. Cardinality(new) = Cardinality(old) - Cardinality(gone) + 0
      BY <2>4, <2>5, <2>8, <2>10
    <3> QED BY <2>10, <3>1 DEF new, old, gone
  <2> QED BY <2>9, <2>10
<1> HIDE DEF d, gone, more
<1>10. n \in Int /\ n = Cardinality(BcastKeys(d)) /\ n <= MaxSent
  BY <1>6, <1>7, <1>8, <1>9 DEF CountExact
<1>11. CountExact(d)
  BY <1>2, <1>10 DEF CountExact
<1> HIDE DEF n
<1>12. IsReservation(d)
  BY <1>2, <1>3, <1>4, <1>5, <1>10 DEF IsReservation
<1>13. /\ DOMAIN d.sent = DOMAIN r.sent \cup K
       /\ \A k \in K : d.sent[k] = [at |-> t, broadcast |-> b]
       /\ \A k \in DOMAIN r.sent \ K : d.sent[k] = r.sent[k]
  BY <1>2, <1>3
<1> QED BY <1>2, <1>11, <1>12, <1>13 DEF d

\* Putting a mark on a reservation, or taking it off.
LEMMA SetMark ==
  ASSUME NEW r, IsReservation(r), CountExact(r), NEW m,
         m = [at |-> m.at, upTo |-> m.upTo, skip |-> m.skip],
         m.at \in Time, m.upTo \in 0..keySeq, m.skip \subseteq 1..keySeq
  PROVE  LET d == [r EXCEPT !.bcast = m]
         IN  /\ IsReservation(d) /\ CountExact(d)
             /\ d.sent = r.sent /\ d.at = r.at /\ d.published = r.published
             /\ d.bcast = m /\ d.bcastEntries = r.bcastEntries
<1> DEFINE d == [r EXCEPT !.bcast = m]
<1>1. r = [at |-> r.at, published |-> r.published, sent |-> r.sent,
           bcastEntries |-> r.bcastEntries, bcast |-> r.bcast]
  BY DEF IsReservation
<1>2. d = [at |-> r.at, published |-> r.published, sent |-> r.sent,
           bcastEntries |-> r.bcastEntries, bcast |-> m]
  BY <1>1
<1>3. /\ d.sent = r.sent /\ d.at = r.at /\ d.published = r.published
      /\ d.bcast = m /\ d.bcastEntries = r.bcastEntries
      /\ d = [at |-> d.at, published |-> d.published, sent |-> d.sent,
              bcastEntries |-> d.bcastEntries, bcast |-> d.bcast]
  <2> HIDE DEF d
  <2> QED BY <1>2
<1> HIDE DEF d
<1>4. IsReservation(d)
  BY <1>3 DEF IsReservation
<1>5. CountExact(d)
  BY <1>3 DEF CountExact, BcastKeys
<1> QED BY <1>3, <1>4, <1>5 DEF d

\* Stamping a reservation, and the scope it was published in.
LEMMA Stamp ==
  ASSUME NEW r, IsReservation(r), CountExact(r), NEW t \in 1..MaxTime, MaxTime \in Nat,
         NEW scope \in Scopes
  PROVE  /\ LET d == [r EXCEPT !.at = t]
            IN  /\ IsReservation(d) /\ CountExact(d)
                /\ d.sent = r.sent /\ d.bcast = r.bcast
         /\ LET d == [r EXCEPT !.published[scope] = t]
            IN  /\ IsReservation(d) /\ CountExact(d)
                /\ d.sent = r.sent /\ d.bcast = r.bcast
<1>1. r = [at |-> r.at, published |-> r.published, sent |-> r.sent,
           bcastEntries |-> r.bcastEntries, bcast |-> r.bcast]
  BY DEF IsReservation
<1>2. t \in Time /\ r.published \in [Scopes -> Time]
  BY DEF Time, IsReservation
<1>3. LET d == [r EXCEPT !.at = t]
      IN  /\ IsReservation(d) /\ CountExact(d)
          /\ d.sent = r.sent /\ d.bcast = r.bcast
  <2> DEFINE d == [r EXCEPT !.at = t]
  <2>1. d = [at |-> t, published |-> r.published, sent |-> r.sent,
             bcastEntries |-> r.bcastEntries, bcast |-> r.bcast]
    BY <1>1
  <2> HIDE DEF d
  <2>2. IsReservation(d)
    BY <1>2, <2>1 DEF IsReservation
  <2>3. CountExact(d)
    BY <2>1 DEF CountExact, BcastKeys
  <2> QED BY <2>1, <2>2, <2>3 DEF d
<1>4. LET d == [r EXCEPT !.published[scope] = t]
      IN  /\ IsReservation(d) /\ CountExact(d)
          /\ d.sent = r.sent /\ d.bcast = r.bcast
  <2> DEFINE d == [r EXCEPT !.published[scope] = t]
             q == [r.published EXCEPT ![scope] = t]
  <2>1. d = [at |-> r.at, published |-> q, sent |-> r.sent,
             bcastEntries |-> r.bcastEntries, bcast |-> r.bcast]
    BY <1>1
  <2>2. q \in [Scopes -> Time]
    BY <1>2
  <2> HIDE DEF d, q
  <2>3. IsReservation(d)
    BY <2>1, <2>2 DEF IsReservation
  <2>4. CountExact(d)
    BY <2>1 DEF CountExact, BcastKeys
  <2> QED BY <2>1, <2>3, <2>4 DEF d
<1> QED BY <1>3, <1>4

\* The mark that stands for nothing.
LEMMA NoMarkHolds ==
  /\ NoMark = [at |-> NoMark.at, upTo |-> NoMark.upTo, skip |-> NoMark.skip]
  /\ NoMark.at = 0 /\ NoMark.upTo = 0 /\ NoMark.skip = {}
  /\ \A k : ~MarkHolds(NoMark, k)
<1>1. NoMark.at = 0 /\ NoMark.upTo = 0 /\ NoMark.skip = {}
  BY DEF NoMark
<1>2. NoMark = [at |-> NoMark.at, upTo |-> NoMark.upTo, skip |-> NoMark.skip]
  BY DEF NoMark
<1> QED BY <1>1, <1>2 DEF MarkHolds

\* After withoutExpired everything left is younger than a TTL.
LEMMA WithoutExpired ==
  ASSUME NEW r, IsReservation(r), CountExact(r), keySeq \in Nat, MaxSent \in Nat,
         NEW t \in 1..MaxTime, MaxTime \in Nat, TTL \in Nat
  PROVE  LET d == withoutExpired(r, t)
         IN  /\ IsReservation(d) /\ CountExact(d)
             /\ DOMAIN d.sent \subseteq DOMAIN r.sent
             /\ \A k \in DOMAIN d.sent : d.sent[k] = r.sent[k] /\ t - d.sent[k].at < TTL
             /\ \/ d.bcast = NoMark
                \/ d.bcast = r.bcast /\ t - r.bcast.at < TTL
<1> DEFINE K == {k \in DOMAIN r.sent : t - r.sent[k].at >= TTL}
           c == deleteSent(r, K)
           d == withoutExpired(r, t)
<1>1. /\ IsReservation(c) /\ CountExact(c)
      /\ DOMAIN c.sent = DOMAIN r.sent \ K
      /\ \A k \in DOMAIN c.sent : c.sent[k] = r.sent[k]
      /\ c.bcast = r.bcast
  <2> HIDE DEF K
  <2> QED BY DeleteSent
<1>2. \A k \in DOMAIN r.sent : r.sent[k].at \in 1..MaxTime
  BY DEF IsReservation
<1>3. \A k \in DOMAIN r.sent \ K : t - r.sent[k].at < TTL
  BY <1>2
<1>4. d = IF t - c.bcast.at >= TTL THEN [c EXCEPT !.bcast = NoMark] ELSE c
  BY DEF withoutExpired
<1> HIDE DEF c, d, K
<1>5. c.bcast.at \in Int
  BY <1>1 DEF IsReservation, Time
<1>6. CASE t - c.bcast.at >= TTL
  <2>1. /\ IsReservation([c EXCEPT !.bcast = NoMark]) /\ CountExact([c EXCEPT !.bcast = NoMark])
        /\ [c EXCEPT !.bcast = NoMark].sent = c.sent /\ [c EXCEPT !.bcast = NoMark].bcast = NoMark
    <3>1. NoMark.at \in Time /\ NoMark.upTo \in 0..keySeq /\ NoMark.skip \subseteq 1..keySeq
      BY NoMarkHolds DEF Time
    <3> QED BY <1>1, <3>1, NoMarkHolds, SetMark
  <2> QED BY <1>1, <1>3, <1>4, <1>6, <2>1 DEF d
<1>7. CASE ~(t - c.bcast.at >= TTL)
  <2>1. t - r.bcast.at < TTL
    BY <1>1, <1>5, <1>7
  <2> QED BY <1>1, <1>3, <1>4, <1>7, <2>1 DEF d
<1> QED BY <1>6, <1>7

\* Starting over leaves the entries of single collectors, and no mark.
LEMMA StartOver ==
  ASSUME NEW r, IsReservation(r), CountExact(r), keySeq \in Nat, MaxSent \in Nat,
         MaxTime \in Nat
  PROVE  LET d == startOver(r)
         IN  /\ IsReservation(d) /\ CountExact(d)
             /\ DOMAIN d.sent \subseteq DOMAIN r.sent
             /\ \A k \in DOMAIN d.sent : d.sent[k] = r.sent[k]
             /\ d.bcast = NoMark
<1> DEFINE K == {k \in DOMAIN r.sent : r.sent[k].broadcast}
           c == deleteSent(r, K)
           d == startOver(r)
<1>1. /\ IsReservation(c) /\ CountExact(c)
      /\ DOMAIN c.sent = DOMAIN r.sent \ K
      /\ \A k \in DOMAIN c.sent : c.sent[k] = r.sent[k]
  <2> HIDE DEF K
  <2> QED BY DeleteSent
<1>2. d = [c EXCEPT !.bcast = NoMark]
  BY DEF startOver
<1> HIDE DEF c, d, K
<1>3. IsReservation(d) /\ CountExact(d) /\ d.sent = c.sent /\ d.bcast = NoMark
  <2>1. NoMark.at \in Time /\ NoMark.upTo \in 0..keySeq /\ NoMark.skip \subseteq 1..keySeq
    BY NoMarkHolds DEF Time
  <2> QED BY <1>1, <1>2, <2>1, NoMarkHolds, SetMark
<1> QED BY <1>1, <1>3 DEF d

\* A target that is not pending is one that newBroadcastMark leaves out; the
\* mark reaches up to the key of a target.
LEMMA NewMark ==
  ASSUME NEW r, NEW t \in 1..MaxTime, MaxTime \in Nat, keySeq \in Nat,
         key \in [Streams -> 0..keySeq],
         NEW targets \in SUBSET Streams, targets # {}, NEW excluded \in SUBSET Streams,
         \A s \in targets \cup excluded : key[s] # 0
  PROVE  LET m == newBroadcastMark(r, targets, excluded, t)
         IN  /\ m = [at |-> m.at, upTo |-> m.upTo, skip |-> m.skip]
             /\ m.at = t /\ m.at \in Time /\ m.upTo \in 0..keySeq /\ m.skip \subseteq 1..keySeq
             /\ \E u \in targets : m.upTo = key[u]
             /\ \A s \in targets : s \notin pending(r, targets, t) => key[s] \in m.skip
             /\ \A s \in excluded : key[s] <= m.upTo => key[s] \in m.skip
<1> DEFINE keys == {key[s] : s \in targets}
           upTo == Max(keys)
           sk == {key[s] : s \in {x \in targets : has(r, key[x], t)}}
                \cup {key[s] : s \in {x \in excluded : key[x] <= upTo}}
           m == newBroadcastMark(r, targets, excluded, t)
<1>1. m = [at |-> t, upTo |-> upTo, skip |-> sk]
  BY DEF newBroadcastMark
<1>2. upTo \in keys
  <2>1. keys \in SUBSET (0..keySeq) /\ keys # {}
    OBVIOUS
  <2> HIDE DEF keys
  <2> QED BY <2>1, MaxOfBounded
<1>3. PICK u \in targets : upTo = key[u]
  <2> HIDE DEF upTo
  <2> QED BY <1>2
<1> HIDE DEF upTo
<1>4. upTo \in 0..keySeq
  BY <1>3
<1>5. \A s \in targets \cup excluded : key[s] \in 1..keySeq
  OBVIOUS
<1>6. sk \subseteq 1..keySeq
  BY <1>5
<1>7. \A s \in targets : s \notin pending(r, targets, t) => key[s] \in sk
  BY DEF pending
<1>8. \A s \in excluded : key[s] <= upTo => key[s] \in sk
  OBVIOUS
<1> HIDE DEF sk, m
<1>9. m.at = t /\ m.upTo = upTo /\ m.skip = sk
  BY <1>1
<1>10. m = [at |-> m.at, upTo |-> m.upTo, skip |-> m.skip]
  BY <1>1, <1>9
<1> QED BY <1>3, <1>4, <1>6, <1>7, <1>8, <1>9, <1>10 DEF m, Time

\* Where every entry of the reservation that reserveBlockExcept returns comes
\* from: a collector the decision addresses now, or an entry kept.
EntriesFrom(r0, r, fresh, scope, t) ==
  \A k \in DOMAIN r.sent :
    \/ \E s \in fresh : k = key[s] /\ r.sent[k] = [at |-> t, broadcast |-> scope = "broadcast"]
    \/ k \in DOMAIN r0.sent /\ r.sent[k] = r0.sent[k] /\ \A s \in fresh : k # key[s]

\* Where its mark comes from: there is none, or it is kept and covers nobody
\* the decision addresses, or it is the mark of this Broadcast.
MarkFrom(r0, m, fresh, scope, targets, excluded, t) ==
  \/ \A k : ~MarkHolds(m, k)
  \/ m = r0.bcast /\ \A s \in fresh : ~MarkHolds(r0.bcast, key[s])
  \/ /\ scope = "broadcast" /\ m.at = t
     /\ \E u \in targets : m.upTo = key[u]
     /\ \A s \in targets \ fresh : key[s] \in m.skip
     /\ \A s \in excluded : key[s] <= m.upTo => key[s] \in m.skip

\* A collector that is not covered after the expired entries are dropped has
\* neither an entry nor a mark.
LEMMA FreshUncovered ==
  ASSUME NEW r, NEW t, NEW targets, NEW s \in pending(r, targets, t),
         \A k \in DOMAIN r.sent : t - r.sent[k].at < TTL,
         r.bcast = NoMark \/ t - r.bcast.at < TTL
  PROVE  key[s] \notin DOMAIN r.sent /\ ~MarkHolds(r.bcast, key[s])
<1>1. ~has(r, key[s], t)
  BY DEF pending
<1>2. key[s] \notin DOMAIN r.sent /\ ~covers(r.bcast, key[s], t)
  BY <1>1 DEF has
<1>3. CASE r.bcast = NoMark
  BY <1>2, <1>3, NoMarkHolds
<1>4. CASE t - r.bcast.at < TTL
  BY <1>2, <1>4 DEF covers, MarkHolds
<1> QED BY <1>3, <1>4

\* What reserveBlockExcept returns.
LEMMA ReserveResult ==
  ASSUME NEW r0, IsReservation(r0), CountExact(r0), NEW scope \in Scopes,
         NEW targets \in SUBSET Streams, targets # {}, NEW excluded \in SUBSET Streams,
         NEW t \in 1..MaxTime, keySeq \in Nat, key \in [Streams -> 0..keySeq],
         \A s \in targets \cup excluded : key[s] # 0
  PROVE  LET res == reserveBlockExcept(r0, scope, targets, excluded, t)
         IN  /\ IsReservation(res.r) /\ CountExact(res.r)
             /\ res.fresh \subseteq targets
             /\ EntriesFrom(r0, res.r, res.fresh, scope, t)
             /\ MarkFrom(r0, res.r.bcast, res.fresh, scope, targets, excluded, t)
<1> DEFINE res == reserveBlockExcept(r0, scope, targets, excluded, t)
           r1 == withoutExpired(r0, t)
           first == pending(r1, targets, t)
           mark == needsMark(r1, scope, first)
           r2 == IF mark THEN startOver(r1) ELSE r1
           fresh == pending(r2, targets, t)
           K == {key[s] : s \in fresh}
           r3 == IF mark
                 THEN [r2 EXCEPT !.bcast = newBroadcastMark(r2, targets, excluded, t)]
                 ELSE setSent(r2, K, t, scope = "broadcast")
           r4 == [r3 EXCEPT !.at = t]
           r5 == IF publishedWithin(r4, scope, t) THEN r4
                 ELSE [r4 EXCEPT !.published[scope] = t]
<1> USE NumbersAssumption
<1>1. res = IF first = {} THEN [fresh |-> {}, r |-> r1, publish |-> FALSE]
            ELSE [fresh |-> fresh, r |-> r5, publish |-> ~publishedWithin(r4, scope, t)]
  BY DEF reserveBlockExcept
<1>2. /\ IsReservation(r1) /\ CountExact(r1)
      /\ DOMAIN r1.sent \subseteq DOMAIN r0.sent
      /\ \A k \in DOMAIN r1.sent : r1.sent[k] = r0.sent[k] /\ t - r1.sent[k].at < TTL
      /\ \/ r1.bcast = NoMark
         \/ r1.bcast = r0.bcast /\ t - r0.bcast.at < TTL
  BY WithoutExpired
<1> HIDE DEF r1
<1>3. CASE first = {}
  <2>1. res.r = r1 /\ res.fresh = {}
    BY <1>1, <1>3
  <2>2. EntriesFrom(r0, r1, {}, scope, t)
    BY <1>2 DEF EntriesFrom
  <2>3. MarkFrom(r0, r1.bcast, {}, scope, targets, excluded, t)
    BY <1>2, NoMarkHolds DEF MarkFrom
  <2> QED BY <1>2, <2>1, <2>2, <2>3 DEF res
<1>4. CASE first # {}
  <2>1. res.r = r5 /\ res.fresh = fresh
    <3> HIDE DEF first, fresh, r5, r4
    <3> QED BY <1>1, <1>4
  <2>2. fresh \subseteq targets
    BY DEF pending
  <2>3. \A k \in K : \E s \in fresh : k = key[s]
    OBVIOUS
  <2>4. \A s \in fresh : key[s] \in K /\ key[s] \in 1..keySeq
    BY <2>2
  <2>5. K \in SUBSET (1..keySeq)
    <3> HIDE DEF K
    <3> QED BY <2>3, <2>4
  <2>6. /\ IsReservation(r3) /\ CountExact(r3)
        /\ EntriesFrom(r0, r3, fresh, scope, t)
        /\ MarkFrom(r0, r3.bcast, fresh, scope, targets, excluded, t)
    <3>1. CASE mark
      <4> DEFINE m == newBroadcastMark(r2, targets, excluded, t)
      <4>1. r2 = startOver(r1)
        BY <3>1
      <4>2. /\ IsReservation(r2) /\ CountExact(r2)
            /\ DOMAIN r2.sent \subseteq DOMAIN r1.sent
            /\ \A k \in DOMAIN r2.sent : r2.sent[k] = r1.sent[k]
            /\ r2.bcast = NoMark
        BY <1>2, <4>1, StartOver
      <4> HIDE DEF r2
      <4>3. \A s \in fresh : key[s] \notin DOMAIN r2.sent
        BY <1>2, <4>2, FreshUncovered
      <4>4. /\ m = [at |-> m.at, upTo |-> m.upTo, skip |-> m.skip]
            /\ m.at = t /\ m.at \in Time /\ m.upTo \in 0..keySeq /\ m.skip \subseteq 1..keySeq
            /\ \E u \in targets : m.upTo = key[u]
            /\ \A s \in targets : s \notin fresh => key[s] \in m.skip
            /\ \A s \in excluded : key[s] <= m.upTo => key[s] \in m.skip
        BY NewMark
      <4>5. r3 = [r2 EXCEPT !.bcast = m]
        BY <3>1
      <4> HIDE DEF m
      <4>6. IsReservation(r3) /\ CountExact(r3) /\ r3.sent = r2.sent /\ r3.bcast = m
        <5> HIDE DEF r3
        <5> QED BY <4>2, <4>4, <4>5, SetMark
      <4>7. scope = "broadcast"
        BY <3>1 DEF needsMark
      <4> HIDE DEF r3, fresh
      <4>8. EntriesFrom(r0, r3, fresh, scope, t)
        BY <1>2, <4>2, <4>3, <4>6 DEF EntriesFrom
      <4>9. MarkFrom(r0, r3.bcast, fresh, scope, targets, excluded, t)
        BY <4>4, <4>6, <4>7 DEF MarkFrom
      <4> QED BY <4>6, <4>8, <4>9
    <3>2. CASE ~mark
      <4>1. r2 = r1
        BY <3>2
      <4> DEFINE b == (scope = "broadcast")
      <4>2. \A s \in fresh : key[s] \notin DOMAIN r1.sent /\ ~MarkHolds(r1.bcast, key[s])
        BY <1>2, <4>1, FreshUncovered
      <4>3. b => r1.bcastEntries + Cardinality(K) <= MaxSent
        <5>1. fresh = first
          BY <4>1
        <5>2. IsFiniteSet(fresh)
          BY <2>2, StreamsAssumption, FS_Subset
        <5> HIDE DEF fresh, first, K
        <5>3. IsFiniteSet(K) /\ Cardinality(K) <= Cardinality(fresh)
          BY <2>3, <2>4, <5>2, KeysBounded
        <5>4. Cardinality(K) \in Nat /\ Cardinality(fresh) \in Nat /\ r1.bcastEntries \in Int
          BY <1>2, <5>2, <5>3, FS_CardinalityType DEF IsReservation
        <5>5. b => r1.bcastEntries + Cardinality(fresh) <= MaxSent
          BY <3>2, <5>1, <5>4 DEF needsMark
        <5> QED BY <5>3, <5>4, <5>5
      <4>4. r3 = setSent(r1, K, t, b)
        BY <3>2, <4>1
      <4> HIDE DEF r2, r3, fresh, K
      <4>5. b \in BOOLEAN
        OBVIOUS
      <4>6. /\ IsReservation(r3) /\ CountExact(r3)
            /\ DOMAIN r3.sent = DOMAIN r1.sent \cup K
            /\ \A k \in K : r3.sent[k] = [at |-> t, broadcast |-> b]
            /\ \A k \in DOMAIN r1.sent \ K : r3.sent[k] = r1.sent[k]
            /\ r3.bcast = r1.bcast
        <5> HIDE DEF b
        <5> DEFINE d == setSent(r1, K, t, b)
                   e == [at |-> t, broadcast |-> b]
        <5> HIDE DEF e
        <5>1. /\ IsReservation(d) /\ CountExact(d)
              /\ DOMAIN d.sent = DOMAIN r1.sent \cup K
              /\ \A k \in K : d.sent[k] = e
              /\ \A k \in DOMAIN r1.sent \ K : d.sent[k] = r1.sent[k]
              /\ d.bcast = r1.bcast
          <6>1. e = [at |-> t, broadcast |-> b]
            BY DEF e
          <6> QED BY <1>2, <2>5, <4>3, <4>5, <6>1, SetSent
        <5> QED BY <4>4, <5>1 DEF e
      <4>7. EntriesFrom(r0, r3, fresh, scope, t)
        <5> SUFFICES ASSUME NEW k \in DOMAIN r3.sent
                     PROVE  \/ \E s \in fresh : k = key[s] /\ r3.sent[k] = [at |-> t, broadcast |-> b]
                            \/ /\ k \in DOMAIN r0.sent /\ r3.sent[k] = r0.sent[k]
                               /\ \A s \in fresh : k # key[s]
          BY DEF EntriesFrom
        <5>1. CASE k \in K
          BY <2>3, <4>6, <5>1
        <5>2. CASE k \notin K
          BY <1>2, <2>4, <4>6, <5>2
        <5> QED BY <5>1, <5>2
      <4>8. MarkFrom(r0, r3.bcast, fresh, scope, targets, excluded, t)
        BY <1>2, <4>2, <4>6, NoMarkHolds DEF MarkFrom
      <4> QED BY <4>6, <4>7, <4>8
    <3> QED BY <3>1, <3>2
  <2>7. IsReservation(r4) /\ CountExact(r4) /\ r4.sent = r3.sent /\ r4.bcast = r3.bcast
    <3> HIDE DEF r3
    <3> QED BY <2>6, Stamp
  <2>8. IsReservation(r5) /\ CountExact(r5) /\ r5.sent = r4.sent /\ r5.bcast = r4.bcast
    <3> HIDE DEF r4
    <3> QED BY <2>7, Stamp
  <2> HIDE DEF res, r3, r4, r5, fresh
  <2>9. EntriesFrom(r0, r5, fresh, scope, t)
    BY <2>6, <2>7, <2>8 DEF EntriesFrom
  <2> QED BY <2>1, <2>2, <2>6, <2>7, <2>8, <2>9 DEF res
<1> QED BY <1>3, <1>4

-----------------------------------------------------------------------------
(***************************************************************************)
(* What most steps have in common.                                         *)
(***************************************************************************)

\* Registered, one stream at a time.
LEMMA IsRegistered ==
  \A s \in Streams : s \in Registered <=> conn[s] \in {"open", "ending"}
BY DEF Registered

\* The clock and the decision of one goroutine move on.
LEMMA OpsMove ==
  ASSUME PlaneTyped, now' \in Nat, now <= now', DOMAIN op' = Procs,
         \A p \in Procs : IsOp(op'[p])
  PROVE  OpsTyped'
<1> SUFFICES ASSUME NEW p \in Procs
             PROVE  IsOp(op[p])'
  BY DEF OpsTyped
<1>1. op'[p].at \in 0..now'
  BY DEF IsOp, PlaneTyped
<1> QED BY <1>1 DEF IsOp

\* No stream gets a key, and none opens.
ConnShrinks ==
  \A s \in Streams :
    /\ conn'[s] = "open" => conn[s] = "open"
    /\ conn'[s] = "ending" => conn[s] \in {"open", "ending"}

\* A reservation stays sound when entries only leave it and no block it stands
\* for is lost.
LEMMA ReservationStep ==
  ASSUME BlockDedupInv, UNCHANGED <<key, keySeq>>, ConnShrinks, NEW x \in Sources,
         issued'[x] = issued[x],
         IsReservation(recentBlocks'[x]), CountExact(recentBlocks'[x]),
         recentBlocks'[x].bcast = recentBlocks[x].bcast,
         \A k \in DOMAIN recentBlocks'[x].sent :
            k \in DOMAIN recentBlocks[x].sent
              /\ recentBlocks'[x].sent[k] = recentBlocks[x].sent[k],
         \A s \in Streams : conn'[s] = "open" =>
            /\ Delivered(x, s) => Delivered(x, s)'
            /\ Sending(x, s) => Delivered(x, s)' \/ Sending(x, s)'
            /\ \A t : key[s] \in DOMAIN recentBlocks'[x].sent
                        /\ t = recentBlocks[x].sent[key[s]].at /\ Queued(x, s, t)
                      => Delivered(x, s)' \/ Queued(x, s, t)'
  PROVE  ReservationSound(recentBlocks[x], x)'
<1> DEFINE r == recentBlocks[x]
           q == recentBlocks'[x]
<1>1. IsReservation(r) /\ CountExact(r) /\ TimesExact(r, x) /\ BlocksCarried(r, x)
  BY DEF BlockDedupInv, ReservationSound
<1>2. key' = key /\ keySeq' = keySeq /\ issued'[x] = issued[x]
  OBVIOUS
<1>3. IsReservation(recentBlocks[x])'
  BY <1>2 DEF IsReservation
<1>4. CountExact(recentBlocks[x])'
  BY DEF CountExact, BcastKeys
<1> HIDE DEF r, q
<1>5. TimesExact(recentBlocks[x], x)'
  <2>1. SUFFICES ASSUME NEW s \in Streams
                 PROVE  /\ key[s] \in DOMAIN q.sent => q.sent[key[s]].at = issued[x][s]
                        /\ s \in Registered' /\ MarkHolds(q.bcast, key[s])
                             => issued[x][s] = q.bcast.at
    BY <1>2 DEF TimesExact, MarkHolds, q
  <2>2. s \in Registered' => s \in Registered
    BY DEF Registered, ConnShrinks
  <2>3. /\ key[s] \in DOMAIN r.sent => r.sent[key[s]].at = issued[x][s]
        /\ s \in Registered /\ MarkHolds(r.bcast, key[s]) => issued[x][s] = r.bcast.at
    BY <1>1 DEF TimesExact
  <2> QED BY <2>2, <2>3 DEF q, r
<1>6. BlocksCarried(recentBlocks[x], x)'
  <2>1. SUFFICES ASSUME NEW s \in Streams, conn'[s] = "open"
                 PROVE  /\ MarkHolds(q.bcast, key[s]) => Delivered(x, s)' \/ Sending(x, s)'
                        /\ key[s] \in DOMAIN q.sent =>
                             \/ Delivered(x, s)'
                             \/ q.sent[key[s]].broadcast /\ Sending(x, s)'
                             \/ /\ ~q.sent[key[s]].broadcast
                                /\ \E t : t = q.sent[key[s]].at /\ Queued(x, s, t)'
    BY <1>2 DEF BlocksCarried, MarkHolds, q, Queued
  <2>2. conn[s] = "open"
    BY <2>1 DEF ConnShrinks
  <2>3. /\ MarkHolds(r.bcast, key[s]) => Delivered(x, s) \/ Sending(x, s)
        /\ key[s] \in DOMAIN r.sent =>
             \/ Delivered(x, s)
             \/ r.sent[key[s]].broadcast /\ Sending(x, s)
             \/ ~r.sent[key[s]].broadcast /\ Queued(x, s, r.sent[key[s]].at)
    BY <1>1, <2>2 DEF BlocksCarried
  <2>4. /\ Delivered(x, s) => Delivered(x, s)'
        /\ Sending(x, s) => Delivered(x, s)' \/ Sending(x, s)'
        /\ \A t : key[s] \in DOMAIN q.sent /\ t = r.sent[key[s]].at /\ Queued(x, s, t)
                    => Delivered(x, s)' \/ Queued(x, s, t)'
    BY <2>1 DEF q, r
  <2>5. q.bcast = r.bcast
    BY DEF q, r
  <2>6. key[s] \in DOMAIN q.sent => key[s] \in DOMAIN r.sent /\ q.sent[key[s]] = r.sent[key[s]]
    BY DEF q, r
  <2>7. MarkHolds(q.bcast, key[s]) => Delivered(x, s)' \/ Sending(x, s)'
    BY <2>3, <2>4, <2>5
  <2>8. ASSUME key[s] \in DOMAIN q.sent
        PROVE  \/ Delivered(x, s)'
               \/ q.sent[key[s]].broadcast /\ Sending(x, s)'
               \/ /\ ~q.sent[key[s]].broadcast
                  /\ \E t : t = q.sent[key[s]].at /\ Queued(x, s, t)'
    <3>1. CASE Delivered(x, s)
      BY <2>4, <3>1
    <3>2. CASE r.sent[key[s]].broadcast /\ Sending(x, s)
      BY <2>4, <2>6, <2>8, <3>2
    <3>3. CASE ~r.sent[key[s]].broadcast /\ Queued(x, s, r.sent[key[s]].at)
      BY <2>4, <2>6, <2>8, <3>3
    <3> QED BY <2>3, <2>6, <2>8, <3>1, <3>2, <3>3
  <2> QED BY <2>7, <2>8
<1> QED BY <1>3, <1>4, <1>5, <1>6 DEF ReservationSound

\* A step that touches neither reservations nor blocks on their way keeps all
\* reservations sound.
LEMMA QuietStep ==
  ASSUME BlockDedupInv, ConnShrinks,
         UNCHANGED <<key, keySeq, issued, recentBlocks, inflight, fanout, inHand, got>>,
         \A p \in Streams : op[p].pc = "send" => op'[p] = op[p]
  PROVE  DOMAIN recentBlocks' = Sources
           /\ \A x \in Sources : ReservationSound(recentBlocks[x], x)'
<1>1. DOMAIN recentBlocks = Sources
  BY DEF BlockDedupInv
<1>2. ASSUME NEW x \in Sources
      PROVE  ReservationSound(recentBlocks[x], x)'
  <2>1. IsReservation(recentBlocks'[x]) /\ CountExact(recentBlocks'[x])
    BY DEF BlockDedupInv, ReservationSound
  <2>2. ASSUME NEW s \in Streams
        PROVE  /\ Delivered(x, s) => Delivered(x, s)'
               /\ Sending(x, s) => Sending(x, s)'
               /\ \A t : Queued(x, s, t) => Queued(x, s, t)'
    BY DEF Delivered, Sending, Queued
  <2>3. /\ recentBlocks'[x].bcast = recentBlocks[x].bcast
        /\ \A k \in DOMAIN recentBlocks'[x].sent :
             k \in DOMAIN recentBlocks[x].sent
               /\ recentBlocks'[x].sent[k] = recentBlocks[x].sent[k]
    OBVIOUS
  <2> QED BY <2>1, <2>2, <2>3, ReservationStep
<1> QED BY <1>1, <1>2

\* A goroutine takes a new decision record, in a step that gives no stream a key
\* and opens none.
LEMMA OneOpMoves ==
  ASSUME BlockDedupInv, NEW p \in Procs, NEW o, op' = [op EXCEPT ![p] = o],
         UNCHANGED <<now, key>>, ConnShrinks, IsOp(o),
         p \in Broadcasters => o.pc \in {"idle", "reserve"},
         p \in Streams /\ o.pc # "idle" => key[p] # 0,
         o.pc = "verdict" => o.excluded = {},
         o.pc = "reserve" =>
           /\ \A s \in o.targets \cup o.excluded : key[s] # 0
           /\ (o.scope = "broadcast" <=> p \in Broadcasters)
           /\ o.scope = "broadcast" =>
                \A s \in Registered, u \in o.targets :
                   key[s] <= key[u] => s \in o.targets \cup o.excluded
  PROVE  OpsTyped' /\ DecisionsSound'
<1>1. DOMAIN op = Procs /\ (\A q \in Procs : IsOp(op[q])) /\ DecisionsSound /\ PlaneTyped
  BY DEF BlockDedupInv, OpsTyped
<1>2. op'[p] = o /\ \A q \in Procs \ {p} : op'[q] = op[q]
  BY <1>1
<1>3. DOMAIN op' = Procs /\ \A q \in Procs : IsOp(op'[q])
  BY <1>1, <1>2
<1>4. OpsTyped'
  <2>1. now' \in Nat /\ now <= now'
    BY <1>1 DEF PlaneTyped
  <2> QED BY <1>1, <1>3, <2>1, OpsMove
<1>5. \A s : s \in Registered' => s \in Registered
  BY DEF Registered, ConnShrinks
<1>6. DecisionsSound'
  <2> SUFFICES ASSUME NEW q \in Procs
               PROVE  /\ q \in Broadcasters => op'[q].pc \in {"idle", "reserve"}
                      /\ q \in Streams /\ op'[q].pc # "idle" => key[q] # 0
                      /\ op'[q].pc = "verdict" => op'[q].excluded = {}
                      /\ op'[q].pc = "reserve" =>
                           /\ \A s \in op'[q].targets \cup op'[q].excluded : key[s] # 0
                           /\ (op'[q].scope = "broadcast" <=> q \in Broadcasters)
                           /\ op'[q].scope = "broadcast" =>
                                \A s \in Registered', u \in op'[q].targets :
                                   key[s] <= key[u] => s \in op'[q].targets \cup op'[q].excluded
    BY DEF DecisionsSound
  <2>1. CASE q = p
    BY <1>2, <1>5, <2>1
  <2>2. CASE q # p
    BY <1>1, <1>2, <1>5, <2>2 DEF DecisionsSound
  <2> QED BY <2>1, <2>2
<1> QED BY <1>4, <1>6

\* No goroutine's decision moves, in a step that gives no stream a key and opens
\* none.
LEMMA NoOpMoves ==
  ASSUME BlockDedupInv, UNCHANGED <<op, key>>, ConnShrinks, now' \in Nat, now <= now'
  PROVE  OpsTyped' /\ DecisionsSound'
<1>1. DOMAIN op = Procs /\ (\A q \in Procs : IsOp(op[q])) /\ DecisionsSound /\ PlaneTyped
  BY DEF BlockDedupInv, OpsTyped
<1>2. OpsTyped'
  BY <1>1, OpsMove
<1>3. \A s : s \in Registered' => s \in Registered
  BY DEF Registered, ConnShrinks
<1>4. DecisionsSound'
  BY <1>1, <1>3 DEF DecisionsSound
<1> QED BY <1>2, <1>4

-----------------------------------------------------------------------------
(***************************************************************************)
(* Every action keeps the invariant.                                       *)
(***************************************************************************)

\* A new role is looked at only later.
LEMMA AnnounceRoleKeeps ==
  ASSUME BlockDedupInv, NEW s \in Streams, NEW r \in Roles, AnnounceRole(s, r)
  PROVE  BlockDedupInv'
<1>1. /\ role' = [role EXCEPT ![s] = r]
      /\ UNCHANGED <<now, conn, key, keySeq, stopped, evidence, recentBlocks, swept, op,
                     inflight, fanout, inHand, worker, issued, got, decisions>>
  BY DEF AnnounceRole, queueVars, dedupHistory
<1>2. ConnShrinks
  BY <1>1 DEF ConnShrinks
<1>3. PlaneTyped'
  BY <1>1 DEF BlockDedupInv, PlaneTyped
<1>4. OpsTyped' /\ DecisionsSound'
  BY <1>1, <1>2, NoOpMoves DEF BlockDedupInv, PlaneTyped
<1>5. KeysUnique' /\ WorkersSound' /\ IssuedInPast'
  BY <1>1 DEF BlockDedupInv, KeysUnique, WorkersSound, IssuedInPast
<1>6. DOMAIN recentBlocks' = Sources
        /\ \A x \in Sources : ReservationSound(recentBlocks[x], x)'
  BY <1>1, <1>2, QuietStep
<1> QED BY <1>3, <1>4, <1>5, <1>6 DEF BlockDedupInv

\* A stream that ends or is unregistered opens nothing.
LEMMA EndKeeps ==
  ASSUME BlockDedupInv, NEW s \in Streams, EndStream(s) \/ Unregister(s)
  PROVE  BlockDedupInv'
<1>1. /\ \/ conn[s] = "open" /\ conn' = [conn EXCEPT ![s] = "ending"]
         \/ conn[s] = "ending" /\ conn' = [conn EXCEPT ![s] = "gone"]
      /\ UNCHANGED <<now, key, keySeq, role, stopped, evidence, recentBlocks, swept, op,
                     inflight, fanout, inHand, worker, issued, got, decisions>>
  BY DEF EndStream, Unregister, queueVars, dedupHistory
<1>2. ConnShrinks
  BY <1>1 DEF ConnShrinks, BlockDedupInv, PlaneTyped
<1>3. PlaneTyped'
  BY <1>1 DEF BlockDedupInv, PlaneTyped
<1>4. OpsTyped' /\ DecisionsSound'
  BY <1>1, <1>2, NoOpMoves DEF BlockDedupInv, PlaneTyped
<1>5. KeysUnique' /\ WorkersSound' /\ IssuedInPast'
  BY <1>1 DEF BlockDedupInv, PlaneTyped, KeysUnique, WorkersSound, IssuedInPast
<1>6. DOMAIN recentBlocks' = Sources
        /\ \A x \in Sources : ReservationSound(recentBlocks[x], x)'
  BY <1>1, <1>2, QuietStep
<1> QED BY <1>3, <1>4, <1>5, <1>6 DEF BlockDedupInv

\* Evidence, the kill switch and the clock touch no decision.
LEMMA SurroundingsKeep ==
  ASSUME BlockDedupInv, (\E x \in Sources : EvictEvidence(x)) \/ StopEnforcement \/ Tick
  PROVE  BlockDedupInv'
<1>1. UNCHANGED <<conn, key, keySeq, role, recentBlocks, swept, op, inflight,
                  fanout, inHand, worker, issued, got, decisions>>
  BY DEF EvictEvidence, StopEnforcement, Tick, connVars, queueVars, dedupHistory
<1>2. /\ now' \in 1..MaxTime /\ now <= now'
      /\ stopped' \in BOOLEAN
      /\ evidence' \in [Sources -> Time]
  <2>1. now \in 1..MaxTime /\ stopped \in BOOLEAN /\ evidence \in [Sources -> Time]
    BY DEF BlockDedupInv, PlaneTyped
  <2>2. CASE \E x \in Sources : EvictEvidence(x)
    BY <2>1, <2>2, NumbersAssumption DEF EvictEvidence, Time
  <2>3. CASE StopEnforcement
    BY <2>1, <2>3 DEF StopEnforcement
  <2>4. CASE Tick
    BY <2>1, <2>4, NumbersAssumption DEF Tick
  <2> QED BY <2>2, <2>3, <2>4
<1>3. ConnShrinks
  BY <1>1 DEF ConnShrinks
<1>4. PlaneTyped'
  BY <1>1, <1>2 DEF BlockDedupInv, PlaneTyped
<1>5. OpsTyped' /\ DecisionsSound'
  BY <1>1, <1>2, <1>3, NoOpMoves
<1>6. KeysUnique' /\ WorkersSound'
  BY <1>1 DEF BlockDedupInv, KeysUnique, WorkersSound
<1>7. IssuedInPast'
  BY <1>1, <1>2, NumbersAssumption DEF BlockDedupInv, PlaneTyped, IssuedInPast, Time
<1>8. DOMAIN recentBlocks' = Sources
        /\ \A x \in Sources : ReservationSound(recentBlocks[x], x)'
  BY <1>1, <1>3, QuietStep
<1> QED BY <1>4, <1>5, <1>6, <1>7, <1>8 DEF BlockDedupInv

\* The record of a goroutine that decides nothing.
LEMMA IdleRecord ==
  /\ Idle = [pc |-> "idle", src |-> 0, scope |-> "local", targets |-> {},
             excluded |-> {}, at |-> 0, todo |-> {}]
  /\ Idle = [pc |-> Idle.pc, src |-> Idle.src, scope |-> "local", targets |-> {},
             excluded |-> {}, at |-> 0, todo |-> {}]
  /\ Idle.pc = "idle"
BY DEF Idle

LEMMA IdleIsOp ==
  ASSUME BlockDedupInv
  PROVE  IsOp(Idle) /\ Idle.pc = "idle"
<1>1. now \in 1..MaxTime
  BY DEF BlockDedupInv, PlaneTyped
<1>2. 0 \in 0..now
  BY <1>1, NumbersAssumption
<1> QED BY <1>2 DEF Idle, IsOp, Scopes

\* Decisions are counted within their bound.
LEMMA CountDecisionBound ==
  ASSUME CountDecision, decisions \in 0..MaxDecisions
  PROVE  decisions' \in 0..MaxDecisions
<1>1. CASE UNCHANGED decisions
  BY <1>1
<1>2. CASE decisions < MaxDecisions /\ decisions' = decisions + 1
  BY <1>2, NumbersAssumption
<1> QED BY <1>1, <1>2 DEF CountDecision

\* A decision begins or is given up: it has no recipients yet.
LEMMA VerdictKeeps ==
  ASSUME BlockDedupInv, NEW s \in Streams,
         (\E x \in Sources : processSignal(s, x)) \/ NoDecision(s)
  PROVE  BlockDedupInv'
<1>1. UNCHANGED <<now, conn, key, keySeq, role, stopped, recentBlocks, swept, inflight,
                  fanout, inHand, worker, issued, got>>
  BY DEF processSignal, NoDecision, connVars, queueVars, dedupHistory
<1>2. PICK o : /\ op' = [op EXCEPT ![s] = o]
               /\ o = [pc |-> o.pc, src |-> o.src, scope |-> "local", targets |-> {},
                       excluded |-> {}, at |-> 0, todo |-> {}]
               /\ \/ o.pc = "idle"
                  \/ o.pc = "verdict" /\ o.src \in Sources
  <2>1. CASE NoDecision(s)
    BY <2>1, IdleRecord DEF NoDecision
  <2>2. ASSUME NEW x \in Sources, processSignal(s, x)
        PROVE  \E o : /\ op' = [op EXCEPT ![s] = o]
                      /\ o = [pc |-> o.pc, src |-> o.src, scope |-> "local", targets |-> {},
                              excluded |-> {}, at |-> 0, todo |-> {}]
                      /\ \/ o.pc = "idle"
                         \/ o.pc = "verdict" /\ o.src \in Sources
    <3> DEFINE o == [Idle EXCEPT !.pc = "verdict", !.src = x]
    <3>1. o = [pc |-> "verdict", src |-> x, scope |-> "local", targets |-> {},
               excluded |-> {}, at |-> 0, todo |-> {}]
      <4>1. Idle = [pc |-> "idle", src |-> 0, scope |-> "local", targets |-> {},
                    excluded |-> {}, at |-> 0, todo |-> {}]
        BY IdleRecord
      <4>2. o = [Idle EXCEPT !.pc = "verdict", !.src = x]
        OBVIOUS
      <4> HIDE DEF o
      <4> QED BY <4>1, <4>2
    <3>2. op' = [op EXCEPT ![s] = o]
      BY <2>2 DEF processSignal
    <3> HIDE DEF o
    <3>3. /\ o = [pc |-> o.pc, src |-> o.src, scope |-> "local", targets |-> {},
                  excluded |-> {}, at |-> 0, todo |-> {}]
          /\ o.pc = "verdict" /\ o.src \in Sources
      BY <3>1
    <3> QED BY <3>2, <3>3
  <2> QED BY <2>1, <2>2
<1>3. evidence' \in [Sources -> Time] /\ decisions' \in 0..MaxDecisions
  <2>1. /\ evidence \in [Sources -> Time] /\ decisions \in 0..MaxDecisions
        /\ now \in 1..MaxTime
    BY DEF BlockDedupInv, PlaneTyped
  <2>2. CASE NoDecision(s)
    BY <2>1, <2>2 DEF NoDecision, dedupHistory
  <2>3. ASSUME NEW x \in Sources, processSignal(s, x)
        PROVE  evidence' \in [Sources -> Time] /\ decisions' \in 0..MaxDecisions
    <3>1. now \in Time
      BY <2>1, NumbersAssumption DEF Time
    <3>2. evidence' \in [Sources -> Time]
      BY <2>1, <2>3, <3>1 DEF processSignal
    <3>3. decisions' \in 0..MaxDecisions
      BY <2>1, <2>3, CountDecisionBound DEF processSignal
    <3> QED BY <3>2, <3>3
  <2> QED BY <2>2, <2>3
<1>4. ConnShrinks
  BY <1>1 DEF ConnShrinks
<1>5. PlaneTyped'
  BY <1>1, <1>3 DEF BlockDedupInv, PlaneTyped
<1>6. op[s].pc # "send"
  BY DEF processSignal, NoDecision
<1>7. OpsTyped' /\ DecisionsSound'
  <2>1. IsOp(o)
    BY <1>2 DEF IsOp, Scopes, BlockDedupInv, PlaneTyped
  <2>2. s \in Procs /\ s \notin Broadcasters
    BY StreamsAssumption DEF Procs
  <2>3. o.pc # "reserve" /\ o.excluded = {}
    BY <1>2
  <2>4. o.pc # "idle" => key[s] # 0
    BY <1>2, <2>2 DEF BlockDedupInv, DecisionsSound, KeysUnique, processSignal, NoDecision
  <2> QED BY <1>1, <1>2, <1>4, <2>1, <2>2, <2>3, <2>4, OneOpMoves
<1>8. KeysUnique' /\ WorkersSound' /\ IssuedInPast'
  BY <1>1 DEF BlockDedupInv, KeysUnique, WorkersSound, IssuedInPast
<1>9. DOMAIN recentBlocks' = Sources
        /\ \A x \in Sources : ReservationSound(recentBlocks[x], x)'
  <2>1. \A p \in Streams : op[p].pc = "send" => op'[p] = op[p]
    BY <1>2, <1>6 DEF BlockDedupInv, OpsTyped, Procs
  <2> QED BY <1>1, <1>4, <2>1, QuietStep
<1> QED BY <1>5, <1>7, <1>8, <1>9 DEF BlockDedupInv

\* sendCommand addresses the stream of the signal and registered peers.
LEMMA SendCommandKeeps ==
  ASSUME BlockDedupInv, NEW s \in Streams, NEW e \in BOOLEAN, sendCommand(s, e)
  PROVE  BlockDedupInv'
<1>1. UNCHANGED <<now, conn, key, keySeq, role, stopped, evidence, recentBlocks, swept,
                  inflight, fanout, inHand, worker, issued, got, decisions>>
  BY DEF sendCommand, connVars, queueVars, dedupHistory
<1> DEFINE fansOut == e /\ isTrustedScrub(s)
           scope == IF fansOut THEN "fanout" ELSE "local"
           targets == {s} \cup (IF fansOut THEN trustedScrubPeers(s) ELSE {})
           o == IF DryRun \/ stopped THEN Idle
                ELSE [op[s] EXCEPT !.pc = "reserve", !.scope = scope, !.targets = targets]
<1>2. op[s].pc = "verdict" /\ op' = [op EXCEPT ![s] = o]
  BY DEF sendCommand, BlockDedupInv, OpsTyped, Procs
<1>3. IsOp(op[s]) /\ s \in Procs /\ s \notin Broadcasters
  BY StreamsAssumption DEF BlockDedupInv, OpsTyped, Procs
<1>4. /\ scope \in Scopes /\ scope # "broadcast"
      /\ targets \in SUBSET Streams /\ targets # {}
      /\ \A u \in targets : key[u] # 0
  <2>1. scope \in Scopes /\ scope # "broadcast"
    BY DEF Scopes
  <2>2. \A u \in targets : u = s \/ u \in Registered
    BY DEF trustedScrubPeers
  <2>3. key[s] # 0
    BY <1>2, <1>3 DEF BlockDedupInv, DecisionsSound
  <2>4. \A u \in Registered : u \in Streams /\ conn[u] # "new"
    BY DEF Registered
  <2>5. \A u \in Streams : conn[u] # "new" => key[u] # 0
    BY DEF BlockDedupInv, KeysUnique
  <2> QED BY <2>1, <2>2, <2>3, <2>4, <2>5
<1> HIDE DEF scope, targets, fansOut
<1>5. IsOp(o) /\ o.pc \in {"idle", "reserve"}
      /\ (o.pc = "reserve" => o.scope = scope /\ o.targets = targets /\ o.excluded = op[s].excluded)
  <2>1. CASE DryRun \/ stopped
    <3>1. o = Idle
      BY <2>1
    <3> HIDE DEF o
    <3> QED BY <3>1, IdleIsOp
  <2>2. CASE ~(DryRun \/ stopped)
    <3>1. o = [pc |-> "reserve", src |-> op[s].src, scope |-> scope, targets |-> targets,
               excluded |-> op[s].excluded, at |-> op[s].at, todo |-> op[s].todo]
      BY <1>3, <2>2 DEF IsOp
    <3> HIDE DEF o
    <3> QED BY <1>2, <1>3, <1>4, <3>1 DEF IsOp
  <2> QED BY <2>1, <2>2
<1> HIDE DEF o
<1>6. ConnShrinks
  BY <1>1 DEF ConnShrinks
<1>7. PlaneTyped'
  BY <1>1 DEF BlockDedupInv, PlaneTyped
<1>8. OpsTyped' /\ DecisionsSound'
  <2>1. op[s].excluded = {}
    BY <1>2, <1>3 DEF BlockDedupInv, DecisionsSound
  <2>2. key[s] # 0
    BY <1>2, <1>3 DEF BlockDedupInv, DecisionsSound
  <2>3. /\ o.pc = "reserve" => /\ \A u \in o.targets \cup o.excluded : key[u] # 0
                               /\ (o.scope = "broadcast" <=> s \in Broadcasters)
                               /\ o.scope # "broadcast"
        /\ o.pc # "verdict"
    BY <1>3, <1>4, <1>5, <2>1
  <2> QED BY <1>1, <1>2, <1>3, <1>5, <1>6, <2>2, <2>3, OneOpMoves
<1>9. KeysUnique' /\ WorkersSound' /\ IssuedInPast'
  BY <1>1 DEF BlockDedupInv, KeysUnique, WorkersSound, IssuedInPast
<1>10. DOMAIN recentBlocks' = Sources
        /\ \A x \in Sources : ReservationSound(recentBlocks[x], x)'
  <2>1. \A p \in Streams : op[p].pc = "send" => op'[p] = op[p]
    BY <1>2 DEF BlockDedupInv, OpsTyped, Procs
  <2> QED BY <1>1, <1>6, <2>1, QuietStep
<1> QED BY <1>7, <1>8, <1>9, <1>10 DEF BlockDedupInv

\* Broadcast addresses or holds back everything registered at the snapshot.
LEMMA BroadcastKeeps ==
  ASSUME BlockDedupInv, NEW b \in Broadcasters, NEW x \in Sources, Broadcast(b, x)
  PROVE  BlockDedupInv'
<1>1. UNCHANGED <<now, conn, key, keySeq, role, stopped, evidence, recentBlocks, swept,
                  inflight, fanout, inHand, worker, issued, got>>
  BY DEF Broadcast, connVars, queueVars
<1> DEFINE gated == IF GateScrub /\ ~evidenceHas(x)
                    THEN {s \in Registered : isTrustedScrub(s)} ELSE {}
           targets == Registered \ gated
           o == [Idle EXCEPT !.pc = "reserve", !.src = x, !.scope = "broadcast",
                             !.targets = targets, !.excluded = gated]
<1>2. op[b].pc = "idle" /\ op' = [op EXCEPT ![b] = o] /\ targets # {} /\ CountDecision
  BY DEF Broadcast
<1>3. targets \cup gated = Registered /\ Registered \subseteq Streams
  BY DEF Registered
<1> HIDE DEF gated, targets
<1>4. o = [pc |-> "reserve", src |-> x, scope |-> "broadcast", targets |-> targets,
           excluded |-> gated, at |-> 0, todo |-> {}]
  <2>1. Idle = [pc |-> "idle", src |-> 0, scope |-> "local", targets |-> {},
                excluded |-> {}, at |-> 0, todo |-> {}]
    BY IdleRecord
  <2>2. o = [Idle EXCEPT !.pc = "reserve", !.src = x, !.scope = "broadcast",
                         !.targets = targets, !.excluded = gated]
    OBVIOUS
  <2> HIDE DEF o
  <2> QED BY <2>1, <2>2
<1> HIDE DEF o
<1>5. ConnShrinks
  BY <1>1 DEF ConnShrinks
<1>6. PlaneTyped'
  <2>1. decisions' \in 0..MaxDecisions
    BY <1>2, CountDecisionBound DEF BlockDedupInv, PlaneTyped
  <2> QED BY <1>1, <2>1 DEF BlockDedupInv, PlaneTyped
<1>7. OpsTyped' /\ DecisionsSound'
  <2>1. IsOp(o)
    <3>1. 0 \in 0..now
      BY DEF BlockDedupInv, PlaneTyped
    <3> QED BY <1>2, <1>3, <1>4, <3>1 DEF IsOp, Scopes
  <2>2. b \in Procs /\ b \notin Streams
    BY StreamsAssumption DEF Procs
  <2>3. \A s \in Registered : key[s] # 0
    BY DEF BlockDedupInv, KeysUnique, Registered
  <2>4. /\ o.pc = "reserve" /\ o.scope = "broadcast" /\ o.targets \cup o.excluded = Registered
    BY <1>3, <1>4
  <2> QED BY <1>1, <1>2, <1>5, <2>1, <2>2, <2>3, <2>4, OneOpMoves
<1>8. KeysUnique' /\ WorkersSound' /\ IssuedInPast'
  BY <1>1 DEF BlockDedupInv, KeysUnique, WorkersSound, IssuedInPast
<1>9. DOMAIN recentBlocks' = Sources
        /\ \A y \in Sources : ReservationSound(recentBlocks[y], y)'
  <2>1. \A p \in Streams : op[p].pc = "send" => op'[p] = op[p]
    BY <1>2, StreamsAssumption DEF BlockDedupInv, OpsTyped, Procs
  <2> QED BY <1>1, <1>5, <2>1, QuietStep
<1> QED BY <1>6, <1>7, <1>8, <1>9 DEF BlockDedupInv

\* The clock of a decision is not ahead of the clock.
LEMMA ReadClockKeeps ==
  ASSUME BlockDedupInv, NEW p \in Procs, ReadClock(p)
  PROVE  BlockDedupInv'
<1>1. UNCHANGED <<now, conn, key, keySeq, role, stopped, evidence, recentBlocks, swept,
                  inflight, fanout, inHand, worker, issued, got, decisions>>
  BY DEF ReadClock, connVars, queueVars, dedupHistory
<1> DEFINE o == [op[p] EXCEPT !.at = now]
<1>2. op[p].pc = "reserve" /\ op' = [op EXCEPT ![p] = o]
  BY DEF ReadClock, BlockDedupInv, OpsTyped
<1>3. IsOp(op[p])
  BY DEF BlockDedupInv, OpsTyped
<1>4. o = [pc |-> op[p].pc, src |-> op[p].src, scope |-> op[p].scope,
           targets |-> op[p].targets, excluded |-> op[p].excluded, at |-> now,
           todo |-> op[p].todo]
  <2>1. o = [op[p] EXCEPT !.at = now]
    OBVIOUS
  <2> HIDE DEF o
  <2> QED BY <1>3, <2>1 DEF IsOp
<1> HIDE DEF o
<1>5. ConnShrinks
  BY <1>1 DEF ConnShrinks
<1>6. PlaneTyped'
  BY <1>1 DEF BlockDedupInv, PlaneTyped
<1>7. OpsTyped' /\ DecisionsSound'
  <2>1. IsOp(o)
    <3>1. now \in 0..now
      BY DEF BlockDedupInv, PlaneTyped
    <3> QED BY <1>2, <1>3, <1>4, <3>1 DEF IsOp
  <2>2. /\ o.pc = "reserve" /\ o.scope = op[p].scope /\ o.targets = op[p].targets
        /\ o.excluded = op[p].excluded
    BY <1>2, <1>4
  <2>3. /\ p \in Streams => key[p] # 0
        /\ \A s \in o.targets \cup o.excluded : key[s] # 0
        /\ (o.scope = "broadcast" <=> p \in Broadcasters)
        /\ o.scope = "broadcast" =>
             \A s \in Registered, u \in o.targets :
                key[s] <= key[u] => s \in o.targets \cup o.excluded
    BY <1>2, <2>2 DEF BlockDedupInv, DecisionsSound
  <2> QED BY <1>1, <1>2, <1>5, <2>1, <2>2, <2>3, OneOpMoves
<1>8. KeysUnique' /\ WorkersSound' /\ IssuedInPast'
  BY <1>1 DEF BlockDedupInv, KeysUnique, WorkersSound, IssuedInPast
<1>9. DOMAIN recentBlocks' = Sources
        /\ \A x \in Sources : ReservationSound(recentBlocks[x], x)'
  <2>1. \A q \in Streams : op[q].pc = "send" => op'[q] = op[q]
    BY <1>2 DEF BlockDedupInv, OpsTyped, Procs
  <2> QED BY <1>1, <1>5, <2>1, QuietStep
<1> QED BY <1>6, <1>7, <1>8, <1>9 DEF BlockDedupInv

\* The worker closes the queue of a stream that has ended, then drops what is
\* left in it.
LEMMA DrainKeeps ==
  ASSUME BlockDedupInv, NEW s \in Streams, closeFanout(s) \/ drainScrubFanout(s)
  PROVE  BlockDedupInv'
<1>1. UNCHANGED <<now, conn, key, keySeq, role, stopped, evidence, recentBlocks, swept, op,
                  inflight, inHand, issued, got, decisions>>
  BY DEF closeFanout, drainScrubFanout, connVars, dedupHistory
<1>2. /\ conn[s] \in {"ending", "gone"} /\ inHand[s] = << >>
      /\ \/ fanout' = fanout /\ worker' = [worker EXCEPT ![s] = "draining"]
         \/ fanout' = [fanout EXCEPT ![s] = << >>] /\ worker' = [worker EXCEPT ![s] = "done"]
  BY DEF closeFanout, drainScrubFanout, BlockDedupInv, WorkersSound
<1>3. ConnShrinks
  BY <1>1 DEF ConnShrinks
<1>4. PlaneTyped'
  <2>1. /\ fanout \in [Streams -> Seq(Item)]
        /\ worker \in [Streams -> {"none", "run", "draining", "done"}]
    BY DEF BlockDedupInv, PlaneTyped
  <2>2. << >> \in Seq(Item)
    BY EmptySeq
  <2>3. fanout' \in [Streams -> Seq(Item)]
    BY <1>2, <2>1, <2>2
  <2>4. worker' \in [Streams -> {"none", "run", "draining", "done"}]
    BY <1>2, <2>1
  <2> QED BY <1>1, <2>3, <2>4 DEF BlockDedupInv, PlaneTyped
<1>5. OpsTyped' /\ DecisionsSound'
  BY <1>1, <1>3, NoOpMoves DEF BlockDedupInv, PlaneTyped
<1>6. KeysUnique' /\ IssuedInPast'
  BY <1>1 DEF BlockDedupInv, KeysUnique, IssuedInPast
<1>7. WorkersSound'
  <2>1. WorkersSound /\ fanout \in [Streams -> Seq(Item)]
        /\ worker \in [Streams -> {"none", "run", "draining", "done"}]
    BY DEF BlockDedupInv, PlaneTyped
  <2>2. /\ \A u \in Streams \ {s} : worker'[u] = worker[u] /\ fanout'[u] = fanout[u]
        /\ worker'[s] = "draining" \/ (worker'[s] = "done" /\ fanout'[s] = << >>)
    BY <1>2, <2>1
  <2> QED BY <1>1, <1>2, <2>1, <2>2 DEF WorkersSound
<1>8. ASSUME NEW x \in Sources
      PROVE  ReservationSound(recentBlocks[x], x)'
  <2>1. IsReservation(recentBlocks'[x]) /\ CountExact(recentBlocks'[x])
    BY <1>1 DEF BlockDedupInv, ReservationSound
  <2>2. ASSUME NEW u \in Streams, conn'[u] = "open"
        PROVE  /\ Delivered(x, u) => Delivered(x, u)'
               /\ Sending(x, u) => Sending(x, u)'
               /\ \A t : Queued(x, u, t) => Queued(x, u, t)'
    <3>1. fanout'[u] = fanout[u]
      BY <1>1, <1>2, <2>2 DEF BlockDedupInv, PlaneTyped
    <3> QED BY <1>1, <3>1 DEF Delivered, Sending, Queued
  <2>3. /\ recentBlocks'[x].bcast = recentBlocks[x].bcast
        /\ \A k \in DOMAIN recentBlocks'[x].sent :
             k \in DOMAIN recentBlocks[x].sent
               /\ recentBlocks'[x].sent[k] = recentBlocks[x].sent[k]
    BY <1>1
  <2> QED BY <1>1, <1>3, <2>1, <2>2, <2>3, ReservationStep
<1>9. DOMAIN recentBlocks' = Sources
  BY <1>1 DEF BlockDedupInv
<1> QED BY <1>4, <1>5, <1>6, <1>7, <1>8, <1>9 DEF BlockDedupInv

\* A send that succeeds delivers, and takes no delivery back.
LEMMA Deliver ==
  ASSUME BlockDedupInv, NEW x \in Sources, NEW s \in Streams, deliver(x, s),
         UNCHANGED issued
  PROVE  /\ got' \in [Sources -> [Streams -> Time]]
         /\ conn[s] = "open" => Delivered(x, s)'
         /\ \A y \in Sources, u \in Streams : Delivered(y, u) => Delivered(y, u)'
<1>1. /\ got \in [Sources -> [Streams -> Time]] /\ now \in 1..MaxTime
      /\ issued \in [Sources -> [Streams -> Time]]
      /\ \A y \in Sources, u \in Streams : issued[y][u] <= now
  BY DEF BlockDedupInv, PlaneTyped, IssuedInPast
<1>2. now \in Time /\ now # 0
  BY <1>1, NumbersAssumption DEF Time
<1>3. CASE conn[s] = "open"
  <2>1. got' = [got EXCEPT ![x][s] = now]
    BY <1>3 DEF deliver
  <2>2. got' \in [Sources -> [Streams -> Time]]
    BY <1>1, <1>2, <2>1
  <2>3. got'[x][s] = now
    BY <1>1, <2>1
  <2>4. \A y \in Sources, u \in Streams : (y = x /\ u = s) \/ got'[y][u] = got[y][u]
    BY <1>1, <2>1
  <2>5. Delivered(x, s)'
    <3>1. now >= issued[x][s]
      BY <1>1, NumbersAssumption DEF Time
    <3> QED BY <1>2, <2>3, <3>1 DEF Delivered
  <2>6. ASSUME NEW y \in Sources, NEW u \in Streams, Delivered(y, u)
        PROVE  Delivered(y, u)'
    <3>1. CASE y = x /\ u = s
      BY <2>5, <3>1
    <3>2. CASE got'[y][u] = got[y][u]
      BY <2>6, <3>2 DEF Delivered
    <3> QED BY <2>4, <3>1, <3>2
  <2> QED BY <2>2, <2>5, <2>6
<1>4. CASE conn[s] # "open"
  <2>1. got' = got
    BY <1>4 DEF deliver
  <2> QED BY <1>1, <1>4, <2>1 DEF Delivered
<1> QED BY <1>3, <1>4

\* releaseBlock takes out at most the entry of the item it is given, and does
\* take that one out.
LEMMA Release ==
  ASSUME BlockDedupInv, NEW s \in Streams, NEW item, item.src \in Sources,
         releaseBlock(s, item)
  PROVE  /\ DOMAIN recentBlocks' = Sources
         /\ \A x \in Sources :
              /\ IsReservation(recentBlocks'[x]) /\ CountExact(recentBlocks'[x])
              /\ recentBlocks'[x].bcast = recentBlocks[x].bcast
              /\ \A k \in DOMAIN recentBlocks'[x].sent :
                   k \in DOMAIN recentBlocks[x].sent
                     /\ recentBlocks'[x].sent[k] = recentBlocks[x].sent[k]
         /\ key[s] \in DOMAIN recentBlocks'[item.src].sent
              => recentBlocks[item.src].sent[key[s]].at # item.at
<1> DEFINE r == recentBlocks[item.src]
           d == deleteSent(r, {key[s]})
<1>1. /\ DOMAIN recentBlocks = Sources
      /\ \A x \in Sources : IsReservation(recentBlocks[x]) /\ CountExact(recentBlocks[x])
      /\ keySeq \in Nat
  BY DEF BlockDedupInv, ReservationSound, PlaneTyped
<1>2. CASE key[s] \in DOMAIN r.sent /\ r.sent[key[s]].at = item.at
  <2>1. recentBlocks' = [recentBlocks EXCEPT ![item.src] = d]
    BY <1>2 DEF releaseBlock
  <2>2. /\ IsReservation(d) /\ CountExact(d) /\ d.bcast = r.bcast
        /\ DOMAIN d.sent = DOMAIN r.sent \ {key[s]}
        /\ \A k \in DOMAIN d.sent : d.sent[k] = r.sent[k]
    <3> DEFINE K == {key[s]}
    <3>1. IsReservation(r) /\ CountExact(r)
      BY <1>1
    <3> HIDE DEF r, K
    <3>2. LET e == deleteSent(r, K)
          IN  /\ IsReservation(e) /\ CountExact(e) /\ e.bcast = r.bcast
              /\ DOMAIN e.sent = DOMAIN r.sent \ K
              /\ \A k \in DOMAIN e.sent : e.sent[k] = r.sent[k]
      BY <1>1, <3>1, NumbersAssumption, DeleteSent
    <3> QED BY <3>2 DEF K
  <2> HIDE DEF d
  <2>3. /\ DOMAIN recentBlocks' = Sources /\ recentBlocks'[item.src] = d
        /\ \A x \in Sources : x # item.src => recentBlocks'[x] = recentBlocks[x]
    BY <1>1, <2>1
  <2>4. ASSUME NEW x \in Sources
        PROVE  /\ IsReservation(recentBlocks'[x]) /\ CountExact(recentBlocks'[x])
               /\ recentBlocks'[x].bcast = recentBlocks[x].bcast
               /\ \A k \in DOMAIN recentBlocks'[x].sent :
                    k \in DOMAIN recentBlocks[x].sent
                      /\ recentBlocks'[x].sent[k] = recentBlocks[x].sent[k]
    <3>1. CASE x = item.src
      BY <2>2, <2>3, <3>1
    <3>2. CASE x # item.src
      BY <1>1, <2>3, <3>2
    <3> QED BY <3>1, <3>2
  <2>5. key[s] \notin DOMAIN recentBlocks'[item.src].sent
    BY <2>2, <2>3
  <2> QED BY <2>3, <2>4, <2>5
<1>3. CASE ~(key[s] \in DOMAIN r.sent /\ r.sent[key[s]].at = item.at)
  <2>1. recentBlocks' = recentBlocks
    BY <1>3 DEF releaseBlock
  <2> QED BY <1>1, <1>3, <2>1
<1> QED BY <1>2, <1>3

\* sendToStream on a goroutine of Broadcast.
LEMMA SendBroadcastKeeps ==
  ASSUME BlockDedupInv, NEW m \in inflight, sendBroadcast(m)
  PROVE  BlockDedupInv'
<1>1. UNCHANGED <<now, conn, key, keySeq, role, stopped, evidence, recentBlocks, swept, op,
                  fanout, inHand, worker, issued, decisions>>
  BY DEF sendBroadcast, connVars, queueVars
<1>2. /\ m.src \in Sources /\ m.to \in Streams /\ m = [src |-> m.src, to |-> m.to]
      /\ inflight' = inflight \ {m}
      /\ inflight \subseteq [src : Sources, to : Streams]
  BY DEF BlockDedupInv, PlaneTyped, sendBroadcast
<1>3. /\ got' \in [Sources -> [Streams -> Time]]
      /\ conn[m.to] = "open" => Delivered(m.src, m.to)'
      /\ \A y \in Sources, u \in Streams : Delivered(y, u) => Delivered(y, u)'
  BY <1>1, <1>2, Deliver DEF sendBroadcast
<1>4. ConnShrinks
  BY <1>1 DEF ConnShrinks
<1>5. PlaneTyped'
  <2>1. inflight' \subseteq [src : Sources, to : Streams]
    BY <1>2
  <2> QED BY <1>1, <1>3, <2>1 DEF BlockDedupInv, PlaneTyped
<1>6. OpsTyped' /\ DecisionsSound'
  BY <1>1, <1>4, NoOpMoves DEF BlockDedupInv, PlaneTyped
<1>7. KeysUnique' /\ WorkersSound' /\ IssuedInPast'
  BY <1>1 DEF BlockDedupInv, KeysUnique, WorkersSound, IssuedInPast
<1>8. ASSUME NEW x \in Sources
      PROVE  ReservationSound(recentBlocks[x], x)'
  <2>1. IsReservation(recentBlocks'[x]) /\ CountExact(recentBlocks'[x])
    BY <1>1 DEF BlockDedupInv, ReservationSound
  <2>2. ASSUME NEW u \in Streams, conn'[u] = "open"
        PROVE  /\ Delivered(x, u) => Delivered(x, u)'
               /\ Sending(x, u) => Delivered(x, u)' \/ Sending(x, u)'
               /\ \A t : Queued(x, u, t) => Queued(x, u, t)'
    <3>1. Delivered(x, u) => Delivered(x, u)'
      BY <1>3
    <3>2. ASSUME Sending(x, u) PROVE Delivered(x, u)' \/ Sending(x, u)'
      <4>1. CASE [src |-> x, to |-> u] = m
        <5>1. m.src = x /\ m.to = u
          BY <4>1
        <5> QED BY <1>1, <1>3, <2>2, <5>1
      <4>2. CASE [src |-> x, to |-> u] # m
        BY <1>2, <3>2, <4>2 DEF Sending
      <4> QED BY <4>1, <4>2
    <3>3. \A t : Queued(x, u, t) => Queued(x, u, t)'
      BY <1>1 DEF Queued
    <3> QED BY <3>1, <3>2, <3>3
  <2>3. /\ recentBlocks'[x].bcast = recentBlocks[x].bcast
        /\ \A k \in DOMAIN recentBlocks'[x].sent :
             k \in DOMAIN recentBlocks[x].sent
               /\ recentBlocks'[x].sent[k] = recentBlocks[x].sent[k]
    BY <1>1
  <2> QED BY <1>1, <1>4, <2>1, <2>2, <2>3, ReservationStep
<1>9. DOMAIN recentBlocks' = Sources
  BY <1>1 DEF BlockDedupInv
<1> QED BY <1>5, <1>6, <1>7, <1>8, <1>9 DEF BlockDedupInv

\* sendToStream to the origin of the decision.
LEMMA SendToOriginKeeps ==
  ASSUME BlockDedupInv, NEW s \in Streams, sendToOrigin(s)
  PROVE  BlockDedupInv'
<1>1. UNCHANGED <<now, conn, key, keySeq, role, stopped, evidence, recentBlocks, swept,
                  inflight, fanout, inHand, worker, issued, decisions>>
  BY DEF sendToOrigin, connVars, queueVars
<1>2. /\ op[s].pc = "send" /\ op[s].todo \subseteq {s} /\ op[s].src \in Sources
      /\ op' = [op EXCEPT ![s] = Idle] /\ s \in Procs /\ s \notin Broadcasters
      /\ DOMAIN op = Procs
  BY StreamsAssumption DEF sendToOrigin, BlockDedupInv, OpsTyped, IsOp, Procs
<1>3. /\ got' \in [Sources -> [Streams -> Time]]
      /\ \A y \in Sources : y = op[s].src /\ s \in op[s].todo /\ conn[s] = "open"
                              => Delivered(y, s)'
      /\ \A y \in Sources, u \in Streams : Delivered(y, u) => Delivered(y, u)'
  <2>1. CASE s \in op[s].todo
    <3>1. PICK y \in Sources : y = op[s].src
      BY <1>2
    <3>2. deliver(y, s)
      BY <2>1, <3>1 DEF sendToOrigin, deliver
    <3>3. /\ got' \in [Sources -> [Streams -> Time]]
          /\ conn[s] = "open" => Delivered(y, s)'
          /\ \A z \in Sources, u \in Streams : Delivered(z, u) => Delivered(z, u)'
      BY <1>1, <3>2, Deliver
    <3> QED BY <3>1, <3>3
  <2>2. CASE s \notin op[s].todo
    <3>1. got' = got
      BY <2>2 DEF sendToOrigin
    <3> QED BY <1>1, <2>2, <3>1 DEF BlockDedupInv, PlaneTyped, Delivered
  <2> QED BY <2>1, <2>2
<1>4. ConnShrinks
  BY <1>1 DEF ConnShrinks
<1>5. PlaneTyped'
  BY <1>1, <1>3 DEF BlockDedupInv, PlaneTyped
<1>6. OpsTyped' /\ DecisionsSound'
  <2> DEFINE o == Idle
  <2>1. IsOp(o) /\ o.pc = "idle"
    BY IdleIsOp
  <2>2. op' = [op EXCEPT ![s] = o]
    BY <1>2
  <2> HIDE DEF o
  <2> QED BY <1>1, <1>2, <1>4, <2>1, <2>2, OneOpMoves
<1>7. KeysUnique' /\ WorkersSound' /\ IssuedInPast'
  BY <1>1 DEF BlockDedupInv, KeysUnique, WorkersSound, IssuedInPast
<1>8. ASSUME NEW x \in Sources
      PROVE  ReservationSound(recentBlocks[x], x)'
  <2>1. IsReservation(recentBlocks'[x]) /\ CountExact(recentBlocks'[x])
    BY <1>1 DEF BlockDedupInv, ReservationSound
  <2>2. ASSUME NEW u \in Streams, conn'[u] = "open"
        PROVE  /\ Delivered(x, u) => Delivered(x, u)'
               /\ Sending(x, u) => Sending(x, u)'
               /\ \A t : Queued(x, u, t) => Delivered(x, u)' \/ Queued(x, u, t)'
    <3>1. (Delivered(x, u) => Delivered(x, u)') /\ (Sending(x, u) => Sending(x, u)')
      BY <1>1, <1>3 DEF Sending
    <3>2. ASSUME NEW t, Queued(x, u, t)
          PROVE  Delivered(x, u)' \/ Queued(x, u, t)'
      <4>1. CASE \E i \in DOMAIN fanout[u] : fanout[u][i].src = x /\ fanout[u][i].at = t
        BY <1>1, <4>1 DEF Queued
      <4>2. CASE \E i \in DOMAIN inHand[u] : inHand[u][i].src = x /\ inHand[u][i].at = t
        BY <1>1, <4>2 DEF Queued
      <4>3. ASSUME NEW p \in Streams, op[p].pc = "send", op[p].src = x,
                   u \in op[p].todo, op[p].at = t
            PROVE  Delivered(x, u)' \/ Queued(x, u, t)'
        <5>1. CASE p = s
          <6>1. u = s
            BY <1>2, <4>3, <5>1
          <6> QED BY <1>1, <1>3, <2>2, <4>3, <5>1, <6>1
        <5>2. CASE p # s
          <6>1. op'[p] = op[p]
            BY <1>2, <5>2
          <6> QED BY <4>3, <6>1 DEF Queued
        <5> QED BY <5>1, <5>2
      <4> QED BY <3>2, <4>1, <4>2, <4>3 DEF Queued
    <3> QED BY <3>1, <3>2
  <2>3. /\ recentBlocks'[x].bcast = recentBlocks[x].bcast
        /\ \A k \in DOMAIN recentBlocks'[x].sent :
             k \in DOMAIN recentBlocks[x].sent
               /\ recentBlocks'[x].sent[k] = recentBlocks[x].sent[k]
    BY <1>1
  <2> QED BY <1>1, <1>4, <2>1, <2>2, <2>3, ReservationStep
<1>9. DOMAIN recentBlocks' = Sources
  BY <1>1 DEF BlockDedupInv
<1> QED BY <1>5, <1>6, <1>7, <1>8, <1>9 DEF BlockDedupInv

\* enqueueScrubFanout: the command is queued, or dropped on a stream that has
\* ended, or its reservation is released.
LEMMA EnqueueKeeps ==
  ASSUME BlockDedupInv, NEW s \in Streams, NEW peer \in Streams, enqueueScrubFanout(s, peer)
  PROVE  BlockDedupInv'
<1> DEFINE item == [src |-> op[s].src, at |-> op[s].at]
           closed == worker[peer] \in {"draining", "done"}
           full == Len(fanout[peer]) >= QueueSize
           o == [op[s] EXCEPT !.todo = op[s].todo \ {peer}]
<1>1. UNCHANGED <<now, conn, key, keySeq, role, stopped, evidence, swept,
                  inflight, inHand, worker, issued, got, decisions>>
  BY DEF enqueueScrubFanout, connVars, dedupHistory
<1>2. /\ op[s].pc = "send" /\ IsOp(op[s]) /\ s \in Procs /\ s \notin Broadcasters
      /\ DOMAIN op = Procs
      /\ op' = [op EXCEPT ![s] = o]
  BY StreamsAssumption DEF enqueueScrubFanout, BlockDedupInv, OpsTyped, Procs
<1>3. item \in Item /\ item.src = op[s].src /\ item.at = op[s].at /\ item.src \in Sources
  <2>1. op[s].src \in Sources /\ op[s].at \in 1..MaxTime
    BY <1>2, NumbersAssumption DEF IsOp, BlockDedupInv, PlaneTyped
  <2> QED BY <2>1 DEF Item
<1>4. fanout' = IF closed \/ full THEN fanout
                ELSE [fanout EXCEPT ![peer] = Append(fanout[peer], item)]
  BY DEF enqueueScrubFanout, BlockDedupInv, PlaneTyped
<1>5. IF ~closed /\ full THEN releaseBlock(peer, item) ELSE UNCHANGED recentBlocks
  BY DEF enqueueScrubFanout
<1> HIDE DEF item
<1>6. o = [pc |-> op[s].pc, src |-> op[s].src, scope |-> op[s].scope,
           targets |-> op[s].targets, excluded |-> op[s].excluded, at |-> op[s].at,
           todo |-> op[s].todo \ {peer}]
  <2>1. o = [op[s] EXCEPT !.todo = op[s].todo \ {peer}]
    OBVIOUS
  <2> HIDE DEF o
  <2> QED BY <1>2, <2>1 DEF IsOp
<1> HIDE DEF o
<1>7. ConnShrinks
  BY <1>1 DEF ConnShrinks
<1>8. /\ fanout' \in [Streams -> Seq(Item)]
      /\ \A u \in Streams : \A i \in DOMAIN fanout[u] :
            i \in DOMAIN fanout'[u] /\ fanout'[u][i] = fanout[u][i]
      /\ ~closed /\ ~full => \E i \in DOMAIN fanout'[peer] : fanout'[peer][i] = item
      /\ closed => fanout' = fanout
  <2>1. fanout \in [Streams -> Seq(Item)]
    BY DEF BlockDedupInv, PlaneTyped
  <2>2. CASE closed \/ full
    BY <1>4, <2>1, <2>2
  <2>3. CASE ~(closed \/ full)
    <3> DEFINE q == fanout[peer]
               a == Append(q, item)
    <3>1. q \in Seq(Item)
      BY <2>1
    <3>2. /\ a \in Seq(Item) /\ Len(a) = Len(q) + 1
          /\ \A i \in 1..Len(q) : a[i] = q[i]
          /\ a[Len(q) + 1] = item
      <4> HIDE DEF q
      <4> QED BY <1>3, <3>1, AppendProperties
    <3>3. DOMAIN q = 1..Len(q) /\ DOMAIN a = 1..(Len(q) + 1) /\ Len(q) \in Nat
      <4> HIDE DEF q, a
      <4> QED BY <3>1, <3>2, LenProperties
    <3>4. fanout' = [fanout EXCEPT ![peer] = a]
      BY <1>4, <2>3
    <3>5. fanout' \in [Streams -> Seq(Item)] /\ fanout'[peer] = a
          /\ \A u \in Streams \ {peer} : fanout'[u] = fanout[u]
      <4> HIDE DEF a
      <4> QED BY <2>1, <3>2, <3>4
    <3>6. \A i \in DOMAIN q : i \in DOMAIN a /\ a[i] = q[i]
      <4> HIDE DEF a, q
      <4> QED BY <3>2, <3>3
    <3>7. Len(q) + 1 \in DOMAIN a /\ a[Len(q) + 1] = item
      <4> HIDE DEF a, q
      <4> QED BY <3>2, <3>3
    <3> HIDE DEF a
    <3> QED BY <2>3, <3>5, <3>6, <3>7
  <2> QED BY <2>2, <2>3
<1>9. PlaneTyped'
  BY <1>1, <1>8 DEF BlockDedupInv, PlaneTyped
<1>10. OpsTyped' /\ DecisionsSound'
  <2>1. IsOp(o) /\ o.pc = "send"
    BY <1>2, <1>6 DEF IsOp
  <2>2. key[s] # 0
    BY <1>2 DEF BlockDedupInv, DecisionsSound
  <2> QED BY <1>1, <1>2, <1>7, <2>1, <2>2, OneOpMoves
<1>11. KeysUnique' /\ IssuedInPast'
  BY <1>1 DEF BlockDedupInv, KeysUnique, IssuedInPast
<1>12. WorkersSound'
  <2>1. \A u \in Streams : worker[u] = "done" => fanout'[u] = fanout[u]
    BY <1>4, <1>8 DEF BlockDedupInv, PlaneTyped
  <2> QED BY <1>1, <2>1 DEF BlockDedupInv, WorkersSound
<1>13. /\ DOMAIN recentBlocks' = Sources
       /\ \A x \in Sources :
            /\ IsReservation(recentBlocks'[x]) /\ CountExact(recentBlocks'[x])
            /\ recentBlocks'[x].bcast = recentBlocks[x].bcast
            /\ \A k \in DOMAIN recentBlocks'[x].sent :
                 k \in DOMAIN recentBlocks[x].sent
                   /\ recentBlocks'[x].sent[k] = recentBlocks[x].sent[k]
       /\ ~closed /\ full /\ key[peer] \in DOMAIN recentBlocks'[item.src].sent
            => recentBlocks[item.src].sent[key[peer]].at # item.at
  <2>1. CASE ~closed /\ full
    BY <1>3, <1>5, <2>1, Release
  <2>2. CASE ~(~closed /\ full)
    <3>1. recentBlocks' = recentBlocks
      BY <1>5, <2>2
    <3> QED BY <2>2, <3>1 DEF BlockDedupInv, ReservationSound
  <2> QED BY <2>1, <2>2
<1>14. ASSUME NEW x \in Sources
       PROVE  ReservationSound(recentBlocks[x], x)'
  <2>1. ASSUME NEW u \in Streams, conn'[u] = "open"
        PROVE  /\ Delivered(x, u) => Delivered(x, u)'
               /\ Sending(x, u) => Sending(x, u)'
               /\ \A t : key[u] \in DOMAIN recentBlocks'[x].sent
                           /\ t = recentBlocks[x].sent[key[u]].at /\ Queued(x, u, t)
                         => Queued(x, u, t)'
    <3>1. (Delivered(x, u) => Delivered(x, u)') /\ (Sending(x, u) => Sending(x, u)')
      BY <1>1 DEF Sending, Delivered
    <3>2. ASSUME NEW t, key[u] \in DOMAIN recentBlocks'[x].sent,
                 t = recentBlocks[x].sent[key[u]].at, Queued(x, u, t)
          PROVE  Queued(x, u, t)'
      <4>1. CASE \E i \in DOMAIN fanout[u] : fanout[u][i].src = x /\ fanout[u][i].at = t
        BY <1>8, <4>1 DEF Queued
      <4>2. CASE \E i \in DOMAIN inHand[u] : inHand[u][i].src = x /\ inHand[u][i].at = t
        BY <1>1, <4>2 DEF Queued
      <4>3. ASSUME NEW p \in Streams, op[p].pc = "send", op[p].src = x,
                   u \in op[p].todo, op[p].at = t
            PROVE  Queued(x, u, t)'
        <5>1. CASE p # s
          <6>1. op'[p] = op[p]
            BY <1>2, <5>1
          <6> QED BY <4>3, <6>1 DEF Queued
        <5>2. CASE p = s /\ u # peer
          <6>1. op'[s] = o
            BY <1>2
          <6>2. op'[s].pc = "send" /\ op'[s].src = x /\ u \in op'[s].todo /\ op'[s].at = t
            BY <1>6, <4>3, <5>2, <6>1
          <6> QED BY <6>2 DEF Queued
        <5>3. CASE p = s /\ u = peer
          <6>1. item.src = x /\ item.at = t
            BY <1>3, <4>3, <5>3
          <6>2. ~closed
            BY <1>1, <2>1, <5>3 DEF BlockDedupInv, WorkersSound
          <6>3. ~full
            BY <1>13, <3>2, <5>3, <6>1, <6>2
          <6>4. \E i \in DOMAIN fanout'[u] : fanout'[u][i] = item
            BY <1>8, <5>3, <6>2, <6>3
          <6> QED BY <6>1, <6>4 DEF Queued
        <5> QED BY <5>1, <5>2, <5>3
      <4> QED BY <3>2, <4>1, <4>2, <4>3 DEF Queued
    <3> QED BY <3>1, <3>2
  <2> QED BY <1>1, <1>7, <1>13, <2>1, ReservationStep
<1> QED BY <1>9, <1>10, <1>11, <1>12, <1>13, <1>14 DEF BlockDedupInv

\* The head and the tail of a queue.
LEMMA QueueTail ==
  ASSUME NEW q \in Seq(Item), q # << >>
  PROVE  /\ Tail(q) \in Seq(Item) /\ Head(q) \in Item
         /\ \A i \in DOMAIN q : q[i] = Head(q) \/ \E j \in DOMAIN Tail(q) : Tail(q)[j] = q[i]
<1>1. /\ Tail(q) \in Seq(Item) /\ Head(q) \in Item /\ Head(q) = q[1]
      /\ Len(Tail(q)) = Len(q) - 1
      /\ \A j \in 1..Len(Tail(q)) : Tail(q)[j] = q[j + 1]
  BY HeadTailProperties
<1>2. /\ DOMAIN q = 1..Len(q) /\ Len(q) \in Nat
      /\ DOMAIN Tail(q) = 1..(Len(q) - 1)
  BY <1>1, LenProperties
<1>3. ASSUME NEW i \in DOMAIN q, i # 1
      PROVE  \E j \in DOMAIN Tail(q) : Tail(q)[j] = q[i]
  <2>1. i - 1 \in 1..(Len(q) - 1) /\ (i - 1) + 1 = i
    BY <1>2, <1>3
  <2>2. Tail(q)[i - 1] = q[i]
    BY <1>1, <1>2, <2>1
  <2> QED BY <1>2, <2>1, <2>2
<1> QED BY <1>1, <1>3

\* runScrubFanout takes an item out: it is in hand, or released, or the stream
\* has ended.
LEMMA TakeFanoutKeeps ==
  ASSUME BlockDedupInv, NEW s \in Streams, takeFanout(s)
  PROVE  BlockDedupInv'
<1> DEFINE q == fanout[s]
           item == Head(q)
           open == conn[s] = "open"
           trusted == isTrustedScrub(s)
<1>1. UNCHANGED <<now, conn, key, keySeq, role, stopped, evidence, swept, op,
                  inflight, issued, got, decisions>>
  BY DEF takeFanout, connVars, dedupHistory
<1>2. /\ worker[s] = "run" /\ inHand[s] = << >> /\ q # << >>
      /\ fanout' = [fanout EXCEPT ![s] = Tail(q)]
      /\ IF open /\ trusted THEN inHand' = [inHand EXCEPT ![s] = <<item>>]
                            ELSE UNCHANGED inHand
      /\ IF open /\ ~trusted THEN releaseBlock(s, item) ELSE UNCHANGED recentBlocks
      /\ worker' = [worker EXCEPT ![s] = IF open THEN "run" ELSE "draining"]
  BY DEF takeFanout, BlockDedupInv, PlaneTyped
<1>3. /\ fanout \in [Streams -> Seq(Item)] /\ inHand \in [Streams -> Seq(Item)]
      /\ worker \in [Streams -> {"none", "run", "draining", "done"}]
      /\ conn \in [Streams -> {"new", "open", "ending", "gone"}]
  BY DEF BlockDedupInv, PlaneTyped
<1>4. /\ Tail(q) \in Seq(Item) /\ item \in Item
      /\ \A i \in DOMAIN q : q[i] = item \/ \E j \in DOMAIN Tail(q) : Tail(q)[j] = q[i]
  <2>1. q \in Seq(Item)
    BY <1>3
  <2> HIDE DEF q
  <2> QED BY <1>2, <2>1, QueueTail
<1>5. item.src \in Sources
  <2> HIDE DEF item
  <2> QED BY <1>4 DEF Item
<1>6. /\ <<item>> \in Seq(Item) /\ <<item>> # << >> /\ Len(<<item>>) = 1
      /\ DOMAIN <<item>> = {1} /\ <<item>>[1] = item
  <2> HIDE DEF item
  <2> QED BY <1>4
<1>7. KeysUnique /\ WorkersSound /\ IssuedInPast /\ PlaneTyped
  BY DEF BlockDedupInv
<1>8. key[s] # 0 /\ conn[s] # "new"
  BY <1>2, <1>3, <1>7 DEF KeysUnique, WorkersSound
<1> HIDE DEF q, item, trusted
<1>9. /\ fanout'[s] = Tail(q)
      /\ \A u \in Streams \ {s} : /\ fanout'[u] = fanout[u] /\ inHand'[u] = inHand[u]
                                  /\ worker'[u] = worker[u]
      /\ inHand'[s] = IF open /\ trusted THEN <<item>> ELSE << >>
      /\ worker'[s] = IF open THEN "run" ELSE "draining"
  BY <1>2, <1>3
<1>10. ConnShrinks
  BY <1>1 DEF ConnShrinks
<1>11. PlaneTyped'
  <2>1. fanout' \in [Streams -> Seq(Item)]
    BY <1>2, <1>3, <1>4
  <2>2. inHand' \in [Streams -> Seq(Item)]
    BY <1>2, <1>3, <1>6
  <2>3. worker' \in [Streams -> {"none", "run", "draining", "done"}]
    BY <1>2, <1>3
  <2> QED BY <1>1, <1>7, <2>1, <2>2, <2>3 DEF PlaneTyped
<1>12. OpsTyped' /\ DecisionsSound'
  BY <1>1, <1>10, NoOpMoves DEF BlockDedupInv, PlaneTyped
<1>13. KeysUnique' /\ IssuedInPast'
  BY <1>1, <1>7 DEF KeysUnique, IssuedInPast
<1>14. WorkersSound'
  <2>1. Len(<< >>) = 0
    BY EmptySeq
  <2>2. ASSUME NEW u \in Streams
        PROVE  /\ worker'[u] # "none" => conn[u] # "new"
               /\ worker'[u] \in {"draining", "done"} => conn[u] \in {"ending", "gone"}
               /\ inHand'[u] # << >> => worker'[u] = "run"
               /\ Len(inHand'[u]) <= 1
               /\ worker'[u] = "done" => fanout'[u] = << >>
    <3>1. CASE u = s
      <4>1. conn[s] \in {"open", "ending", "gone"}
        BY <1>3, <1>8
      <4>2. Len(inHand'[s]) <= 1
        BY <1>6, <1>9, <2>1
      <4>3. inHand'[s] # << >> => worker'[s] = "run"
        BY <1>9
      <4>4. worker'[s] # "done" /\ (worker'[s] = "draining" => ~open)
        BY <1>9
      <4> QED BY <3>1, <4>1, <4>2, <4>3, <4>4
    <3>2. CASE u # s
      BY <1>7, <1>9, <3>2 DEF WorkersSound
    <3> QED BY <3>1, <3>2
  <2> QED BY <1>1, <2>2 DEF WorkersSound
<1>15. /\ DOMAIN recentBlocks' = Sources
       /\ \A x \in Sources :
            /\ IsReservation(recentBlocks'[x]) /\ CountExact(recentBlocks'[x])
            /\ recentBlocks'[x].bcast = recentBlocks[x].bcast
            /\ \A k \in DOMAIN recentBlocks'[x].sent :
                 k \in DOMAIN recentBlocks[x].sent
                   /\ recentBlocks'[x].sent[k] = recentBlocks[x].sent[k]
       /\ open /\ ~trusted /\ key[s] \in DOMAIN recentBlocks'[item.src].sent
            => recentBlocks[item.src].sent[key[s]].at # item.at
  <2>1. CASE open /\ ~trusted
    BY <1>2, <1>5, <2>1, Release
  <2>2. CASE ~(open /\ ~trusted)
    <3>1. recentBlocks' = recentBlocks
      BY <1>2, <2>2
    <3> QED BY <2>2, <3>1 DEF BlockDedupInv, ReservationSound
  <2> QED BY <2>1, <2>2
<1>16. ASSUME NEW x \in Sources
       PROVE  ReservationSound(recentBlocks[x], x)'
  <2>1. ASSUME NEW u \in Streams, conn'[u] = "open"
        PROVE  /\ Delivered(x, u) => Delivered(x, u)'
               /\ Sending(x, u) => Sending(x, u)'
               /\ \A t : key[u] \in DOMAIN recentBlocks'[x].sent
                           /\ t = recentBlocks[x].sent[key[u]].at /\ Queued(x, u, t)
                         => Queued(x, u, t)'
    <3>1. (Delivered(x, u) => Delivered(x, u)') /\ (Sending(x, u) => Sending(x, u)')
      BY <1>1 DEF Sending, Delivered
    <3>2. ASSUME NEW t, key[u] \in DOMAIN recentBlocks'[x].sent,
                 t = recentBlocks[x].sent[key[u]].at, Queued(x, u, t)
          PROVE  Queued(x, u, t)'
      <4>1. ASSUME NEW i \in DOMAIN fanout[u], fanout[u][i].src = x, fanout[u][i].at = t
            PROVE  Queued(x, u, t)'
        <5>1. CASE u # s
          BY <1>9, <4>1, <5>1 DEF Queued
        <5>2. CASE u = s /\ q[i] # item
          <6>1. \E j \in DOMAIN fanout'[u] : fanout'[u][j] = fanout[u][i]
            BY <1>4, <1>9, <4>1, <5>2 DEF q
          <6> QED BY <4>1, <6>1 DEF Queued
        <5>3. CASE u = s /\ q[i] = item
          <6>1. item.src = x /\ item.at = t
            BY <4>1, <5>3 DEF q
          <6>2. open /\ trusted
            BY <1>1, <1>15, <2>1, <3>2, <5>3, <6>1
          <6>3. 1 \in DOMAIN inHand'[u] /\ inHand'[u][1] = item
            BY <1>6, <1>9, <5>3, <6>2
          <6> QED BY <6>1, <6>3 DEF Queued
        <5> QED BY <5>1, <5>2, <5>3
      <4>2. ASSUME NEW i \in DOMAIN inHand[u], inHand[u][i].src = x, inHand[u][i].at = t
            PROVE  Queued(x, u, t)'
        <5>1. u # s
          <6>1. DOMAIN << >> = {}
            OBVIOUS
          <6> QED BY <1>2, <4>2, <6>1
        <5> QED BY <1>9, <4>2, <5>1 DEF Queued
      <4>3. CASE \E p \in Streams : /\ op[p].pc = "send" /\ op[p].src = x
                                    /\ u \in op[p].todo /\ op[p].at = t
        BY <1>1, <4>3 DEF Queued
      <4> QED BY <3>2, <4>1, <4>2, <4>3 DEF Queued
    <3> QED BY <3>1, <3>2
  <2> QED BY <1>1, <1>10, <1>15, <2>1, ReservationStep
<1> QED BY <1>11, <1>12, <1>13, <1>14, <1>15, <1>16 DEF BlockDedupInv

\* sendLocked of the item in hand: it is delivered, or the stream has ended.
LEMMA SendFanoutKeeps ==
  ASSUME BlockDedupInv, NEW s \in Streams, sendFanout(s)
  PROVE  BlockDedupInv'
<1> DEFINE h == inHand[s]
           item == Head(h)
<1>1. UNCHANGED <<now, conn, key, keySeq, role, stopped, evidence, swept, op,
                  inflight, fanout, worker, issued, decisions>>
  BY DEF sendFanout, connVars
<1>2. /\ h # << >>
      /\ inHand' = [inHand EXCEPT ![s] = << >>]
      /\ IF conn[s] = "open" THEN UNCHANGED recentBlocks ELSE releaseBlock(s, item)
  BY DEF sendFanout
<1>3. inHand \in [Streams -> Seq(Item)] /\ Len(h) <= 1 /\ h \in Seq(Item)
  BY DEF BlockDedupInv, PlaneTyped, WorkersSound
<1>4. item \in Item /\ \A i \in DOMAIN h : h[i] = item
  <2> HIDE DEF h
  <2>1. Head(h) \in Item /\ Head(h) = h[1] /\ DOMAIN h = 1..Len(h) /\ Len(h) \in Nat
    BY <1>2, <1>3, HeadTailProperties, LenProperties
  <2>2. \A i \in DOMAIN h : i = 1
    BY <1>3, <2>1
  <2> QED BY <2>1, <2>2
<1>5. item.src \in Sources
  <2> HIDE DEF item
  <2> QED BY <1>4 DEF Item
<1>6. PICK y \in Sources : y = item.src
  BY <1>5
<1>7. /\ got' \in [Sources -> [Streams -> Time]]
      /\ conn[s] = "open" => Delivered(y, s)'
      /\ \A z \in Sources, u \in Streams : Delivered(z, u) => Delivered(z, u)'
  <2>1. deliver(y, s)
    BY <1>6 DEF sendFanout, deliver
  <2> QED BY <1>1, <2>1, Deliver
<1> HIDE DEF item
<1>8. inHand'[s] = << >> /\ \A u \in Streams \ {s} : inHand'[u] = inHand[u]
  BY <1>2, <1>3
<1>9. ConnShrinks
  BY <1>1 DEF ConnShrinks
<1>10. PlaneTyped'
  <2>1. inHand' \in [Streams -> Seq(Item)]
    BY <1>2, <1>3, EmptySeq
  <2> QED BY <1>1, <1>7, <2>1 DEF BlockDedupInv, PlaneTyped
<1>11. OpsTyped' /\ DecisionsSound'
  BY <1>1, <1>9, NoOpMoves DEF BlockDedupInv, PlaneTyped
<1>12. KeysUnique' /\ IssuedInPast'
  BY <1>1 DEF BlockDedupInv, KeysUnique, IssuedInPast
<1>13. WorkersSound'
  <2>1. Len(<< >>) = 0
    BY EmptySeq
  <2>2. ASSUME NEW u \in Streams
        PROVE  (inHand'[u] # << >> => inHand[u] # << >>) /\ Len(inHand'[u]) <= 1
    BY <1>8, <2>1 DEF BlockDedupInv, WorkersSound
  <2> QED BY <1>1, <2>2 DEF BlockDedupInv, WorkersSound
<1>14. /\ DOMAIN recentBlocks' = Sources
       /\ \A x \in Sources :
            /\ IsReservation(recentBlocks'[x]) /\ CountExact(recentBlocks'[x])
            /\ recentBlocks'[x].bcast = recentBlocks[x].bcast
            /\ \A k \in DOMAIN recentBlocks'[x].sent :
                 k \in DOMAIN recentBlocks[x].sent
                   /\ recentBlocks'[x].sent[k] = recentBlocks[x].sent[k]
  <2>1. CASE conn[s] # "open"
    BY <1>2, <1>5, <2>1, Release
  <2>2. CASE conn[s] = "open"
    <3>1. recentBlocks' = recentBlocks
      BY <1>2, <2>2
    <3> QED BY <3>1 DEF BlockDedupInv, ReservationSound
  <2> QED BY <2>1, <2>2
<1>15. ASSUME NEW x \in Sources
       PROVE  ReservationSound(recentBlocks[x], x)'
  <2>1. ASSUME NEW u \in Streams, conn'[u] = "open"
        PROVE  /\ Delivered(x, u) => Delivered(x, u)'
               /\ Sending(x, u) => Sending(x, u)'
               /\ \A t : Queued(x, u, t) => Delivered(x, u)' \/ Queued(x, u, t)'
    <3>1. (Delivered(x, u) => Delivered(x, u)') /\ (Sending(x, u) => Sending(x, u)')
      BY <1>1, <1>7 DEF Sending
    <3>2. ASSUME NEW t, Queued(x, u, t)
          PROVE  Delivered(x, u)' \/ Queued(x, u, t)'
      <4>1. CASE \E i \in DOMAIN fanout[u] : fanout[u][i].src = x /\ fanout[u][i].at = t
        BY <1>1, <4>1 DEF Queued
      <4>2. ASSUME NEW i \in DOMAIN inHand[u], inHand[u][i].src = x, inHand[u][i].at = t
            PROVE  Delivered(x, u)' \/ Queued(x, u, t)'
        <5>1. CASE u # s
          BY <1>8, <4>2, <5>1 DEF Queued
        <5>2. CASE u = s
          <6>1. y = x
            BY <1>4, <1>6, <4>2, <5>2
          <6> QED BY <1>1, <1>7, <2>1, <5>2, <6>1
        <5> QED BY <5>1, <5>2
      <4>3. CASE \E p \in Streams : /\ op[p].pc = "send" /\ op[p].src = x
                                    /\ u \in op[p].todo /\ op[p].at = t
        BY <1>1, <4>3 DEF Queued
      <4> QED BY <3>2, <4>1, <4>2, <4>3 DEF Queued
    <3> QED BY <3>1, <3>2
  <2> QED BY <1>1, <1>9, <1>14, <2>1, ReservationStep
<1> QED BY <1>10, <1>11, <1>12, <1>13, <1>14, <1>15 DEF BlockDedupInv

\* A new stream has a key no reservation and no decision knows.
LEMMA ConnectKeeps ==
  ASSUME BlockDedupInv, NEW s \in Streams, Connect(s)
  PROVE  BlockDedupInv'
<1>1. UNCHANGED <<now, role, stopped, evidence, recentBlocks, swept, op, inflight,
                  fanout, inHand, issued, got, decisions>>
  BY DEF Connect, dedupHistory
<1>2. /\ conn[s] = "new" /\ keySeq' = keySeq + 1
      /\ key' = [key EXCEPT ![s] = keySeq + 1]
      /\ conn' = [conn EXCEPT ![s] = "open"]
      /\ worker' = [worker EXCEPT ![s] = IF s \in CertTrusted THEN "run" ELSE "none"]
  BY DEF Connect
<1>3. /\ PlaneTyped /\ KeysUnique /\ DecisionsSound /\ WorkersSound /\ IssuedInPast
      /\ OpsTyped /\ DOMAIN recentBlocks = Sources
  BY DEF BlockDedupInv
<1>4. /\ conn \in [Streams -> {"new", "open", "ending", "gone"}]
      /\ keySeq \in Nat /\ key \in [Streams -> 0..keySeq]
      /\ worker \in [Streams -> {"none", "run", "draining", "done"}]
  BY <1>3 DEF PlaneTyped
<1>5. /\ key'[s] = keySeq + 1 /\ conn'[s] = "open" /\ worker'[s] \in {"none", "run"}
      /\ \A u \in Streams \ {s} : /\ key'[u] = key[u] /\ conn'[u] = conn[u]
                                  /\ worker'[u] = worker[u]
      /\ key[s] = 0
  BY <1>2, <1>3, <1>4 DEF KeysUnique
<1>6. \A u \in Streams : key[u] \in Nat /\ key[u] <= keySeq
  BY <1>4
<1>7. PlaneTyped'
  <2>1. keySeq' \in Nat /\ key' \in [Streams -> 0..keySeq']
    BY <1>2, <1>4
  <2>2. /\ conn' \in [Streams -> {"new", "open", "ending", "gone"}]
        /\ worker' \in [Streams -> {"none", "run", "draining", "done"}]
    BY <1>2, <1>4
  <2> QED BY <1>1, <1>3, <2>1, <2>2 DEF PlaneTyped
<1>8. OpsTyped'
  BY <1>1, <1>3, OpsMove DEF PlaneTyped, OpsTyped
<1>9. KeysUnique'
  BY <1>3, <1>4, <1>5, <1>6 DEF KeysUnique
<1>10. DecisionsSound'
  <2> SUFFICES ASSUME NEW p \in Procs
               PROVE  /\ p \in Broadcasters => op[p].pc \in {"idle", "reserve"}
                      /\ p \in Streams /\ op[p].pc # "idle" => key'[p] # 0
                      /\ op[p].pc = "verdict" => op[p].excluded = {}
                      /\ op[p].pc = "reserve" =>
                           /\ \A u \in op[p].targets \cup op[p].excluded : key'[u] # 0
                           /\ (op[p].scope = "broadcast" <=> p \in Broadcasters)
                           /\ op[p].scope = "broadcast" =>
                                \A v \in Registered', u \in op[p].targets :
                                   key'[v] <= key'[u] => v \in op[p].targets \cup op[p].excluded
    BY <1>1 DEF DecisionsSound
  <2>1. IsOp(op[p])
    BY <1>3 DEF OpsTyped
  <2>2. /\ p \in Broadcasters => op[p].pc \in {"idle", "reserve"}
        /\ p \in Streams /\ op[p].pc # "idle" => key'[p] # 0
        /\ op[p].pc = "verdict" => op[p].excluded = {}
    BY <1>3, <1>4, <1>5 DEF DecisionsSound
  <2>3. ASSUME op[p].pc = "reserve"
        PROVE  /\ \A u \in op[p].targets \cup op[p].excluded : u # s /\ key'[u] = key[u] /\ key[u] # 0
               /\ (op[p].scope = "broadcast" <=> p \in Broadcasters)
    BY <1>3, <1>5, <2>1, <2>3 DEF DecisionsSound, IsOp
  <2>4. ASSUME op[p].pc = "reserve", op[p].scope = "broadcast",
               NEW v \in Registered', NEW u \in op[p].targets, key'[v] <= key'[u]
        PROVE  v \in op[p].targets \cup op[p].excluded
    <3>1. v \in Streams /\ u \in Streams
      BY <2>1 DEF Registered, IsOp
    <3>2. key'[u] = key[u]
      BY <2>3, <2>4
    <3>3. v # s
      BY <1>4, <1>5, <1>6, <2>4, <3>1, <3>2
    <3>4. v \in Registered /\ key[v] <= key[u]
      BY <1>5, <2>4, <3>1, <3>2, <3>3 DEF Registered
    <3> QED BY <1>3, <2>4, <3>4 DEF DecisionsSound
  <2> QED BY <2>2, <2>3, <2>4
<1>11. WorkersSound'
  BY <1>1, <1>2, <1>3, <1>5 DEF WorkersSound
<1>12. IssuedInPast'
  BY <1>1, <1>3 DEF IssuedInPast
<1>13. ASSUME NEW x \in Sources
       PROVE  ReservationSound(recentBlocks[x], x)'
  <2> DEFINE r == recentBlocks[x]
  <2>1. IsReservation(r) /\ CountExact(r) /\ TimesExact(r, x) /\ BlocksCarried(r, x)
    BY DEF BlockDedupInv, ReservationSound
  <2>2. recentBlocks'[x] = r
    BY <1>1
  <2> HIDE DEF r
  <2>3. /\ DOMAIN r.sent \subseteq 1..keySeq /\ r.bcast.upTo \in 0..keySeq
        /\ r.bcast.skip \subseteq 1..keySeq
    BY <2>1 DEF IsReservation
  <2>4. /\ DOMAIN r.sent \subseteq 1..keySeq' /\ r.bcast.upTo \in 0..keySeq'
        /\ r.bcast.skip \subseteq 1..keySeq'
    BY <1>2, <1>4, <2>3
  <2>5. IsReservation(recentBlocks[x])'
    BY <2>1, <2>2, <2>4 DEF IsReservation
  <2>6. CountExact(recentBlocks[x])'
    BY <2>1, <2>2 DEF CountExact, BcastKeys
  <2>7. /\ keySeq + 1 \notin DOMAIN r.sent
        /\ ~MarkHolds(r.bcast, keySeq + 1)
    BY <1>4, <2>3 DEF MarkHolds
  <2>8. \A u \in Streams \ {s} : u \in Registered' <=> u \in Registered
    BY <1>5 DEF Registered
  <2>9. TimesExact(recentBlocks[x], x)'
    <3> SUFFICES ASSUME NEW u \in Streams
                 PROVE  /\ key'[u] \in DOMAIN r.sent => r.sent[key'[u]].at = issued[x][u]
                        /\ u \in Registered' /\ MarkHolds(r.bcast, key'[u])
                             => issued[x][u] = r.bcast.at
      BY <1>1, <2>2 DEF TimesExact, MarkHolds
    <3>1. CASE u = s
      BY <1>5, <2>7, <3>1
    <3>2. CASE u # s
      BY <1>5, <2>1, <2>8, <3>2 DEF TimesExact
    <3> QED BY <3>1, <3>2
  <2>10. BlocksCarried(recentBlocks[x], x)'
    <3> SUFFICES ASSUME NEW u \in Streams, conn'[u] = "open"
                 PROVE  /\ MarkHolds(r.bcast, key'[u]) => Delivered(x, u) \/ Sending(x, u)
                        /\ key'[u] \in DOMAIN r.sent =>
                             \/ Delivered(x, u)
                             \/ r.sent[key'[u]].broadcast /\ Sending(x, u)
                             \/ /\ ~r.sent[key'[u]].broadcast
                                /\ Queued(x, u, r.sent[key'[u]].at)
      BY <1>1, <2>2 DEF BlocksCarried, MarkHolds, Delivered, Sending, Queued
    <3>1. CASE u = s
      BY <1>5, <2>7, <3>1
    <3>2. CASE u # s
      BY <1>5, <2>1, <3>2 DEF BlocksCarried
    <3> QED BY <3>1, <3>2
  <2> QED BY <2>5, <2>6, <2>9, <2>10 DEF ReservationSound
<1> QED BY <1>1, <1>3, <1>7, <1>8, <1>9, <1>10, <1>11, <1>12, <1>13 DEF BlockDedupInv

\* A reservation nothing is entered in.
LEMMA NewIsReservation ==
  ASSUME keySeq \in Nat
  PROVE  /\ IsReservation(NewReservation) /\ CountExact(NewReservation)
         /\ DOMAIN NewReservation.sent = {} /\ NewReservation.bcast = NoMark
         /\ NewReservation.at = 0
<1> DEFINE n == NewReservation
           none == [c \in Scopes |-> 0]
<1>1. n = [at |-> 0, published |-> none, sent |-> << >>, bcastEntries |-> 0, bcast |-> NoMark]
  BY DEF NewReservation
<1>2. none \in [Scopes -> Time] /\ 0 \in Time
  BY NumbersAssumption DEF Time
<1> HIDE DEF n, none
<1>3. /\ n.at = 0 /\ n.published = none /\ n.sent = << >> /\ n.bcastEntries = 0 /\ n.bcast = NoMark
      /\ n = [at |-> n.at, published |-> n.published, sent |-> n.sent,
              bcastEntries |-> n.bcastEntries, bcast |-> n.bcast]
  BY <1>1
<1>4. DOMAIN n.sent = {}
  BY <1>3
<1>5. n.sent \in [DOMAIN n.sent -> [at : 1..MaxTime, broadcast : BOOLEAN]]
  <2>1. << >> = [i \in {} |-> << >>[i]]
    OBVIOUS
  <2>2. n.sent \in [{} -> [at : 1..MaxTime, broadcast : BOOLEAN]]
    BY <1>3, <2>1
  <2> QED BY <1>4, <2>2
<1>6. IsReservation(n)
  <2>1. /\ n.bcast = [at |-> n.bcast.at, upTo |-> n.bcast.upTo, skip |-> n.bcast.skip]
        /\ n.bcast.at \in Time /\ n.bcast.upTo \in 0..keySeq /\ n.bcast.skip \subseteq 1..keySeq
    BY <1>2, <1>3, NoMarkHolds
  <2>2. n.at \in Time /\ n.published \in [Scopes -> Time] /\ n.bcastEntries \in Int
    BY <1>2, <1>3
  <2>3. DOMAIN n.sent \subseteq 1..keySeq
    BY <1>4
  <2> QED BY <1>3, <1>5, <2>1, <2>2, <2>3 DEF IsReservation
<1>7. CountExact(n)
  <2>1. BcastKeys(n) = {}
    BY <1>4 DEF BcastKeys
  <2> QED BY <1>3, <2>1, FS_EmptySet, NumbersAssumption DEF CountExact
<1> QED BY <1>3, <1>4, <1>6, <1>7 DEF n

\* It stands for nothing.
LEMMA NewIsSound ==
  ASSUME NEW x \in Sources, keySeq' = keySeq, keySeq \in Nat,
         recentBlocks'[x] = NewReservation
  PROVE  ReservationSound(recentBlocks[x], x)'
<1> DEFINE n == NewReservation
<1>1. /\ IsReservation(n) /\ CountExact(n) /\ DOMAIN n.sent = {} /\ n.bcast = NoMark
  BY NewIsReservation
<1> HIDE DEF n
<1>2. recentBlocks'[x] = n
  BY DEF n
<1>3. IsReservation(recentBlocks[x])'
  BY <1>1, <1>2 DEF IsReservation
<1>4. CountExact(recentBlocks[x])'
  BY <1>1, <1>2 DEF CountExact, BcastKeys
<1>5. \A k : k \notin DOMAIN n.sent /\ ~MarkHolds(n.bcast, k)
  BY <1>1, NoMarkHolds
<1>6. \A k : k \notin DOMAIN recentBlocks'[x].sent /\ ~MarkHolds(recentBlocks'[x].bcast, k)
  BY <1>2, <1>5
<1>7. TimesExact(recentBlocks[x], x)'
  BY <1>6 DEF TimesExact, MarkHolds
<1>8. BlocksCarried(recentBlocks[x], x)'
  BY <1>6 DEF BlocksCarried, MarkHolds
<1> QED BY <1>3, <1>4, <1>7, <1>8 DEF ReservationSound

\* The reservation a decision starts from.
LEMMA LiveIsSound ==
  ASSUME BlockDedupInv, NEW x \in Sources, NEW t
  PROVE  LET live == liveReservation(recentBlocks[x], t)
         IN  /\ IsReservation(live) /\ CountExact(live)
             /\ TimesExact(live, x) /\ BlocksCarried(live, x)
<1> DEFINE n == NewReservation
<1>1. keySeq \in Nat
  BY DEF BlockDedupInv, PlaneTyped
<1>2. IsReservation(n) /\ CountExact(n) /\ DOMAIN n.sent = {} /\ n.bcast = NoMark
  BY <1>1, NewIsReservation
<1> HIDE DEF n
<1>3. \A k : k \notin DOMAIN n.sent /\ ~MarkHolds(n.bcast, k)
  BY <1>2, NoMarkHolds
<1>4. TimesExact(n, x) /\ BlocksCarried(n, x)
  BY <1>3 DEF TimesExact, BlocksCarried
<1>5. /\ IsReservation(recentBlocks[x]) /\ CountExact(recentBlocks[x])
      /\ TimesExact(recentBlocks[x], x) /\ BlocksCarried(recentBlocks[x], x)
  BY DEF BlockDedupInv, ReservationSound
<1>6. liveReservation(recentBlocks[x], t) = n \/ liveReservation(recentBlocks[x], t) = recentBlocks[x]
  BY DEF liveReservation, n
<1> QED BY <1>2, <1>4, <1>5, <1>6

\* The decision is recorded for the fresh collectors and their sends start: on a
\* goroutine each for a Broadcast, through the origin's todo otherwise.
SendsStarted(x, fresh, scope, t) ==
  /\ \A s \in fresh : issued'[x][s] = t
  /\ \A s \in Streams \ fresh : issued'[x][s] = issued[x][s]
  /\ inflight \subseteq inflight'
  /\ \A p \in Streams : op[p].pc = "send" => op'[p] = op[p]
  /\ scope = "broadcast" => \A s \in fresh : Sending(x, s)'
  /\ scope # "broadcast" => \A s \in fresh : Queued(x, s, t)'

\* The reservation that reserveBlockExcept leaves behind is sound once the
\* fresh collectors are recorded and their sends started.
LEMMA ReservedIsSound ==
  ASSUME BlockDedupInv, NEW x \in Sources, NEW r0, NEW r, NEW fresh \in SUBSET Streams,
         NEW scope, NEW targets \in SUBSET Streams, fresh \subseteq targets,
         NEW excluded \in SUBSET Streams, NEW t \in 1..MaxTime,
         \A s \in targets : key[s] # 0,
         scope = "broadcast" =>
           \A s \in Registered, u \in targets :
              key[s] <= key[u] => s \in targets \cup excluded,
         TimesExact(r0, x), BlocksCarried(r0, x),
         IsReservation(r), CountExact(r),
         EntriesFrom(r0, r, fresh, scope, t),
         MarkFrom(r0, r.bcast, fresh, scope, targets, excluded, t),
         UNCHANGED <<conn, key, keySeq, fanout, inHand, got>>,
         recentBlocks'[x] = r,
         SendsStarted(x, fresh, scope, t)
  PROVE  ReservationSound(recentBlocks[x], x)'
<1> USE DEF SendsStarted
<1>1. IsReservation(recentBlocks[x])'
  BY DEF IsReservation
<1>2. CountExact(recentBlocks[x])'
  BY DEF CountExact, BcastKeys
<1>3. \A s, u \in Streams : key[s] = key[u] /\ key[s] # 0 => s = u
  BY DEF BlockDedupInv, KeysUnique
<1>4. Registered' = Registered
  BY DEF Registered
<1>5. \A k \in DOMAIN r.sent :
        \/ \E s \in fresh : k = key[s] /\ r.sent[k].at = t /\ (r.sent[k].broadcast <=> scope = "broadcast")
        \/ k \in DOMAIN r0.sent /\ r.sent[k] = r0.sent[k] /\ \A s \in fresh : k # key[s]
  <2> DEFINE e == [at |-> t, broadcast |-> scope = "broadcast"]
  <2>1. e.at = t /\ (e.broadcast <=> scope = "broadcast")
    OBVIOUS
  <2>2. \A k \in DOMAIN r.sent :
          \/ \E s \in fresh : k = key[s] /\ r.sent[k] = e
          \/ k \in DOMAIN r0.sent /\ r.sent[k] = r0.sent[k] /\ \A s \in fresh : k # key[s]
    BY DEF EntriesFrom
  <2> HIDE DEF e
  <2> QED BY <2>1, <2>2
<1>6. ASSUME NEW s \in Streams, s \in Registered, MarkHolds(r.bcast, key[s])
      PROVE  \/ s \in fresh /\ r.bcast.at = t /\ scope = "broadcast"
             \/ s \notin fresh /\ r.bcast = r0.bcast
  <2>1. CASE r.bcast = r0.bcast /\ \A u \in fresh : ~MarkHolds(r0.bcast, key[u])
    BY <1>6, <2>1
  <2>2. CASE /\ scope = "broadcast" /\ r.bcast.at = t
             /\ \E u \in targets : r.bcast.upTo = key[u]
             /\ \A u \in targets \ fresh : key[u] \in r.bcast.skip
             /\ \A u \in excluded : key[u] <= r.bcast.upTo => key[u] \in r.bcast.skip
    <3>1. key[s] <= r.bcast.upTo /\ key[s] \notin r.bcast.skip
      BY <1>6 DEF MarkHolds
    <3>2. s \in targets \cup excluded
      BY <1>6, <2>2, <3>1
    <3>3. s \in fresh
      BY <2>2, <3>1, <3>2
    <3> QED BY <2>2, <3>3
  <2> QED BY <1>6, <2>1, <2>2 DEF MarkFrom
<1>7. TimesExact(recentBlocks[x], x)'
  <2> SUFFICES ASSUME NEW s \in Streams
               PROVE  /\ key[s] \in DOMAIN r.sent => r.sent[key[s]].at = issued'[x][s]
                      /\ s \in Registered /\ MarkHolds(r.bcast, key[s])
                           => issued'[x][s] = r.bcast.at
    BY <1>4 DEF TimesExact, MarkHolds
  <2>1. /\ key[s] \in DOMAIN r0.sent => r0.sent[key[s]].at = issued[x][s]
        /\ s \in Registered /\ MarkHolds(r0.bcast, key[s]) => issued[x][s] = r0.bcast.at
    BY DEF TimesExact
  <2>2. ASSUME key[s] \in DOMAIN r.sent
        PROVE  r.sent[key[s]].at = issued'[x][s]
    <3>1. CASE \E u \in fresh : key[s] = key[u] /\ r.sent[key[s]].at = t
      <4>1. s \in fresh
        BY <1>3, <3>1
      <4> QED BY <3>1, <4>1
    <3>2. CASE /\ key[s] \in DOMAIN r0.sent /\ r.sent[key[s]] = r0.sent[key[s]]
               /\ \A u \in fresh : key[s] # key[u]
      BY <2>1, <3>2
    <3> QED BY <1>5, <2>2, <3>1, <3>2
  <2>3. ASSUME s \in Registered, MarkHolds(r.bcast, key[s])
        PROVE  issued'[x][s] = r.bcast.at
    BY <1>6, <2>1, <2>3
  <2> QED BY <2>2, <2>3
<1>8. BlocksCarried(recentBlocks[x], x)'
  <2> SUFFICES ASSUME NEW s \in Streams, conn[s] = "open"
               PROVE  /\ MarkHolds(r.bcast, key[s]) => Delivered(x, s)' \/ Sending(x, s)'
                      /\ key[s] \in DOMAIN r.sent =>
                           \/ Delivered(x, s)'
                           \/ r.sent[key[s]].broadcast /\ Sending(x, s)'
                           \/ /\ ~r.sent[key[s]].broadcast
                              /\ \E v : v = r.sent[key[s]].at /\ Queued(x, s, v)'
    BY DEF BlocksCarried, MarkHolds, Queued
  <2>1. /\ MarkHolds(r0.bcast, key[s]) => Delivered(x, s) \/ Sending(x, s)
        /\ key[s] \in DOMAIN r0.sent =>
             \/ Delivered(x, s)
             \/ r0.sent[key[s]].broadcast /\ Sending(x, s)
             \/ ~r0.sent[key[s]].broadcast /\ Queued(x, s, r0.sent[key[s]].at)
    BY DEF BlocksCarried
  <2>2. s \in Registered
    BY DEF Registered
  <2>3. /\ s \notin fresh => (Delivered(x, s) => Delivered(x, s)')
        /\ Sending(x, s) => Sending(x, s)'
        /\ \A v : Queued(x, s, v) => Queued(x, s, v)'
    BY DEF Delivered, Sending, Queued
  <2>4. MarkHolds(r.bcast, key[s]) => Delivered(x, s)' \/ Sending(x, s)'
    BY <1>6, <2>1, <2>2, <2>3
  <2>5. ASSUME key[s] \in DOMAIN r.sent
        PROVE  \/ Delivered(x, s)'
               \/ r.sent[key[s]].broadcast /\ Sending(x, s)'
               \/ /\ ~r.sent[key[s]].broadcast
                  /\ \E v : v = r.sent[key[s]].at /\ Queued(x, s, v)'
    <3>1. CASE \E u \in fresh : /\ key[s] = key[u] /\ r.sent[key[s]].at = t
                                /\ (r.sent[key[s]].broadcast <=> scope = "broadcast")
      <4>1. s \in fresh
        BY <1>3, <3>1
      <4>2. CASE scope = "broadcast"
        BY <3>1, <4>1, <4>2
      <4>3. CASE scope # "broadcast"
        BY <3>1, <4>1, <4>3
      <4> QED BY <4>2, <4>3
    <3>2. CASE /\ key[s] \in DOMAIN r0.sent /\ r.sent[key[s]] = r0.sent[key[s]]
               /\ \A u \in fresh : key[s] # key[u]
      <4>1. s \notin fresh
        BY <3>2
      <4>2. r0.sent[key[s]] = r.sent[key[s]] /\ key[s] \in DOMAIN r0.sent
        BY <3>2
      <4>3. CASE Delivered(x, s)
        BY <2>3, <4>1, <4>3
      <4>4. CASE r0.sent[key[s]].broadcast /\ Sending(x, s)
        BY <2>3, <4>2, <4>4
      <4>5. CASE ~r0.sent[key[s]].broadcast /\ Queued(x, s, r0.sent[key[s]].at)
        BY <2>3, <4>2, <4>5
      <4> QED BY <2>1, <4>2, <4>3, <4>4, <4>5
    <3> QED BY <1>5, <2>5, <3>1, <3>2
  <2> QED BY <2>4, <2>5
<1> QED BY <1>1, <1>2, <1>7, <1>8 DEF ReservationSound

\* reserveCommand: the reservation, the history and the sends move together.
LEMMA ReserveCommandKeeps ==
  ASSUME BlockDedupInv, NEW p \in Procs, reserveCommand(p)
  PROVE  BlockDedupInv'
<1> DEFINE live == liveReservation(recentBlocks[op[p].src], op[p].at)
           res == reserveBlockExcept(live, op[p].scope, op[p].targets, op[p].excluded, op[p].at)
<1>1. UNCHANGED <<now, conn, key, keySeq, role, stopped, evidence, fanout, inHand, worker,
                  got, decisions>>
  BY DEF reserveCommand, connVars, queueVars
<1>2. /\ IsOp(op[p]) /\ op[p].pc = "reserve" /\ op[p].at # 0 /\ DOMAIN op = Procs
      /\ op[p].src \in Sources /\ op[p].scope \in Scopes
      /\ op[p].targets \in SUBSET Streams /\ op[p].targets # {}
      /\ op[p].excluded \in SUBSET Streams
  BY DEF reserveCommand, BlockDedupInv, OpsTyped, IsOp
<1>3. op[p].at \in 1..MaxTime /\ op[p].at <= now /\ keySeq \in Nat
      /\ key \in [Streams -> 0..keySeq]
  BY <1>2, NumbersAssumption DEF IsOp, BlockDedupInv, PlaneTyped
<1>4. /\ \A s \in op[p].targets \cup op[p].excluded : key[s] # 0
      /\ (op[p].scope = "broadcast" <=> p \in Broadcasters)
      /\ op[p].scope = "broadcast" =>
           \A s \in Registered, u \in op[p].targets :
              key[s] <= key[u] => s \in op[p].targets \cup op[p].excluded
      /\ p \in Streams => key[p] # 0
  BY <1>2 DEF BlockDedupInv, DecisionsSound
<1> DEFINE stored == [recentBlocks EXCEPT ![op[p].src] = res.r]
           sweep == live.at = 0 /\ op[p].at - swept >= SweepInterval
           o == IF p \in Broadcasters \/ res.fresh = {} THEN Idle
                ELSE [op[p] EXCEPT !.pc = "send", !.todo = res.fresh]
           msgs == IF p \in Broadcasters
                   THEN {[src |-> op[p].src, to |-> s] : s \in res.fresh} ELSE {}
<1>5. /\ recentBlocks' = IF sweep THEN sweepRecentBlocks(stored, op[p].at) ELSE stored
      /\ swept' = IF sweep THEN op[p].at ELSE swept
      /\ issued' = [issued EXCEPT ![op[p].src] =
                      [s \in Streams |-> IF s \in res.fresh THEN op[p].at
                                         ELSE issued[op[p].src][s]]]
      /\ inflight' = inflight \cup msgs
      /\ op' = [op EXCEPT ![p] = o]
  <2>1. DOMAIN op = Procs /\ DOMAIN issued = Sources
    BY <1>2 DEF BlockDedupInv, PlaneTyped
  <2> QED BY <1>2, <2>1 DEF reserveCommand
<1>6. /\ IsReservation(live) /\ CountExact(live)
      /\ TimesExact(live, op[p].src) /\ BlocksCarried(live, op[p].src)
  BY <1>2, LiveIsSound
<1> HIDE DEF live
<1>7. /\ IsReservation(res.r) /\ CountExact(res.r)
      /\ res.fresh \subseteq op[p].targets
      /\ EntriesFrom(live, res.r, res.fresh, op[p].scope, op[p].at)
      /\ MarkFrom(live, res.r.bcast, res.fresh, op[p].scope, op[p].targets, op[p].excluded, op[p].at)
  BY <1>2, <1>3, <1>4, <1>6, ReserveResult
<1> HIDE DEF res
<1>8. res.fresh \in SUBSET Streams
  BY <1>2, <1>7
<1>9. /\ DOMAIN recentBlocks = Sources /\ PlaneTyped
      /\ issued \in [Sources -> [Streams -> Time]] /\ swept \in Time
      /\ inflight \subseteq [src : Sources, to : Streams]
  BY DEF BlockDedupInv, PlaneTyped
<1>10. /\ DOMAIN recentBlocks' = Sources
       /\ recentBlocks'[op[p].src] = res.r \/ recentBlocks'[op[p].src] = NewReservation
       /\ \A x \in Sources : x # op[p].src =>
            recentBlocks'[x] = recentBlocks[x] \/ recentBlocks'[x] = NewReservation
  <2>1. /\ DOMAIN stored = Sources /\ stored[op[p].src] = res.r
        /\ \A x \in Sources : x # op[p].src => stored[x] = recentBlocks[x]
    BY <1>2, <1>9
  <2> HIDE DEF stored
  <2>2. CASE sweep
    <3>1. recentBlocks' = sweepRecentBlocks(stored, op[p].at)
      BY <1>5, <2>2
    <3>2. /\ DOMAIN recentBlocks' = Sources
          /\ \A x \in Sources : recentBlocks'[x] = stored[x] \/ recentBlocks'[x] = NewReservation
      BY <3>1 DEF sweepRecentBlocks
    <3> QED BY <1>2, <2>1, <3>2
  <2>3. CASE ~sweep
    BY <1>2, <1>5, <2>1, <2>3
  <2> QED BY <2>2, <2>3
<1>11. /\ \A s \in Streams : issued'[op[p].src][s] = IF s \in res.fresh THEN op[p].at
                                                      ELSE issued[op[p].src][s]
       /\ \A x \in Sources : x # op[p].src => issued'[x] = issued[x]
       /\ issued' \in [Sources -> [Streams -> Time]]
  <2> DEFINE f == [s \in Streams |-> IF s \in res.fresh THEN op[p].at
                                     ELSE issued[op[p].src][s]]
  <2>1. op[p].at \in Time
    BY <1>3, NumbersAssumption DEF Time
  <2>2. f \in [Streams -> Time]
    BY <1>2, <1>9, <2>1
  <2>3. \A s \in Streams : f[s] = IF s \in res.fresh THEN op[p].at ELSE issued[op[p].src][s]
    OBVIOUS
  <2>4. issued' = [issued EXCEPT ![op[p].src] = f]
    BY <1>5
  <2> HIDE DEF f
  <2>5. /\ issued'[op[p].src] = f /\ issued' \in [Sources -> [Streams -> Time]]
        /\ \A x \in Sources : x # op[p].src => issued'[x] = issued[x]
    BY <1>2, <1>9, <2>2, <2>4
  <2> QED BY <2>3, <2>5
<1>12. /\ inflight \subseteq inflight'
       /\ inflight' \subseteq [src : Sources, to : Streams]
       /\ p \in Broadcasters => \A s \in res.fresh : [src |-> op[p].src, to |-> s] \in inflight'
  <2>1. msgs \subseteq [src : Sources, to : Streams]
    BY <1>2, <1>8
  <2>2. p \in Broadcasters => \A s \in res.fresh : [src |-> op[p].src, to |-> s] \in msgs
    OBVIOUS
  <2> HIDE DEF msgs
  <2> QED BY <1>5, <1>9, <2>1, <2>2
<1>13. ConnShrinks
  BY <1>1 DEF ConnShrinks
<1>14. PlaneTyped'
  <2>1. swept' \in Time
    BY <1>3, <1>5, <1>9, NumbersAssumption DEF Time
  <2> QED BY <1>1, <1>9, <1>11, <1>12, <2>1 DEF PlaneTyped
<1>15. /\ IsOp(o)
       /\ p \in Broadcasters \/ res.fresh = {} => o.pc = "idle"
       /\ ~(p \in Broadcasters \/ res.fresh = {}) =>
            o.pc = "send" /\ o.src = op[p].src /\ o.at = op[p].at /\ o.todo = res.fresh
  <2>1. CASE p \in Broadcasters \/ res.fresh = {}
    <3>1. o = Idle
      BY <2>1
    <3> HIDE DEF o
    <3> QED BY <2>1, <3>1, IdleIsOp
  <2>2. CASE ~(p \in Broadcasters \/ res.fresh = {})
    <3>1. o = [op[p] EXCEPT !.pc = "send", !.todo = res.fresh]
      BY <2>2
    <3> HIDE DEF o
    <3>2. o = [pc |-> "send", src |-> op[p].src, scope |-> op[p].scope,
               targets |-> op[p].targets, excluded |-> op[p].excluded, at |-> op[p].at,
               todo |-> res.fresh]
      BY <1>2, <3>1 DEF IsOp
    <3> QED BY <1>2, <1>8, <2>2, <3>2 DEF IsOp
  <2> QED BY <2>1, <2>2
<1> HIDE DEF o, sweep, stored, msgs
<1>16. OpsTyped' /\ DecisionsSound'
  <2>1. op' = [op EXCEPT ![p] = o] /\ o.pc \in {"idle", "send"}
    BY <1>5, <1>15
  <2>2. p \in Broadcasters => o.pc = "idle"
    BY <1>15
  <2> QED BY <1>1, <1>4, <1>13, <1>15, <2>1, <2>2, OneOpMoves
<1>17. KeysUnique' /\ WorkersSound'
  BY <1>1 DEF BlockDedupInv, KeysUnique, WorkersSound
<1>18. IssuedInPast'
  <2> SUFFICES ASSUME NEW x \in Sources, NEW s \in Streams
               PROVE  issued'[x][s] <= now
    BY <1>1 DEF IssuedInPast
  <2>1. issued[x][s] <= now
    BY DEF BlockDedupInv, IssuedInPast
  <2> QED BY <1>3, <1>11, <2>1
<1>19. \A q \in Streams : op[q].pc = "send" => op'[q] = op[q]
  BY <1>2, <1>5 DEF Procs
<1>20. ASSUME NEW x \in Sources
       PROVE  ReservationSound(recentBlocks[x], x)'
  <2>1. CASE recentBlocks'[x] = NewReservation
    BY <1>1, <1>3, <2>1, NewIsSound
  <2>2. CASE x # op[p].src /\ recentBlocks'[x] = recentBlocks[x]
    <3>1. IsReservation(recentBlocks'[x]) /\ CountExact(recentBlocks'[x])
      BY <2>2 DEF BlockDedupInv, ReservationSound
    <3>2. issued'[x] = issued[x]
      BY <1>11, <2>2
    <3>3. ASSUME NEW s \in Streams
          PROVE  /\ Delivered(x, s) => Delivered(x, s)'
                 /\ Sending(x, s) => Sending(x, s)'
                 /\ \A t : Queued(x, s, t) => Queued(x, s, t)'
      BY <1>1, <1>12, <1>19, <3>2 DEF Delivered, Sending, Queued
    <3>4. /\ recentBlocks'[x].bcast = recentBlocks[x].bcast
          /\ \A k \in DOMAIN recentBlocks'[x].sent :
               k \in DOMAIN recentBlocks[x].sent
                 /\ recentBlocks'[x].sent[k] = recentBlocks[x].sent[k]
      BY <2>2
    <3> QED BY <1>1, <1>13, <3>1, <3>2, <3>3, <3>4, ReservationStep
  <2>3. CASE x = op[p].src /\ recentBlocks'[x] = res.r
    <3>1. PICK t \in 1..MaxTime : t = op[p].at
      BY <1>3
    <3>2. op[p].scope = "broadcast" => \A s \in res.fresh : Sending(x, s)'
      BY <1>4, <1>12, <2>3 DEF Sending
    <3>3. op[p].scope # "broadcast" => \A s \in res.fresh : Queued(x, s, t)'
      <4> SUFFICES ASSUME op[p].scope # "broadcast", NEW s \in res.fresh
                   PROVE  Queued(x, s, t)'
        OBVIOUS
      <4>1. p \in Streams /\ p \notin Broadcasters /\ op'[p] = o
        BY <1>2, <1>4, <1>5 DEF Procs
      <4>2. o.pc = "send" /\ o.src = x /\ o.at = t /\ s \in o.todo
        BY <1>15, <2>3, <3>1, <4>1
      <4> QED BY <4>1, <4>2 DEF Queued
    <3>4. /\ UNCHANGED <<conn, key, keySeq, fanout, inHand, got>>
          /\ \A s \in Streams : issued'[x][s] = IF s \in res.fresh THEN t ELSE issued[x][s]
          /\ inflight \subseteq inflight'
      BY <1>1, <1>11, <1>12, <2>3, <3>1
    <3>5. /\ EntriesFrom(live, res.r, res.fresh, op[p].scope, t)
          /\ MarkFrom(live, res.r.bcast, res.fresh, op[p].scope, op[p].targets, op[p].excluded, t)
          /\ TimesExact(live, x) /\ BlocksCarried(live, x)
      BY <1>6, <1>7, <2>3, <3>1
    <3> DEFINE scope == op[p].scope
               targets == op[p].targets
               excluded == op[p].excluded
               fresh == res.fresh
               r == res.r
    <3>6. /\ fresh \in SUBSET Streams /\ targets \in SUBSET Streams /\ fresh \subseteq targets
          /\ excluded \in SUBSET Streams
          /\ \A s \in targets : key[s] # 0
          /\ scope = "broadcast" => \A s \in Registered, u \in targets :
                                     key[s] <= key[u] => s \in targets \cup excluded
          /\ IsReservation(r) /\ CountExact(r) /\ recentBlocks'[x] = r
      BY <1>2, <1>4, <1>7, <1>8, <2>3
    <3>7. /\ EntriesFrom(live, r, fresh, scope, t)
          /\ MarkFrom(live, r.bcast, fresh, scope, targets, excluded, t)
      BY <3>5
    <3>8. SendsStarted(x, fresh, scope, t)
      BY <1>8, <1>19, <3>2, <3>3, <3>4 DEF SendsStarted
    <3> HIDE DEF scope, targets, excluded, fresh, r
    <3> QED BY <3>4, <3>5, <3>6, <3>7, <3>8, ReservedIsSound
  <2> QED BY <1>10, <2>1, <2>2, <2>3
<1> QED BY <1>10, <1>14, <1>16, <1>17, <1>18, <1>20 DEF BlockDedupInv

\* The invariant holds at the start.
LEMMA InitKeeps == BlockDedupInit => BlockDedupInv
<1> SUFFICES ASSUME BlockDedupInit PROVE BlockDedupInv
  OBVIOUS
<1>1. 1 \in 1..MaxTime /\ 0 \in Time /\ 0 \in 0..MaxDecisions
  BY NumbersAssumption DEF Time
<1>2. << >> \in Seq(Item) /\ Len(<< >>) = 0
  BY EmptySeq
<1>3. PlaneTyped
  <2>1. /\ now \in 1..MaxTime /\ keySeq \in Nat /\ stopped \in BOOLEAN /\ swept \in Time
        /\ decisions \in 0..MaxDecisions /\ inflight \subseteq [src : Sources, to : Streams]
    BY <1>1 DEF BlockDedupInit
  <2>2. /\ conn \in [Streams -> {"new", "open", "ending", "gone"}]
        /\ key \in [Streams -> 0..keySeq] /\ role \in [Streams -> Roles]
        /\ evidence \in [Sources -> Time]
        /\ worker \in [Streams -> {"none", "run", "draining", "done"}]
    BY <1>1 DEF BlockDedupInit, Roles
  <2>3. fanout \in [Streams -> Seq(Item)] /\ inHand \in [Streams -> Seq(Item)]
    BY <1>2 DEF BlockDedupInit
  <2>4. /\ issued \in [Sources -> [Streams -> Time]]
        /\ got \in [Sources -> [Streams -> Time]]
    BY <1>1 DEF BlockDedupInit
  <2> QED BY <2>1, <2>2, <2>3, <2>4 DEF PlaneTyped
<1>4. IsOp(Idle) /\ Idle.pc = "idle"
  <2>1. 0 \in 0..now
    BY DEF BlockDedupInit
  <2> QED BY <2>1 DEF Idle, IsOp, Scopes
<1>5. DOMAIN op = Procs /\ \A p \in Procs : op[p] = Idle
  BY DEF BlockDedupInit
<1>6. OpsTyped /\ DecisionsSound
  <2>1. \A p \in Procs : IsOp(op[p]) /\ op[p].pc = "idle"
    BY <1>4, <1>5
  <2> QED BY <1>5, <2>1 DEF OpsTyped, DecisionsSound
<1>7. KeysUnique /\ IssuedInPast
  BY DEF BlockDedupInit, KeysUnique, IssuedInPast
<1>8. WorkersSound
  BY <1>2 DEF BlockDedupInit, WorkersSound
<1>9. ASSUME NEW x \in Sources
      PROVE  ReservationSound(recentBlocks[x], x)
  <2> DEFINE n == NewReservation
  <2>1. recentBlocks[x] = n
    BY DEF BlockDedupInit
  <2>2. IsReservation(n) /\ CountExact(n) /\ DOMAIN n.sent = {} /\ n.bcast = NoMark
    BY NewIsReservation DEF BlockDedupInit
  <2> HIDE DEF n
  <2>3. \A k : k \notin DOMAIN n.sent /\ ~MarkHolds(n.bcast, k)
    BY <2>2, NoMarkHolds
  <2>4. TimesExact(n, x) /\ BlocksCarried(n, x)
    BY <2>3 DEF TimesExact, BlocksCarried
  <2> QED BY <2>1, <2>2, <2>4 DEF ReservationSound
<1>10. DOMAIN recentBlocks = Sources
  BY DEF BlockDedupInit
<1> QED BY <1>3, <1>6, <1>7, <1>8, <1>9, <1>10 DEF BlockDedupInv

\* A step that changes nothing.
LEMMA StutterKeeps == BlockDedupInv /\ UNCHANGED dedupVars => BlockDedupInv'
<1> SUFFICES ASSUME BlockDedupInv, UNCHANGED dedupVars PROVE BlockDedupInv'
  OBVIOUS
<1>1. UNCHANGED <<now, conn, key, keySeq, role, stopped, evidence, recentBlocks, swept, op,
                  inflight, fanout, inHand, worker, issued, got, decisions>>
  BY DEF dedupVars, connVars, queueVars, dedupHistory
<1>2. ConnShrinks
  BY <1>1 DEF ConnShrinks
<1>3. PlaneTyped' /\ KeysUnique' /\ WorkersSound' /\ IssuedInPast'
  BY <1>1 DEF BlockDedupInv, PlaneTyped, KeysUnique, WorkersSound, IssuedInPast
<1>4. OpsTyped' /\ DecisionsSound'
  BY <1>1, <1>2, NoOpMoves DEF BlockDedupInv, PlaneTyped
<1>5. DOMAIN recentBlocks' = Sources
        /\ \A x \in Sources : ReservationSound(recentBlocks[x], x)'
  BY <1>1, <1>2, QuietStep
<1> QED BY <1>3, <1>4, <1>5 DEF BlockDedupInv

\* Every step keeps the invariant.
LEMMA NextKeeps == BlockDedupInv /\ [BlockDedupNext]_dedupVars => BlockDedupInv'
<1> SUFFICES ASSUME BlockDedupInv, [BlockDedupNext]_dedupVars PROVE BlockDedupInv'
  OBVIOUS
<1>1. ASSUME NEW s \in Streams, StreamStep(s) PROVE BlockDedupInv'
  BY <1>1, ConnectKeeps, AnnounceRoleKeeps, EndKeeps, VerdictKeeps, SendCommandKeeps
     DEF StreamStep
<1>2. ASSUME NEW s \in Streams, SendStep(s) PROVE BlockDedupInv'
  BY <1>2, EnqueueKeeps, SendToOriginKeeps DEF SendStep
<1>3. ASSUME NEW s \in Streams, WorkerStep(s) PROVE BlockDedupInv'
  BY <1>3, TakeFanoutKeeps, SendFanoutKeeps, DrainKeeps DEF WorkerStep
<1>4. ASSUME NEW b \in Broadcasters, NEW x \in Sources, Broadcast(b, x) PROVE BlockDedupInv'
  BY <1>4, BroadcastKeeps
<1>5. ASSUME NEW p \in Procs, ReadClock(p) \/ reserveCommand(p) PROVE BlockDedupInv'
  BY <1>5, ReadClockKeeps, ReserveCommandKeeps
<1>6. ASSUME NEW m \in inflight, sendBroadcast(m) PROVE BlockDedupInv'
  BY <1>6, SendBroadcastKeeps
<1>7. CASE (\E x \in Sources : EvictEvidence(x)) \/ StopEnforcement \/ Tick
  BY <1>7, SurroundingsKeep
<1>8. CASE UNCHANGED dedupVars
  BY <1>8, StutterKeeps
<1> QED BY <1>1, <1>2, <1>3, <1>4, <1>5, <1>6, <1>7, <1>8 DEF BlockDedupNext

LEMMA InvHolds == BlockDedupSpec => []BlockDedupInv
BY InitKeeps, NextKeeps, PTL DEF BlockDedupSpec

-----------------------------------------------------------------------------
(***************************************************************************)
(* What the invariant says.                                                *)
(***************************************************************************)

\* What suppresses a repeat is an entry or a mark, younger than a TTL.
LEMMA HasMeans ==
  ASSUME NEW r, NEW k, NEW t, has(r, k, t)
  PROVE  \/ k \in DOMAIN r.sent /\ t - r.sent[k].at < TTL
         \/ MarkHolds(r.bcast, k) /\ t - r.bcast.at < TTL
BY DEF has, covers, MarkHolds

LEMMA InvTypeOK == BlockDedupInv => BlockDedupTypeOK
<1>1. BlockDedupInv => \A x \in Sources : IsReservation(recentBlocks[x])
  BY DEF BlockDedupInv, ReservationSound
<1> QED BY <1>1 DEF BlockDedupInv, PlaneTyped, OpsTyped, BlockDedupTypeOK

LEMMA InvCoverage == BlockDedupInv => CoverageIsIssued
<1> SUFFICES ASSUME BlockDedupInv, NEW x \in Sources, NEW s \in Registered,
                    has(recentBlocks[x], key[s], now)
             PROVE  issued[x][s] # 0 /\ now - issued[x][s] < TTL
  BY DEF CoverageIsIssued
<1> DEFINE r == recentBlocks[x]
<1>1. IsReservation(r) /\ TimesExact(r, x) /\ s \in Streams
  BY DEF BlockDedupInv, ReservationSound, Registered
<1>2. \/ key[s] \in DOMAIN r.sent /\ now - r.sent[key[s]].at < TTL
      \/ MarkHolds(r.bcast, key[s]) /\ now - r.bcast.at < TTL
  BY HasMeans
<1> HIDE DEF r
<1>3. CASE key[s] \in DOMAIN r.sent /\ now - r.sent[key[s]].at < TTL
  <2>1. r.sent[key[s]].at = issued[x][s] /\ r.sent[key[s]].at \in 1..MaxTime
    BY <1>1, <1>3 DEF TimesExact, IsReservation
  <2> QED BY <1>3, <2>1
<1>4. CASE MarkHolds(r.bcast, key[s]) /\ now - r.bcast.at < TTL
  <2>1. issued[x][s] = r.bcast.at /\ r.bcast.at # 0
    BY <1>1, <1>4 DEF TimesExact, MarkHolds
  <2> QED BY <1>4, <2>1
<1> QED BY <1>2, <1>3, <1>4

LEMMA InvCount == BlockDedupInv => BcastEntriesExact
BY DEF BlockDedupInv, ReservationSound, CountExact, BcastKeys, BcastEntriesExact

LEMMA InvCarried == BlockDedupInv => SuppressedMeansDelivered
<1> SUFFICES ASSUME BlockDedupInv, NEW x \in Sources, NEW s \in Streams, conn[s] = "open",
                    has(recentBlocks[x], key[s], now)
             PROVE  (got[x][s] # 0 /\ got[x][s] >= issued[x][s]) \/ OnItsWay(x, s)
  BY DEF SuppressedMeansDelivered
<1> DEFINE r == recentBlocks[x]
<1>1. BlocksCarried(r, x)
  BY DEF BlockDedupInv, ReservationSound
<1>2. key[s] \in DOMAIN r.sent \/ MarkHolds(r.bcast, key[s])
  BY HasMeans
<1> HIDE DEF r
<1>3. Delivered(x, s) \/ Sending(x, s) \/ \E t : Queued(x, s, t)
  BY <1>1, <1>2 DEF BlocksCarried
<1>4. CASE Delivered(x, s)
  BY <1>4 DEF Delivered
<1>5. CASE Sending(x, s)
  BY <1>5 DEF Sending, OnItsWay
<1>6. CASE \E t : Queued(x, s, t)
  BY <1>6 DEF Queued, OnItsWay
<1> QED BY <1>3, <1>4, <1>5, <1>6

LEMMA InvNothingStranded == BlockDedupInv => NothingStranded
BY DEF BlockDedupInv, WorkersSound, NothingStranded

\* For every set of streams, broadcasters and sources and all limits: while
\* recentBlocks suppresses a source's block for a registered collector, a
\* decision addressed that collector less than a TTL ago, and bcastEntries is the
\* number of Broadcast entries and within maxBlockSentEntries, through expiry,
\* start-over, marks, releases, sweeps and streams that come and go.
THEOREM DedupIsExact == BlockDedupSpec => []DedupExact
<1>1. BlockDedupInv => DedupExact
  BY InvTypeOK, InvCoverage, InvCount DEF DedupExact
<1> QED BY <1>1, InvHolds, PTL

\* For every set of streams, broadcasters and sources and all limits: a block that
\* recentBlocks suppresses for an open stream was delivered to it or is about to
\* be, and the queue of a fan-out worker that is gone holds nothing.
THEOREM FanoutIsLossless == BlockDedupSpec => []FanoutLosesNothing
<1>1. BlockDedupInv => FanoutLosesNothing
  BY InvCarried, InvNothingStranded DEF FanoutLosesNothing
<1> QED BY <1>1, InvHolds, PTL
=============================================================================
