------------------------------- MODULE Sustained -------------------------------
(***************************************************************************)
(* Sustained-download detection (pkg/analyzer/sustained and                *)
(* pkg/analyzer/sustained_wire.go): a sliding window of requests, bytes,   *)
(* resources and sections per client, the periodic evaluation that selects *)
(* clients, and the hold that keeps a selected client selected after       *)
(* enforcement has removed the evidence.                                   *)
(*                                                                         *)
(* Times are ages in buckets, so that time is unbounded and the state is   *)
(* finite: an age stops growing where no comparison can tell it from a     *)
(* larger one.  The code prunes a client lazily, before it uses it; so     *)
(* does the model, which keeps what has expired under the age Window + 1.  *)
(* DeferredSince only feeds a metric and is left out.                      *)
(***************************************************************************)
EXTENDS Integers, FiniteSets, FiniteSetsExt, Functions, Sequences, SequencesExt

CONSTANTS
  SusClients,
  SusResources,    \* hashes of host and path
  SusSectionOf,    \* the section of each resource: host and first segment
  SusWindow,       \* WindowSeconds, in buckets
  SusPublish,      \* PublishIntervalSeconds, in buckets
  SusHold, SusMaxHold,
  SusMinRequests, SusMinBytes, SusMinResources, SusMinSections,
  SusMaxPercent,   \* MaximumResourcesPerSectionPercent
  SusRelease,      \* ReleaseFactorPercent
  SusFactor,       \* ReputationFactor
  SusMaxClients, SusMaxResources,
  SusMaxOps        \* bound of the model: requests and byte reports

SusSections == Range(SusSectionOf)

ASSUME SusAssumption ==
  /\ SusSectionOf \in [SusResources -> SusSections] /\ IsFiniteSet(SusResources)
  /\ SusWindow \in Nat \ {0} /\ SusPublish \in Nat \ {0}
  /\ SusHold \in Nat \ {0} /\ SusMaxHold \in Nat /\ SusMaxHold >= SusHold
  /\ SusMaxClients \in Nat \ {0} /\ SusMaxResources \in Nat \ {0}

VARIABLES
  susTable,     \* clients, by address
  susOrder,     \* clientOrder, most recent first
  susVerified,  \* verifiedBotSet: clients whose verification has not lapsed
  susDue,       \* the evaluation interval has passed
  susEnforce,   \* the detector and the analyzer both enforce
  susEmitted,   \* decisions of the last evaluation, and what came of them
  susOps,       \* operations so far
  susWalk,      \* history: distinct resources of a tracked client, latest first
  susUnder      \* history: age of the last evaluation at which a client was over

sustainedVars == <<susTable, susOrder, susVerified, susDue, susEnforce, susEmitted,
                   susOps, susWalk, susUnder>>

SusNone  == -1
SusAges  == 0..(SusWindow + 1)
SusEmpty == [req |-> [a \in SusAges |-> 0], bytes |-> [a \in SusAges |-> 0], res |-> <<>>,
             refs |-> [s \in SusSections |-> 0], seen |-> 0, pub |-> SusNone, sel |-> SusNone]

SustainedInit ==
  /\ susTable = <<>> /\ susOrder = <<>> /\ susVerified = {} /\ susDue = TRUE
  /\ susEnforce = TRUE /\ susEmitted = {} /\ susOps = 0
  /\ susWalk = [c \in SusClients |-> <<>>] /\ susUnder = [c \in SusClients |-> 0]

-----------------------------------------------------------------------------
(* One client's window. *)

\* Mutant: an evicted resource leaves its section behind.
releaseSectionsNot(refs, dropped) == refs

\* The resources of section s among those of res.
inSection(res, s) == {i \in DOMAIN res : SusSectionOf[res[i].key] = s}

\* releaseSection for the sections of the resources dropped: the last reference
\* takes the section with it.
releaseSections(refs, dropped) ==
  [s \in SusSections |-> LET n == Cardinality(inSection(dropped, s))
                         IN IF refs[s] > n THEN refs[s] - n ELSE 0]

placesOf(res, key) == {i \in DOMAIN res : res[i].key = key}

\* The newest resource goes in front.
admit(res, key) == <<[key |-> key, age |-> 0]>> \o res
counted(refs, key) == [refs EXCEPT ![SusSectionOf[key]] = @ + 1]

\* Observe and observeResource: refresh a resource, or admit it and count its
\* section; a full set drops its oldest first.
observeResource(c, key) ==
  LET full == Len(c.res) >= SusMaxResources
      room == IF full THEN Front(c.res) ELSE c.res
      refs == IF full THEN releaseSections(c.refs, <<Last(c.res)>>) ELSE c.refs
  IN IF placesOf(c.res, key) # {}
     THEN [c EXCEPT !.res = admit(RemoveAt(@, Min(placesOf(c.res, key))), key)]
     ELSE [c EXCEPT !.res = admit(room, key), !.refs = counted(refs, key)]

\* How many resources stay when those past the window are taken off the back.
freshPrefix(res) == Min({n \in 0..Len(res) : \A i \in (n + 1)..Len(res) : res[i].age > SusWindow})

\* prune: the buckets older than the window, and the resources, oldest first
\* until one is within the window.
prune(c) ==
  [c EXCEPT !.req[SusWindow + 1] = 0, !.bytes[SusWindow + 1] = 0,
            !.res = SubSeq(@, 1, freshPrefix(@)),
            !.refs = releaseSections(@, SubSeq(c.res, freshPrefix(c.res) + 1, Len(c.res)))]

total(buckets) == FoldFunction(+, 0, buckets)
sectionCount(c) == Cardinality({s \in SusSections : c.refs[s] > 0})

\* Volume and shape: the paths on which the measurements clear the thresholds.
matchThresholds(c, factor) ==
  LET common == /\ total(c.req) >= SusMinRequests * factor
                /\ Len(c.res) >= SusMinResources
                /\ sectionCount(c) >= SusMinSections
  IN {p \in {"volume", "shape"} :
        /\ common
        /\ IF p = "volume" THEN total(c.bytes) >= SusMinBytes * factor
           ELSE /\ sectionCount(c) > 0
                /\ Len(c.res) * 100 <= sectionCount(c) * SusMaxPercent}

\* The floors both paths share that the client is under.
floorsShort(c, factor) ==
  {r \in {"requests", "resources", "sections"} :
     \/ r = "requests" /\ ~(total(c.req) >= SusMinRequests * factor)
     \/ r = "resources" /\ ~(Len(c.res) >= SusMinResources)
     \/ r = "sections" /\ ~(sectionCount(c) >= SusMinSections)}

\* Snapshot's reasons why a client is not selected.
blockers(c, factor) ==
  IF matchThresholds(c, factor) # {} THEN {}
  ELSE IF floorsShort(c, factor) # {} THEN floorsShort(c, factor)
  ELSE {r \in {"bytes", "resources_per_section"} :
          \/ r = "bytes" /\ ~(total(c.bytes) >= SusMinBytes * factor)
          \/ r = "resources_per_section"
               /\ ~(Len(c.res) * 100 <= sectionCount(c) * SusMaxPercent)}

-----------------------------------------------------------------------------
(* Observations. *)

\* The client's entry in the table.
entered(T, ip, c) == [x \in DOMAIN T \cup {ip} |-> IF x = ip THEN c ELSE T[x]]

toFront(ip) == <<ip>> \o SelectSeq(susOrder, LAMBDA x : x # ip)
\* The request or the bytes fall in the bucket of the moment.
asked(c, key) == [observeResource(c, key) EXCEPT !.req[0] = @ + 1, !.seen = 0]
served(c) == [c EXCEPT !.bytes[0] = @ + 1, !.seen = 0]

factorOf(ip) == IF ip \in susVerified THEN SusFactor ELSE 1

\* The history of a walk that comes to key.
walkedOn(walk, key) ==
  LET at == {i \in DOMAIN walk : walk[i] = key}
  IN <<key>> \o IF at = {} THEN walk ELSE RemoveAt(walk, Min(at))

\* ObserveRequest: find or make the client, evicting the least recent one.
ObserveRequest(ip, key) ==
  LET full == ip \notin DOMAIN susTable /\ Cardinality(DOMAIN susTable) >= SusMaxClients
      T == IF full THEN Restrict(susTable, DOMAIN susTable \ {Last(susOrder)}) ELSE susTable
      c == prune(IF ip \in DOMAIN T THEN T[ip] ELSE SusEmpty)
  IN /\ susOps < SusMaxOps /\ susOps' = susOps + 1
     /\ susOrder' = IF full THEN <<ip>> \o Front(susOrder) ELSE toFront(ip)
     /\ susTable' = entered(T, ip, asked(c, key))
     /\ susWalk' = [x \in SusClients |->
                      IF x = ip THEN walkedOn(susWalk[ip], key)
                      ELSE IF x \notin DOMAIN T THEN <<>> ELSE susWalk[x]]
     /\ UNCHANGED <<susVerified, susDue, susEnforce, susEmitted, susUnder>>

\* ObserveBytes: bytes of a client nobody has seen a request of are dropped.
ObserveBytes(ip) ==
  /\ ip \in DOMAIN susTable
  /\ susOps < SusMaxOps /\ susOps' = susOps + 1
  /\ susOrder' = toFront(ip)
  /\ susTable' = entered(susTable, ip, served(prune(susTable[ip])))
  /\ UNCHANGED <<susVerified, susDue, susEnforce, susEmitted, susWalk, susUnder>>

\* markSustainedVerifiedBot, and the entry's TTL.
markVerified(ip) ==
  /\ susVerified' = IF ip \in susVerified THEN susVerified \ {ip} ELSE susVerified \cup {ip}
  /\ susOps < SusMaxOps /\ susOps' = susOps + 1
  /\ UNCHANGED <<susTable, susOrder, susDue, susEnforce, susEmitted, susWalk, susUnder>>

\* Enforcement can only be stopped.
stopEnforcing ==
  /\ susEnforce /\ susEnforce' = FALSE
  /\ UNCHANGED <<susTable, susOrder, susVerified, susDue, susEmitted, susOps, susWalk, susUnder>>

-----------------------------------------------------------------------------
(* The evaluation. *)

\* The client still asks for as much as selected it; bytes do not count, since
\* a blocked client is not served.
stillActive(c) ==
  /\ total(c.req) >= (SusMinRequests * SusRelease) \div 100
  /\ Len(c.res) >= (SusMinResources * SusRelease) \div 100
  /\ sectionCount(c) >= (SusMinSections * SusRelease) \div 100

\* A good reputation leaves at the floor.
released(c, good) ==
  \/ c.sel >= IF good THEN SusHold ELSE SusMaxHold
  \/ c.sel >= SusHold /\ ~stillActive(c)

\* SelectedSince of a client that stays held.
heldSince(c) == c.sel

\* assess: the client's SelectedSince afterwards, and whether to emit, and how.
assess(c, good, factor) ==
  LET over == matchThresholds(c, factor) # {}
  IN IF over THEN [sel |-> 0, emit |-> TRUE, held |-> FALSE]
     ELSE IF c.sel = SusNone \/ released(c, good)
          THEN [sel |-> SusNone, emit |-> FALSE, held |-> FALSE]
          ELSE [sel |-> heldSince(c), emit |-> TRUE, held |-> TRUE]

\* The client as the evaluation leaves it.
judged(c, sel, published) == [c EXCEPT !.sel = sel, !.pub = IF published THEN 0 ELSE @]

\* What comes of a decision: only a crossing costs the client reputation.
actOnSustainedDecision(ip, held) ==
  [ip |-> ip, held |-> held, block |-> susEnforce, penalize |-> susEnforce /\ ~held]

\* Evaluate, and the loop over its decisions: prune, forget the silent, assess
\* and publish.
Evaluate ==
  LET kept == {ip \in DOMAIN susTable : susTable[ip].seen <= 2 * SusWindow}
      c(ip) == prune(susTable[ip])
      a(ip) == assess(c(ip), ip \in susVerified, factorOf(ip))
      publish(ip) == a(ip).emit /\ (c(ip).pub = SusNone \/ c(ip).pub >= SusPublish)
  IN /\ susDue /\ susDue' = FALSE
     /\ susTable' = [ip \in kept |-> judged(c(ip), a(ip).sel, publish(ip))]
     /\ susOrder' = SelectSeq(susOrder, LAMBDA ip : ip \in kept)
     /\ susEmitted' = {actOnSustainedDecision(ip, a(ip).held) : ip \in {x \in kept : publish(x)}}
     /\ susWalk' = [x \in SusClients |-> IF x \in kept THEN susWalk[x] ELSE <<>>]
     /\ susUnder' = [x \in SusClients |->
                       IF x \in kept /\ matchThresholds(c(x), factorOf(x)) # {} THEN 0
                       ELSE susUnder[x]]
     /\ UNCHANGED <<susVerified, susEnforce, susOps>>

older(x, cap) == IF x = SusNone THEN x ELSE Min({x + 1, cap})
shift(buckets) == [a \in SusAges |-> IF a = 0 THEN 0
                                     ELSE buckets[a - 1] + IF a = SusWindow + 1 THEN buckets[a] ELSE 0]

olderResources(res) ==
  [i \in 1..Len(res) |-> [key |-> res[i].key, age |-> older(res[i].age, SusWindow + 1)]]
olderClient(c) ==
  [c EXCEPT !.req = shift(@), !.bytes = shift(@), !.res = olderResources(@),
            !.seen = older(@, 2 * SusWindow + 1), !.pub = older(@, SusPublish),
            !.sel = older(@, SusMaxHold)]

\* A bucket's worth of time passes, and an evaluation is due.
susTick ==
  /\ susTable' = [ip \in DOMAIN susTable |-> olderClient(susTable[ip])]
  /\ susDue' = TRUE
  /\ susUnder' = [x \in SusClients |-> older(susUnder[x], SusMaxHold)]
  /\ susEmitted' = {}
  /\ UNCHANGED <<susOrder, susVerified, susEnforce, susOps, susWalk>>

SustainedNext ==
  \/ \E ip \in SusClients, key \in SusResources : ObserveRequest(ip, key)
  \/ \E ip \in SusClients : ObserveBytes(ip) \/ markVerified(ip)
  \/ stopEnforcing \/ Evaluate \/ susTick

SustainedSpec == SustainedInit /\ [][SustainedNext]_sustainedVars

-----------------------------------------------------------------------------
(* Properties. *)

\* A client's sections are those of the resources it still holds: eviction,
\* expiry and refresh of resources never let a section linger or vanish, so a
\* deep client cannot drift into looking like enumeration.
SusRefsExact ==
  \A ip \in DOMAIN susTable : \A s \in SusSections :
    susTable[ip].refs[s] =
      Cardinality({i \in DOMAIN susTable[ip].res : SusSectionOf[susTable[ip].res[i].key] = s})

\* A full set holds the most recent resources, so a client that walks forward
\* through a namespace does not fall out of detection as they expire together.
\* They stay ordered by age, so pruning from the back drops all that is stale.
SusRetainsNewest ==
  \A ip \in DOMAIN susTable :
    LET res == susTable[ip].res IN
    /\ IsPrefix([i \in DOMAIN res |-> res[i].key], susWalk[ip])
    /\ \A i, j \in DOMAIN res : i < j => res[i].age <= res[j].age

\* Whoever is not selected is told why.
SusBlockersExplain ==
  \A ip \in DOMAIN susTable :
    (blockers(susTable[ip], factorOf(ip)) = {}) <=> (matchThresholds(susTable[ip], factorOf(ip)) # {})

\* A client is re-decided as held only for MaximumHoldSeconds after it last
\* cleared a threshold.
SusHoldCeiling ==
  \A d \in susEmitted : d.held => susUnder[d.ip] < SusMaxHold

\* A client is selected for what it holds now: through eviction, expiry and
\* refresh its sections are counted exactly, the newest resources are kept,
\* who is spared is told why, and a hold ends (observeResource, prune, Evaluate).
DownloadsExact ==
  SusRefsExact /\ SusRetainsNewest /\ SusBlockersExplain /\ SusHoldCeiling
=============================================================================
