------------------------------- MODULE Patterns -------------------------------
(***************************************************************************)
(* The connection pattern tracker (pkg/patterns/tracker.go): what is       *)
(* remembered of each address, when it is forgotten, and the signals a     *)
(* connection raises.  Times are ages and gaps in ticks; RecordConnection  *)
(* runs under the tracker's lock and is one step.  The windows of packet   *)
(* sizes and of advertised windows are treated as the TTL window is and    *)
(* are left out, with the two detectors over them.                         *)
(***************************************************************************)
EXTENDS Sequences, SequencesExt, MapCleaner

CONSTANTS
  PatIPs,
  PatMetas,        \* connections: records [ttl, port, incomplete, asn, conn], 0 for none
  PatMax,          \* maxPatterns
  PatHeadroom,     \* divisor of the batch EnforceMaxSizeBatch frees
  PatExpiry,       \* patternExpiry
  PatPortWindow,   \* portScanWindow
  PatPortLimit,    \* portScanThreshold
  PatSamples,      \* capacity of the sample windows
  PatMinSamples,   \* samples a detector wants
  PatMinAttempts,  \* attempts before the handshake rate counts
  PatMinReuse,     \* reuses before the reuse rate counts
  PatGeoWindow, PatGeoChanges,
  PatMaxOps        \* bound of the model: connections

ASSUME PatternsAssumption ==
  /\ \A m \in PatMetas : /\ m.ttl \in 0..255 /\ m.port \in Nat /\ m.asn \in Nat
                         /\ m.conn \in Nat /\ m.incomplete \in BOOLEAN
  /\ PatPortLimit \in Nat
  /\ PatMax \in Nat \ {0} /\ PatHeadroom \in Nat \ {0} /\ PatSamples \in Nat \ {0}
  /\ PatExpiry \in Nat /\ PatPortWindow \in Nat /\ PatMinSamples \in Nat \ {0}
  /\ PatPortWindow <= PatExpiry /\ PatGeoWindow <= PatExpiry

VARIABLES
  patTable,    \* patterns, by address
  patEmitted,  \* signals of the latest connection
  patOps,      \* connections so far
  patBurst     \* history: ports reached with no gap over the window between them

patternVars == <<patTable, patEmitted, patOps, patBurst>>

PatNever == -1
PatNew == [seen |-> PatNever, first |-> 0, attempts |-> 0, incomplete |-> 0, timings |-> <<>>,
           ttls |-> <<>>, ports |-> {}, portAge |-> PatNever, asn |-> 0, moves |-> 0,
           conn |-> 0, connAge |-> PatNever, reuse |-> 0, rapid |-> 0]

patWith(T, ip, p) == [x \in DOMAIN T \cup {ip} |-> IF x = ip THEN p ELSE T[x]]

PatternsInit == patTable = <<>> /\ patEmitted = {} /\ patOps = 0
                /\ patBurst = [ip \in PatIPs |-> {}]

-----------------------------------------------------------------------------
(* Detectors. *)

patKeep(s, x) == IF Len(s) < PatSamples THEN Append(s, x) ELSE Append(Tail(s), x)
absDiff(a, b) == IF a < b THEN b - a ELSE a - b

\* Hops from the smallest common initial TTL that the value fits under.
impliedHops(ttl) == IF ttl <= 64 THEN 64 - ttl ELSE IF ttl <= 128 THEN 128 - ttl ELSE 255 - ttl

\* The TTL that first reached the largest count.
ttlMode(s) ==
  LET times(k, v) == Cardinality({i \in 1..k : s[i] = v})
      most == Max({times(Len(s), s[i]) : i \in DOMAIN s})
  IN s[Min({k \in DOMAIN s : times(k, s[k]) = most})]

detectTTLAnomaly(s) ==
  /\ Len(s) >= PatMinSamples
  /\ LET mode == ttlMode(s)
     IN Cardinality({i \in DOMAIN s : absDiff(s[i], mode) > 20
                       /\ absDiff(impliedHops(s[i]), impliedHops(mode)) > 3}) >= 2

\* Coefficient of variation under 5 %, mean not 0: over the samples,
\* n * sum(x^2) - sum(x)^2 < (sum(x) / 20)^2.
detectMechanicalTiming(s) ==
  LET sum == FoldSeq(+, 0, s)
      squares == FoldSeq(LAMBDA x, acc : acc + x * x, 0, s)
  IN Len(s) >= PatMinSamples /\ sum \div Len(s) > 0
       /\ 400 * (Len(s) * squares - sum * sum) < sum * sum

\* getRecentPorts.
recentPorts(p) == IF p.portAge > PatPortWindow THEN {} ELSE p.ports

\* analyzePattern.
analyzePattern(p) ==
  {k \in {"ttl", "timing", "ports", "handshake", "geo", "reuse"} :
     \/ k = "ttl" /\ detectTTLAnomaly(p.ttls)
     \/ k = "timing" /\ detectMechanicalTiming(p.timings)
     \/ k = "ports" /\ Cardinality(recentPorts(p)) > PatPortLimit
     \/ k = "handshake" /\ p.attempts >= PatMinAttempts /\ 10 * p.incomplete > 7 * p.attempts
     \/ k = "geo" /\ p.moves >= PatGeoChanges /\ p.first < PatGeoWindow
     \/ k = "reuse" /\ p.reuse >= PatMinReuse /\ 10 * p.rapid > 6 * p.reuse}

-----------------------------------------------------------------------------
(* One connection. *)

\* time.Since(pattern.LastSeen).
gapSince(p) == p.seen

\* Mutant: the port set survives a silent window.
portsKeptAlways(p) == p.ports

\* The ports still remembered when another one is reached.
portsKept(p) == IF p.portAge = PatNever \/ p.portAge > PatPortWindow THEN {} ELSE p.ports

\* The pattern after a connection.
recorded(p, meta) ==
  LET reused == meta.conn # 0 /\ meta.conn = p.conn
  IN [p EXCEPT
       !.timings = IF p.seen = PatNever THEN @ ELSE patKeep(@, gapSince(p)),
       !.seen = 0, !.attempts = @ + 1,
       !.ttls = IF meta.ttl = 0 THEN @ ELSE patKeep(@, meta.ttl),
       !.ports = IF meta.port = 0 THEN @ ELSE portsKept(p) \cup {meta.port},
       !.portAge = IF meta.port = 0 THEN @ ELSE 0,
       !.incomplete = @ + IF meta.incomplete THEN 1 ELSE 0,
       !.moves = @ + IF meta.asn # 0 /\ p.asn # 0 /\ meta.asn # p.asn THEN 1 ELSE 0,
       !.asn = IF meta.asn = 0 THEN @ ELSE meta.asn,
       !.reuse = @ + IF reused THEN 1 ELSE 0,
       !.rapid = @ + IF reused /\ p.connAge = 0 THEN 1 ELSE 0,
       !.conn = IF meta.conn = 0 THEN @ ELSE meta.conn,
       !.connAge = IF meta.conn = 0 THEN @ ELSE 0]

\* RecordConnection.  A new pattern has no LastSeen yet when the table is cut,
\* so a full table may drop the newcomer itself; its record is then lost.
RecordConnection(ip, meta) ==
  LET new == ip \notin DOMAIN patTable
      T == IF new THEN patWith(patTable, ip, PatNew) ELSE patTable
      seen == [x \in DOMAIN T |->
                IF T[x].seen = PatNever THEN -(PatExpiry + 2) ELSE -T[x].seen]
      p == recorded(T[ip], meta)
  IN /\ patOps < PatMaxOps /\ patOps' = patOps + 1
     /\ \E U \in (IF new THEN enforceMaxSizeBatch(T, PatMax, PatHeadroom, seen) ELSE {T}) :
          /\ patTable' = IF ip \in DOMAIN U THEN patWith(U, ip, p) ELSE U
          /\ patBurst' = [x \in PatIPs |->
               IF x \notin DOMAIN U THEN {} ELSE IF x # ip \/ meta.port = 0 THEN patBurst[x]
               ELSE IF T[x].portAge \in 0..PatPortWindow THEN patBurst[x] \cup {meta.port}
               ELSE {meta.port}]
     /\ patEmitted' = {[ip |-> ip, kind |-> k] : k \in analyzePattern(p)}

\* Cleanup.
patCleanup ==
  /\ patTable' = removeEntriesOlderThan(patTable, -PatExpiry,
                                       [ip \in DOMAIN patTable |-> -patTable[ip].seen])
  /\ patTable' # patTable
  /\ patBurst' = [ip \in PatIPs |-> IF ip \in DOMAIN patTable' THEN patBurst[ip] ELSE {}]
  /\ patEmitted' = {} /\ UNCHANGED patOps

patAged(x) == IF x = PatNever THEN x ELSE Min({x + 1, PatExpiry + 1})

patOlder(p) == [p EXCEPT !.seen = patAged(@), !.first = patAged(@), !.portAge = patAged(@),
                        !.connAge = patAged(@)]

\* Time passes.
patTick ==
  /\ DOMAIN patTable # {}
  /\ patTable' = [ip \in DOMAIN patTable |-> patOlder(patTable[ip])]
  /\ patEmitted' = {} /\ UNCHANGED <<patOps, patBurst>>

PatternsNext ==
  \/ \E ip \in PatIPs, meta \in PatMetas : RecordConnection(ip, meta)
  \/ patCleanup \/ patTick

PatternsSpec == PatternsInit /\ [][PatternsNext]_patternVars

-----------------------------------------------------------------------------
(* Properties. *)

\* The table is within its size after every operation, although the entry just
\* added is the one without a LastSeen.
PatTableBounded == Cardinality(DOMAIN patTable) <= PatMax

\* The gaps lead from the age of the first connection to that of the latest.
gapsLead(gaps, first, latest) ==
  \E age \in [0..Len(gaps) -> latest..first] :
    /\ age[0] = first /\ age[Len(gaps)] = latest
    /\ \A i \in 1..Len(gaps) : age[i] = age[i - 1] - gaps[i]

\* The timing samples are the gaps between an address's connections, no more
\* and no fewer: unless one was capped or pushed out, they add up to its age.
PatTimingsSpan ==
  \A ip \in DOMAIN patTable :
    LET p == patTable[ip]
    IN p.attempts <= PatSamples /\ p.first <= PatExpiry
         => /\ Len(p.timings) = p.attempts - 1
            /\ gapsLead(p.timings, p.first, p.seen)

\* A port scan is raised only for ports reached in one burst, with never more
\* than portScanWindow between two of them.
PatScanIsOneBurst ==
  \A s \in patEmitted : s.kind = "ports" /\ s.ip \in DOMAIN patTable
                          => Cardinality(patBurst[s.ip]) > PatPortLimit

\* Hosts behind one address at one distance that start from different default
\* TTLs (64, 128, 255) are not taken for spoofing.
PatSharedAddressNotFlagged ==
  \A s \in patEmitted : s.kind = "ttl" /\ s.ip \in DOMAIN patTable =>
    ~\E hops \in 0..63 :
        Range(patTable[s.ip].ttls) \subseteq {64 - hops, 128 - hops, 255 - hops}

\* What the pattern tracker raises happened: its table and its timings are
\* exact across gaps and cuts, a scan is one burst, and hosts that share an
\* address are not spoofing (RecordConnection, analyzePattern, Cleanup).
PatternsTrue ==
  /\ PatTableBounded
  /\ PatTimingsSpan
  /\ PatScanIsOneBurst
  /\ PatSharedAddressNotFlagged
=============================================================================
