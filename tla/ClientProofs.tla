---------------------------- MODULE ClientProofs ----------------------------
(***************************************************************************)
(* What a client relies on: the policy lease (PolicyLease), the choice of  *)
(* a relay (RelayPool) and the requests on a relay connection              *)
(* (RelayClient), for any threads, relays, keys, attempts and identifiers. *)
(*                                                                         *)
(* The invariant of the requests, ClientInv, ties the callers to the       *)
(* tables: a caller waits exactly if its attempt has its entry, no two     *)
(* entries of an attempt have one identifier, only an authenticated        *)
(* attempt has entries, only one with a connection is authenticated, and   *)
(* one that is complete or about to be has no connection.                  *)
(***************************************************************************)
EXTENDS PolicyLease, RelayPool, RelayClient, FiniteSetTheorems, WellFoundedInduction, TLAPS

-----------------------------------------------------------------------------
(* PolicyLease: a policy is acted on only while its lease lasts.           *)

\* A client that holds nothing yet.
LEMMA LeaseInitial == LeaseInit => LeaseInv
BY SMTT(30), LeaseAssumption DEF LeaseInit, LeaseInv, RevokedStaysOut, Nothing, Idle

\* Every push, request, answer and change of the relay keeps the invariant.
LEMMA LeaseInductive == LeaseInv /\ [LeaseNext]_lvars => LeaseInv'
<1> SUFFICES ASSUME LeaseInv, [LeaseNext]_lvars PROVE LeaseInv'
  BY Zenon
<1> USE LeaseAssumption DEF LeaseInv, RevokedStaysOut, Nothing, Idle
<1>1. CASE Tick
  BY SMTT(30), <1>1 DEF Tick
<1>2. CASE relay_changes
  BY SMTT(30), <1>2 DEF relay_changes
<1>3. CASE deliver
  BY SMTT(30), <1>3 DEF deliver, apply_peer_state, apply_peer_revocation, Revokes
<1>4. CASE clear_peer_states
  BY <1>4 DEF clear_peer_states
<1>5. ASSUME NEW f \in Fetchers, fetch_send(f) PROVE LeaseInv'
  <2> DEFINE asked == [pos |-> "asked", requested |-> clock, answer |-> 0]
  <2>2. asked \in [pos : {"idle", "asked", "answered"}, requested : 0 .. clock, answer : 0 .. relay]
    OBVIOUS
  <2> QED
    BY Zenon, <1>5, <2>2 DEF fetch_send
<1>6. ASSUME NEW f \in Fetchers, relay_answers(f) PROVE LeaseInv'
  <2> DEFINE a == IF member THEN relay ELSE 0
             made == [pos |-> "answered", requested |-> fetch[f].requested, answer |-> a]
  <2>1. fetch' = [fetch EXCEPT ![f] = made]
    BY Zenon, <1>6 DEF relay_answers
  <2>3. fetch' \in [Fetchers -> [pos : {"idle", "asked", "answered"},
                                 requested : 0 .. clock, answer : 0 .. relay]]
    BY SMTT(30), <2>1
  <2>4. \A g \in Fetchers : fetch'[g] = fetch[g] \/ fetch'[g].answer = a
    BY Zenon, <2>1
  <2> HIDE DEF a, made
  <2> QED
    BY Zenon, <1>6, <2>3, <2>4 DEF relay_answers, a
<1>7. ASSUME NEW f \in Fetchers, fetch_peer_state(f) PROVE LeaseInv'
  BY SMTT(30), <1>7 DEF fetch_peer_state, renewed
<1>8. CASE UNCHANGED lvars
  BY Zenon, <1>8 DEF lvars
<1> QED
  BY Zenon, <1>1, <1>2, <1>3, <1>4, <1>5, <1>6, <1>7, <1>8 DEF LeaseNext, renew_policy_leases

\* Whatever the order and delay of pushes and answers, a packet passes only under a policy
\* that the relay still had less than Lifetime before.
THEOREM LeaseIsFresh == LeaseSpec => []AuthorityIsFresh
<1>1. LeaseInv => AuthorityIsFresh
  BY SMTT(30), LeaseAssumption DEF LeaseInv, AuthorityIsFresh, policy_current_locked, GoneFor, Nothing
<1> QED
  BY LeaseInitial, LeaseInductive, <1>1, PTL DEF LeaseSpec

\* A device whose revocation arrived holds no state of the network and no lease until it
\* connects again, whatever was under way.
THEOREM RevocationStands == LeaseSpec => []RevokedStaysOut
<1>1. LeaseInv => RevokedStaysOut
  BY Zenon DEF LeaseInv
<1> QED
  BY LeaseInitial, LeaseInductive, <1>1, PTL DEF LeaseSpec

-----------------------------------------------------------------------------
(* RelayPool: the choice of a relay.                                       *)

Samples == [score : Nat, usable : BOOLEAN, key : Keys \union {"none"}, at : Nat]

\* A node of the pool: whatever the pool knows of it was measured with its key.
NodeOK(n) ==
    /\ \E k, s, o, f, r : n = [key |-> k, sample |-> s, observed |-> o, failures |-> f, retry |-> r]
    /\ n.key \in Keys \ {"none"} /\ n.sample \in Samples
    /\ n.sample # NoSample => n.sample.key = n.key /\ n.sample.at = n.observed

\* The inductive invariant: samples belong to the key of their node, and the nodes a scan
\* probes stay in the pool with the key they are probed with until the scan ends.
PoolInv ==
    /\ now \in Nat /\ expires \in Nat
    /\ nodes = [i \in Ids |-> nodes[i]]
    /\ \A i \in Listed(nodes) : NodeOK(nodes[i])
    /\ scan \in [on : BOOLEAN, due : SUBSET Listed(nodes), todo : SUBSET Ids,
                 since : [Ids -> Nat], got : [Ids -> Samples]]
    /\ scan.todo \subseteq scan.due /\ Running \subseteq scan.due
    /\ \A i \in Ids : scan.got[i] # NoSample => i \in scan.due /\ scan.got[i].key = nodes[i].key
    /\ ~scan.on => scan = NoScan

LEMMA NoSampleTyped == NoSample \in Samples /\ NoSample.usable = FALSE
BY DEF NoSample, Samples

LEMMA NoScanTyped ==
    /\ NoScan.due = {} /\ NoScan.todo = {} /\ NoScan.on = FALSE
    /\ NoScan.since = [i \in Ids |-> 0] /\ NoScan.got = [i \in Ids |-> NoSample]
    /\ NoScan \in [on : BOOLEAN, due : SUBSET {}, todo : SUBSET {}, since : [Ids -> Nat], got : [Ids -> Samples]]
BY NoSampleTyped DEF NoScan

\* A node that is new to the pool.
LEMMA NewNode == \A k \in Keys \ {"none"} : NodeOK(Node(k)) /\ Node(k).key = k /\ Node(k) # Absent
<1> SUFFICES ASSUME NEW k \in Keys \ {"none"} PROVE NodeOK(Node(k)) /\ Node(k).key = k /\ Node(k) # Absent
  BY Zenon
<1> QED
  BY Zenon, NoSampleTyped DEF NodeOK, Node, Absent

\* A failure forgets the sample and nothing else that matters.
LEMMA FailedNode == ASSUME NEW n, NodeOK(n)
                    PROVE  NodeOK(failed(n)) /\ failed(n).key = n.key /\ failed(n) # Absent
<1>1. PICK k, s, o, f, r : n = [key |-> k, sample |-> s, observed |-> o, failures |-> f, retry |-> r]
  BY Zenon DEF NodeOK
<1> DEFINE times == Min({n.failures + 1, MaxFailures})
           wait == now + cooldown(times)
           m == [key |-> k, sample |-> NoSample, observed |-> o, failures |-> times, retry |-> wait]
<1>2. failed(n) = m
  <2> HIDE DEF wait
  <2>1. failed(n) = [n EXCEPT !.sample = NoSample, !.failures = times, !.retry = wait]
    BY Zenon DEF failed, wait
  <2> HIDE DEF times
  <2> QED
    BY Zenon, <1>1, <2>1
<1>3. m.key = k /\ m.sample = NoSample /\ n.key = k /\ Absent.key = "none"
  BY Zenon, <1>1 DEF Absent
<1>4. \E x, y, z, u, v : m = [key |-> x, sample |-> y, observed |-> z, failures |-> u, retry |-> v]
  BY Zenon
<1> HIDE DEF m
<1> QED
  BY Zenon, <1>2, <1>3, <1>4, NoSampleTyped DEF NodeOK

\* A measurement replaces the sample and its time.
LEMMA ObservedNode == ASSUME NEW n, NodeOK(n), NEW s \in Samples, s.key = n.key
                      PROVE  /\ NodeOK(observe(n, s)) /\ observe(n, s).key = n.key /\ observe(n, s) # Absent
<1>1. PICK k, t, o, f, r : n = [key |-> k, sample |-> t, observed |-> o, failures |-> f, retry |-> r]
  BY Zenon DEF NodeOK
<1> DEFINE m == [key |-> k, sample |-> s, observed |-> s.at, failures |-> 0, retry |-> 0]
<1>2. observe(n, s) = m
  <2> DEFINE a == s.at
  <2>1. observe(n, s) = [n EXCEPT !.sample = s, !.observed = a, !.failures = 0, !.retry = 0]
    BY Zenon DEF observe
  <2>2. m = [key |-> k, sample |-> s, observed |-> a, failures |-> 0, retry |-> 0]
    BY Zenon
  <2> HIDE DEF a, m
  <2> QED
    BY Zenon, <1>1, <2>1, <2>2
<1>3. m.key = k /\ m.sample = s /\ m.observed = s.at /\ n.key = k /\ Absent.key = "none"
  BY Zenon, <1>1 DEF Absent
<1>4. \E x, y, z, u, v : m = [key |-> x, sample |-> y, observed |-> z, failures |-> u, retry |-> v]
  BY Zenon
<1> HIDE DEF m
<1> QED
  BY Zenon, <1>2, <1>3, <1>4 DEF NodeOK

LEMMA PoolStart == PoolInit => PoolInv
<1> SUFFICES ASSUME PoolInit PROVE PoolInv
  BY Zenon
<1>1. PICK catalog \in Catalogs :
         nodes = [i \in Ids |-> IF catalog[i] = "none" THEN Absent ELSE Node(catalog[i])]
  BY Zenon DEF PoolInit
<1> QED
  BY SMTT(30), <1>1, NoScanTyped, NewNode, PoolAssumption DEF PoolInv, PoolInit, Running, Listed,
     Catalogs

\* The start of a scan keeps the nodes whose endpoint is unchanged and probes nodes it has.
LEMMA ScanBegins == PoolInv /\ scan_begin => PoolInv'
<1> SUFFICES ASSUME PoolInv, scan_begin PROVE PoolInv'
  BY Zenon
<1>1. PICK catalog \in Catalogs, until \in {expires, MaxNow + 1}, accepted \in BOOLEAN :
         LET wanted == now + RefreshAhead >= expires /\ now >= next_refresh
             taken == wanted /\ accepted /\ until > now
         IN /\ nodes' = IF taken THEN update(catalog) ELSE nodes
            /\ scan' = IF now >= expires' THEN NoScan
                       ELSE [NoScan EXCEPT !.on = TRUE, !.due = due(nodes'), !.todo = due(nodes')]
  BY Zenon DEF scan_begin
<1>2. \A i \in Ids : catalog[i] \in Keys \union {"none"}
  BY Zenon, <1>1 DEF Catalogs
<1>4. /\ nodes' = [i \in Ids |-> nodes'[i]]
      /\ \A i \in Listed(nodes') : NodeOK(nodes'[i])
  BY Zenon, <1>2, NewNode, <1>1 DEF PoolInv, update, Listed
<1> DEFINE some == due(nodes')
           begun == [NoScan EXCEPT !.on = TRUE, !.due = some, !.todo = some]
<1>5. some \subseteq Listed(nodes') /\ Listed(nodes') \subseteq Ids
  BY Zenon DEF due, Listed
<1>6. scan' = NoScan \/ scan' = begun
  BY Zenon, <1>1
<1>7. /\ begun.on = TRUE /\ begun.due = some /\ begun.todo = some
      /\ begun.since = NoScan.since /\ begun.got = NoScan.got
      /\ begun \in [on : BOOLEAN, due : SUBSET Listed(nodes'), todo : SUBSET Ids,
                    since : [Ids -> Nat], got : [Ids -> Samples]]
  <2> HIDE DEF some
  <2> QED
    BY Zenon, <1>5, NoScanTyped DEF NoScan
<1> HIDE DEF begun, some
<1>8. scan'.since = [i \in Ids |-> 0] /\ scan'.got = [i \in Ids |-> NoSample] /\ scan'.todo = scan'.due
  BY Zenon, <1>6, <1>7, NoScanTyped
<1>10. scan' \in [on : BOOLEAN, due : SUBSET Listed(nodes'), todo : SUBSET Ids,
                  since : [Ids -> Nat], got : [Ids -> Samples]]
  BY Zenon, NoScanTyped, <1>6, <1>7 DEF NoScan
<1>11. ~scan'.on => scan' = NoScan
  BY Zenon, <1>6, <1>7
<1>12. now' \in Nat /\ expires' \in Nat
  BY SMTT(30), PoolAssumption DEF scan_begin, PoolInv
<1> QED
  BY Zenon, <1>4, <1>8, <1>10, <1>11, <1>12 DEF PoolInv, Running

\* A probe starts and ends without touching the pool.
LEMMA ProbeKeeps == ASSUME PoolInv, NEW i \in Ids, probe_begin(i) \/ probe_end(i) PROVE PoolInv'
<1> DEFINE T == [on : BOOLEAN, due : SUBSET Listed(nodes), todo : SUBSET Ids,
                 since : [Ids -> Nat], got : [Ids -> Samples]]
<1>1. nodes' = nodes /\ now' = now /\ expires' = expires
  BY Zenon DEF probe_begin, probe_end
<1>2. CASE probe_begin(i)
  <2> DEFINE t == scan.todo \ {i}
             s == [scan.since EXCEPT ![i] = now]
  <2>1. scan' = [scan EXCEPT !.todo = t, !.since = s] /\ i \in scan.todo
    BY Zenon, <1>2 DEF probe_begin
  <2>2. t \in SUBSET Ids /\ s \in [Ids -> Nat] /\ t \subseteq scan.todo
    BY Zenon DEF PoolInv
  <2>3. \A j \in Ids : s[j] # 0 => scan.since[j] # 0 \/ j = i
    BY Zenon DEF PoolInv
  <2> HIDE DEF t, s
  <2>4. /\ scan' \in T /\ scan'.due = scan.due /\ scan'.todo = t /\ scan'.since = s
        /\ scan'.got = scan.got /\ scan'.on = scan.on
    BY Zenon, <2>1, <2>2 DEF PoolInv
  <2> QED
    BY SMTT(30), <1>1, <2>2, <2>4, <2>1, NoScanTyped, <2>3 DEF PoolInv, Running
<1>3. CASE probe_end(i)
  <2>1. PICK score \in Scores, usable \in BOOLEAN, missed \in BOOLEAN :
           scan' = [scan EXCEPT !.since[i] = 0,
                                !.got[i] = IF missed THEN NoSample
                                           ELSE [score |-> score, usable |-> usable,
                                                 key |-> nodes[i].key, at |-> now]]
    BY Zenon, <1>3 DEF probe_end
  <2> DEFINE x == IF missed THEN NoSample
                  ELSE [score |-> score, usable |-> usable, key |-> nodes[i].key, at |-> now]
             s == [scan.since EXCEPT ![i] = 0]
             g == [scan.got EXCEPT ![i] = x]
  <2>2. i \in scan.due /\ i \in Listed(nodes)
    BY Zenon, <1>3 DEF probe_end, PoolInv
  <2>3. x \in Samples /\ (x # NoSample => x.key = nodes[i].key)
    BY Zenon, <2>2, PoolAssumption, NoSampleTyped DEF PoolInv, NodeOK, Samples
  <2>4. scan' = [scan EXCEPT !.since = s, !.got = g]
    BY Zenon, <2>1 DEF PoolInv
  <2> HIDE DEF x
  <2>5. s \in [Ids -> Nat] /\ g \in [Ids -> Samples]
    BY Zenon, <2>3 DEF PoolInv
  <2>6. /\ \A j \in Ids : s[j] # 0 => scan.since[j] # 0
        /\ \A j \in Ids : g[j] = IF j = i THEN x ELSE scan.got[j]
    BY Zenon DEF PoolInv
  <2> HIDE DEF s, g
  <2>7. /\ scan' \in T /\ scan'.due = scan.due /\ scan'.todo = scan.todo /\ scan'.since = s
        /\ scan'.got = g /\ scan'.on = scan.on
    BY Zenon, <2>4, <2>5 DEF PoolInv
  <2>10. \A j \in Ids : scan'.got[j] # NoSample => j \in scan.due /\ scan'.got[j].key = nodes[j].key
    BY Zenon, <2>2, <2>3, <2>6, <2>7 DEF PoolInv
  <2> QED
    BY Zenon, <1>1, <2>7, <2>10, <2>6, <2>2, NoScanTyped DEF PoolInv, Running
<1> QED
  BY Zenon, <1>2, <1>3

\* The pool after the answers of a scan were entered.
Measured ==
    [i \in Ids |-> IF i \notin scan.due THEN nodes[i]
                  ELSE IF scan.got[i] = NoSample THEN failed(nodes[i])
                  ELSE observe(nodes[i], scan.got[i])]

\* Entering the answers keeps every sample with the key it was verified with.
LEMMA MeasuredNodes == PoolInv => \A i \in Listed(Measured) : NodeOK(Measured[i])
<1> SUFFICES ASSUME PoolInv, NEW i \in Listed(Measured) PROVE NodeOK(Measured[i])
  BY Zenon
<1>1. i \in Ids /\ Measured[i] # Absent
  BY Zenon DEF Listed
<1>2. Measured[i] = IF i \notin scan.due THEN nodes[i]
                    ELSE IF scan.got[i] = NoSample THEN failed(nodes[i])
                    ELSE observe(nodes[i], scan.got[i])
  BY Zenon, <1>1 DEF Measured
<1>3. i \in scan.due => NodeOK(nodes[i])
  BY Zenon DEF PoolInv
<1>5. CASE i \notin scan.due
  BY Zenon, <1>1, <1>2, <1>5 DEF PoolInv, Listed
<1>6. CASE i \in scan.due /\ scan.got[i] = NoSample
  BY Zenon, <1>2, <1>3, <1>6, FailedNode
<1>7. CASE i \in scan.due /\ scan.got[i] # NoSample
  BY SMTT(30), <1>2, <1>3, <1>7, ObservedNode, <1>1 DEF PoolInv
<1> QED
  BY Zenon, <1>5, <1>6, <1>7

\* The end of a scan and a reported failure leave such a pool.
LEMMA EndKeeps == PoolInv /\ (scan_end \/ connection_lost) => PoolInv'
<1> SUFFICES ASSUME PoolInv, scan_end \/ connection_lost PROVE PoolInv'
  BY Zenon
<1>1. CASE scan_end
  <2> QED
    BY Zenon, NoScanTyped, MeasuredNodes, <1>1 DEF PoolInv, Running, Measured, scan_end
<1>2. CASE connection_lost
  BY SMTT(30), <1>2, FailedNode, NoScanTyped DEF connection_lost, PoolInv, Running, Listed
<1> QED
  BY Zenon, <1>1, <1>2

LEMMA PoolInductive == PoolInv /\ [PoolNext]_pvars => PoolInv'
<1> SUFFICES ASSUME PoolInv, [PoolNext]_pvars PROVE PoolInv'
  BY Zenon
<1>1. CASE time_passes \/ UNCHANGED pvars
  BY SMTT(30), <1>1 DEF time_passes, pvars, PoolInv, Running
<1> QED
  BY Zenon, <1>1, ScanBegins, EndKeeps, ProbeKeeps DEF PoolNext

\* What choose returns is one of its candidates: some score is the lowest.
LEMMA ChosenIsCandidate == ASSUME NEW pool, \A i \in Listed(pool) : NodeOK(pool[i]), choose(pool) # NoRelay
                           PROVE  choose(pool) \in Candidates(pool)
<1> DEFINE ready == Candidates(pool)
           scores == {pool[i].sample.score : i \in ready}
           best == CHOOSE i \in ready : \A j \in ready : pool[i].sample.score <= pool[j].sample.score
<1>1. ready # {} /\ (choose(pool) = best \/ (choose(pool) = active /\ active \in ready))
  BY Zenon DEF choose
<1>2. \A i \in ready : pool[i].sample.score \in Nat
  BY Zenon DEF Candidates, NodeOK, Samples
<1>3. scores \subseteq Nat /\ scores # {}
  BY Zenon, <1>1, <1>2
<1>4. PICK x \in scores : \A y \in scores : ~(<<y, x>> \in OpToRel(<, Nat))
  <2> HIDE DEF scores
  <2> QED
    BY <1>3, WFMin, NatLessThanWellFounded, Zenon
<1>5. \A y \in scores : x <= y
  <2> HIDE DEF scores
  <2>1. \A y \in scores : ~(y < x)
    BY <1>3, <1>4, Zenon DEF OpToRel
  <2> QED
    BY <1>3, <2>1
<1>7. best \in ready
  <2> HIDE DEF ready
  <2> QED
    BY Zenon, <1>4, <1>5
<1> QED
  BY Zenon, <1>1, <1>7

\* For any relays, keys, scores and times, however the catalog changes and however long the
\* scan takes: a connection is opened only to a listed relay, on a fresh and usable sample
\* verified with the key the catalog pins for it now.
THEOREM ChoiceIsFreshHolds == PoolSpec => ChoiceIsFresh
<1>1. ASSUME PoolInv, [PoolNext]_pvars, ~up /\ up'
      PROVE  LET node == nodes'[active'] IN
             /\ now < expires /\ node # Absent
             /\ node.sample.usable /\ node.sample.key = node.key
             /\ now - node.sample.at < FreshFor
  <2> DEFINE choice == IF now >= expires THEN NoRelay ELSE choose(Measured)
  <2>2. nodes' = Measured /\ choice # NoRelay /\ active' = choice
    BY Zenon, <1>1 DEF scan_end, Measured, PoolNext, pvars, time_passes, scan_begin,
       connection_lost, probe_begin, probe_end
  <2>3. ~(now >= expires) /\ choose(Measured) # NoRelay /\ active' = choose(Measured)
    BY Zenon, <2>2
  <2>5. /\ active' \in Listed(Measured) /\ Measured[active'].sample.usable
        /\ now - Measured[active'].observed < FreshFor
    BY Zenon, <1>1, <2>3, MeasuredNodes, ChosenIsCandidate DEF Candidates
  <2>8. now < expires
    BY SMTT(30), <1>1, <2>3 DEF PoolInv
  <2> QED
    BY Zenon, <2>2, <2>5, <2>8, <1>1, MeasuredNodes, NoSampleTyped DEF NodeOK, Listed
<1>2. PoolInv /\ [PoolNext]_pvars =>
        [~up /\ up' => LET node == nodes'[active'] IN
                       /\ now < expires /\ node # Absent
                       /\ node.sample.usable /\ node.sample.key = node.key
                       /\ now - node.sample.at < FreshFor]_pvars
  BY Zenon, <1>1
<1> QED
  BY <1>2, PoolStart, PoolInductive, PTL DEF PoolSpec, ChoiceIsFresh

-----------------------------------------------------------------------------
(* The identifiers of the requests.                                        *)

IdRange == 0 .. IdSpace - 1

LEMMA IdBounds == /\ IdSpace \in Nat /\ IdSpace > 2 /\ IdSpace - 1 \in Nat
                  /\ Cardinality(Callers) \in Nat /\ IdSpace > Cardinality(Callers) + 2
  BY SMTT(30), ClientAssumption, FS_CardinalityType

\* Identifiers go round.
LEMMA WrapIs ==
  ASSUME NEW i \in IdRange
  PROVE  Wrap(i) = i /\ Wrap(i + IdSpace) = i
  BY SMTT(30), IdBounds DEF IdRange, Wrap

LEMMA WrapType ==
  ASSUME NEW i \in Nat
  PROVE  Wrap(i) \in IdRange
  BY SMTT(30), IdBounds DEF Wrap, IdRange


\* There is always an identifier that the loop does not step over.
LEMMA FreeId ==
  ASSUME NEW a, \A p \in att[a].pending : \E k \in Callers : p[1] = caller[k].id
  PROVE  \E i \in IdRange : ~Skipped(a, i)
  <1> DEFINE ids == {caller[k].id : k \in Callers}
             most == (ids \cup {0}) \cup {CapabilityId}
  <1>1. IsFiniteSet(ids) /\ Cardinality(ids) <= Cardinality(Callers) /\ Cardinality(ids) \in Nat
    <2> DEFINE f == [k \in Callers |-> caller[k].id]
    <2>1. f \in Surjection(Callers, ids)
      BY Zenon DEF Surjection
    <2> HIDE DEF ids, f
    <2> QED BY Zenon, FS_CardinalityType, <2>1, FS_Surjection, ClientAssumption
  <1> HIDE DEF ids
  <1>2. IsFiniteSet(ids \cup {0}) /\ Cardinality(ids \cup {0}) \in Nat /\ Cardinality(ids \cup {0}) <= Cardinality(ids) + 1
    <2> QED BY SMTT(30), <1>1, FS_AddElement
  <1>3. IsFiniteSet(most) /\ Cardinality(most) \in Nat /\ Cardinality(most) <= Cardinality(ids \cup {0}) + 1
    <2> DEFINE some == ids \cup {0}
    <2> HIDE DEF some
    <2> QED BY SMTT(30), FS_AddElement, <1>2 DEF some
  <1> HIDE DEF most
  <1>5. Cardinality(IdRange) = IdSpace
    BY SMTT(30), IdBounds, FS_Interval DEF IdRange
  <1>6. ~(IdRange \subseteq most)
    <2> SUFFICES ASSUME IdRange \subseteq most PROVE FALSE
      BY Zenon
    <2> QED BY SMTT(30), <1>3, <1>5, IdBounds, <1>1, <1>2, FS_Subset
  <1>7. PICK i \in IdRange : i \notin most
    BY Zenon, <1>6
  <1> QED BY SMTT(30), <1>7 DEF Skipped, most, ids

\* The identifier of a request is none that the loop steps over.
LEMMA RequestIdIsFree ==
  ASSUME NEW a, next_id \in IdRange, \A p \in att[a].pending : \E k \in Callers : p[1] = caller[k].id
  PROVE  request_id(a) \in IdRange /\ ~Skipped(a, request_id(a))
  <1> DEFINE Free(n) == ~Skipped(a, Wrap(next_id + n))
             T == {n \in IdRange : Free(n)}
  <1>1. \E n \in IdRange : Free(n)
    <2>1. PICK i \in IdRange : ~Skipped(a, i)
      BY Zenon, FreeId
    <2>2. CASE i >= next_id
      BY SMTT(30), <2>2, IdBounds, WrapIs, <2>1 DEF IdRange
    <2>3. CASE ~(i >= next_id)
      BY SMTT(30), <2>3, IdBounds, WrapIs, <2>1 DEF IdRange
    <2> QED BY Zenon, <2>2, <2>3
  <1>2. \E n \in T : \A m \in T : ~(<<m, n>> \in OpToRel(<, Nat))
    <2>1. T \subseteq Nat
      BY IdBounds DEF IdRange
    <2>2. T # {}
      BY Zenon, <1>1
    <2> HIDE DEF T
    <2>3. PICK t : t \in T
      BY Zenon, <2>2
    <2> QED BY <2>1, <2>3, WFMin, NatLessThanWellFounded, Zenon
  <1>3. PICK n \in T : \A m \in T : ~(<<m, n>> \in OpToRel(<, Nat))
    BY Zenon, <1>2
  <1>4. n \in IdRange /\ Free(n) /\ n \in Nat
    BY IdBounds DEF IdRange
  <1>5. \A m \in 0 .. n - 1 : Skipped(a, Wrap(next_id + m))
    <2> SUFFICES ASSUME NEW m \in 0 .. n - 1, Free(m) PROVE FALSE
      BY Zenon
    <2>1. m \in IdRange /\ m \in Nat /\ m < n
      BY <1>4, IdBounds DEF IdRange
    <2> QED BY Zenon, <1>4, <2>1, <1>3 DEF OpToRel
  <1> DEFINE c == CHOOSE j \in 0 .. IdSpace - 1 :
                /\ ~Skipped(a, Wrap(next_id + j))
                /\ \A m \in 0 .. j - 1 : Skipped(a, Wrap(next_id + m))
  <1>7. c \in 0 .. IdSpace - 1 /\ ~Skipped(a, Wrap(next_id + c))
    BY Zenon, <1>4, <1>5 DEF IdRange
  <1>8. request_id(a) = Wrap(next_id + c)
    BY Zenon DEF request_id
  <1> HIDE DEF c
  <1> QED BY SMTT(30), <1>7, <1>8, WrapType, IdBounds DEF IdRange

-----------------------------------------------------------------------------
(* The attempts and the table of the requests that wait.                   *)

Fields == {"conn", "closing", "stream", "tcp", "authenticated", "ever_authenticated", "quic_connected",
           "complete", "shutdown_requested", "hs", "cb", "pending", "wire"}

\* An attempt: only an authenticated one has requests, only one with a connection is
\* authenticated, and one that is complete or about to be has no connection.
AttemptOK(r) ==
    /\ DOMAIN r = Fields
    /\ r.authenticated \in BOOLEAN /\ r.complete \in BOOLEAN
    /\ r.authenticated \/ r.pending = {}
    /\ r.authenticated => r.conn # "none" \/ r.tcp # "none"
    /\ r.complete \/ r.cb \in {"ended", "tail"} => r.conn = "none" /\ r.tcp = "none" /\ r.cb # "accept"
    /\ r.conn = "open" => ~r.authenticated /\ r.cb = "none" /\ r.tcp = "none"

\* Where the worker has an attempt.
Busy == {"starting", "wait", "rescan", "drain", "settle", "tcp_run", "tcp_end", "tcp_clear"}

AttemptsOK ==
    /\ DOMAIN att = Attempts
    /\ \A a \in Attempts : AttemptOK(att[a])
    /\ pc \in Busy => current \in Attempts
    /\ pc = "starting" => att[current].conn = "open"
    /\ active_attempt_ \in Attempts \cup {None}
    /\ DOMAIN stopper = {"pos", "on"}
    /\ stopper.pos = "mark" => stopper.on \in Attempts

CallerOK(c) ==
    /\ DOMAIN c = {"pos", "on", "id", "tag", "answer"}
    /\ c.id \in IdRange
    /\ c.pos \in {"got", "wait"} => c.on \in Attempts

\* A caller waits exactly if the table of its attempt has its entry.
TablesOK ==
    /\ next_id \in IdRange
    /\ DOMAIN caller = Callers
    /\ \A k \in Callers :
          /\ CallerOK(caller[k])
          /\ caller[k].pos = "wait" => <<caller[k].id, k>> \in att[caller[k].on].pending
    /\ \A a \in Attempts : \A p \in att[a].pending : \E k \in Callers :
          caller[k].pos = "wait" /\ caller[k].on = a /\ p = <<caller[k].id, k>>
    /\ \A a \in Attempts : \A p, q \in att[a].pending : p[1] = q[1] => p = q

ClientInv == AttemptsOK /\ TablesOK

LEMMA VainByInv ==
  ASSUME ClientInv
  PROVE  NobodyWaitsInVain
  <1> SUFFICES ASSUME NEW k \in Callers, caller[k].pos = "wait"
               PROVE  LET a == caller[k].on IN
                      /\ <<caller[k].id, k>> \in att[a].pending
                      /\ att[a].authenticated /\ ~att[a].complete
                      /\ att[a].conn # "none" \/ att[a].tcp # "none"
    BY Zenon DEF NobodyWaitsInVain
  <1>1. caller[k].on \in Attempts /\ <<caller[k].id, k>> \in att[caller[k].on].pending
    BY Zenon DEF ClientInv, TablesOK, CallerOK
  <1> QED BY Zenon, <1>1 DEF AttemptOK, ClientInv, AttemptsOK

LEMMA ClientStart ==
  ASSUME ClientInit
  PROVE  ClientInv
  <1>1. AttemptOK(AttemptState) /\ AttemptState.pending = {}
    BY Zenon DEF AttemptOK, AttemptState, Fields
  <1> QED BY SMTT(30), <1>1, IdBounds DEF ClientInv, AttemptsOK, ClientInit, Busy, TablesOK,
       CallerOK, PendingControl, IdRange


-----------------------------------------------------------------------------
(* What steps do to the table.                                             *)

\* The table stays, and no caller begins or ends to wait.
LEMMA TablesKept ==
  ASSUME TablesOK, next_id' \in IdRange, DOMAIN caller' = Callers,
         \A a \in Attempts : att'[a].pending = att[a].pending,
         \A k \in Callers : \/ caller'[k] = caller[k]
                            \/ caller[k].pos # "wait" /\ caller'[k].pos # "wait" /\ CallerOK(caller'[k])
  PROVE  TablesOK'
  BY SMTT(30) DEF TablesOK, CallerOK

\* Entries leave the table of one attempt, and their callers stop waiting.
LEMMA TablesLess ==
  ASSUME TablesOK, NEW a \in Attempts, NEW gone \in SUBSET att[a].pending,
         next_id' \in IdRange, DOMAIN caller' = Callers,
         att'[a].pending = att[a].pending \ gone,
         \A b \in Attempts \ {a} : att'[b].pending = att[b].pending,
         \A k \in Callers : IF \E p \in gone : p[2] = k
                            THEN caller'[k].pos # "wait" /\ CallerOK(caller'[k])
                            ELSE caller'[k] = caller[k]
  PROVE  TablesOK'
  <1>1. ASSUME NEW k \in Callers
        PROVE  /\ CallerOK(caller'[k])
               /\ caller'[k].pos = "wait" => <<caller'[k].id, k>> \in att'[caller'[k].on].pending
    BY SMTT(30) DEF TablesOK, CallerOK
  <1>2. ASSUME NEW b \in Attempts, NEW p \in att'[b].pending
        PROVE  \E k \in Callers : caller'[k].pos = "wait" /\ caller'[k].on = b /\ p = <<caller'[k].id, k>>
    <2>1. p \in att[b].pending /\ (b = a => p \notin gone)
      BY Zenon, <1>2
    <2>2. PICK k \in Callers : caller[k].pos = "wait" /\ caller[k].on = b /\ p = <<caller[k].id, k>>
      BY SMTT(30), <2>1 DEF TablesOK
    <2>3. ASSUME NEW q \in gone, q[2] = k PROVE FALSE
      <3>1. PICK j \in Callers : caller[j].pos = "wait" /\ caller[j].on = a /\ q = <<caller[j].id, j>>
        BY SMTT(30) DEF TablesOK
      <3> QED BY Zenon, <2>1, <2>2, <3>1, <2>3
    <2> QED BY Zenon, <2>2, <2>3
  <1> QED BY Zenon, <1>1, <1>2 DEF TablesOK, CallerOK

\* fail_pending empties the table of an attempt.
LEMMA TableFails ==
  ASSUME TablesOK, NEW a \in Attempts, fail_pending(a), UNCHANGED next_id,
         att'[a].pending = {}, \A b \in Attempts \ {a} : att'[b].pending = att[b].pending
  PROVE  TablesOK'
  <1> DEFINE gone == att[a].pending
  <1>1. DOMAIN caller' = Callers /\ next_id' \in IdRange
    BY Zenon DEF fail_pending, TablesOK
  <1>2. ASSUME NEW k \in Callers
        PROVE  IF \E p \in gone : p[2] = k
               THEN caller'[k].pos # "wait" /\ CallerOK(caller'[k])
               ELSE caller'[k] = caller[k]
    BY SMTT(30) DEF TablesOK, CallerOK, fail_pending
  <1>3. att'[a].pending = att[a].pending \ gone /\ gone \in SUBSET att[a].pending
    BY Zenon
  <1> HIDE DEF gone
  <1> QED BY SMTT(30), <1>1, <1>2, <1>3, TablesLess

\* An attempt no caller is on has no entries.
LEMMA NoEntries ==
  ASSUME TablesOK, NEW a \in Attempts, \A k \in Callers : caller[k].on # a
  PROVE  att[a].pending = {}
  BY DEF TablesOK


-----------------------------------------------------------------------------
(* What steps do to an attempt.                                            *)

\* The connection's state and the table stay.
Alike(s, r) == s.conn = r.conn /\ s.pending = r.pending

LEMMA ShutdownKeeps ==
  ASSUME NEW r, AttemptOK(r)
  PROVE  AttemptOK(ConnectionShutdown(r)) /\ Alike(ConnectionShutdown(r), r)
  BY SMTT(30) DEF AttemptOK, ConnectionShutdown, Alike, Fields

LEMMA HangKeeps ==
  ASSUME NEW r, AttemptOK(r)
  PROVE  AttemptOK(Hang(r)) /\ Alike(Hang(r), r)
  BY Zenon, ShutdownKeeps DEF AttemptOK, Hang, Alike, Fields

\* A shutdown that is recorded first.
LEMMA MarkedShutdownKeeps ==
  ASSUME NEW r, AttemptOK(r)
  PROVE  /\ AttemptOK(ConnectionShutdown([r EXCEPT !.shutdown_requested = TRUE]))
         /\ Alike(ConnectionShutdown([r EXCEPT !.shutdown_requested = TRUE]), r)
  <1> DEFINE s == [r EXCEPT !.shutdown_requested = TRUE]
  <1>1. AttemptOK(s) /\ Alike(s, r)
    BY Zenon DEF AttemptOK, Alike, Fields
  <1> HIDE DEF s
  <1> QED BY Zenon, <1>1, ShutdownKeeps DEF s, Alike

LEMMA FreshAttempts ==
  /\ AttemptOK(AttemptState) /\ AttemptState.pending = {}
  /\ \A c \in {"none", "open"} : /\ AttemptOK([AttemptState EXCEPT !.conn = c])
                                 /\ [AttemptState EXCEPT !.conn = c].pending = {}
                                 /\ [AttemptState EXCEPT !.conn = c].conn = c
  /\ AttemptOK([AttemptState EXCEPT !.tcp = "open", !.hs = "hello"])
  /\ [AttemptState EXCEPT !.tcp = "open", !.hs = "hello"].pending = {}
  BY SMTT(30) DEF AttemptOK, AttemptState, Fields

\* What is left of an attempt that went down, and of one that is gone.
LEMMA DownAttempts ==
  ASSUME NEW a \in Attempts, AttemptOK(att[a])
  PROVE  /\ AttemptOK(Closed(a)) /\ Closed(a).pending = {}
         /\ AttemptOK([Closed(a) EXCEPT !.cb = "ended"]) /\ [Closed(a) EXCEPT !.cb = "ended"].pending = {}
         /\ att[a].conn \in {"started", "connected"} => AttemptOK([Dropped(a) EXCEPT !.conn = "down"])
         /\ [Dropped(a) EXCEPT !.conn = "down"].pending = {}
         /\ AttemptOK([Dropped(a) EXCEPT !.hs = "over"])
         /\ [Dropped(a) EXCEPT !.hs = "over"].pending = {} /\ [Dropped(a) EXCEPT !.hs = "over"].conn = att[a].conn
  <1> DEFINE d == Dropped(a)
  <1> DEFINE c == Closed(a)
  <1> HIDE DEF d, c
  <1> QED BY Zenon DEF d, c, AttemptOK, Fields, Closed, Dropped

SetAttempt(a, r) == att' = [att EXCEPT ![a] = r]

\* One attempt changes, while the worker and the stopping thread stay where they are.
LEMMA OneAttempt ==
  ASSUME AttemptsOK, NEW a \in Attempts, NEW r, AttemptOK(r), SetAttempt(a, r),
         att[a].conn = "open" => r.conn = "open",
         UNCHANGED <<pc, current, stopper>>, active_attempt_' \in {active_attempt_, None}
  PROVE  AttemptsOK'
  BY SMTT(30) DEF SetAttempt, AttemptsOK, Busy, AttemptOK

LEMMA NothingMoves ==
  ASSUME ClientInv, UNCHANGED <<att, pc, current, stopper, caller, next_id, active_attempt_>>
  PROVE  ClientInv'
  BY DEF ClientInv, AttemptsOK, TablesOK, AttemptOK, CallerOK

LEMMA AttemptChanged ==
  ASSUME ClientInv, NEW a \in Attempts, NEW r, AttemptOK(r), SetAttempt(a, r),
         att[a].conn = "open" => r.conn = "open", r.pending = att[a].pending,
         UNCHANGED <<pc, current, stopper, caller, next_id>>, active_attempt_' \in {active_attempt_, None}
  PROVE  ClientInv'
  <1>3. TablesOK'
    BY Zenon, TablesKept DEF ClientInv, TablesOK, SetAttempt, AttemptsOK
  <1> QED BY Zenon, <1>3, OneAttempt DEF ClientInv

LEMMA AttemptFailed ==
  ASSUME ClientInv, NEW a \in Attempts, NEW r, AttemptOK(r), SetAttempt(a, r),
         att[a].conn = "open" => r.conn = "open", r.pending = {}, fail_pending(a),
         UNCHANGED <<pc, current, stopper, next_id>>, active_attempt_' \in {active_attempt_, None}
  PROVE  ClientInv'
  BY Zenon, OneAttempt, TableFails DEF ClientInv, SetAttempt, AttemptsOK


-----------------------------------------------------------------------------
(* MsQuic's events.                                                        *)

LEMMA ConnectedKeeps ==
  ASSUME ClientInv, NEW a \in Attempts, on_connected(a)
  PROVE  ClientInv'
  <1> DEFINE opened == [att[a] EXCEPT !.quic_connected = TRUE, !.conn = "connected"]
  <1>0. AttemptOK(att[a]) /\ att[a].conn = "started"
    BY Zenon DEF ClientInv, AttemptsOK, on_connected
  <1>1. AttemptOK(opened) /\ opened.conn = "connected" /\ opened.pending = att[a].pending
    BY Zenon, <1>0 DEF AttemptOK, Fields
  <1>2. PICK r \in open_control_stream(opened) : att' = [att EXCEPT ![a] = r]
    BY Zenon DEF on_connected
  <1> HIDE DEF opened
  <1> DEFINE hello == [opened EXCEPT !.hs = "hello"]
  <1>3. AttemptOK(hello) /\ hello.pending = att[a].pending
    BY Zenon, <1>1 DEF AttemptOK, Fields
  <1>4. r \in {hello, ConnectionShutdown(opened), ConnectionShutdown(hello)}
    BY Zenon, <1>2 DEF open_control_stream
  <1> HIDE DEF hello
  <1>5. AttemptOK(r) /\ r.pending = att[a].pending
    BY Zenon, <1>1, <1>3, <1>4, ShutdownKeeps DEF Alike
  <1> QED BY Zenon, <1>0, <1>5, AttemptChanged, <1>2 DEF SetAttempt, on_connected, worker

LEMMA EndingKeeps ==
  ASSUME ClientInv, NEW a \in Attempts, on_shutdown_initiated(a) \/ on_stream_shutdown(a)
  PROVE  ClientInv'
  <1>0. AttemptOK(att[a])
    BY Zenon DEF ClientInv, AttemptsOK
  <1>1. CASE on_shutdown_initiated(a)
    BY Zenon, <1>1, <1>0, DownAttempts, AttemptFailed DEF on_shutdown_initiated, SetAttempt, worker
  <1>2. CASE on_stream_shutdown(a)
    <2>1. CASE att[a].stream
      BY Zenon, <1>2, <2>1, <1>0, DownAttempts, AttemptFailed DEF on_stream_shutdown, SetAttempt,
         worker
    <2>2. CASE ~att[a].stream
      <3> DEFINE r == [att[a] EXCEPT !.hs = "over"]
      <3>1. SetAttempt(a, r)
        BY Zenon, <1>2, <2>2 DEF on_stream_shutdown, SetAttempt
      <3>3. AttemptOK(r) /\ r.pending = att[a].pending /\ r.conn = att[a].conn
        BY Zenon, <1>0 DEF AttemptOK, Fields
      <3> HIDE DEF r
      <3> QED BY Zenon, <3>1, <3>3, AttemptChanged, <1>2, <2>2 DEF on_stream_shutdown, worker
    <2> QED BY Zenon, <2>1, <2>2
  <1> QED BY Zenon, <1>1, <1>2

LEMMA CompleteKeeps ==
  ASSUME ClientInv, NEW a \in Attempts, OnShutdownComplete(a)
  PROVE  ClientInv'
  <1>0. AttemptOK(att[a]) /\ UNCHANGED <<pc, current, stopper, next_id>>
    BY Zenon DEF ClientInv, AttemptsOK, OnShutdownComplete, worker
  <1>1. CASE /\ att[a].conn = "down" \/ (att[a].conn # "open" /\ att[a].closing)
             /\ att' = [att EXCEPT ![a] = [Closed(a) EXCEPT !.cb = "ended"]]
             /\ fail_pending(a) /\ UNCHANGED active_attempt_
    BY Zenon, <1>1, <1>0, DownAttempts, AttemptFailed DEF SetAttempt
  <1>2. CASE /\ att[a].cb = "ended"
             /\ att' = [att EXCEPT ![a].complete = TRUE, ![a].cb = "tail"]
             /\ UNCHANGED <<flags, active_attempt_, caller>>
    <2> DEFINE r == [att[a] EXCEPT !.complete = TRUE, !.cb = "tail"]
    <2>1. SetAttempt(a, r)
      BY Zenon, <1>0, <1>2 DEF SetAttempt, ClientInv, AttemptsOK
    <2>2. AttemptOK(r) /\ r.pending = att[a].pending /\ r.conn = att[a].conn
      BY Zenon, <1>0, <1>2 DEF AttemptOK, Fields
    <2> HIDE DEF r
    <2> QED BY Zenon, <1>0, <1>2, <2>1, <2>2, AttemptChanged
  <1>3. CASE /\ att[a].cb = "tail"
             /\ active_attempt_' = clear_active(a)
             /\ att' = [att EXCEPT ![a] = IF a = current THEN [@ EXCEPT !.cb = "none"] ELSE AttemptState]
             /\ UNCHANGED <<flags, caller>>
    <2> DEFINE r == IF a = current THEN [att[a] EXCEPT !.cb = "none"] ELSE AttemptState
    <2>1. SetAttempt(a, r)
      BY Zenon, <1>0, <1>3 DEF SetAttempt, ClientInv, AttemptsOK
    <2>2. att[a].conn = "none" /\ att[a].pending = {}
      BY Zenon, <1>0, <1>3 DEF AttemptOK
    <2>3. AttemptOK([att[a] EXCEPT !.cb = "none"]) /\ [att[a] EXCEPT !.cb = "none"].pending = att[a].pending
      BY Zenon, <1>0, <1>3 DEF AttemptOK, Fields
    <2>4. AttemptOK(r) /\ r.pending = att[a].pending
      BY Zenon, <2>2, <2>3, FreshAttempts
    <2> HIDE DEF r
    <2> QED BY Zenon, <1>0, <2>1, <2>4, AttemptChanged, <1>3, <2>2 DEF clear_active
  <1> QED BY <1>1, <1>2, <1>3, Zenon DEF OnShutdownComplete, on_shutdown_complete

-----------------------------------------------------------------------------
(* Frames.                                                                 *)

LEMMA FrameKeeps ==
  ASSUME ClientInv, NEW a \in Attempts, handle_challenge(a) \/ handle_peer_state(a)
  PROVE  ClientInv'
  <1>0. AttemptOK(att[a])
    BY Zenon DEF ClientInv, AttemptsOK
  <1> DEFINE proof == [att[a] EXCEPT !.hs = "proof"]
  <1>1. AttemptOK(proof) /\ Alike(proof, att[a])
    BY Zenon, <1>0 DEF AttemptOK, Fields, Alike
  <1>3. UNCHANGED <<pc, current, stopper, caller, next_id, active_attempt_>>
    BY Zenon DEF handle_challenge, handle_peer_state, worker
  <1>4. SetAttempt(a, proof) \/ SetAttempt(a, Hang(att[a])) \/ UNCHANGED att
    BY Zenon DEF handle_challenge, SetAttempt, ClientInv, AttemptsOK, handle_peer_state
  <1> HIDE DEF proof
  <1>5. CASE UNCHANGED att
    BY Zenon, <1>3, <1>5, NothingMoves
  <1>6. ASSUME NEW r, AttemptOK(r), Alike(r, att[a]), SetAttempt(a, r) PROVE ClientInv'
    BY Zenon, <1>6, <1>3, AttemptChanged DEF Alike
  <1> QED BY Zenon, <1>1, <1>4, <1>5, <1>6, <1>0, HangKeeps


LEMMA ResultKeeps ==
  ASSUME ClientInv, NEW a \in Attempts, HandleResult(a)
  PROVE  ClientInv'
  <1>0. AttemptOK(att[a])
    BY Zenon DEF ClientInv, AttemptsOK
  <1>2. ASSUME NEW r, AttemptOK(r), Alike(r, att[a]), SetAttempt(a, r) PROVE ClientInv'
    BY Zenon, <1>2, AttemptChanged DEF Alike, HandleResult
  <1>3. CASE Receiving(a) /\ att' = [att EXCEPT ![a] = Hang(@)]
    BY Zenon, <1>3, <1>0, <1>2, HangKeeps DEF SetAttempt
  <1>4. CASE Receiving(a) /\ att' = [att EXCEPT ![a].cb = "accept"]
    <2> DEFINE r == [att[a] EXCEPT !.cb = "accept"]
    <2>1. SetAttempt(a, r)
      BY Zenon, <1>4 DEF SetAttempt
    <2>2. AttemptOK(r) /\ Alike(r, att[a])
      BY Zenon, <1>0, <1>4 DEF AttemptOK, Fields, Alike, Receiving
    <2> HIDE DEF r
    <2> QED BY Zenon, <1>2, <2>1, <2>2
  <1> DEFINE live == ~stop_requested /\ (att[a].conn # "none" \/ att[a].tcp # "none")
             r == [att[a] EXCEPT !.ever_authenticated = TRUE, !.hs = "done", !.cb = "none",
                                 !.stream = IF live THEN att[a].tcp = "none" ELSE @,
                                 !.authenticated = live \/ @]
  <1>5. CASE /\ att[a].cb = "accept"
             /\ \E sent \in BOOLEAN : att' = [att EXCEPT ![a] = IF sent THEN r ELSE Hang(r)]
    <2>1. SetAttempt(a, r) \/ SetAttempt(a, Hang(r))
      <3>1. PICK sent \in BOOLEAN : att' = [att EXCEPT ![a] = IF sent THEN r ELSE Hang(r)]
        BY <1>5, Zenon
      <3> HIDE DEF r
      <3>2. CASE sent
        BY Zenon, <3>1, <3>2 DEF SetAttempt
      <3>3. CASE ~sent
        BY Zenon, <3>1, <3>3 DEF SetAttempt
      <3> QED BY Zenon, <3>2, <3>3
    <2>2. live \in BOOLEAN /\ (live => att[a].conn # "none" \/ att[a].tcp # "none")
      BY Zenon
    <2> HIDE DEF live
    <2>3. AttemptOK(r) /\ Alike(r, att[a])
      <3>1. /\ DOMAIN r = Fields /\ r.cb = "none" /\ r.authenticated = (live \/ att[a].authenticated)
            /\ r.conn = att[a].conn /\ r.tcp = att[a].tcp /\ r.complete = att[a].complete /\ r.pending = att[a].pending
        BY Zenon, <1>0 DEF AttemptOK, Fields
      <3> HIDE DEF r
      <3> QED BY Zenon, <1>0, <2>2, <3>1, <1>5 DEF AttemptOK, Alike
    <2> HIDE DEF r
    <2> QED BY Zenon, <1>2, <2>1, <2>3, HangKeeps DEF Alike
  <1> QED BY <1>3, <1>4, <1>5, Zenon DEF HandleResult, handle_result

\* A response ends the requests of its identifier or none.
LEMMA ResponseKeeps ==
  ASSUME ClientInv, NEW a \in Attempts, HandleResponse(a)
  PROVE  ClientInv'
  <1> DEFINE frame == Head(att[a].wire)
             rest == [att[a] EXCEPT !.wire = Tail(@)]
             found == {p \in att[a].pending : p[1] = frame.id}
             less == [rest EXCEPT !.pending = @ \ found]
  <1>0. AttemptOK(att[a]) /\ UNCHANGED <<pc, current, stopper, next_id, active_attempt_>>
    BY Zenon DEF ClientInv, AttemptsOK, HandleResponse, worker
  <1>1. \/ SetAttempt(a, rest) /\ UNCHANGED caller
        \/ SetAttempt(a, Hang(rest)) /\ UNCHANGED caller
        \/ \E end \in {"answered", "failed"} :
              /\ SetAttempt(a, less)
              /\ caller' = [k \in Callers |->
                              IF \E p \in found : p[2] = k
                              THEN [caller[k] EXCEPT !.pos = end, !.answer = frame.tag]
                              ELSE caller[k]]
    BY Zenon DEF HandleResponse, handle_response, SetAttempt
  <1>2. AttemptOK(rest) /\ rest.conn = att[a].conn /\ rest.pending = att[a].pending
    BY Zenon, <1>0 DEF AttemptOK, Fields
  <1>3. CASE SetAttempt(a, rest) /\ UNCHANGED caller
    <2> HIDE DEF rest
    <2> QED BY Zenon, <1>0, <1>2, <1>3, AttemptChanged
  <1>4. CASE SetAttempt(a, Hang(rest)) /\ UNCHANGED caller
    <2> HIDE DEF rest
    <2> QED BY Zenon, <1>0, <1>4, AttemptChanged, <1>2, HangKeeps DEF Alike
  <1>5. ASSUME NEW end \in {"answered", "failed"}, SetAttempt(a, less),
               caller' = [k \in Callers |->
                              IF \E p \in found : p[2] = k
                              THEN [caller[k] EXCEPT !.pos = end, !.answer = frame.tag]
                              ELSE caller[k]]
        PROVE  ClientInv'
    <2>1. AttemptOK(less) /\ less.conn = att[a].conn /\ less.pending = att[a].pending \ found
      <3> HIDE DEF rest, found
      <3> QED BY Zenon, <1>2 DEF AttemptOK, Fields
    <2> HIDE DEF less
    <2>3. att'[a].pending = att[a].pending \ found /\ \A b \in Attempts \ {a} : att'[b].pending = att[b].pending
      BY Zenon, <1>5, <2>1 DEF SetAttempt, ClientInv, AttemptsOK
    <2>4. found \in SUBSET att[a].pending
      BY Zenon
    <2> HIDE DEF found, frame
    <2>5. ASSUME NEW k \in Callers
          PROVE  IF \E p \in found : p[2] = k
                 THEN caller'[k].pos # "wait" /\ CallerOK(caller'[k])
                 ELSE caller'[k] = caller[k]
      <3>1. CallerOK(caller[k])
        BY Zenon DEF ClientInv, TablesOK
      <3> DEFINE c == [caller[k] EXCEPT !.pos = end, !.answer = frame.tag]
      <3> HIDE DEF c
      <3> QED BY Zenon, <1>5, <3>1 DEF c, CallerOK
    <2>6. DOMAIN caller' = Callers /\ next_id' \in IdRange
      BY Zenon, <1>0, <1>5 DEF ClientInv, TablesOK
    <2>7. TablesOK'
      BY SMTT(30), <2>3, <2>4, <2>5, <2>6, TablesLess DEF ClientInv
    <2> QED BY Zenon, <2>7, <1>0, <1>5, <2>1, OneAttempt DEF ClientInv
  <1> HIDE DEF frame, rest, found, less
  <1> QED BY <1>1, <1>3, <1>4, <1>5, Zenon


-----------------------------------------------------------------------------
(* request_control.                                                        *)

\* One caller changes that neither waited nor waits.
LEMMA CallerMoves ==
  ASSUME ClientInv, NEW k \in Callers, NEW c, CallerOK(c), c.pos # "wait", caller[k].pos # "wait",
         caller' = [caller EXCEPT ![k] = c], next_id' \in IdRange,
         UNCHANGED <<att, pc, current, stopper, active_attempt_>>
  PROVE  ClientInv'
  <1>5. TablesOK'
    BY Zenon, TablesKept DEF ClientInv, TablesOK
  <1> QED BY Zenon, <1>5 DEF ClientInv, AttemptsOK, AttemptOK

LEMMA IdleCaller == CallerOK(PendingControl) /\ PendingControl.pos # "wait"
  BY SMTT(30), IdBounds DEF IdRange, CallerOK, PendingControl

LEMMA CallKeeps ==
  ASSUME ClientInv, NEW k \in Callers, call(k) \/ Return(k)
  PROVE  ClientInv'
  <1>1. UNCHANGED <<att, pc, current, stopper, active_attempt_>> /\ next_id' \in IdRange /\ caller[k].pos # "wait"
    BY Zenon DEF call, Return, worker, ClientInv, TablesOK
  <1>2. CASE call(k)
    <2> DEFINE c == [PendingControl EXCEPT !.pos = "got", !.on = active_attempt_]
    <2>1. caller' = [caller EXCEPT ![k] = c]
      BY Zenon, <1>2 DEF call
    <2>3. 0 \in IdRange
      BY IdBounds DEF IdRange
    <2>4. CallerOK(c) /\ c.pos # "wait"
      BY Zenon, <2>3, <1>2 DEF CallerOK, PendingControl, call, ClientInv, AttemptsOK
    <2> HIDE DEF c
    <2> QED BY Zenon, <1>1, <2>1, <2>4, CallerMoves
  <1>3. CASE Return(k)
    BY Zenon, <1>3, <1>1, IdleCaller, CallerMoves DEF Return
  <1> QED BY Zenon, <1>2, <1>3

\* A request that is sent has an entry of its own.
LEMMA SendKeeps ==
  ASSUME ClientInv, NEW k \in Callers, NEW a \in Attempts, NEW i \in IdRange, NEW r, NEW c,
         caller[k].pos # "wait", ~Skipped(a, i), att[a].authenticated,
         r.pending = att[a].pending \cup {<<i, k>>}, AttemptOK(r), r.conn = att[a].conn, SetAttempt(a, r),
         CallerOK(c), c.pos = "wait", c.on = a, c.id = i, caller' = [caller EXCEPT ![k] = c],
         next_id' \in IdRange, UNCHANGED <<pc, current, stopper, active_attempt_>>
  PROVE  ClientInv'
  <1>2. /\ DOMAIN caller' = Callers /\ caller'[k] = c
        /\ \A j \in Callers \ {k} : caller'[j] = caller[j]
    BY Zenon DEF ClientInv, TablesOK
  <1>3. /\ att'[a].pending = att[a].pending \cup {<<i, k>>}
        /\ \A b \in Attempts \ {a} : att'[b].pending = att[b].pending
    BY Zenon DEF SetAttempt, ClientInv, AttemptsOK
  <1>4. ASSUME NEW j \in Callers
        PROVE  /\ CallerOK(caller'[j])
               /\ caller'[j].pos = "wait" => <<caller'[j].id, j>> \in att'[caller'[j].on].pending
    BY Zenon, <1>2, <1>3 DEF ClientInv, TablesOK, CallerOK
  <1>5. ASSUME NEW b \in Attempts, NEW p \in att'[b].pending
        PROVE  \E j \in Callers : caller'[j].pos = "wait" /\ caller'[j].on = b /\ p = <<caller'[j].id, j>>
    <2>1. CASE p \in att[b].pending
      <3>1. PICK j \in Callers : caller[j].pos = "wait" /\ caller[j].on = b /\ p = <<caller[j].id, j>>
        BY SMTT(30), <2>1 DEF ClientInv, TablesOK
      <3> QED BY Zenon, <1>2, <3>1
    <2>2. CASE b = a /\ p = <<i, k>>
      BY Zenon, <1>2, <2>2
    <2> QED BY Zenon, <1>3, <2>1, <2>2
  <1>6. ASSUME NEW b \in Attempts, NEW p \in att'[b].pending, NEW q \in att'[b].pending, p[1] = q[1]
        PROVE  p = q
    BY SMTT(30), <1>3, <1>6 DEF ClientInv, TablesOK, Skipped
  <1>7. TablesOK'
    BY SMTT(30), <1>2, <1>4, <1>5, <1>6 DEF TablesOK, CallerOK
  <1> QED BY Zenon, <1>7, OneAttempt DEF ClientInv

LEMMA RequestKeeps ==
  ASSUME ClientInv, NEW k \in Callers, request_control(k)
  PROVE  ClientInv'
  <1> DEFINE a == caller[k].on
             id == request_id(a)
             tag == FreshTag
             r == [att[a] EXCEPT !.pending = @ \union {<<id, k>>}, !.wire = Append(@, [id |-> id, tag |-> tag])]
             c == [caller[k] EXCEPT !.pos = "wait", !.id = id, !.tag = tag]
  <1>0. /\ caller[k].pos = "got" /\ CallerOK(caller[k]) /\ a \in Attempts /\ next_id \in IdRange
        /\ UNCHANGED <<pc, current, stopper, active_attempt_>>
    BY Zenon DEF request_control, worker, ClientInv, TablesOK, CallerOK
  <1>1. id \in IdRange /\ ~Skipped(a, id)
    <2> HIDE DEF a
    <2> QED BY SMTT(30), <1>0, RequestIdIsFree DEF ClientInv, TablesOK
  <1>2. Wrap(id + 1) \in IdRange
    <2> HIDE DEF id
    <2> QED BY SMTT(30), WrapType, <1>1, IdBounds DEF IdRange
  <1>3. CASE /\ att[a].authenticated /\ next_id' = Wrap(id + 1)
             /\ att' = [att EXCEPT ![a].pending = @ \union {<<id, k>>},
                                   ![a].wire = Append(@, [id |-> id, tag |-> tag])]
             /\ caller' = [caller EXCEPT ![k].pos = "wait", ![k].id = id, ![k].tag = tag]
    <2> HIDE DEF a, id, tag
    <2>1. SetAttempt(a, r)
      BY Zenon, <1>0, <1>3 DEF SetAttempt, ClientInv, AttemptsOK
    <2>2. caller' = [caller EXCEPT ![k] = c]
      BY Zenon, <1>3 DEF ClientInv, TablesOK
    <2>3. AttemptOK(att[a])
      BY Zenon, <1>0 DEF ClientInv, AttemptsOK
    <2>4. AttemptOK(r) /\ r.pending = att[a].pending \cup {<<id, k>>} /\ r.conn = att[a].conn
      BY Zenon, <1>3, <2>3 DEF AttemptOK, Fields
    <2>5. CallerOK(c) /\ c.pos = "wait" /\ c.on = a /\ c.id = id
      BY Zenon, <1>0, <1>1 DEF CallerOK, a
    <2> HIDE DEF r, c
    <2> QED BY Zenon, <1>0, <1>1, <1>2, <1>3, <2>1, <2>2, <2>4, <2>5, SendKeeps
  <1>4. CASE /\ next_id' \in {Wrap(id + 1), next_id}
             /\ caller' = [caller EXCEPT ![k] = PendingControl] /\ UNCHANGED att
    <2> HIDE DEF id
    <2> QED BY Zenon, <1>0, <1>4, IdleCaller, CallerMoves, <1>2
  <1> QED BY Zenon, <1>3, <1>4 DEF request_control

LEMMA TimeoutKeeps ==
  ASSUME ClientInv, NEW k \in Callers, time_out(k)
  PROVE  ClientInv'
  <1>0. PICK a : a = caller[k].on
    BY Zenon
  <1>1. PICK i : i = caller[k].id
    BY Zenon
  <1> DEFINE gone == {p \in att[a].pending : p[1] = i}
             r == [att[a] EXCEPT !.pending = {p \in @ : p[1] # i}]
  <1>2. /\ a \in Attempts /\ <<i, k>> \in att[a].pending /\ AttemptOK(att[a])
        /\ UNCHANGED <<pc, current, stopper, active_attempt_, next_id>>
        /\ caller' = [caller EXCEPT ![k] = PendingControl]
    BY Zenon, <1>0, <1>1 DEF time_out, worker, ClientInv, TablesOK, CallerOK, AttemptsOK
  <1>3. SetAttempt(a, r)
    BY Zenon, <1>0, <1>1 DEF time_out, SetAttempt
  <1>4. AttemptOK(r) /\ r.conn = att[a].conn /\ r.pending = att[a].pending \ gone
    BY Zenon, <1>2 DEF AttemptOK, Fields
  <1>5. gone = {<<i, k>>}
    BY SMTT(30), <1>2 DEF ClientInv, TablesOK
  <1> HIDE DEF r, gone
  <1>7. att'[a].pending = att[a].pending \ gone /\ \A b \in Attempts \ {a} : att'[b].pending = att[b].pending
    BY Zenon, <1>2, <1>3, <1>4 DEF SetAttempt, ClientInv, AttemptsOK
  <1>8. /\ DOMAIN caller' = Callers /\ next_id' \in IdRange
        /\ \A j \in Callers : IF \E p \in gone : p[2] = j
                              THEN caller'[j].pos # "wait" /\ CallerOK(caller'[j])
                              ELSE caller'[j] = caller[j]
    BY SMTT(30), <1>2, <1>5, IdleCaller DEF ClientInv, TablesOK
  <1>9. gone \in SUBSET att[a].pending
    BY Zenon, <1>2, <1>5
  <1>10. TablesOK'
    BY SMTT(30), <1>2, <1>7, <1>8, <1>9, TablesLess DEF ClientInv
  <1> QED BY Zenon, <1>10, <1>2, <1>3, <1>4, OneAttempt DEF ClientInv


-----------------------------------------------------------------------------
(* The worker.                                                             *)

LEMMA WorkerMoves ==
  ASSUME ClientInv, UNCHANGED <<att, stopper, caller, next_id>>,
         pc' # "starting", pc' \in Busy => current' \in Attempts, active_attempt_' \in Attempts \cup {None}
  PROVE  ClientInv'
  BY SMTT(30) DEF ClientInv, AttemptsOK, TablesOK, AttemptOK, CallerOK

LEMMA WorkerSets ==
  ASSUME ClientInv, NEW a \in Attempts, NEW r, AttemptOK(r), SetAttempt(a, r), r.pending = att[a].pending,
         pc' = "starting" => current' = a /\ r.conn = "open", pc' \in Busy => current' \in Attempts,
         active_attempt_' \in Attempts \cup {None}, UNCHANGED <<stopper, caller, next_id>>
  PROVE  ClientInv'
  <1>1. /\ DOMAIN att' = Attempts /\ \A b \in Attempts : AttemptOK(att'[b]) /\ att'[b].pending = att[b].pending
        /\ att'[a] = r
    BY Zenon DEF SetAttempt, ClientInv, AttemptsOK
  <1>2. AttemptsOK'
    BY SMTT(30), <1>1 DEF ClientInv, AttemptsOK, AttemptOK
  <1> QED BY Zenon, <1>2, <1>1, TablesKept DEF ClientInv, TablesOK

\* Steps that leave the attempts alone.
LEMMA QuietWorkerKeeps ==
  ASSUME ClientInv, Run \/ run_loop \/ Nap \/ settle \/ EndRound \/ tcp_loop_end
  PROVE  ClientInv'
  BY Zenon, WorkerMoves DEF ClientInv, AttemptsOK, Run, run_loop, Nap, settle, EndRound,
     tcp_loop_end, clear_active, run, Busy, end_round

\* An attempt that nobody uses is made anew.
LEMMA OpenKeeps ==
  ASSUME ClientInv, open_attempt \/ tcp_connect
  PROVE  ClientInv'
  <1>0. active_attempt_ \in Attempts \cup {None} /\ UNCHANGED <<stopper, caller, next_id>>
    BY Zenon DEF ClientInv, AttemptsOK, open_attempt, tcp_connect
  <1>1. \A a \in Attempts : Unused(a) => att[a].pending = {}
    BY Zenon, NoEntries DEF Unused, ClientInv
  <1>2. CASE open_attempt
    <2>1. PICK a \in Attempts, opened \in BOOLEAN :
             /\ Unused(a) /\ current' = a
             /\ att' = [att EXCEPT ![a] = [AttemptState EXCEPT !.conn = IF opened THEN "open" ELSE "none"]]
             /\ active_attempt_' = IF opened THEN a ELSE active_attempt_
             /\ pc' = IF opened THEN "starting" ELSE "settle"
      BY Zenon, <1>2 DEF open_attempt
    <2> DEFINE c == IF opened THEN "open" ELSE "none"
               r == [AttemptState EXCEPT !.conn = c]
    <2>2. c \in {"none", "open"} /\ SetAttempt(a, r)
      BY Zenon, <2>1 DEF SetAttempt
    <2>3. pc' = "starting" => c = "open"
      BY Zenon, <2>1
    <2> HIDE DEF c
    <2>4. AttemptOK(r) /\ r.pending = att[a].pending /\ r.conn = c
      BY Zenon, <1>1, <2>1, <2>2, FreshAttempts
    <2> HIDE DEF r
    <2> QED BY Zenon, <1>0, <2>2, <2>3, <2>4, WorkerSets, <2>1
  <1>3. CASE tcp_connect
    <2>1. CASE pc' = "after" /\ UNCHANGED <<att, active_attempt_, current, connected>>
      BY Zenon, <2>1, <1>0, WorkerMoves DEF Busy
    <2>2. ASSUME NEW a \in Attempts, Unused(a), att' = [att EXCEPT ![a] = AttemptState], current' = a,
                 pc' = "tcp_end", UNCHANGED active_attempt_
          PROVE  ClientInv'
      BY Zenon, <2>2, <1>1, FreshAttempts, <1>0, WorkerSets DEF SetAttempt
    <2>3. ASSUME NEW a \in Attempts, Unused(a),
                 att' = [att EXCEPT ![a] = [AttemptState EXCEPT !.tcp = "open", !.hs = "hello"]],
                 current' = a, active_attempt_' = a, pc' = "tcp_run"
          PROVE  ClientInv'
      <3> DEFINE r == [AttemptState EXCEPT !.tcp = "open", !.hs = "hello"]
      <3>1. SetAttempt(a, r)
        BY Zenon, <2>3 DEF SetAttempt
      <3>2. AttemptOK(r) /\ r.pending = att[a].pending
        BY Zenon, <1>1, <2>3, FreshAttempts
      <3> HIDE DEF r
      <3> QED BY Zenon, <1>0, <3>1, <3>2, WorkerSets, <2>3
    <2> QED BY <1>3, <2>1, <2>2, <2>3, Zenon DEF tcp_connect
  <1> QED BY Zenon, <1>2, <1>3

LEMMA StartKeeps ==
  ASSUME ClientInv, start_attempt
  PROVE  ClientInv'
  <1>0. /\ active_attempt_ \in Attempts \cup {None} /\ UNCHANGED <<stopper, caller, next_id, current>>
        /\ current \in Attempts /\ att[current].conn = "open" /\ AttemptOK(att[current])
    BY Zenon DEF ClientInv, AttemptsOK, start_attempt, Busy
  <1> DEFINE go == [att[current] EXCEPT !.conn = "started"]
             end == [att[current] EXCEPT !.conn = "none", !.complete = TRUE, !.closing = FALSE]
  <1>1. AttemptOK(go) /\ go.pending = att[current].pending
    BY Zenon, <1>0 DEF AttemptOK, Fields
  <1>2. AttemptOK(end) /\ end.pending = att[current].pending
    BY Zenon, <1>0 DEF AttemptOK, Fields
  <1>3. \/ SetAttempt(current, go) \/ SetAttempt(current, end)
    BY Zenon, <1>0 DEF start_attempt, SetAttempt, ClientInv, AttemptsOK
  <1> HIDE DEF go, end
  <1> QED BY Zenon, <1>0, <1>1, <1>2, <1>3, WorkerSets DEF start_attempt, clear_active

LEMMA WaitKeeps ==
  ASSUME ClientInv, AwaitEnd \/ rescan
  PROVE  ClientInv'
  <1>0. /\ active_attempt_ \in Attempts \cup {None} /\ UNCHANGED <<stopper, caller, next_id, current, active_attempt_>>
        /\ pc \in {"wait", "rescan"}
    BY Zenon DEF ClientInv, AttemptsOK, AwaitEnd, await_end, rescan
  <1>1. current \in Attempts /\ AttemptOK(att[current])
    BY Zenon, <1>0 DEF ClientInv, AttemptsOK, Busy
  <1>2. pc' # "starting"
    BY Zenon DEF AwaitEnd, await_end, rescan
  <1> DEFINE r == ConnectionShutdown([att[current] EXCEPT !.shutdown_requested = TRUE])
  <1>3. UNCHANGED att \/ SetAttempt(current, r)
    BY Zenon DEF AwaitEnd, await_end, rescan, SetAttempt
  <1>4. AttemptOK(r) /\ Alike(r, att[current])
    BY Zenon, <1>1, MarkedShutdownKeeps
  <1> HIDE DEF r
  <1>6. CASE UNCHANGED att
    BY Zenon, <1>0, <1>1, <1>2, <1>6, WorkerMoves
  <1>7. CASE SetAttempt(current, r)
    BY Zenon, <1>0, <1>1, <1>2, <1>4, <1>7, WorkerSets DEF Alike
  <1> QED BY Zenon, <1>3, <1>6, <1>7


\* The worker drops its pointers.
LEMMA ReleaseKeeps ==
  ASSUME ClientInv, Delay \/ finish_run
  PROVE  ClientInv'
  <1>0. /\ att' = Released /\ pc' \notin Busy /\ pc' # "starting"
        /\ UNCHANGED <<stopper, caller, next_id, active_attempt_>>
    BY Zenon DEF Delay, finish_run, Busy
  <1>1. DOMAIN att' = Attempts
    BY Zenon, <1>0 DEF Released
  <1>2. ASSUME NEW a \in Attempts
        PROVE  AttemptOK(att'[a]) /\ att'[a].pending = att[a].pending
    BY Zenon, FreshAttempts, <1>0, NoEntries DEF ClientInv, AttemptsOK, Released
  <1>3. AttemptsOK'
    BY SMTT(30), <1>0, <1>1, <1>2 DEF ClientInv, AttemptsOK, AttemptOK
  <1> QED BY Zenon, <1>3, <1>0, <1>2, TablesKept DEF ClientInv, TablesOK

LEMMA TeardownKeeps ==
  ASSUME ClientInv, TcpTeardown
  PROVE  ClientInv'
  <1>0. active_attempt_ \in Attempts \cup {None} /\ UNCHANGED <<stopper, next_id, current>>
    BY Zenon DEF ClientInv, AttemptsOK, TcpTeardown
  <1>1. CASE /\ pc = "tcp_end" /\ pc' = "tcp_clear"
             /\ att' = [att EXCEPT ![current] = Closed(current)]
             /\ fail_pending(current) /\ UNCHANGED <<flags, active_attempt_, delay>>
    <2>1. current \in Attempts
      BY Zenon, <1>1 DEF ClientInv, AttemptsOK, Busy
    <2>4. /\ DOMAIN att' = Attempts /\ \A b \in Attempts : AttemptOK(att'[b])
          /\ att'[current].pending = {} /\ \A b \in Attempts \ {current} : att'[b].pending = att[b].pending
      BY Zenon, <1>1, <2>1, DownAttempts DEF ClientInv, AttemptsOK
    <2> QED BY Zenon, <1>0, <1>1, <2>1, <2>4, TableFails DEF ClientInv, AttemptsOK, AttemptOK
  <1>2. CASE /\ pc' = "after" /\ active_attempt_' = clear_active(current)
             /\ UNCHANGED <<att, caller>>
    BY Zenon, <1>0, <1>2, WorkerMoves DEF Busy, clear_active
  <1> QED BY <1>1, <1>2, Zenon DEF TcpTeardown, tcp_teardown

-----------------------------------------------------------------------------
(* RelaySession::stop.                                                     *)

LEMMA StopKeeps ==
  ASSUME ClientInv, Stop
  PROVE  ClientInv'
  <1>0. /\ UNCHANGED <<pc, current, active_attempt_, next_id>> /\ DOMAIN stopper = {"pos", "on"}
        /\ active_attempt_ \in Attempts \cup {None}
    BY Zenon DEF Stop, worker, ClientInv, AttemptsOK
  <1>1. CASE stopper.pos # "mark"
    <2>1. UNCHANGED <<att, caller>>
      BY Zenon, <1>1 DEF Stop, stop
    <2>2. DOMAIN stopper' = {"pos", "on"} /\ (stopper'.pos = "mark" => stopper'.on \in Attempts)
      BY SMTT(30), <1>0, <1>1 DEF Stop, stop
    <2>3. AttemptsOK'
      BY SMTT(30), <1>0, <2>1, <2>2 DEF ClientInv, AttemptsOK, AttemptOK
    <2>4. TablesOK'
      BY SMTT(30), <1>0, <2>1 DEF ClientInv, TablesOK, CallerOK
    <2> QED BY <2>3, <2>4 DEF ClientInv
  <1>2. CASE stopper.pos = "mark"
    <2>1. PICK a \in Attempts : a = stopper.on /\ AttemptOK(att[a])
      BY Zenon, <1>2 DEF ClientInv, AttemptsOK
    <2> DEFINE r == [att[a] EXCEPT !.authenticated = FALSE, !.pending = {},
                                   !.tcp = IF @ = "open" THEN "stopped" ELSE @]
               s == ConnectionShutdown([r EXCEPT !.shutdown_requested = TRUE])
    <2>2. AttemptOK(r) /\ r.pending = {} /\ r.conn = att[a].conn
      BY Zenon, <2>1 DEF AttemptOK, Fields
    <2>3. SetAttempt(a, s) \/ SetAttempt(a, r)
      BY Zenon, <1>2, <2>1 DEF Stop, stop, SetAttempt
    <2>4. fail_pending(a) /\ stopper' = [pos |-> "clear", on |-> None]
      BY Zenon, <1>2, <2>1 DEF Stop, stop
    <2> HIDE DEF r
    <2>5. AttemptOK(s) /\ Alike(s, r)
      BY Zenon, <2>2, MarkedShutdownKeeps
    <2> HIDE DEF s
    <2>7. PICK t \in {s, r} : SetAttempt(a, t)
      BY Zenon, <2>3
    <2>9. /\ DOMAIN att' = Attempts /\ \A b \in Attempts : AttemptOK(att'[b]) /\ att'[b].conn = att[b].conn
          /\ att'[a].pending = {} /\ \A b \in Attempts \ {a} : att'[b].pending = att[b].pending
      BY Zenon, <2>7, <2>2, <2>5 DEF SetAttempt, ClientInv, AttemptsOK, Alike
    <2>10. AttemptsOK'
      BY Zenon, <2>9, <2>4, <1>0 DEF ClientInv, AttemptsOK, Busy, AttemptOK
    <2> QED BY Zenon, <2>10, <1>0, <2>4, <2>9, TableFails DEF ClientInv
  <1> QED BY Zenon, <1>1, <1>2

LEMMA ClientStep ==
  ASSUME ClientInv, ClientNext
  PROVE  ClientInv'
  <1>1. CASE WorkerStep
    BY <1>1, QuietWorkerKeeps, OpenKeeps, StartKeeps, WaitKeeps, ReleaseKeeps, TeardownKeeps, Zenon DEF WorkerStep
  <1>2. ASSUME NEW a \in Attempts, EventStep(a) PROVE ClientInv'
    BY <1>2, ConnectedKeeps, EndingKeeps, CompleteKeeps, FrameKeeps, ResultKeeps, ResponseKeeps, Zenon
       DEF EventStep, EndStep
  <1>3. ASSUME NEW k \in Callers, CallerStep(k) PROVE ClientInv'
    BY <1>3, CallKeeps, RequestKeeps, TimeoutKeeps, Zenon DEF CallerStep
  <1> QED BY <1>1, <1>2, <1>3, StopKeeps, Zenon DEF ClientNext

\* Nobody waits in vain, for any number of callers, attempts and identifiers: a request
\* that waits is in the table of an attempt that is authenticated and has a connection, and
\* that is not complete, whatever order the worker, the callbacks, the callers and the
\* stopping thread run in (request_control, fail_pending and its callers).
THEOREM NoVainWait == ClientSpec => []NobodyWaitsInVain
  <1>1. ClientInv /\ [ClientNext]_clvars => ClientInv'
    <2>1. ClientInv /\ UNCHANGED clvars => ClientInv'
      <3> SUFFICES ASSUME ClientInv, UNCHANGED clvars PROVE ClientInv'
        BY Zenon
      <3> QED BY Zenon, NothingMoves DEF clvars, worker
    <2> QED BY Zenon, <2>1, ClientStep
  <1> QED BY <1>1, ClientStart, VainByInv, PTL DEF ClientSpec
=============================================================================
