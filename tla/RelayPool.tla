----------------------------- MODULE RelayPool -----------------------------
(***************************************************************************)
(* The choice of a relay from a regional directory: RelayPool of           *)
(* src/src/transport/relay_pool.cpp with scan_pool of quic.cpp, which      *)
(* refreshes the directory, probes the relays that are due and chooses,    *)
(* and with what run_loop does of it.  One thread owns the pool; time      *)
(* passes while its probes run.  An endpoint is its identifier and the     *)
(* health key the catalog pins; a sample is a score (round trip, upstream  *)
(* and load) and whether the relay is ready and has room.  A sample also   *)
(* records the key it was verified with and when, for the properties.      *)
(***************************************************************************)
EXTENDS Integers, FiniteSets, FiniteSetsExt

CONSTANTS
    Ids, Keys,       \* relays and the health keys a catalog may give them
    Scores,          \* of the answers
    FreshFor,        \* 5 s: a sample older than this is no ground for a choice
    ProbeAfter,      \* 2 s: a sample this old is measured again
    Hold,            \* 30 s: the active relay is kept this long
    MaxCooldown,     \* 30 s: longest wait of a failed relay
    RefreshAhead, RefreshEvery,   \* 60 s and 30 s: when the directory is fetched again
    Parallel, ProbeTimeout,       \* 4 threads probe, 2 s for each relay
    MaxFailures,     \* 6: the count of failures stops here
    MaxNow

ASSUME PoolAssumption ==
    /\ {FreshFor, ProbeAfter, Hold, MaxCooldown, RefreshAhead, RefreshEvery, MaxFailures, MaxNow}
           \subseteq Nat
    /\ {Parallel, ProbeTimeout} \subseteq Nat \ {0} /\ Scores \subseteq Nat
    /\ 0 < ProbeAfter /\ ProbeAfter <= FreshFor

NoRelay == "none"
Absent == [key |-> "none"]
NoSample == [score |-> 0, usable |-> FALSE, key |-> "none", at |-> 0]
\* A node of the pool before it was measured.
Node(key) == [key |-> key, sample |-> NoSample, observed |-> 0, failures |-> 0, retry |-> 0]

VARIABLES
    now,
    nodes,              \* nodes_: identifier to node
    expires, next_refresh,
    active, activated,
    up,                 \* whether run_loop waits on a connection to the active relay
    scan                \* the probes of the scan in progress

pvars == <<now, nodes, expires, next_refresh, active, activated, up, scan>>

Listed(pool) == {i \in Ids : pool[i] # Absent}

\* Catalogs the directory can serve: the health key of the relays it lists.
Catalogs == [Ids -> Keys \union {"none"}] \ {[i \in Ids |-> "none"]}

\* RelayPool::update: what is known of an endpoint is kept only if the endpoint is equal.
update(catalog) ==
    [i \in Ids |-> IF catalog[i] = "none" THEN Absent
                   ELSE IF nodes[i] # Absent /\ nodes[i].key = catalog[i] THEN nodes[i]
                   ELSE Node(catalog[i])]

\* No scan: no relay due, waiting for a thread, being probed or measured.
NoScan == [on |-> FALSE, due |-> {}, todo |-> {}, since |-> [i \in Ids |-> 0], got |-> [i \in Ids |-> NoSample]]

PoolInit ==
    /\ now = 1
    /\ \E catalog \in Catalogs :
          nodes = [i \in Ids |-> IF catalog[i] = "none" THEN Absent ELSE Node(catalog[i])]
    /\ expires \in 2 .. MaxNow + 1 /\ next_refresh = 0
    /\ active = NoRelay /\ activated = 0 /\ up = FALSE
    /\ scan = NoScan

Running == {i \in Ids : scan.since[i] # 0}

\* Time passes; a free thread probes the next relay at once, and no probe outlives its timeout.
time_passes ==
    /\ now < MaxNow /\ now' = now + 1
    /\ scan.on => /\ Running # {}
                  /\ scan.todo = {} \/ Cardinality(Running) = Parallel
                  /\ \A i \in Running : now < scan.since[i] + ProbeTimeout
    /\ UNCHANGED <<nodes, expires, next_refresh, active, activated, up, scan>>

\* RelayPool::due
due(pool) ==
    {i \in Listed(pool) : /\ now >= pool[i].retry
                          /\ \/ pool[i].sample = NoSample
                             \/ now - pool[i].observed >= ProbeAfter}

\* The start of scan_pool: the directory is fetched when it is about to expire, and its
\* answer is taken unless it is refused (an older revision, an expired or empty catalog,
\* another authority); with an expired catalog there is no scan; the due relays are probed.
scan_begin ==
    /\ ~scan.on
    /\ \E catalog \in Catalogs, until \in {expires, MaxNow + 1}, accepted \in BOOLEAN :
          LET fetch == now + RefreshAhead >= expires /\ now >= next_refresh
              taken == fetch /\ accepted /\ until > now
          IN /\ next_refresh' = IF fetch THEN now + RefreshEvery ELSE next_refresh
             /\ nodes' = IF taken THEN update(catalog) ELSE nodes
             /\ expires' = IF taken THEN until ELSE expires
             /\ scan' = IF now >= expires' THEN NoScan
                        ELSE [NoScan EXCEPT !.on = TRUE, !.due = due(nodes'), !.todo = due(nodes')]
    /\ UNCHANGED <<now, active, activated, up>>

\* A thread of scan_pool takes the next relay.
probe_begin(i) ==
    /\ i \in scan.todo /\ Cardinality(Running) < Parallel
    /\ scan' = [scan EXCEPT !.todo = @ \ {i}, !.since[i] = now]
    /\ UNCHANGED <<now, nodes, expires, next_refresh, active, activated, up>>

\* probe_relay: a verified answer comes back, or the probe fails or times out.
probe_end(i) ==
    /\ i \in Running
    /\ \E score \in Scores, usable \in BOOLEAN, fails \in BOOLEAN :
          scan' = [scan EXCEPT !.since[i] = 0,
                               !.got[i] = IF fails THEN NoSample
                                          ELSE [score |-> score, usable |-> usable,
                                                key |-> nodes[i].key, at |-> now]]
    /\ UNCHANGED <<now, nodes, expires, next_refresh, active, activated, up>>

cooldown(times) == Min({2 ^ (times - 1), MaxCooldown})

\* RelayPool::failed
failed(node) ==
    LET times == Min({node.failures + 1, MaxFailures}) IN
    [node EXCEPT !.sample = NoSample, !.failures = times, !.retry = now + cooldown(times)]

\* Mutation of observe: a sample counts from the end of the scan.
observe_late(node, sample) ==
    [node EXCEPT !.sample = sample, !.observed = now, !.failures = 0, !.retry = 0]

\* RelayPool::observe
observe(node, sample) ==
    [node EXCEPT !.sample = sample, !.observed = sample.at, !.failures = 0, !.retry = 0]

\* The nodes choose looks at.
Candidates(pool) ==
    {i \in Listed(pool) : /\ pool[i].sample.usable /\ now >= pool[i].retry
                          /\ now - pool[i].observed < FreshFor}

\* RelayPool::choose: the lowest score; the active relay is kept for Hold, and afterwards
\* unless the best one is better by more than a quarter.
choose(pool) ==
    LET ready == Candidates(pool)
        best == CHOOSE i \in ready : \A j \in ready : pool[i].sample.score <= pool[j].sample.score
    IN IF ready = {} THEN NoRelay
       ELSE IF /\ active \in ready
               /\ \/ now - activated < Hold
                  \/ pool[best].sample.score * 4 >= pool[active].sample.score * 3
            THEN active ELSE best

\* The end of scan_pool: the answers are entered, relays without one failed, and the choice
\* is made unless the catalog expired meanwhile.  run_loop then connects to the chosen relay
\* (activate), or leaves the connection it has for another relay unless it is lost by now.
scan_end ==
    /\ scan.on /\ scan.todo = {} /\ Running = {}
    /\ \E lost \in BOOLEAN :
          LET pool == [i \in Ids |-> IF i \notin scan.due THEN nodes[i]
                                     ELSE IF scan.got[i] = NoSample THEN failed(nodes[i])
                                     ELSE observe(nodes[i], scan.got[i])]
              choice == IF now >= expires THEN NoRelay ELSE choose(pool)
              connect == ~up /\ choice # NoRelay
          IN /\ nodes' = pool
             /\ up' = IF up THEN choice \in {NoRelay, active} \/ lost ELSE connect
             /\ active' = IF connect THEN choice ELSE active
             /\ activated' = IF connect /\ active # choice THEN now ELSE activated
    /\ scan' = NoScan
    /\ UNCHANGED <<now, expires, next_refresh>>

\* The attempt fails or its connection is lost; run_loop reports it unless a TCP connection
\* was given up because UDP works again.
connection_lost ==
    /\ ~scan.on /\ up /\ up' = FALSE
    /\ \/ nodes[active] # Absent /\ nodes' = [nodes EXCEPT ![active] = failed(@)]
       \/ UNCHANGED nodes
    /\ UNCHANGED <<now, expires, next_refresh, active, activated, scan>>

PoolNext ==
    \/ time_passes \/ scan_begin \/ scan_end \/ connection_lost
    \/ \E i \in Ids : probe_begin(i) \/ probe_end(i)

PoolSpec == PoolInit /\ [][PoolNext]_pvars

-----------------------------------------------------------------------------
(* Properties.                                                             *)

\* A connection is only opened to a relay of a catalog that has not expired, on a sample that
\* was verified with the key the catalog pins now, is younger than FreshFor and showed the
\* relay usable: however the catalog changed and however long the scan took since.
ChoiceIsFresh ==
    [][~up /\ up' => LET node == nodes'[active'] IN
                     /\ now < expires /\ node # Absent
                     /\ node.sample.usable /\ node.sample.key = node.key
                     /\ now - node.sample.at < FreshFor]_pvars

\* A working connection to a relay that the scan itself found usable is left only for a
\* relay that is better by more than a quarter, and not within Hold.
HealthyIsKept ==
    [][scan.on /\ up /\ ~up' /\ scan.got[active].usable =>
         /\ now - activated >= Hold
         /\ \E i \in Listed(nodes') : /\ nodes'[i].sample.usable
                                      /\ nodes'[i].sample.score * 4 < scan.got[active].score * 3]_pvars
=============================================================================
