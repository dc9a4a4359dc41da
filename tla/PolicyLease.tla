---------------------------- MODULE PolicyLease ----------------------------
(***************************************************************************)
(* How long a client acts on the policy of a managed network after the     *)
(* relay changed it: peer_states_ and policy_leases_ of QuicRelayClient in *)
(* src/src/transport/quic.cpp.                                             *)
(*                                                                         *)
(* The relay pushes each state of the network with a revision.  A pushed   *)
(* state is not enough to use the network: the client asks for the state   *)
(* again (fetch_peer_state, called by the thread of renew_policy_leases    *)
(* and by users) and an answer equal to what it holds renews the lease to  *)
(* the time the request was made.  Pushes and answers are sent by          *)
(* different threads of the relay, so they overtake one another, and an    *)
(* answer may stay under way for any time.  The state of one managed       *)
(* network is its revision here; data packets carry no more than that.     *)
(***************************************************************************)
EXTENDS Integers

CONSTANTS
    Fetchers,      \* threads that call fetch_peer_state
    Lifetime,      \* 6 s: how long a lease is good
    RenewAfter,    \* 2 s: renew_policy_leases asks again
    MaxClock, MaxRevision

ASSUME LeaseAssumption ==
    /\ Lifetime \in Nat \ {0} /\ RenewAfter \in Nat /\ RenewAfter < Lifetime
    /\ MaxClock \in Nat /\ MaxRevision \in Nat \ {0}

Nothing == 0     \* no state, no lease: times and revisions start at 1

VARIABLES
    clock,
    relay,         \* revision of the relay's state
    replaced,      \* history: when the relay gave up a revision
    member,        \* the device is still a member
    pushed,        \* states and revocations under way to the client
    state, revision, lease,    \* peer_states_, peer_revisions_, policy_leases_
    fetch          \* the threads in fetch_peer_state

lvars == <<clock, relay, replaced, member, pushed, state, revision, lease, fetch>>

Idle == [pos |-> "idle", requested |-> 0, answer |-> Nothing]

LeaseInit ==
    /\ clock = 1 /\ relay = 1 /\ replaced = [r \in 1 .. MaxRevision |-> 0]
    /\ member = TRUE /\ pushed = {1}
    /\ state = Nothing /\ revision = Nothing /\ lease = Nothing
    /\ fetch = [f \in Fetchers |-> Idle]

-----------------------------------------------------------------------------
\* policy_current_locked, for a network with a policy: the guard under which
\* send_encrypted_packet and handle_forwarded_packet let a packet through and
\* cached_peer_state, cached_peer_states and cached_network_key show anything.
policy_current_locked == state # Nothing /\ lease # Nothing /\ clock - lease < Lifetime

Tick == /\ clock < MaxClock /\ clock' = clock + 1
        /\ UNCHANGED <<relay, replaced, member, pushed, state, revision, lease, fetch>>

\* The relay changes the network's state, or removes the device from the network.
relay_changes ==
    /\ relay < MaxRevision /\ member
    /\ relay' = relay + 1
    /\ replaced' = [replaced EXCEPT ![relay] = clock]
    /\ pushed' = pushed \union {relay + 1}
    /\ member' \in BOOLEAN
    /\ UNCHANGED <<clock, state, revision, lease, fetch>>

\* apply_peer_state: an older state, and one that was revoked, is ignored; another state
\* than the cached one ends the lease.
apply_peer_state(r) ==
    /\ r >= revision /\ ~(r = revision /\ state = Nothing)
    /\ state' = r /\ revision' = r
    /\ lease' = IF state = r THEN lease ELSE Nothing

\* apply_peer_revocation
apply_peer_revocation(r) ==
    /\ r >= revision
    /\ revision' = r /\ state' = Nothing /\ lease' = Nothing

\* Whether revision r is the one at which the device was removed.
Revokes(r) == ~member /\ r = relay

deliver ==
    \E r \in pushed :
        /\ pushed' \in {pushed, pushed \ {r}}
        /\ \/ ~Revokes(r) /\ apply_peer_state(r)
           \/ Revokes(r) /\ apply_peer_revocation(r)
           \/ r < revision /\ UNCHANGED <<state, revision, lease>>
        /\ UNCHANGED <<clock, relay, replaced, member, fetch>>

\* fetch_peer_state reads the clock and sends; renew_policy_leases does so for a state with
\* a policy whose lease is missing or RenewAfter old, a user at any time.
fetch_send(f) ==
    /\ fetch[f].pos = "idle"
    /\ fetch' = [fetch EXCEPT ![f] = [pos |-> "asked", requested |-> clock, answer |-> Nothing]]
    /\ UNCHANGED <<clock, relay, replaced, member, pushed, state, revision, lease>>

\* The relay answers with its state of that moment, or refuses one who is not a member.
relay_answers(f) ==
    /\ fetch[f].pos = "asked"
    /\ fetch' = [fetch EXCEPT ![f] = [pos |-> "answered", requested |-> @.requested,
                                      answer |-> IF member THEN relay ELSE Nothing]]
    /\ UNCHANGED <<clock, relay, replaced, member, pushed, state, revision, lease>>

\* Mutation of renewed: the lease counts from the arrival of the answer.
renewed_on_arrival(f) == IF fetch[f].answer = state /\ state # Nothing THEN clock ELSE lease

\* The lease after an answer: renewed to the time of the request when the answer is the
\* cached state.
renewed(f) ==
    IF fetch[f].answer = state /\ state # Nothing /\ lease < fetch[f].requested
    THEN fetch[f].requested ELSE lease

\* The answer arrives, however late (its caller may have given up: see RelayClient), or
\* the request times out.
fetch_peer_state(f) ==
    /\ \/ fetch[f].pos = "answered" /\ lease' = renewed(f)
       \/ fetch[f].pos # "idle" /\ UNCHANGED lease
    /\ fetch' = [fetch EXCEPT ![f] = Idle]
    /\ UNCHANGED <<clock, relay, replaced, member, pushed, state, revision>>

\* The thread of renew_policy_leases finds the lease due.
renew_policy_leases(f) ==
    /\ state # Nothing
    /\ lease = Nothing \/ clock - lease >= RenewAfter
    /\ fetch_send(f)

\* clear_peer_states: the connection ended; what was under way on it is lost, and the next
\* one pushes the relay's state again.
clear_peer_states ==
    /\ state' = Nothing /\ revision' = Nothing /\ lease' = Nothing
    /\ pushed' = IF member THEN {relay} ELSE {}
    /\ fetch' = [f \in Fetchers |-> Idle]
    /\ UNCHANGED <<clock, relay, replaced, member>>

LeaseNext ==
    \/ Tick \/ relay_changes \/ deliver \/ clear_peer_states
    \/ \E f \in Fetchers : fetch_send(f) \/ renew_policy_leases(f) \/ relay_answers(f) \/ fetch_peer_state(f)

LeaseSpec == LeaseInit /\ [][LeaseNext]_lvars

-----------------------------------------------------------------------------
\* The relay gave up revision r at least t ago.
GoneFor(r, t) == r # relay /\ clock - replaced[r] >= t

\* A packet passes under a policy that the relay still had less than Lifetime before, however
\* late pushes and answers come ("A queued, delayed response or unsolicited duplicate cannot
\* extend stale authority").
AuthorityIsFresh == policy_current_locked => ~GoneFor(state, Lifetime)

\* A revocation that reached the client is not undone by a state that was under way: the
\* device is out of the network until it connects again.
RevokedStaysOut == ~member /\ revision = relay => state = Nothing /\ lease = Nothing

\* Why: what a lease or an answer vouches for.  The cached state is the one the relay had when
\* the lease's request was made or later, and so is an answer for its request.
LeaseInv ==
    /\ clock \in Nat \ {0} /\ relay \in 1 .. MaxRevision /\ member \in BOOLEAN
    /\ replaced \in [1 .. MaxRevision -> Nat]
    /\ pushed \subseteq 1 .. relay
    /\ {state, revision} \subseteq 0 .. relay /\ lease \in 0 .. clock
    /\ fetch \in [Fetchers -> [pos : {"idle", "asked", "answered"},
                               requested : 0 .. clock, answer : 0 .. relay]]
    /\ lease # Nothing => state # Nothing /\ (state = relay \/ replaced[state] >= lease)
    /\ \A f \in Fetchers :
          LET a == fetch[f].answer IN
          fetch[f].pos = "answered" /\ a # Nothing => a = relay \/ replaced[a] >= fetch[f].requested
    /\ RevokedStaysOut
=============================================================================
