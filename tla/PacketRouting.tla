--------------------------- MODULE PacketRouting ---------------------------
(***************************************************************************)
(* Where the relay sends an encrypted packet of a network:                 *)
(* NetworkService::route_encrypted_packet of                               *)
(* src/src/relay/network_service.cpp, with the policy of                   *)
(* src/src/protocol/network_policy.cpp.  A packet to the broadcast address *)
(* or a multicast group goes to every member the policy lets it reach,     *)
(* once for each number, as long as the buckets of the sender and of the   *)
(* network last.  A packet to one member changes nothing here but the      *)
(* quota, which is ForwardingQuota.                                        *)
(*                                                                         *)
(* One network is modelled.  A session is numbered and has its key; what   *)
(* the sender sends, and how often, is open, and so is whether the quota   *)
(* admits a packet.                                                        *)
(***************************************************************************)
EXTENDS Integers, FiniteSets, Sequences

CONSTANTS
    Members,
    Policies,                     \* of the network: see policy_allows
    ReplayWindow,                 \* 64 numbers
    SenderCapacity, SenderRate,   \* 16 packets, 8 more each second
    NetworkCapacity, NetworkRate, \* 256 deliveries, 128 more each second
    MaxNumber, MaxTime, MaxSession, MaxKeyEpoch, NoncePrefixes

ASSUME RoutingAssumption ==
    /\ {SenderRate, NetworkRate, MaxNumber, MaxTime, MaxSession, MaxKeyEpoch} \subseteq Nat
    /\ {SenderCapacity, NetworkCapacity, ReplayWindow} \subseteq Nat \ {0}
    /\ IsFiniteSet(Members)

VARIABLES
    time,
    policy, managers,       \* network_policy, management_capable_
    key_epoch,
    active_keys_,           \* the session of a member, 0 without one
    sessions,               \* sessions so far
    replay,                 \* fanout_replay_
    sender_fanout_, network_fanout_,    \* the buckets
    fanned,                 \* history: <<member, epoch, session, number>> fanned out
    repeated,               \* history: one of them was fanned out again
    copies                  \* history: deliveries of fan-outs, and fan-outs of a session

rtvars == <<time, policy, managers, key_epoch, active_keys_, sessions, replay,
            sender_fanout_, network_fanout_, fanned, repeated, copies>>

NoReplay == [epoch |-> 0, session |-> 0, prefix |-> 0, highest |-> 0, seen |-> {}]
NewBucket == [initialized |-> FALSE, tokens |-> 0, updated |-> 0]

RoutingInit ==
    /\ time = 0
    /\ policy \in Policies /\ managers = {}
    /\ key_epoch = 1
    /\ active_keys_ = [d \in Members |-> 0] /\ sessions = 0
    /\ replay = [d \in Members |-> NoReplay]
    /\ sender_fanout_ = [d \in Members |-> NewBucket] /\ network_fanout_ = NewBucket
    /\ fanned = {} /\ repeated = FALSE
    /\ copies = [network |-> 0, session |-> [d \in Members |-> 0], since |-> [d \in Members |-> 0]]

-----------------------------------------------------------------------------
(* The policy.                                                             *)

\* A rule's side matches a member: one device, everyone ("") or a group.
matches(p, side, d) == side \in {d, ""} \/ side = p.group[d]

applies(p, rule, x, y) ==
    \/ matches(p, rule.first, x) /\ matches(p, rule.second, y)
    \/ matches(p, rule.first, y) /\ matches(p, rule.second, x)

\* The loop of policy_allows over the rules: a denial ends it.
allowed_from(p, x, y) ==
    LET walk[i \in 0 .. Len(p.rules)] ==
          IF i = 0 THEN "no"
          ELSE IF walk[i - 1] = "denied" \/ ~applies(p, p.rules[i], x, y) THEN walk[i - 1]
          ELSE IF p.rules[i].allow THEN "yes" ELSE "denied"
    IN walk[Len(p.rules)] = "yes"

policy_allows(p, x, y) ==
    /\ x # y
    /\ p.managed => /\ p.hub_spoke => x \in p.hubs \/ y \in p.hubs
                    /\ allowed_from(p, x, y)

policy_fanout_allows(p, x, y) ==
    policy_allows(p, x, y) /\ (p.managed => "restricted" \notin {p.role[x], p.role[y]})

traffic_allowed(x, y, fanout) ==
    /\ policy.managed => {x, y} \subseteq managers
    /\ IF fanout THEN policy_fanout_allows(policy, x, y) ELSE policy_allows(policy, x, y)

-----------------------------------------------------------------------------
(* Sessions, keys and time.                                                *)

tick_time ==
    /\ time < MaxTime /\ time' = time + 1
    /\ UNCHANGED <<policy, managers, key_epoch, active_keys_, sessions, replay,
                   sender_fanout_, network_fanout_, fanned, repeated, copies>>

\* The epoch advances when the session is the owner's.
MayAdvance == key_epoch' \in {e \in {key_epoch, key_epoch + 1} : e <= MaxKeyEpoch}

\* publish_device_key: a session replaces another one of the device.
open_session(d) ==
    /\ sessions < MaxSession
    /\ sessions' = sessions + 1
    /\ active_keys_' = [active_keys_ EXCEPT ![d] = sessions + 1]
    /\ MayAdvance
    /\ UNCHANGED <<time, policy, managers, replay, sender_fanout_, network_fanout_, fanned, repeated, copies>>

\* remove_device_key forgets the bucket and the window of the device.
close_session(d) ==
    /\ active_keys_[d] # 0
    /\ active_keys_' = [active_keys_ EXCEPT ![d] = 0]
    /\ managers' = managers \ {d}
    /\ sender_fanout_' = [sender_fanout_ EXCEPT ![d] = NewBucket]
    /\ replay' = [replay EXCEPT ![d] = NoReplay]
    /\ copies' = [copies EXCEPT !.session[d] = 0, !.since[d] = time]
    /\ MayAdvance
    /\ UNCHANGED <<time, policy, sessions, network_fanout_, fanned, repeated>>

\* set_management_capable, for a client that negotiated the capability.
set_management_capable(d) ==
    /\ active_keys_[d] # 0 /\ d \notin managers
    /\ managers' = managers \cup {d}
    /\ UNCHANGED <<time, policy, key_epoch, active_keys_, sessions, replay,
                   sender_fanout_, network_fanout_, fanned, repeated, copies>>

-----------------------------------------------------------------------------
(* Packets.                                                                *)

Least(x, y) == IF x < y THEN x ELSE y

\* Mutation of replenish: the time of the update stays.
replenish_again(b, capacity, rate) ==
    IF ~b.initialized THEN [initialized |-> TRUE, tokens |-> capacity, updated |-> time]
    ELSE [b EXCEPT !.tokens = Least(capacity, @ + (time - b.updated) * rate)]

replenish(b, capacity, rate) ==
    IF ~b.initialized THEN [initialized |-> TRUE, tokens |-> capacity, updated |-> time]
    ELSE [b EXCEPT !.tokens = Least(capacity, @ + (time - b.updated) * rate), !.updated = time]

\* The window of the sender, started anew for another epoch or session.
window(d) ==
    IF replay[d].epoch # key_epoch \/ replay[d].session # active_keys_[d]
    THEN [NoReplay EXCEPT !.epoch = key_epoch, !.session = active_keys_[d]]
    ELSE replay[d]

\* Whether the window lets a number pass.
passes(w, prefix, number) ==
    w.highest # 0 =>
       /\ w.prefix = prefix
       /\ number <= w.highest => /\ w.highest - number < ReplayWindow
                                 /\ (w.highest - number) \notin w.seen

\* Mutation of advance: an older number is not marked.
advance_newest(w, prefix, number) ==
    LET distance == number - w.highest IN
    IF number > w.highest
    THEN [w EXCEPT !.prefix = prefix, !.highest = number,
                   !.seen = {0} \cup {i \in 0 .. ReplayWindow - 1 : i - distance \in w.seen}]
    ELSE w

\* The window after a packet passed: bit i stands for the number highest - i.
advance(w, prefix, number) ==
    LET distance == number - w.highest IN
    IF number > w.highest
    THEN [w EXCEPT !.prefix = prefix, !.highest = number,
                   !.seen = {0} \cup {i \in 0 .. ReplayWindow - 1 : i - distance \in w.seen}]
    ELSE [w EXCEPT !.seen = @ \cup {-distance}]

Reached(d, fanout) ==
    {y \in Members \ {d} : active_keys_[y] # 0 /\ traffic_allowed(d, y, fanout)}

\* A packet to everyone.  A fan-out that is too large, repeated, reaches nobody, finds an
\* empty bucket or is over the quota is refused; what was replenished stays.
route_fanout(d, epoch, prefix, number) ==
    /\ active_keys_[d] # 0 /\ epoch = key_epoch
    /\ LET w == window(d)
           to == Reached(d, TRUE)
           reaches == passes(w, prefix, number) /\ to # {}
           mine == replenish(sender_fanout_[d], SenderCapacity, SenderRate)
           ours == replenish(network_fanout_, NetworkCapacity, NetworkRate)
           id == <<d, key_epoch, active_keys_[d], number>>
       IN \E admitted \in BOOLEAN :
             LET sent == reaches /\ mine.tokens >= 1 /\ ours.tokens >= Cardinality(to) /\ admitted IN
             /\ replay' = [replay EXCEPT ![d] = IF sent THEN advance(w, prefix, number) ELSE w]
             /\ sender_fanout_' = [sender_fanout_ EXCEPT ![d] =
                   IF ~reaches THEN @ ELSE IF sent THEN [mine EXCEPT !.tokens = @ - 1] ELSE mine]
             /\ network_fanout_' =
                   IF ~reaches THEN network_fanout_
                   ELSE IF sent THEN [ours EXCEPT !.tokens = @ - Cardinality(to)] ELSE ours
             /\ fanned' = IF sent THEN fanned \cup {id} ELSE fanned
             /\ repeated' = (repeated \/ (sent /\ id \in fanned))
             /\ copies' = IF sent THEN [copies EXCEPT !.network = @ + Cardinality(to), !.session[d] = @ + 1]
                          ELSE copies
    /\ UNCHANGED <<time, policy, managers, key_epoch, active_keys_, sessions>>

RoutingNext ==
    \/ tick_time
    \/ \E d \in Members : open_session(d) \/ close_session(d) \/ set_management_capable(d)
    \/ \E d \in Members, e \in 1 .. key_epoch, p \in NoncePrefixes, n \in 1 .. MaxNumber :
          route_fanout(d, e, p, n)

RoutingSpec == RoutingInit /\ [][RoutingNext]_rtvars

-----------------------------------------------------------------------------
(* Properties.                                                             *)

\* The relay copies a packet of a session and an epoch to the network at most once, however
\* often and in whatever order it is sent, and whatever was refused in between ("a
\* nonce/sequence window bound to the member's current signed session and key epoch").
FannedOutOnce == ~repeated

\* However fan-outs, refusals and idle times follow one another, the network gets no more
\* copies than its bucket holds and earns, and a connection sends no more than its own.
FanoutRate ==
    /\ copies.network <= NetworkCapacity + NetworkRate * time
    /\ \A d \in Members :
          copies.session[d] <= SenderCapacity + SenderRate * (time - copies.since[d])
=============================================================================
