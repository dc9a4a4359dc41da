-------------------------- MODULE KeyDistribution --------------------------
(***************************************************************************)
(* How the packet key of one network reaches its members: the relay's      *)
(* network service and control streams on one side                         *)
(* (src/src/relay/network_service.cpp, network_control_channel.cpp, the    *)
(* server half of src/src/transport/quic.cpp), the clients on the other    *)
(* (the client half of quic.cpp).                                          *)
(*                                                                         *)
(* The relay changes its state under the service's mutex and only later,   *)
(* under the mutex of the control streams, sends the peer states that the  *)
(* change produced; in between they are a batch, and batches of different  *)
(* threads overtake one another.  A control stream is a FIFO channel.  The *)
(* owner's client makes a new key for each key epoch it learns of and      *)
(* publishes it, sealed for the session key of each peer, and the relay    *)
(* forwards the envelopes if they fit its state at that moment.            *)
(*                                                                         *)
(* The network is not a managed one: its peer states carry no policy.  The *)
(* clients use one transport; that a QUIC stream takes the place of a      *)
(* device's TCP stream, and the race between the two, is in ControlStreams.*)
(***************************************************************************)
EXTENDS Integers, Sequences, FiniteSets

CONSTANTS
    Device,
    Owner,          \* the owner of the network
    MaxSessions,    \* bound on the sessions the relay ever accepts
    MaxChanges,     \* bound on the changes of the membership
    MaxRestarts,    \* bound on the relay's restarts
    MaxBatches,     \* bound on the batches, and
    MaxFrames       \* on the frames of one stream, that are under way when
                    \* the relay's state changes

ASSUME KeyAssumption ==
    /\ Owner \in Device
    /\ MaxSessions \in Nat
    /\ MaxChanges \in Nat
    /\ MaxRestarts \in Nat
    /\ MaxBatches \in Nat
    /\ MaxFrames \in Nat

VARIABLES
    members,    \* the members of the network (durable)
    epoch,      \* key_epochs_; 0 where the map has no entry
    revision,   \* revisions_
    active,     \* active_keys_: the session whose key is published, or 0
    conn,       \* active_control_streams_: the session of a device, or 0
    closing,    \* closed sessions whose note_disconnected has yet to run
    batches,    \* frames computed and not yet routed, with the session whose
                \* callback routes them (0 for a session of no interest here)
    link,       \* a client's own session, or 0 while it has none
    inbox,      \* frames on the way to a client
    outbox,     \* publications on the way from the owner's client
    cache,      \* a client's peer_revisions_, peer_states_, network_keys_
    minted,     \* sessions accepted so far
    keys,       \* keys made so far
    known,      \* history: the devices that ever had a key
    changes,    \* changes of the membership so far
    restarts    \* restarts so far

relay == <<members, epoch, revision, active, conn, closing, batches>>
clients == <<link, inbox, outbox, cache, keys, known>>
kvars == <<relay, clients, minted, changes, restarts>>

-----------------------------------------------------------------------------
(* Frames.  A session stands for the encryption key it was opened with.    *)

NoState == [epoch |-> 0, keys |-> [d \in Device |-> 0]]
NoKey == [epoch |-> 0, key |-> 0]
EmptyCache == [revision |-> 0, state |-> NoState, key |-> NoKey]

State(rev, e, ks) == [kind |-> "state", revision |-> rev, epoch |-> e, keys |-> ks]
Revoked(rev) == [kind |-> "revoked", revision |-> rev]
Envelope(e, k, from, to) ==
    [kind |-> "envelope", epoch |-> e, key |-> k, from |-> from, to |-> to]

-----------------------------------------------------------------------------
(* The relay.                                                              *)

\* The relay has just started on its database; nobody is connected.
KeyInit ==
    /\ members \in {ms \in SUBSET Device : Owner \in ms}
    /\ epoch = 0
    /\ revision = 0
    /\ active = [d \in Device |-> 0]
    /\ conn = [d \in Device |-> 0]
    /\ closing = {}
    /\ batches = {}
    /\ link = [d \in Device |-> 0]
    /\ inbox = [d \in Device |-> <<>>]
    /\ outbox = <<>>
    /\ cache = [d \in Device |-> EmptyCache]
    /\ minted = 0
    /\ keys = 0
    /\ known = <<>>
    /\ changes = 0
    /\ restarts = 0

key_epoch_for(e) == IF e = 0 THEN 1 ELSE e

\* The peers' session keys a peer state carries.
assemble_peer_state(ms, act) == [d \in Device |-> IF d \in ms THEN act[d] ELSE 0]

changes_for_members(ms, act, e, rev) ==
    [d \in ms |-> State(rev, key_epoch_for(e), assemble_peer_state(ms, act))]

\* The two ends of the control stream of d agree that it is open.
Connected(d) == conn[d] # 0 /\ link[d] = conn[d]

\* The bound on what is under way.
Room ==
    /\ Cardinality(batches) < MaxBatches
    /\ \A d \in Device : Len(inbox[d]) < MaxFrames

\* The callback of session s has computed frames that it routes next.
compute(s, frames) == batches' = batches \cup {[by |-> s, frames |-> frames]}

\* Mutation of session_change: the owner's new session keeps the epoch.
session_change_same_epoch(d, s, act) ==
    /\ Room
    /\ active' = act
    /\ UNCHANGED epoch
    /\ IF d \in members
       THEN /\ revision' = revision + 1
            /\ compute(s, changes_for_members(members, act, epoch, revision + 1))
       ELSE UNCHANGED <<revision, batches>>

\* Session s of d opens or closes: the owner's also advances the key epoch, a
\* member's makes a batch.
session_change(d, s, act) ==
    LET e == IF d = Owner THEN epoch + 1 ELSE epoch IN
    /\ Room
    /\ active' = act
    /\ epoch' = e
    /\ IF d \in members
       THEN /\ revision' = revision + 1
            /\ compute(s, changes_for_members(members, act, e, revision + 1))
       ELSE UNCHANGED <<revision, batches>>

\* A client authenticates and the relay registers its control stream, which
\* it refuses while another one of the device and the same transport is
\* registered.
register_control_stream(d) ==
    /\ link[d] = 0 /\ conn[d] = 0
    /\ minted < MaxSessions
    /\ minted' = minted + 1
    /\ conn' = [conn EXCEPT ![d] = minted + 1]
    /\ link' = [link EXCEPT ![d] = minted + 1]
    /\ UNCHANGED <<members, epoch, revision, active, closing, batches>>
    /\ UNCHANGED <<inbox, outbox, cache, keys, known, changes, restarts>>

publish_device_key(d) ==
    /\ conn[d] # 0
    /\ active[d] # conn[d]
    /\ session_change(d, conn[d], [active EXCEPT ![d] = conn[d]])
    /\ UNCHANGED <<members, conn, closing, clients, minted, changes, restarts>>

\* The callbacks of a connection and its streams run one after the other
\* (MsQuic; the TCP fallback has one thread per connection): the next one
\* starts when the authentication and the frames before it have routed what
\* they computed.
NextCallback(d) ==
    /\ conn[d] # 0
    /\ active[d] = conn[d]
    /\ \A b \in batches : b.by # conn[d]

\* The relay gives a connection up: closed by the peer, idle or over a limit.
connection_shutdown(d) ==
    /\ NextCallback(d)
    /\ conn' = [conn EXCEPT ![d] = 0]
    /\ closing' = closing \cup {<<d, conn[d]>>}
    /\ outbox' = IF d = Owner THEN <<>> ELSE outbox
    /\ UNCHANGED <<members, epoch, revision, active, batches>>
    /\ UNCHANGED <<link, inbox, cache, keys, known, minted, changes, restarts>>

remove_device_key(d, s) ==
    /\ <<d, s>> \in closing
    /\ closing' = closing \ {<<d, s>>}
    /\ IF active[d] = s
       THEN session_change(d, s, [active EXCEPT ![d] = 0])
       ELSE UNCHANGED <<active, epoch, revision, batches>>
    /\ UNCHANGED <<members, conn, clients, minted, changes, restarts>>

\* join_network, approve_member and the other ways in.
add_member(d) ==
    LET ms == members \cup {d} IN
    /\ d \notin members
    /\ changes < MaxChanges /\ Room
    /\ changes' = changes + 1
    /\ members' = ms
    /\ epoch' = epoch + 1
    /\ revision' = revision + 1
    /\ compute(0, changes_for_members(ms, active, epoch + 1, revision + 1))
    /\ UNCHANGED <<active, conn, closing, clients, minted, restarts>>

\* Mutation of remove_member: the key epoch stays.
remove_member_same_epoch(d) ==
    LET ms == members \ {d}
        batch == changes_for_members(ms, active, epoch, revision + 1)
    IN
    /\ d \in members \ {Owner}
    /\ changes < MaxChanges /\ Room
    /\ changes' = changes + 1
    /\ members' = ms
    /\ revision' = revision + 1
    /\ compute(0, [x \in members |-> IF x = d THEN Revoked(revision + 1) ELSE batch[x]])
    /\ UNCHANGED <<epoch, active, conn, closing, clients, minted, restarts>>

\* leave_network and kick_member: the device that goes gets a revocation.
remove_member(d) ==
    LET ms == members \ {d}
        batch == changes_for_members(ms, active, epoch + 1, revision + 1)
    IN
    /\ d \in members \ {Owner}
    /\ changes < MaxChanges /\ Room
    /\ changes' = changes + 1
    /\ members' = ms
    /\ epoch' = epoch + 1
    /\ revision' = revision + 1
    /\ compute(0, [x \in members |-> IF x = d THEN Revoked(revision + 1) ELSE batch[x]])
    /\ UNCHANGED <<active, conn, closing, clients, minted, restarts>>

\* One hold of the control streams' mutex sends a whole batch.  What is sent
\* to a client that hung up is lost.
route_control_events(b) ==
    /\ b \in batches
    /\ batches' = batches \ {b}
    /\ inbox' = [d \in Device |-> IF d \in DOMAIN b.frames /\ Connected(d)
                                  THEN Append(inbox[d], b.frames[d])
                                  ELSE inbox[d]]
    /\ UNCHANGED <<members, epoch, revision, active, conn, closing>>
    /\ UNCHANGED <<link, outbox, cache, keys, known, minted, changes, restarts>>

\* All envelopes are forwarded or none: the epoch is the current one, the
\* owner's session and every recipient's are the published ones.
CanPublish(p) ==
    /\ active[Owner] # 0
    /\ \A d \in DOMAIN p :
        /\ p[d].from = active[Owner]
        /\ p[d].epoch = key_epoch_for(epoch)
        /\ d \in members
        /\ active[d] # 0
        /\ p[d].to = active[d]

publish_network_keys ==
    /\ outbox # <<>>
    /\ NextCallback(Owner)
    /\ outbox' = Tail(outbox)
    /\ IF CanPublish(Head(outbox))
       THEN compute(conn[Owner], Head(outbox))
       ELSE UNCHANGED batches
    /\ UNCHANGED <<members, epoch, revision, active, conn, closing>>
    /\ UNCHANGED <<link, inbox, cache, keys, known, minted, changes, restarts>>

\* The relay process starts again with nothing but its database.
restart ==
    /\ restarts < MaxRestarts
    /\ restarts' = restarts + 1
    /\ epoch' = 0
    /\ revision' = 0
    /\ active' = [d \in Device |-> 0]
    /\ conn' = [d \in Device |-> 0]
    /\ closing' = {}
    /\ batches' = {}
    /\ outbox' = <<>>
    /\ UNCHANGED <<members, link, inbox, cache, keys, known, minted, changes>>

-----------------------------------------------------------------------------
(* The clients.                                                            *)

\* The connection ends: clear_peer_states.
hang_up(d) ==
    /\ link' = [link EXCEPT ![d] = 0]
    /\ inbox' = [inbox EXCEPT ![d] = <<>>]
    /\ cache' = [cache EXCEPT ![d] = EmptyCache]
    /\ UNCHANGED <<outbox, keys, known>>

client_disconnected(d) ==
    /\ link[d] # 0
    /\ hang_up(d)
    /\ UNCHANGED <<relay, minted, changes, restarts>>

\* Mutation of Outdated: the last frame to arrive wins.
Outdated_never(c, m) == FALSE

Outdated(c, m) ==
    \/ m.revision < c.revision
    \/ m.revision = c.revision /\ c.state = NoState

\* The key the client has after it applied the peer state m.
KeyAfter(d, m) ==
    IF cache[d].key.epoch = m.epoch THEN cache[d].key
    ELSE IF d = Owner THEN [epoch |-> m.epoch, key |-> keys + 1]
    ELSE NoKey

Publication(m) ==
    [x \in {y \in Device \ {Owner} : m.keys[y] # 0} |->
        Envelope(m.epoch, KeyAfter(Owner, m).key, link[Owner], m.keys[x])]

\* Mutation of apply_peer_state: only a key that was just made is published.
apply_peer_state_publishes_once(d, m) ==
    LET new == KeyAfter(d, m)
        fresh == d = Owner /\ new # cache[d].key
        publish == fresh /\ DOMAIN Publication(m) # {} /\ Connected(d)
    IN
    /\ cache' = [cache EXCEPT ![d] =
            [revision |-> m.revision, key |-> new,
             state |-> [epoch |-> m.epoch, keys |-> m.keys]]]
    /\ keys' = IF fresh THEN keys + 1 ELSE keys
    /\ known' = IF fresh THEN Append(known, {Owner}) ELSE known
    /\ outbox' = IF publish THEN Append(outbox, Publication(m)) ELSE outbox

apply_peer_state(d, m) ==
    LET new == KeyAfter(d, m)
        fresh == d = Owner /\ new # cache[d].key
        publish == d = Owner /\ DOMAIN Publication(m) # {} /\ Connected(d)
    IN
    /\ cache' = [cache EXCEPT ![d] =
            [revision |-> m.revision, key |-> new,
             state |-> [epoch |-> m.epoch, keys |-> m.keys]]]
    /\ keys' = IF fresh THEN keys + 1 ELSE keys
    /\ known' = IF fresh THEN Append(known, {Owner}) ELSE known
    /\ outbox' = IF publish THEN Append(outbox, Publication(m)) ELSE outbox

apply_peer_revocation(d, m) ==
    /\ cache' = [cache EXCEPT ![d] = [EmptyCache EXCEPT !.revision = m.revision]]
    /\ UNCHANGED <<outbox, keys, known>>

\* open_network_key throws unless the envelope is from the owner's session
\* and for this one.
Opens(d, m) ==
    /\ cache[d].state.keys[Owner] # 0
    /\ m.from = cache[d].state.keys[Owner]
    /\ m.to = link[d]

Conflicts(d, m) == cache[d].key.epoch = m.epoch /\ cache[d].key.key # m.key

apply_network_key_envelope(d, m) ==
    /\ cache' = [cache EXCEPT ![d].key = [epoch |-> m.epoch, key |-> m.key]]
    /\ known' = [known EXCEPT ![m.key] = @ \cup {d}]
    /\ UNCHANGED <<outbox, keys>>

\* The client handles the next frame of its stream.
handle_control_frame(d) ==
    LET m == Head(inbox[d])
        take == /\ inbox' = [inbox EXCEPT ![d] = Tail(@)]
                /\ UNCHANGED link
        skip == take /\ UNCHANGED <<cache, outbox, keys, known>>
    IN
    /\ inbox[d] # <<>>
    /\ \/ /\ m.kind = "state"
          /\ IF Outdated(cache[d], m) THEN skip ELSE take /\ apply_peer_state(d, m)
       \/ /\ m.kind = "revoked"
          /\ IF m.revision < cache[d].revision
             THEN skip
             ELSE take /\ apply_peer_revocation(d, m)
       \/ /\ m.kind = "envelope"
          /\ IF cache[d].state.epoch # m.epoch THEN skip
             ELSE IF ~Opens(d, m) \/ Conflicts(d, m) THEN hang_up(d)
             ELSE take /\ apply_network_key_envelope(d, m)
    /\ UNCHANGED <<relay, minted, changes, restarts>>

-----------------------------------------------------------------------------
RelayWork ==
    \/ \E d \in Device : publish_device_key(d)
    \/ \E d \in Device, s \in 1..minted : remove_device_key(d, s)
    \/ \E b \in batches : route_control_events(b)
    \/ publish_network_keys

Churn ==
    \/ \E d \in Device : add_member(d)
    \/ \E d \in Device : remove_member(d)
    \/ \E d \in Device : connection_shutdown(d)
    \/ \E d \in Device : client_disconnected(d)
    \/ restart

KeyNext ==
    \/ RelayWork
    \/ \E d \in Device : handle_control_frame(d)
    \/ \E d \in Device : register_control_stream(d)
    \/ Churn

KeySpec == KeyInit /\ [][KeyNext]_kvars

\* The relay's threads and each client keep working, every batch is routed
\* in the end, and a connection that one end lost is lost to the other.
Fairness ==
    /\ \A d \in Device :
        /\ WF_kvars(publish_device_key(d))
        /\ WF_kvars(handle_control_frame(d))
        /\ WF_kvars(link[d] # conn[d] /\ connection_shutdown(d))
        /\ WF_kvars(link[d] # conn[d] /\ client_disconnected(d))
    /\ WF_kvars(\E d \in Device, s \in 1..minted : remove_device_key(d, s))
    /\ WF_kvars(\E b \in batches : route_control_events(b))
    /\ WF_kvars(publish_network_keys)

FairKeySpec == KeySpec /\ Fairness

-----------------------------------------------------------------------------
(* What must hold.                                                         *)

\* The client of d is the one the relay published, and it has a key of the
\* current epoch.
Current(d) ==
    /\ link[d] # 0 /\ link[d] = active[d]
    /\ cache[d].key.epoch = key_epoch_for(epoch)

\* Two members that both hold a key of the current epoch hold the same key,
\* whatever batches were reordered, sessions replaced or restarts survived.
\* So "network key conflicts with current epoch" and "network key owner is not
\* authenticated" are never thrown for an envelope sealed for the client's own
\* session: it names the owner's session the client knows of and agrees with
\* the client's key.  (One sealed for an earlier session of the client can
\* overtake its reconnection, and ends the new connection too.)
KeyAgreement ==
    /\ \A d, e \in members : Current(d) /\ Current(e) =>
          cache[d].key.key = cache[e].key.key
    /\ \A d \in Device : inbox[d] # <<>> =>
          LET m == Head(inbox[d]) IN
          m.kind = "envelope" /\ cache[d].state.epoch = m.epoch /\ m.to = link[d] =>
              /\ cache[d].state.keys[Owner] # 0
              /\ m.from = cache[d].state.keys[Owner]
              /\ ~Conflicts(d, m)

\* The key the owner uses at the current epoch has never been known to a
\* device that is not a member now: a device that left cannot read what is
\* sent after the relay stopped counting it as a member.
DepartedNeverKnows ==
    Current(Owner) => known[cache[Owner].key.key] \subseteq members

\* Nothing is on its way.
Quiet ==
    /\ batches = {} /\ closing = {} /\ outbox = <<>>
    /\ \A d \in Device : inbox[d] = <<>>

Online(d) == Connected(d) /\ active[d] = conn[d]

\* No update and no key is lost for good: once nothing is on its way, every
\* connected member has the relay's revision and epoch, and if the owner is
\* connected it has the owner's key, although nothing is ever retransmitted.
QuietIsConverged ==
    Quiet => \A d \in members : Online(d) =>
        /\ cache[d].revision = revision
        /\ cache[d].state.epoch = key_epoch_for(epoch)
        /\ cache[d].state.keys = assemble_peer_state(members, active)
        /\ Online(Owner) => Current(d)

\* A connected member gets the current key while the owner stays connected,
\* unless one of them goes.
KeyArrives ==
    \A d \in Device :
        (d \in members /\ Online(d) /\ Online(Owner))
            ~> (Current(d) \/ d \notin members \/ ~Online(d) \/ ~Online(Owner))
=============================================================================
