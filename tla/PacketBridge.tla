---------------------------- MODULE PacketBridge ----------------------------
(***************************************************************************)
(* Packets of one network between the virtual adapters of its devices: the *)
(* packet cipher (src/src/auth/packet_crypto.cpp), the bridge that owns    *)
(* the ciphers (src/src/transport/packet_bridge.cpp) and the client state  *)
(* the bridge is synchronized with (the caches of src/src/transport/       *)
(* quic.cpp, the snapshot of src/src/session/relay_session.cpp, the calls  *)
(* of src/src/network/virtual_network.cpp).                                *)
(*                                                                         *)
(* A cipher stands for the nonce prefix it drew when it was built: cipher  *)
(* c is the c-th that was built.  A session stands for the encryption key  *)
(* a device opened it with, and the packet key of an epoch is the epoch:   *)
(* KeyDistribution shows that devices agree on it.  Packets travel over    *)
(* the relay and over direct paths, so they may be lost, duplicated and    *)
(* reordered: wire keeps every packet ever sent.                           *)
(***************************************************************************)
EXTENDS Integers, FiniteSets

CONSTANTS
    Device,
    Sender,         \* the devices whose adapters send
    Managed,        \* the peer states carry a policy, which needs a lease
    Routed,         \* whether packets are for gateways: a subset of BOOLEAN
    Window,         \* the bits of seen_sequences: 64
    MaxSequence,    \* the largest sequence number: 2^32 - 1
    MaxEpoch,       \* bound on the key epochs
    MaxSessions,    \* bound on the sessions ever opened
    MaxCiphers,     \* bound on the ciphers ever built
    MaxFailures,    \* bound on lapsed leases and failed synchronizations
    MaxInbound      \* bound on the threads inside inbound

ASSUME BridgeAssumption ==
    /\ Device # {}
    /\ Sender \subseteq Device
    /\ Managed \in BOOLEAN
    /\ Routed \subseteq BOOLEAN
    /\ Window \in Nat \ {0}
    /\ MaxSequence \in Nat \ {0}
    /\ MaxEpoch \in Nat \ {0}
    /\ MaxSessions \in Nat
    /\ MaxCiphers \in Nat
    /\ MaxFailures \in Nat
    /\ MaxInbound \in Nat

VARIABLES
    epoch,      \* the relay's key epoch of the network
    session,    \* the session of each device, 0 while it has none
    minted,     \* sessions opened so far
    view,       \* what the client of a device has cached
    bridge,     \* sessions_: the cipher of the bridge of a device, or 0
    ciphers,    \* every cipher, also those only a running call still holds
    built,      \* ciphers built so far
    sending,    \* the cipher a call of outbound has taken, or 0
    wire,       \* packets sent
    inbound,    \* calls of inbound
    injected,   \* history: the packets injected into each adapter
    again,      \* history: packets one receiver opened twice
    failures    \* lapses and failures so far

client == <<epoch, session, minted, view>>
bvars == <<client, bridge, ciphers, built, sending, wire, inbound, injected, again, failures>>

-----------------------------------------------------------------------------
(* The replay window of one sender.                                        *)

Sequence == 1..MaxSequence

\* A PeerReceiver.  seen is the set of the positions of the bits that are
\* set in seen_sequences; heard is history, the sequence numbers it opened.
NewReceiver(s) ==
    [session |-> s, initialized |-> FALSE, prefix |-> 0, highest |-> 0, seen |-> {}, heard |-> {}]

accept_sequence(n, highest, seen) ==
    n > highest \/ (highest - n < Window /\ highest - n \notin seen)

\* A left shift of the bitmap; bits leave it at the top.
shift(seen, distance) == {b \in 0..(Window - 1) : b - distance \in seen}

\* The receiver lets packet p pass to the decryption.
Fresh(r, p) ==
    r.initialized => r.prefix = p.prefix /\ accept_sequence(p.sequence, r.highest, r.seen)

\* Mutation of opened: a late packet is not marked.
opened_unmarked(r, p) ==
    [session |-> r.session,
     initialized |-> TRUE,
     prefix |-> IF r.initialized THEN r.prefix ELSE p.prefix,
     highest |-> IF p.sequence > r.highest THEN p.sequence ELSE r.highest,
     seen |-> IF ~r.initialized \/ p.sequence - r.highest >= Window THEN {0}
              ELSE IF p.sequence > r.highest THEN shift(r.seen, p.sequence - r.highest) \cup {0}
              ELSE r.seen,
     heard |-> r.heard \cup {p.sequence}]

\* The receiver after it opened p.
opened(r, p) ==
    [session |-> r.session,
     initialized |-> TRUE,
     prefix |-> IF r.initialized THEN r.prefix ELSE p.prefix,
     highest |-> IF p.sequence > r.highest THEN p.sequence ELSE r.highest,
     seen |-> IF ~r.initialized \/ p.sequence - r.highest >= Window THEN {0}
              ELSE IF p.sequence > r.highest THEN shift(r.seen, p.sequence - r.highest) \cup {0}
              ELSE r.seen \cup {r.highest - p.sequence},
     heard |-> r.heard \cup {p.sequence}]

-----------------------------------------------------------------------------
(* Ciphers.                                                                *)

NoPeers == [d \in Device |-> 0]
NewCipher(x, e, own, peers) ==
    [by |-> x, epoch |-> e, own |-> own, next |-> 0, peers |-> [d \in Device |-> NewReceiver(peers[d])]]
Unbuilt == [by |-> CHOOSE d \in Device : TRUE, epoch |-> 0, own |-> 0, next |-> 0,
            peers |-> [d \in Device |-> NewReceiver(0)]]

\* A receiver is kept while the session of its peer stays the same.
update_peers(c, peers) ==
    [c EXCEPT !.peers = [d \in Device |-> IF @[d].session = peers[d] THEN @[d] ELSE NewReceiver(peers[d])]]

-----------------------------------------------------------------------------
(* What the relay tells a client.                                          *)

NoView == [epoch |-> 0, peers |-> NoPeers, key |-> FALSE, asked |-> FALSE, lease |-> FALSE]

\* The published sessions of the other devices.
PeersOf(x) == [d \in Device |-> IF d = x THEN 0 ELSE session[d]]

BridgeInit ==
    /\ epoch = 1
    /\ session = [d \in Device |-> 0]
    /\ minted = 0
    /\ view = [d \in Device |-> NoView]
    /\ bridge = [d \in Device |-> 0]
    /\ ciphers = [c \in 1..MaxCiphers |-> Unbuilt]
    /\ built = 0
    /\ sending = [d \in Device |-> 0]
    /\ wire = {}
    /\ inbound = {}
    /\ injected = [d \in Device |-> {}]
    /\ again = {}
    /\ failures = 0

packets == <<sending, wire, inbound, injected, again>>

connect(x) ==
    /\ session[x] = 0
    /\ minted < MaxSessions
    /\ minted' = minted + 1
    /\ session' = [session EXCEPT ![x] = minted']
    /\ UNCHANGED <<epoch, view, bridge, ciphers, built, failures, packets>>

\* The session ends and clear_peer_states empties the caches.
disconnect(x) ==
    /\ session[x] # 0
    /\ session' = [session EXCEPT ![x] = 0]
    /\ view' = [view EXCEPT ![x] = NoView]
    /\ UNCHANGED <<epoch, minted, bridge, ciphers, built, failures, packets>>

\* The relay advances the epoch, for any of its reasons.
advance_key_epoch ==
    /\ epoch < MaxEpoch
    /\ epoch' = epoch + 1
    /\ UNCHANGED <<session, minted, view, bridge, ciphers, built, failures, packets>>

\* The current peer state arrives.  A key of another epoch is dropped, and a
\* lease is dropped unless the state is the one that was cached.
apply_peer_state(x) ==
    LET same == view[x].epoch = epoch /\ view[x].peers = PeersOf(x) IN
    /\ session[x] # 0
    /\ view' = [view EXCEPT ![x] =
                    [epoch |-> epoch, peers |-> PeersOf(x), key |-> @.key /\ @.epoch = epoch,
                     asked |-> @.asked /\ same, lease |-> ~Managed \/ (@.lease /\ same)]]
    /\ UNCHANGED <<epoch, session, minted, bridge, ciphers, built, failures, packets>>

\* The key of the epoch of the cached state arrives, or its owner makes it.
apply_network_key(x) ==
    /\ view[x].epoch # 0
    /\ ~view[x].key
    /\ view' = [view EXCEPT ![x].key = TRUE]
    /\ UNCHANGED <<epoch, session, minted, bridge, ciphers, built, failures, packets>>

\* The relay answers a peer-state request with the state that is cached.  Any
\* other answer renews nothing.
peer_state(x) ==
    /\ Managed
    /\ session[x] # 0
    /\ ~view[x].asked
    /\ view[x].epoch = epoch
    /\ view[x].peers = PeersOf(x)
    /\ view' = [view EXCEPT ![x].asked = TRUE]
    /\ UNCHANGED <<epoch, session, minted, bridge, ciphers, built, failures, packets>>

\* The answer arrives before another state does.
fetch_peer_state(x) ==
    /\ view[x].asked
    /\ view' = [view EXCEPT ![x].asked = FALSE, ![x].lease = TRUE]
    /\ UNCHANGED <<epoch, session, minted, bridge, ciphers, built, failures, packets>>

\* Six seconds pass without a confirmation, or a state of a later revision
\* arrives that differs in a device that is not of interest here.
lapse(x) ==
    /\ Managed
    /\ view[x].lease
    /\ failures < MaxFailures
    /\ failures' = failures + 1
    /\ view' = [view EXCEPT ![x].lease = FALSE]
    /\ UNCHANGED <<epoch, session, minted, bridge, ciphers, built, packets>>

-----------------------------------------------------------------------------
(* The bridge.                                                             *)

\* What the client shows of the network: its peers, its key and the own session.
cached_peer_state(x) == view[x].epoch # 0 /\ view[x].lease
cached_network_key(x) == view[x].key /\ (view[x].epoch # 0 => view[x].lease)
cached_packet_identity(x) == session[x] # 0

\* The snapshot of the client has the network.
snapshot(x) == cached_packet_identity(x) /\ cached_peer_state(x) /\ cached_network_key(x)

\* The session of the bridge was built for the key and the own session.
Keeps(x) ==
    /\ bridge[x] # 0
    /\ ciphers[bridge[x]].epoch = view[x].epoch
    /\ ciphers[bridge[x]].own = session[x]

synchronize(x) ==
    /\ \/ /\ ~snapshot(x)
          /\ bridge' = [bridge EXCEPT ![x] = 0]
          /\ UNCHANGED <<ciphers, built>>
       \/ /\ snapshot(x)
          /\ Keeps(x)
          /\ ciphers' = [ciphers EXCEPT ![bridge[x]] = update_peers(@, view[x].peers)]
          /\ UNCHANGED <<bridge, built>>
       \/ /\ snapshot(x)
          /\ ~Keeps(x)
          /\ built < MaxCiphers
          /\ built' = built + 1
          /\ ciphers' = [ciphers EXCEPT ![built'] =
                            NewCipher(x, view[x].epoch, session[x], view[x].peers)]
          /\ bridge' = [bridge EXCEPT ![x] = built']
    /\ UNCHANGED <<client, failures, packets>>

\* An exception while the adapter is configured clears the bridge.
clear(x) ==
    /\ failures < MaxFailures
    /\ failures' = failures + 1
    /\ bridge' = [bridge EXCEPT ![x] = 0]
    /\ UNCHANGED <<client, ciphers, built, packets>>

\* outbound takes the session under the mutex of the bridge.
outbound(x) ==
    /\ x \in Sender
    /\ sending[x] = 0
    /\ bridge[x] # 0
    /\ sending' = [sending EXCEPT ![x] = bridge[x]]
    /\ UNCHANGED <<client, bridge, ciphers, built, failures, wire, inbound, injected, again>>

Packet(c, n, routed) ==
    [from |-> ciphers[c].by, epoch |-> ciphers[c].epoch, session |-> ciphers[c].own,
     prefix |-> c, sequence |-> n, routed |-> routed]

\* Mutation of seal: the sequence number wraps around.
seal_wraps(c, routed) ==
    LET n == (ciphers[c].next % MaxSequence) + 1 IN
    /\ wire' = wire \cup {Packet(c, n, routed)}
    /\ ciphers' = [ciphers EXCEPT ![c].next = n]

\* Cipher c encrypts a packet; it refuses when its numbers are used up.
seal(c, routed) ==
    IF ciphers[c].next = MaxSequence
    THEN UNCHANGED <<wire, ciphers>>
    ELSE /\ wire' = wire \cup {Packet(c, ciphers[c].next + 1, routed)}
         /\ ciphers' = [ciphers EXCEPT ![c].next = @ + 1]

\* The call of outbound encrypts with the cipher it took, and sends.
encrypt(x) ==
    /\ sending[x] # 0
    /\ FALSE \in Routed
    /\ seal(sending[x], FALSE)
    /\ sending' = [sending EXCEPT ![x] = 0]
    /\ UNCHANGED <<client, bridge, built, failures, inbound, injected, again>>

\* A packet for a route is encrypted under the mutex of the bridge.
outbound_routed(x) ==
    /\ x \in Sender
    /\ TRUE \in Routed
    /\ bridge[x] # 0
    /\ seal(bridge[x], TRUE)
    /\ UNCHANGED <<client, bridge, built, failures, sending, inbound, injected, again>>

\* inbound takes the session and a copy of its peers.
inbound_take(x, p) ==
    /\ p.from # x
    /\ bridge[x] # 0
    /\ Cardinality(inbound) < MaxInbound
    /\ inbound' = inbound \cup {[at |-> x, packet |-> p, cipher |-> bridge[x], plain |-> FALSE,
                                 peer |-> ciphers[bridge[x]].peers[p.from].session]}
    /\ UNCHANGED <<client, bridge, ciphers, built, failures, sending, wire, injected, again>>

\* The cipher opens the packet of call i.
Opens(i) ==
    LET c == ciphers[i.cipher]
        r == c.peers[i.packet.from]
    IN  /\ i.packet.epoch = c.epoch
        /\ r.session # 0
        /\ Fresh(r, i.packet)
        /\ i.packet.session = r.session

\* The call decrypts, without the mutex of the bridge.
decrypt(i) ==
    LET p == i.packet
        r == ciphers[i.cipher].peers[p.from]
    IN
    /\ ~i.plain
    /\ IF Opens(i)
       THEN /\ ciphers' = [ciphers EXCEPT ![i.cipher].peers[p.from] = opened(r, p)]
            /\ again' = IF p.sequence \in r.heard THEN again \cup {p} ELSE again
            /\ inbound' = (inbound \ {i}) \cup {[i EXCEPT !.plain = TRUE]}
       ELSE /\ inbound' = inbound \ {i}
            /\ UNCHANGED <<ciphers, again>>
    /\ UNCHANGED <<client, bridge, built, failures, sending, wire, injected>>

\* Mutation of current: the session is not compared.
current_any(i) == bridge[i.at] # 0

\* The bridge still has the session of the call, and the sender's entry is
\* the one the call copied.
current(i) ==
    /\ bridge[i.at] = i.cipher
    /\ ciphers[i.cipher].peers[i.packet.from].session = i.peer

\* The bridge has a session of the packet's epoch that lists the sender.
current_routed(i) ==
    /\ bridge[i.at] # 0
    /\ ciphers[bridge[i.at]].epoch = i.packet.epoch
    /\ ciphers[bridge[i.at]].peers[i.packet.from].session # 0

\* The call injects what it decrypted if the bridge still agrees.
inject(i) ==
    /\ i.plain
    /\ inbound' = inbound \ {i}
    /\ injected' = IF IF i.packet.routed THEN current_routed(i) ELSE current(i)
                   THEN [injected EXCEPT ![i.at] = @ \cup {i.packet}] ELSE injected
    /\ UNCHANGED <<client, bridge, ciphers, built, failures, sending, wire, again>>

BridgeNext ==
    \/ advance_key_epoch
    \/ \E x \in Device :
          \/ connect(x) \/ disconnect(x)
          \/ apply_peer_state(x) \/ apply_network_key(x)
          \/ peer_state(x) \/ fetch_peer_state(x) \/ lapse(x)
          \/ synchronize(x) \/ clear(x)
          \/ outbound(x) \/ encrypt(x) \/ outbound_routed(x)
          \/ \E p \in wire : inbound_take(x, p)
    \/ \E i \in inbound : decrypt(i) \/ inject(i)

BridgeSpec == BridgeInit /\ [][BridgeNext]_bvars

-----------------------------------------------------------------------------
(* Properties.                                                             *)

ReceiverType ==
    [session : 0..MaxSessions, initialized : BOOLEAN, prefix : 0..MaxCiphers,
     highest : 0..MaxSequence, seen : SUBSET (0..(Window - 1)), heard : SUBSET Sequence]
CipherType ==
    [by : Device, epoch : 0..MaxEpoch, own : 0..MaxSessions, next : 0..MaxSequence,
     peers : [Device -> ReceiverType]]
PacketType ==
    [from : Device, epoch : 0..MaxEpoch, session : 0..MaxSessions, prefix : 1..MaxCiphers,
     sequence : Sequence, routed : BOOLEAN]
CallType ==
    [at : Device, packet : PacketType, cipher : 1..MaxCiphers, plain : BOOLEAN, peer : 0..MaxSessions]
ViewType ==
    [epoch : 0..MaxEpoch, peers : [Device -> 0..MaxSessions],
     key : BOOLEAN, asked : BOOLEAN, lease : BOOLEAN]

\* The variables of the bridge and of the client have the types of the code's
\* fields.
BridgeTypeOK ==
    /\ epoch \in 1..MaxEpoch
    /\ session \in [Device -> 0..MaxSessions]
    /\ minted \in 0..MaxSessions
    /\ view \in [Device -> ViewType]
    /\ bridge \in [Device -> 0..MaxCiphers]
    /\ ciphers \in [1..MaxCiphers -> CipherType]
    /\ built \in 0..MaxCiphers
    /\ sending \in [Device -> 0..MaxCiphers]
    /\ wire \subseteq PacketType
    /\ inbound \subseteq CallType
    /\ injected \in [Device -> SUBSET PacketType]
    /\ again \subseteq PacketType
    /\ failures \in 0..MaxFailures

\* No receiver of a cipher opens the same packet twice, however packets are
\* duplicated, delayed and reordered on the way and whichever threads deliver
\* them: the 64-bit window of decrypt forgets nothing it must remember.
AtMostOnce == again = {}

\* A number that a receiver has not opened and that is not older than its
\* window is not refused for its number: the window refuses no more than it
\* has to (accept_sequence and the shifts in decrypt).
WindowExact ==
    \A c \in 1..built : \A d \in Device :
        LET r == ciphers[c].peers[d] IN
        r.initialized =>
            \A n \in Sequence :
                accept_sequence(n, r.highest, r.seen) <=> n \notin r.heard /\ n > r.highest - Window

\* A cipher that encrypts uses a nonce that no packet sent before has under
\* its key: encrypt never reuses a sequence number, also when the numbers run
\* out, and a cipher that replaces another has another prefix.
SealsNewNonce(c) == ciphers'[c].next # ciphers[c].next => wire' # wire
NonceUsedOnce == [][\A c \in 1..built : SealsNewNonce(c)]_bvars

\* A packet is injected only while the bridge is at the epoch the packet was
\* encrypted for, and, unless a gateway handles it, does not know the sender
\* by another session than the packet's: synchronize may run between the
\* decryption and the injection.
InjectsCurrent(x) ==
    \A p \in injected'[x] \ injected[x] :
        /\ bridge[x] # 0
        /\ ciphers[bridge[x]].epoch = p.epoch
        /\ ~p.routed => ciphers[bridge[x]].peers[p.from].session \in {p.session, 0}
InjectedWhileCurrent == [][\A x \in Device : InjectsCurrent(x)]_bvars
=============================================================================
