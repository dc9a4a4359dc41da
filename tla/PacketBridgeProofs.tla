------------------------- MODULE PacketBridgeProofs -------------------------
(***************************************************************************)
(* The replay window of the packet cipher and the use of its nonces, for   *)
(* any number of devices, any width of the bitmap and any largest sequence *)
(* number.                                                                 *)
(*                                                                         *)
(* A receiver's bitmap says exactly which of the last Window numbers it    *)
(* opened (WindowOK); what is older is refused.  The lemma Opening carries *)
(* that over one packet; the steps of the bridge either start a receiver   *)
(* anew, keep it, or open one packet with it.                              *)
(*                                                                         *)
(* The last part is about the inbound thread of a bridge, which takes a    *)
(* session, opens a packet and injects it in separate steps.               *)
(***************************************************************************)
EXTENDS PacketBridge, TLAPS

USE BridgeAssumption

\* The bitmap of receiver r records what r opened.
WindowOK(r) ==
    /\ ~r.initialized => r.heard = {} /\ r.highest = 0
    /\ r.initialized =>
          /\ r.highest \in r.heard
          /\ \A n \in r.heard : n <= r.highest
          /\ \A b \in 0..(Window - 1) : b \in r.seen <=> (r.highest - b) \in r.heard

\* What every packet and every call can rely on.
WindowInv == \A c \in 1..MaxCiphers : \A d \in Device : WindowOK(ciphers[c].peers[d])
WireInv ==
    /\ \A p \in wire : p.prefix <= built /\ p.sequence <= ciphers[p.prefix].next
    /\ \A x \in Device : bridge[x] <= built /\ sending[x] <= built
BridgeInv == BridgeTypeOK /\ WindowInv /\ WireInv /\ AtMostOnce

-----------------------------------------------------------------------------
(* One receiver.                                                           *)

\* A fresh receiver (a new PeerReceiver) has an empty window.
LEMMA NewReceiverOK ==
    ASSUME NEW s \in 0..MaxSessions
    PROVE  NewReceiver(s) \in ReceiverType /\ WindowOK(NewReceiver(s))
BY DEF NewReceiver, ReceiverType, WindowOK, Sequence

\* A number that accept_sequence lets pass was not opened before.
LEMMA AcceptedIsNew ==
    ASSUME NEW r \in ReceiverType, WindowOK(r), NEW p \in PacketType, Fresh(r, p)
    PROVE  p.sequence \notin r.heard
<1>1. CASE ~r.initialized
  BY Zenon, <1>1 DEF WindowOK
<1>2. CASE r.initialized
  <2>1. p.sequence \in Nat /\ r.highest \in Nat
    BY DEF PacketType, ReceiverType, Sequence
  <2>2. CASE p.sequence > r.highest
    BY <1>2, <2>1, <2>2 DEF WindowOK, ReceiverType, Sequence
  <2>3. CASE ~(p.sequence > r.highest)
    <3> DEFINE b == r.highest - p.sequence
    <3> QED BY SMTT(30), <1>2, <2>1, <2>3 DEF WindowOK, Fresh, accept_sequence
  <2> QED BY Zenon, <2>2, <2>3
<1> QED BY Zenon, <1>1, <1>2

\* decrypt leaves a window that records what was opened, the new packet
\* included, whether it is the first, the newest or a late one.
LEMMA Opening ==
    ASSUME NEW r \in ReceiverType, WindowOK(r), NEW p \in PacketType, Fresh(r, p)
    PROVE  opened(r, p) \in ReceiverType /\ WindowOK(opened(r, p))
<1> DEFINE n == p.sequence
           h == r.highest
           t == opened(r, p)
<1>1. n \in Sequence /\ n \in Nat /\ n > 0 /\ p.prefix \in 0..MaxCiphers
  BY DEF PacketType, Sequence
<1>2. h \in 0..MaxSequence /\ h \in Nat /\ r.seen \subseteq 0..(Window - 1) /\ r.heard \subseteq Sequence
      /\ r.session \in 0..MaxSessions /\ r.prefix \in 0..MaxCiphers /\ r.initialized \in BOOLEAN
  BY DEF ReceiverType
<1>3. /\ t.session = r.session
      /\ t.initialized = TRUE
      /\ t.prefix = IF r.initialized THEN r.prefix ELSE p.prefix
      /\ t.highest = IF n > h THEN n ELSE h
      /\ t.seen = IF ~r.initialized \/ n - h >= Window THEN {0}
                  ELSE IF n > h THEN shift(r.seen, n - h) \cup {0}
                  ELSE r.seen \cup {h - n}
      /\ t.heard = r.heard \cup {n}
  BY Zenon DEF opened
<1>a. t = [session |-> t.session, initialized |-> t.initialized, prefix |-> t.prefix,
           highest |-> t.highest, seen |-> t.seen, heard |-> t.heard]
  BY Zenon DEF opened
<1> SUFFICES t \in ReceiverType /\ WindowOK(t)
  BY Zenon
<1> HIDE DEF t
<1>4. t \in ReceiverType
  <2>1. t.highest \in 0..MaxSequence /\ t.heard \subseteq Sequence /\ t.prefix \in 0..MaxCiphers
    BY <1>1, <1>2, <1>3 DEF Sequence
  <2>2. t.seen \subseteq 0..(Window - 1)
    BY SMTT(30), <1>3, <1>1, <1>2 DEF shift, Fresh, accept_sequence
  <2> QED BY Zenon, <1>2, <1>3, <1>a, <2>1, <2>2 DEF ReceiverType
<1>5. CASE ~r.initialized
  BY SMTT(30), <1>1, <1>3, <1>5, <1>4 DEF WindowOK
<1>6. CASE r.initialized
  BY SMTT(30), <1>6, <1>1, <1>2, <1>3, <1>4 DEF WindowOK, Sequence, shift
<1> QED BY Zenon, <1>2, <1>5, <1>6

-----------------------------------------------------------------------------
(* Ciphers.                                                                *)

\* A new cipher has typed fields, no number used and empty windows.
LEMMA NewCipherOK ==
    ASSUME NEW x \in Device, NEW e \in 0..MaxEpoch, NEW own \in 0..MaxSessions,
           NEW peers \in [Device -> 0..MaxSessions]
    PROVE  /\ NewCipher(x, e, own, peers) \in CipherType
           /\ \A d \in Device : WindowOK(NewCipher(x, e, own, peers).peers[d])
BY NewReceiverOK DEF NewCipher, CipherType

\* The cipher that stands for one not built yet is one of these.
LEMMA UnbuiltOK ==
    Unbuilt \in CipherType /\ \A d \in Device : WindowOK(Unbuilt.peers[d])
BY SMTT(30), NewReceiverOK DEF Unbuilt, CipherType

\* update_peers keeps or replaces each receiver and uses up no number.
LEMMA UpdatePeersOK ==
    ASSUME NEW c \in CipherType, NEW peers \in [Device -> 0..MaxSessions],
           \A d \in Device : WindowOK(c.peers[d])
    PROVE  /\ update_peers(c, peers) \in CipherType
           /\ update_peers(c, peers).next = c.next
           /\ \A d \in Device : WindowOK(update_peers(c, peers).peers[d])
<1> DEFINE f == [d \in Device |-> IF c.peers[d].session = peers[d] THEN c.peers[d] ELSE NewReceiver(peers[d])]
<1>1. f \in [Device -> ReceiverType] /\ \A d \in Device : WindowOK(f[d])
  BY Zenon, NewReceiverOK DEF CipherType
<1>2. update_peers(c, peers) = [c EXCEPT !.peers = f]
  BY Zenon DEF update_peers
<1> HIDE DEF f
<1> QED BY Zenon, <1>1, <1>2 DEF CipherType

-----------------------------------------------------------------------------
(* The steps.                                                              *)

\* The invariant holds before anything is connected or built.
LEMMA BridgeInitInv == BridgeInit => BridgeInv
<1> SUFFICES ASSUME BridgeInit PROVE BridgeInv
  BY Zenon
<1> QED BY SMTT(30), UnbuiltOK DEF BridgeInv, BridgeInit, WindowInv, BridgeTypeOK, NoView,
     ViewType, NoPeers, WireInv, AtMostOnce

\* A step of the client's caches does not touch ciphers and packets.
LEMMA ClientStep ==
    ASSUME BridgeInv, UNCHANGED <<bridge, ciphers, built, packets>>,
           epoch' \in 1..MaxEpoch, session' \in [Device -> 0..MaxSessions],
           minted' \in 0..MaxSessions, view' \in [Device -> ViewType],
           failures' \in 0..MaxFailures
    PROVE  BridgeInv'
BY SMTT(30) DEF BridgeInv, BridgeTypeOK, WindowInv, WireInv, AtMostOnce, packets

\* Setting the flags of a cached view keeps its type.
LEMMA ViewFlags ==
    ASSUME NEW v \in ViewType, NEW k \in BOOLEAN
    PROVE  /\ [v EXCEPT !.key = k] \in ViewType
           /\ [v EXCEPT !.asked = k] \in ViewType
           /\ [v EXCEPT !.lease = k] \in ViewType
BY DEF ViewType

\* What only changes the caches of a client leaves the ciphers and the packets alone.
LEMMA CacheInv ==
    ASSUME BridgeInv, NEW x \in Device,
           \/ connect(x) \/ disconnect(x) \/ apply_peer_state(x) \/ apply_network_key(x)
           \/ peer_state(x) \/ fetch_peer_state(x) \/ lapse(x)
    PROVE  BridgeInv'
<1> USE DEF BridgeInv, BridgeTypeOK
<1>0. PeersOf(x) \in [Device -> 0..MaxSessions]
  BY DEF PeersOf
<1>1. CASE connect(x)
  BY SMTT(30), <1>1, ClientStep DEF connect
<1>2. CASE disconnect(x)
  <2>1. NoView \in ViewType
    BY DEF NoView, ViewType, NoPeers
  <2> QED BY SMTT(30), <1>2, <2>1, ClientStep DEF disconnect
<1>3. CASE apply_peer_state(x)
  <2>1. view'[x] \in ViewType
    BY <1>0, <1>3 DEF apply_peer_state, ViewType
  <2> QED BY Zenon, <1>3, ClientStep, <2>1 DEF apply_peer_state
<1>4. CASE apply_network_key(x)
  BY Zenon, <1>4, ViewFlags, ClientStep DEF apply_network_key
<1>5. CASE peer_state(x)
  BY Zenon, <1>5, ViewFlags, ClientStep DEF peer_state
<1>6. CASE fetch_peer_state(x)
  <2> DEFINE v == [view[x] EXCEPT !.asked = FALSE]
  <2> HIDE DEF v
  <2> QED BY Zenon, <1>6, ClientStep, ViewFlags DEF fetch_peer_state
<1>7. CASE lapse(x)
  <2>3. failures' \in 0..MaxFailures
    <3>1. failures \in 0..MaxFailures /\ failures < MaxFailures /\ failures' = failures + 1
      BY Zenon, <1>7 DEF lapse
    <3> HIDE DEF BridgeInv, BridgeTypeOK
    <3> QED BY <3>1
  <2> QED BY Zenon, <2>3, ClientStep, <1>7, ViewFlags DEF lapse
<1> QED BY Zenon, <1>1, <1>2, <1>3, <1>4, <1>5, <1>6, <1>7

\* A step that changes one cipher, keeps its count of used numbers and its
\* windows in order, and sends nothing, preserves the invariant.
LEMMA OneCipher ==
    ASSUME BridgeInv, NEW k \in 1..MaxCiphers, NEW v \in CipherType,
           ciphers' = [ciphers EXCEPT ![k] = v],
           \A d \in Device : WindowOK(v.peers[d])
    PROVE  /\ ciphers' \in [1..MaxCiphers -> CipherType]
           /\ WindowInv'
           /\ v.next = ciphers[k].next => \A c \in 1..MaxCiphers : ciphers'[c].next = ciphers[c].next
BY DEF BridgeInv, BridgeTypeOK, WindowInv

\* synchronize keeps a session, gives it new receivers, or builds one with a new cipher.
LEMMA SynchronizeInv ==
    ASSUME BridgeInv, NEW x \in Device, synchronize(x)
    PROVE  BridgeInv'
<1> USE DEF BridgeInv, BridgeTypeOK
<1>0. UNCHANGED <<client, failures, packets>>
  BY Zenon DEF synchronize
<1>1. view[x].peers \in [Device -> 0..MaxSessions] /\ view[x].epoch \in 0..MaxEpoch
  BY Zenon DEF ViewType
<1>2. CASE bridge' = [bridge EXCEPT ![x] = 0] /\ UNCHANGED <<ciphers, built>>
  BY SMTT(30), <1>0, <1>2 DEF WindowInv, WireInv, AtMostOnce, packets, client
<1>3. CASE Keeps(x) /\ ciphers' = [ciphers EXCEPT ![bridge[x]] = update_peers(@, view[x].peers)]
           /\ UNCHANGED <<bridge, built>>
  <2>1. bridge[x] \in 1..MaxCiphers
    BY <1>3 DEF Keeps
  <2> DEFINE v == update_peers(ciphers[bridge[x]], view[x].peers)
  <2>2. v \in CipherType /\ v.next = ciphers[bridge[x]].next /\ \A d \in Device : WindowOK(v.peers[d])
    BY Zenon, <1>1, <2>1, UpdatePeersOK DEF WindowInv
  <2>3. ciphers' = [ciphers EXCEPT ![bridge[x]] = v]
    BY Zenon, <1>3
  <2> HIDE DEF v
  <2> QED BY Zenon, <1>0, <1>3, <2>1, <2>2, <2>3, OneCipher DEF AtMostOnce, packets, client,
       WireInv, PacketType
<1>4. CASE built < MaxCiphers /\ built' = built + 1 /\ bridge' = [bridge EXCEPT ![x] = built']
           /\ ciphers' = [ciphers EXCEPT ![built'] = NewCipher(x, view[x].epoch, session[x], view[x].peers)]
  <2> DEFINE v == NewCipher(x, view[x].epoch, session[x], view[x].peers)
  <2>2. built' \in 1..MaxCiphers
    BY <1>4
  <2> HIDE DEF v
  <2>3. ciphers' \in [1..MaxCiphers -> CipherType] /\ WindowInv'
    BY Zenon, <1>4, <2>2, OneCipher, <1>1, NewCipherOK DEF v
  <2>4. WireInv'
    <3>1. UNCHANGED <<wire, sending>>
      BY Zenon, <1>0 DEF packets
    <3>2. \A p \in wire : /\ p.prefix <= built' /\ ciphers'[p.prefix] = ciphers[p.prefix]
                          /\ p.sequence <= ciphers[p.prefix].next
      BY SMTT(30), <1>4 DEF WireInv, PacketType
    <3>3. \A y \in Device : bridge'[y] <= built' /\ sending[y] <= built'
      BY <1>4 DEF WireInv
    <3> QED BY Zenon, <3>1, <3>2, <3>3 DEF WireInv
  <2> QED BY SMTT(30), <1>0, <1>4, <2>2, <2>3, <2>4 DEF AtMostOnce, packets, client
<1> QED BY Zenon, <1>2, <1>3, <1>4 DEF synchronize

\* The fields of a cipher have their types.
LEMMA CipherFields ==
    ASSUME BridgeInv, NEW k \in 1..MaxCiphers
    PROVE  /\ ciphers[k] \in CipherType
           /\ ciphers[k].by \in Device /\ ciphers[k].epoch \in 0..MaxEpoch
           /\ ciphers[k].own \in 0..MaxSessions /\ ciphers[k].next \in 0..MaxSequence
           /\ ciphers[k].next \in Nat
           /\ ciphers[k].next # MaxSequence => ciphers[k].next + 1 \in Sequence
           /\ \A d \in Device : /\ ciphers[k].peers[d] \in ReceiverType
                               /\ ciphers[k].peers[d].session \in 0..MaxSessions
                               /\ WindowOK(ciphers[k].peers[d])
<1>1. ciphers[k] \in CipherType
  BY Zenon DEF BridgeInv, BridgeTypeOK
<1>2. /\ ciphers[k].by \in Device /\ ciphers[k].epoch \in 0..MaxEpoch
      /\ ciphers[k].own \in 0..MaxSessions /\ ciphers[k].next \in 0..MaxSequence
      /\ ciphers[k].peers \in [Device -> ReceiverType]
  BY Zenon, <1>1 DEF CipherType
<1>3. ASSUME NEW d \in Device
      PROVE  /\ ciphers[k].peers[d] \in ReceiverType
             /\ ciphers[k].peers[d].session \in 0..MaxSessions
             /\ WindowOK(ciphers[k].peers[d])
  BY Zenon, <1>2 DEF ReceiverType, BridgeInv, WindowInv
<1> QED BY SMTT(30), <1>1, <1>2, <1>3 DEF Sequence

\* Counting one number more changes nothing else of a cipher.
LEMMA NextNumber ==
    ASSUME NEW k \in CipherType, k.next + 1 \in Sequence
    PROVE  LET v == [k EXCEPT !.next = @ + 1] IN
           v \in CipherType /\ v.next = k.next + 1 /\ v.peers = k.peers
BY DEF CipherType, Sequence

\* Encrypting with a cipher that exists uses its next number, or none.
LEMMA SealInv ==
    ASSUME BridgeInv, NEW c \in 1..MaxCiphers, c <= built, NEW routed \in BOOLEAN, seal(c, routed)
    PROVE  /\ ciphers' \in [1..MaxCiphers -> CipherType]
           /\ wire' \subseteq PacketType
           /\ WindowInv'
           /\ \A p \in wire' : p.prefix <= built /\ p.sequence <= ciphers'[p.prefix].next
<1> USE DEF BridgeInv, BridgeTypeOK
<1>1. CASE ciphers[c].next = MaxSequence
  BY Zenon, <1>1 DEF seal, WindowInv, WireInv
<1>2. CASE ciphers[c].next # MaxSequence
  <2> DEFINE v == [ciphers[c] EXCEPT !.next = @ + 1]
             q == Packet(c, ciphers[c].next + 1, routed)
  <2>1. ciphers' = [ciphers EXCEPT ![c] = v] /\ wire' = wire \cup {q}
    BY Zenon, <1>2 DEF seal
  <2>2. ciphers[c] \in CipherType /\ ciphers[c].next + 1 \in Sequence
    BY Zenon, <1>2, CipherFields
  <2>3. v \in CipherType /\ v.next = ciphers[c].next + 1 /\ v.peers = ciphers[c].peers
    BY Zenon, <2>2, NextNumber
  <2>4. q \in PacketType /\ q.prefix = c /\ q.sequence = v.next
    BY Zenon, <2>2, <2>3, CipherFields DEF Packet, PacketType
  <2> HIDE DEF v, q
  <2>7. ASSUME NEW p \in wire'
        PROVE  p.prefix <= built /\ p.sequence <= ciphers'[p.prefix].next
    <3>1. CASE p = q
      BY <2>1, <2>2, <2>3, <2>4, <3>1 DEF Sequence
    <3>2. CASE p \in wire
      <4>0. p.prefix \in 1..MaxCiphers /\ p.sequence \in Nat
        BY SMTT(30), <3>2 DEF PacketType, Sequence
      <4>1. p.prefix \in 1..MaxCiphers /\ p.sequence \in Nat /\ ciphers[p.prefix].next \in Nat
        BY Zenon, <4>0, CipherFields
      <4> QED BY SMTT(30), <2>1, <2>2, <2>3, <4>1, <3>2 DEF WireInv
    <3> QED BY Zenon, <2>1, <2>7, <3>1, <3>2
  <2> QED BY Zenon, <2>1, <2>4, <2>7, <2>3, OneCipher DEF WindowInv
<1> QED BY Zenon, <1>1, <1>2

\* Encrypting sends a packet that was not sent before, or does nothing.
LEMMA SealsNew ==
    ASSUME BridgeInv, NEW k \in 1..MaxCiphers, NEW routed \in BOOLEAN, seal(k, routed)
    PROVE  wire' # wire \/ ciphers' = ciphers
<1>1. CASE ciphers[k].next = MaxSequence
  BY Zenon, <1>1 DEF seal
<1>2. CASE ciphers[k].next # MaxSequence
  <2> DEFINE q == Packet(k, ciphers[k].next + 1, routed)
  <2>1. wire' = wire \cup {q}
    BY Zenon, <1>2 DEF seal
  <2>2. q.prefix = k /\ q.sequence = ciphers[k].next + 1
    BY Zenon DEF Packet
  <2> HIDE DEF q
  <2>3. q \notin wire
    BY <2>2, CipherFields DEF BridgeInv, WireInv
  <2> QED BY Zenon, <2>1, <2>3
<1> QED BY Zenon, <1>1, <1>2

\* A call decrypts: the receiver opens the packet for the first time.
LEMMA DecryptInv ==
    ASSUME BridgeInv, NEW i \in inbound, decrypt(i)
    PROVE  BridgeInv'
<1> USE DEF BridgeInv, BridgeTypeOK
<1> DEFINE p == i.packet
           c == ciphers[i.cipher]
           r == c.peers[p.from]
<1>1. i \in CallType /\ p \in PacketType /\ p.from \in Device /\ i.cipher \in 1..MaxCiphers
  BY Zenon DEF CallType, PacketType
<1>2. c \in CipherType /\ r \in ReceiverType /\ WindowOK(r)
  BY Zenon, <1>1, CipherFields
<1>3. UNCHANGED <<client, bridge, built, failures, sending, wire, injected>>
  BY Zenon DEF decrypt
<1>4. CASE ~Opens(i)
  BY Zenon, <1>3, <1>4 DEF decrypt, WindowInv, WireInv, AtMostOnce, client
<1>5. CASE Opens(i)
  <2>1. Fresh(r, p)
    BY Zenon, <1>5 DEF Opens
  <2> DEFINE t == opened(r, p)
             v == [c EXCEPT !.peers[p.from] = t]
  <2>3. t \in ReceiverType /\ WindowOK(t)
    BY Zenon, <1>1, <1>2, <2>1, Opening
  <2>4. ciphers' = [ciphers EXCEPT ![i.cipher] = v]
    BY Zenon, <1>5 DEF decrypt
  <2> HIDE DEF t
  <2>5. v.peers = [c.peers EXCEPT ![p.from] = t] /\ v.next = c.next /\ v.by = c.by
        /\ v.epoch = c.epoch /\ v.own = c.own
    BY Zenon, <1>2 DEF CipherType
  <2>6. v.peers \in [Device -> ReceiverType] /\ \A d \in Device : WindowOK(v.peers[d])
    BY Zenon, <1>1, <1>2, <2>3, <2>5 DEF CipherType, WindowInv
  <2>7. v \in CipherType
    <3>1. v = [c EXCEPT !.peers = v.peers]
      BY Zenon, <1>2 DEF CipherType
    <3> HIDE DEF v
    <3> QED BY Zenon, <1>2, <2>6, <3>1 DEF CipherType
  <2> HIDE DEF v
  <2>8. /\ ciphers' \in [1..MaxCiphers -> CipherType]
        /\ WindowInv'
        /\ \A k \in 1..MaxCiphers : ciphers'[k].next = ciphers[k].next
    BY ZenonT(60), <1>1, <2>4, <2>5, <2>6, <2>7, OneCipher
  <2>9. WireInv'
    BY Zenon, <1>3, <2>8 DEF WireInv, PacketType
  <2>10. inbound' \subseteq CallType
    <3>1. [i EXCEPT !.plain = TRUE] \in CallType
      BY Zenon, <1>1 DEF CallType
    <3> QED BY Zenon, <3>1, <1>5 DEF decrypt
  <2> QED BY Zenon, <1>3, <2>8, <2>9, <2>10, <1>1, <1>2, <1>5, <2>1, AcceptedIsNew DEF AtMostOnce,
       client, decrypt
<1> QED BY Zenon, <1>4, <1>5

\* Every step of the bridge preserves the invariant.
LEMMA BridgeStep == BridgeInv /\ [BridgeNext]_bvars => BridgeInv'
<1> SUFFICES ASSUME BridgeInv, [BridgeNext]_bvars PROVE BridgeInv'
  BY Zenon
<1> USE DEF BridgeInv, BridgeTypeOK
<1>1. CASE advance_key_epoch
  BY SMTT(30), <1>1, ClientStep DEF advance_key_epoch
<1>2. ASSUME NEW x \in Device,
             \/ connect(x) \/ disconnect(x) \/ apply_peer_state(x) \/ apply_network_key(x)
             \/ peer_state(x) \/ fetch_peer_state(x) \/ lapse(x)
      PROVE  BridgeInv'
  BY Zenon, <1>2, CacheInv
<1>3. ASSUME NEW x \in Device, synchronize(x) PROVE BridgeInv'
  BY Zenon, <1>3, SynchronizeInv
<1>4. ASSUME NEW x \in Device, clear(x) PROVE BridgeInv'
  BY SMTT(30), <1>4 DEF clear, WindowInv, WireInv, AtMostOnce, client, packets
<1>5. ASSUME NEW x \in Device, outbound(x) PROVE BridgeInv'
  BY Zenon, <1>5 DEF outbound, WindowInv, WireInv, AtMostOnce, client
<1>6. ASSUME NEW x \in Device, encrypt(x) PROVE BridgeInv'
  <2>0. sending[x] # 0 /\ seal(sending[x], FALSE)
    BY Zenon, <1>6 DEF encrypt
  <2>1. sending[x] \in 1..MaxCiphers /\ sending[x] <= built
    BY <2>0 DEF WireInv
  <2>2. /\ ciphers' \in [1..MaxCiphers -> CipherType]
        /\ wire' \subseteq PacketType
        /\ WindowInv'
        /\ \A p \in wire' : p.prefix <= built /\ p.sequence <= ciphers'[p.prefix].next
    BY Zenon, <2>0, <2>1, SealInv
  <2> QED BY SMTT(30), <1>6, <2>2 DEF encrypt, AtMostOnce, client, WireInv
<1>7. ASSUME NEW x \in Device, outbound_routed(x) PROVE BridgeInv'
  <2>0. bridge[x] # 0 /\ seal(bridge[x], TRUE)
    BY Zenon, <1>7 DEF outbound_routed
  <2>1. bridge[x] \in 1..MaxCiphers /\ bridge[x] <= built
    BY SMTT(30), <2>0 DEF WireInv
  <2> QED BY Zenon, <1>7, <2>0, <2>1, SealInv DEF outbound_routed, AtMostOnce, client, WireInv
<1>8. ASSUME NEW x \in Device, NEW p \in wire, inbound_take(x, p) PROVE BridgeInv'
  <2>1. inbound' \subseteq CallType
    <3>1. p \in PacketType /\ p.from \in Device /\ bridge[x] \in 1..MaxCiphers
      BY SMTT(30), <1>8 DEF inbound_take, PacketType
    <3> DEFINE j == [at |-> x, packet |-> p, cipher |-> bridge[x], plain |-> FALSE,
                     peer |-> ciphers[bridge[x]].peers[p.from].session]
    <3>3. j \in CallType
      BY Zenon, <3>1, CipherFields DEF CallType
    <3> QED BY Zenon, <3>3, <1>8 DEF inbound_take
  <2> QED BY Zenon, <1>8, <2>1 DEF inbound_take, WindowInv, WireInv, AtMostOnce, client
<1>9. ASSUME NEW i \in inbound, decrypt(i) PROVE BridgeInv'
  BY Zenon, <1>9, DecryptInv
<1>10. ASSUME NEW i \in inbound, inject(i) PROVE BridgeInv'
  BY Zenon, <1>10 DEF CallType, inject, WindowInv, WireInv, AtMostOnce, client
<1>11. CASE UNCHANGED bvars
  BY Zenon, <1>11 DEF bvars, client, WindowInv, WireInv, AtMostOnce
<1> QED BY Zenon, <1>1, <1>2, <1>3, <1>4, <1>5, <1>6, <1>7, <1>8, <1>9, <1>10, <1>11 DEF BridgeNext

-----------------------------------------------------------------------------
(* The theorems.                                                           *)

\* The inductive invariant of bridges, ciphers and packets holds throughout:
\* windows record what was opened, packets carry numbers already used up.
THEOREM BridgeCorrect == BridgeSpec => []BridgeInv
BY BridgeInitInv, BridgeStep, PTL DEF BridgeSpec

\* The fields of bridges, ciphers and packets stay in their ranges: the bitmap
\* has Window bits and sequence numbers do not overflow.
THEOREM BridgeTypeCorrect == BridgeSpec => []BridgeTypeOK
<1>1. BridgeInv => BridgeTypeOK
  BY Zenon DEF BridgeInv
<1> QED BY <1>1, BridgeCorrect, PTL

\* decrypt opens no packet twice with one receiver, for every width of the
\* bitmap, every number of devices and every order of deliveries.
THEOREM OpensOnce == BridgeSpec => []AtMostOnce
<1>1. BridgeInv => AtMostOnce
  BY Zenon DEF BridgeInv
<1> QED BY <1>1, BridgeCorrect, PTL

\* accept_sequence refuses exactly the numbers that were opened or have left
\* the window.
THEOREM WindowIsExact == BridgeSpec => []WindowExact
<1>1. BridgeInv => WindowExact
  <2> SUFFICES ASSUME BridgeInv, NEW c \in 1..built, NEW d \in Device,
                      ciphers[c].peers[d].initialized, NEW n \in Sequence
               PROVE  LET r == ciphers[c].peers[d] IN
                      accept_sequence(n, r.highest, r.seen) <=> n \notin r.heard /\ n > r.highest - Window
    BY Zenon DEF WindowExact
  <2> DEFINE r == ciphers[c].peers[d]
  <2>2. r \in ReceiverType /\ WindowOK(r)
    BY SMTT(30) DEF BridgeInv, BridgeTypeOK, WindowInv, CipherType
  <2>3. /\ r.highest \in r.heard
        /\ \A m \in r.heard : m <= r.highest
        /\ \A b \in 0..(Window - 1) : b \in r.seen <=> (r.highest - b) \in r.heard
    BY Zenon, <2>2 DEF WindowOK
  <2>4. n \in Int /\ r.highest \in Int
    BY <2>2 DEF ReceiverType, Sequence
  <2> SUFFICES accept_sequence(n, r.highest, r.seen) <=> n \notin r.heard /\ n > r.highest - Window
    BY Zenon
  <2> HIDE DEF r
  <2>5. CASE n > r.highest
    BY <2>3, <2>4, <2>5 DEF accept_sequence
  <2>6. CASE ~(n > r.highest) /\ r.highest - n < Window
    BY SMTT(30), <2>4, <2>6, <2>3 DEF accept_sequence
  <2>7. CASE ~(r.highest - n < Window)
    BY <2>4, <2>7 DEF accept_sequence
  <2> QED BY Zenon, <2>4, <2>5, <2>6, <2>7
<1> QED BY <1>1, BridgeCorrect, PTL

\* encrypt uses no nonce twice under one key: each call of it sends a packet
\* that was not sent before, or none.
THEOREM NoncesAreNew == BridgeSpec => NonceUsedOnce
<1>1. BridgeInv /\ [BridgeNext]_bvars => [\A c \in 1..built : SealsNewNonce(c)]_bvars
  <2> SUFFICES ASSUME BridgeInv, BridgeNext, NEW c \in 1..built, ciphers'[c].next # ciphers[c].next
               PROVE  wire' # wire
    BY Zenon DEF SealsNewNonce
  <2>1. c \in 1..MaxCiphers
    BY DEF BridgeInv, BridgeTypeOK
  <2>2. ASSUME NEW x \in Device, encrypt(x) PROVE wire' # wire
    <3>1. sending[x] # 0 /\ seal(sending[x], FALSE)
      BY Zenon, <2>2 DEF encrypt
    <3>2. sending[x] \in 1..MaxCiphers
      BY SMTT(30), <3>1 DEF BridgeInv, BridgeTypeOK
    <3> QED BY Zenon, <3>1, <3>2, SealsNew
  <2>3. ASSUME NEW x \in Device, outbound_routed(x) PROVE wire' # wire
    <3>1. bridge[x] # 0 /\ seal(bridge[x], TRUE)
      BY Zenon, <2>3 DEF outbound_routed
    <3>2. bridge[x] \in 1..MaxCiphers
      BY SMTT(30), <3>1 DEF BridgeInv, BridgeTypeOK
    <3> QED BY Zenon, <3>1, <3>2, SealsNew
  <2>4. ASSUME NEW x \in Device, synchronize(x) PROVE FALSE
    <3>2. CASE Keeps(x) /\ ciphers' = [ciphers EXCEPT ![bridge[x]] = update_peers(@, view[x].peers)]
      BY Zenon, <2>1, CipherFields, <3>2 DEF update_peers, CipherType, BridgeInv, BridgeTypeOK
    <3>3. ASSUME NEW v, ciphers' = [ciphers EXCEPT ![built + 1] = v] PROVE FALSE
      BY <2>1, <3>3 DEF BridgeInv, BridgeTypeOK
    <3> QED BY Zenon, <3>2, <3>3, <2>4 DEF synchronize
  <2>5. ASSUME NEW i \in inbound, decrypt(i) PROVE FALSE
    <3>2. ASSUME NEW t, ciphers' = [ciphers EXCEPT ![i.cipher].peers[i.packet.from] = t] PROVE FALSE
      BY Zenon, <2>1, CipherFields, <3>2 DEF CipherType, BridgeInv, BridgeTypeOK
    <3> QED BY Zenon, <3>2, <2>5 DEF decrypt
  <2> QED BY Zenon, <2>2, <2>3, <2>4, <2>5 DEF BridgeNext, advance_key_epoch, connect, disconnect,
       apply_peer_state, apply_network_key, peer_state, fetch_peer_state, lapse, clear, outbound,
       inbound_take, inject
<1> QED BY <1>1, BridgeCorrect, PTL DEF BridgeSpec, NonceUsedOnce

-----------------------------------------------------------------------------
(* Sessions a bridge knows its peers by.                                   *)

\* The session cipher c knows device d by, and the one the client of x was told.
Knows(c, d) == ciphers[c].peers[d].session
Shown(x, d) == view[x].peers[d]

\* A session s of d that was told to somebody is not newer than what d has now ...
Told(d, s) == s # 0 => s <= minted /\ (session[d] # 0 => s <= session[d])
\* ... and one a cipher of x knew is not newer than what x was told since.
Known(x, d, s) == Told(d, s) /\ (s # 0 /\ Shown(x, d) # 0 => s <= Shown(x, d))

\* What call i of inbound relies on.  The session it copied is not newer than the one its
\* cipher knows; once it decrypted, its packet is of the epoch of its cipher, and of a
\* session between the two.
CallInv(i) ==
    /\ i.cipher <= built /\ ciphers[i.cipher].by = i.at
    /\ Known(i.at, i.packet.from, i.peer)
    /\ i.peer # 0 /\ Knows(i.cipher, i.packet.from) # 0 => i.peer <= Knows(i.cipher, i.packet.from)
    /\ i.plain =>
          /\ i.packet.epoch = ciphers[i.cipher].epoch /\ i.packet.session # 0
          /\ Known(i.at, i.packet.from, i.packet.session)
          /\ i.peer # 0 => i.peer <= i.packet.session
          /\ Knows(i.cipher, i.packet.from) # 0 => i.packet.session <= Knows(i.cipher, i.packet.from)

\* The bridge of a device has a cipher of its own, and sessions are told in their order.
SessionInv ==
    /\ \A d \in Device : session[d] <= minted
    /\ \A x, d \in Device : Told(d, Shown(x, d))
    /\ \A x \in Device : bridge[x] # 0 => ciphers[bridge[x]].by = x
    /\ \A c \in 1..built : \A d \in Device : Known(ciphers[c].by, d, Knows(c, d))
    /\ \A i \in inbound : CallInv(i)

\* The types the orders are stated over.
LEMMA SessionTypes ==
    ASSUME BridgeInv
    PROVE  /\ minted \in Nat /\ built \in Nat /\ built <= MaxCiphers
           /\ \A d \in Device : session[d] \in Nat
           /\ \A x, d \in Device : Shown(x, d) \in Nat
           /\ \A c \in 1..MaxCiphers : /\ ciphers[c].by \in Device
                                      /\ \A d \in Device : Knows(c, d) \in Nat
           /\ \A i \in inbound : /\ i.at \in Device /\ i.packet.from \in Device /\ i.peer \in Nat
                                /\ i.packet.session \in Nat /\ i.cipher \in 1..MaxCiphers
                                /\ i \in CallType /\ i.packet \in PacketType
           /\ \A x \in Device : bridge[x] \in Nat /\ bridge[x] <= built /\ (bridge[x] # 0 => bridge[x] \in 1..built)
<1>3. \A c \in 1..MaxCiphers : ciphers[c].by \in Device /\ \A d \in Device : Knows(c, d) \in Nat
  <2> SUFFICES ASSUME NEW c \in 1..MaxCiphers PROVE ciphers[c].by \in Device /\ \A d \in Device : Knows(c, d) \in 0..MaxSessions
    BY SMTT(30)
  <2> QED BY Zenon, CipherFields DEF Knows
<1>4. ASSUME NEW i \in inbound
      PROVE  /\ i.at \in Device /\ i.packet.from \in Device /\ i.peer \in Nat
             /\ i.packet.session \in Nat /\ i.cipher \in 1..MaxCiphers
             /\ i \in CallType /\ i.packet \in PacketType
  BY SMTT(30) DEF BridgeInv, BridgeTypeOK, CallType, PacketType
<1> QED BY SMTT(30), <1>3, <1>4 DEF BridgeInv, BridgeTypeOK, WireInv, ViewType, Shown

\* A step that tells nobody a session: ciphers keep what they know.
LEMMA NobodyTold ==
    ASSUME BridgeInv, SessionInv, UNCHANGED <<session, minted, built>>,
           \A x, d \in Device : Shown(x, d)' = Shown(x, d),
           \A c \in 1..built : /\ ciphers'[c].by = ciphers[c].by /\ ciphers'[c].epoch = ciphers[c].epoch
                              /\ \A d \in Device : Knows(c, d)' = Knows(c, d),
           \A x \in Device : bridge'[x] \in {bridge[x], 0},
           \A i \in inbound' : i \in inbound \/ CallInv(i)'
    PROVE  SessionInv'
<1>1. \A s : \A x, d \in Device : Known(x, d, s)' <=> Known(x, d, s)
  BY Zenon DEF Known, Told
<1>4. ASSUME NEW c \in 1..built', NEW d \in Device PROVE Known(ciphers[c].by, d, Knows(c, d))'
  BY SMTT(30), SessionTypes, <1>1 DEF SessionInv
<1>5. ASSUME NEW i \in inbound PROVE CallInv(i)'
  BY SMTT(30), SessionTypes, <1>1 DEF SessionInv, CallInv
<1> QED BY SMTT(30), <1>4, <1>5, SessionTypes DEF SessionInv, Told

\* A step of a client: a new session is newer than all, and a client is told the present ones.
LEMMA ClientTold ==
    ASSUME BridgeInv, SessionInv, UNCHANGED <<bridge, ciphers, built, inbound>>,
           minted' \in Nat, minted <= minted',
           \A d \in Device : session'[d] \in {session[d], 0, minted'},
           \A x, d \in Device : Shown(x, d)' \in {Shown(x, d), 0, session[d]}
    PROVE  SessionInv'
<1>1. minted \in Nat /\ \A d \in Device : session[d] \in Nat /\ session[d] <= minted
  BY Zenon, SessionTypes DEF SessionInv
<1>2. \A x, d \in Device : Shown(x, d) \in Nat
  BY Zenon, SessionTypes
<1>3. ASSUME NEW d \in Device, NEW s \in Nat, Told(d, s) PROVE Told(d, s)'
  BY SMTT(30), <1>1, <1>3 DEF Told
<1>4. ASSUME NEW x \in Device, NEW d \in Device, NEW s \in Nat, Known(x, d, s) PROVE Known(x, d, s)'
  BY Zenon, <1>1, <1>2, <1>3, <1>4 DEF Known, Told
<1>5. ASSUME NEW x \in Device, NEW d \in Device PROVE Told(d, Shown(x, d))'
  BY SMTT(30), <1>1, <1>2 DEF SessionInv, Told
<1>7. ASSUME NEW c \in 1..built', NEW d \in Device PROVE Known(ciphers[c].by, d, Knows(c, d))'
  BY SMTT(30), SessionTypes, <1>4 DEF Knows, SessionInv
<1>8. ASSUME NEW i \in inbound' PROVE CallInv(i)'
  BY Zenon, SessionTypes, <1>4 DEF SessionInv, Knows, CallInv
<1> QED BY SMTT(30), <1>5, <1>7, <1>8, <1>1 DEF SessionInv

\* The steps of the relay and of the caches.
LEMMA CacheTold ==
    ASSUME BridgeInv, SessionInv, NEW x \in Device,
           \/ connect(x) \/ disconnect(x) \/ apply_peer_state(x) \/ apply_network_key(x)
           \/ peer_state(x) \/ fetch_peer_state(x) \/ lapse(x)
    PROVE  SessionInv'
<1>0. /\ session \in [Device -> 0..MaxSessions] /\ minted \in Nat /\ view \in [Device -> ViewType]
      /\ UNCHANGED <<bridge, ciphers, built, inbound>>
  <2>2. UNCHANGED <<bridge, ciphers, built, packets>>
    BY Zenon DEF connect, disconnect, apply_peer_state, apply_network_key, peer_state, fetch_peer_state, lapse
  <2> QED BY SMTT(30), <2>2 DEF packets, BridgeInv, BridgeTypeOK
<1>1. CASE connect(x)
  BY SMTT(30), <1>1, <1>0, ClientTold DEF connect, Shown
<1>2. CASE disconnect(x)
  BY SMTT(30), <1>2, <1>0, ClientTold DEF disconnect, NoView, NoPeers, Shown
<1>3. CASE apply_peer_state(x)
  <2>1. minted' = minted /\ session' = session
    BY Zenon, <1>3 DEF apply_peer_state
  <2>2. PICK e, k, a, l : view' = [view EXCEPT ![x] = [epoch |-> e, peers |-> PeersOf(x), key |-> k, asked |-> a, lease |-> l]]
    BY <1>3, Zenon DEF apply_peer_state
  <2>5. \A y, d \in Device : Shown(y, d)' \in {Shown(y, d), 0, session[d]}
    BY Zenon, <1>0, <2>2 DEF Shown, PeersOf
  <2> QED BY SMTT(30), <1>0, <2>5, ClientTold, <2>1
<1>4. CASE apply_network_key(x) \/ peer_state(x) \/ fetch_peer_state(x) \/ lapse(x)
  <2>2. \A y \in Device : view'[y].peers = view[y].peers
    <3>1. CASE apply_network_key(x)
      BY <1>0, <3>1 DEF apply_network_key, ViewType
    <3>2. CASE peer_state(x)
      BY <1>0, <3>2 DEF peer_state, ViewType
    <3>3. CASE fetch_peer_state(x)
      BY Zenon, <1>0, <3>3 DEF fetch_peer_state, ViewType
    <3>4. CASE lapse(x)
      BY Zenon, <1>0, <3>4 DEF lapse, ViewType
    <3> QED BY Zenon, <1>4, <3>1, <3>2, <3>3, <3>4
  <2>4. minted' \in Nat /\ minted <= minted' /\ \A d \in Device : session'[d] \in {session[d], 0, minted'}
    BY SMTT(30), <1>0, <1>4 DEF apply_network_key, peer_state, fetch_peer_state, lapse
  <2> QED BY Zenon, <1>0, <2>4, ClientTold, <2>2 DEF Shown
<1> QED BY Zenon, <1>1, <1>2, <1>3, <1>4

\* synchronize gives the cipher of the bridge the sessions its client was told last.
LEMMA SynchronizeTold ==
    ASSUME BridgeInv, SessionInv, NEW x \in Device, synchronize(x)
    PROVE  SessionInv'
<1>0. /\ view[x].peers \in [Device -> 0..MaxSessions] /\ view[x].epoch \in 0..MaxEpoch
      /\ ciphers \in [1..MaxCiphers -> CipherType] /\ bridge \in [Device -> 0..MaxCiphers] /\ built \in Nat
      /\ session[x] \in 0..MaxSessions
  <2>1. /\ ciphers \in [1..MaxCiphers -> CipherType] /\ bridge \in [Device -> 0..MaxCiphers] /\ built \in Nat
        /\ session[x] \in 0..MaxSessions /\ view[x] \in ViewType
    BY SMTT(30) DEF BridgeInv, BridgeTypeOK
  <2> QED BY Zenon, <2>1 DEF ViewType
<1>1. UNCHANGED <<session, minted, view, inbound>>
  BY Zenon DEF synchronize, client, packets
<1>2. \A y, d \in Device : Shown(y, d)' = Shown(y, d)
  BY Zenon, <1>1 DEF Shown
<1>3. CASE bridge' = [bridge EXCEPT ![x] = 0] /\ UNCHANGED <<ciphers, built>>
  BY Zenon, <1>0, <1>3, <1>1, <1>2, NobodyTold DEF Knows
<1>4. \A d \in Device : Known(x, d, Shown(x, d))
  BY SMTT(30), SessionTypes DEF SessionInv, Known
<1>5. \A s : \A y, d \in Device : Known(y, d, s)' <=> Known(y, d, s)
  BY Zenon, <1>1, <1>2 DEF Known, Told
<1>6. CASE /\ Keeps(x) /\ UNCHANGED <<bridge, built>>
           /\ ciphers' = [ciphers EXCEPT ![bridge[x]] = update_peers(@, view[x].peers)]
  <2>0. PICK b : b = bridge[x]
    BY Zenon
  <2> DEFINE f == [d \in Device |-> IF ciphers[b].peers[d].session = view[x].peers[d] THEN ciphers[b].peers[d]
                                   ELSE NewReceiver(view[x].peers[d])]
  <2>1. b \in 1..built /\ b \in 1..MaxCiphers /\ ciphers[b].by = x
    BY <1>6, <2>0, SessionTypes DEF Keeps, SessionInv
  <2>2. \A d \in Device : f[d].session = view[x].peers[d]
    BY Zenon DEF NewReceiver
  <2>3. ciphers' = [ciphers EXCEPT ![b] = [ciphers[b] EXCEPT !.peers = f]]
    BY Zenon, <1>0, <1>6, <2>0, <2>1 DEF update_peers
  <2> HIDE DEF f
  <2>4. /\ \A c \in 1..MaxCiphers : ciphers'[c].by = ciphers[c].by /\ ciphers'[c].epoch = ciphers[c].epoch
        /\ ciphers'[b].peers = f
        /\ \A c \in 1..MaxCiphers : c # b => ciphers'[c] = ciphers[c]
    BY Zenon, <1>0, <2>1, <2>3 DEF CipherType
  <2>5. \A d \in Device : Knows(b, d)' = Shown(x, d)
    BY Zenon, <2>2, <2>4 DEF Knows, Shown
  <2>6. \A c \in 1..MaxCiphers, d \in Device : c # b => Knows(c, d)' = Knows(c, d)
    BY Zenon, <2>4 DEF Knows
  <2>7. built' = built /\ \A y \in Device : bridge'[y] # 0 => ciphers'[bridge'[y]].by = y
    BY SMTT(30), <1>0, <1>6, <2>4 DEF SessionInv
  <2>8. ASSUME NEW c \in 1..built, NEW d \in Device PROVE Known(ciphers[c].by, d, Knows(c, d))'
    BY SMTT(30), <2>4, SessionTypes, <1>4, <1>5, <2>1, <2>5, <2>6 DEF SessionInv
  <2>9. ASSUME NEW i \in inbound PROVE CallInv(i)'
    <3>1. /\ CallInv(i) /\ i.at \in Device /\ i.packet.from \in Device /\ i.cipher \in 1..MaxCiphers
          /\ i.peer \in Nat /\ i.packet.session \in Nat
      BY Zenon, SessionTypes DEF SessionInv
    <3>2. /\ ciphers'[i.cipher].by = ciphers[i.cipher].by /\ ciphers'[i.cipher].epoch = ciphers[i.cipher].epoch
          /\ \A s : Known(i.at, i.packet.from, s)' <=> Known(i.at, i.packet.from, s)
      BY Zenon, <1>5, <2>4, <3>1
    <3>3. CASE i.cipher # b
      BY Zenon, <2>6, <2>7, <3>1, <3>2, <3>3 DEF CallInv
    <3>4. CASE i.cipher = b
      BY Zenon, <2>1, <2>5, <3>1, <3>4, <2>7, <3>2 DEF CallInv, Known
    <3> QED BY Zenon, <3>3, <3>4
  <2> QED BY SMTT(30), <1>1, <2>7, <2>8, <2>9, <1>2 DEF SessionInv, Told
<1>7. CASE /\ built < MaxCiphers /\ built' = built + 1 /\ bridge' = [bridge EXCEPT ![x] = built']
           /\ ciphers' = [ciphers EXCEPT ![built'] = NewCipher(x, view[x].epoch, session[x], view[x].peers)]
  <2>0. PICK b : b = built + 1
    BY Zenon
  <2> DEFINE v == NewCipher(x, view[x].epoch, session[x], view[x].peers)
  <2>1. b \in 1..MaxCiphers /\ b \notin 1..built /\ \A c \in 1..b : c = b \/ c \in 1..built
    BY SMTT(30), <1>0, <1>7, <2>0
  <2>2. v.by = x /\ \A d \in Device : v.peers[d].session = view[x].peers[d]
    BY Zenon DEF NewCipher, NewReceiver
  <2>3. ciphers' = [ciphers EXCEPT ![b] = v] /\ bridge' = [bridge EXCEPT ![x] = b]
    BY Zenon, <1>7, <2>0
  <2> HIDE DEF v
  <2>4. ciphers'[b] = v /\ \A c \in 1..MaxCiphers : c # b => ciphers'[c] = ciphers[c]
    BY Zenon, <1>0, <2>1, <2>3
  <2>5. \A d \in Device : Knows(b, d)' = Shown(x, d)
    BY Zenon, <2>2, <2>4 DEF Knows, Shown
  <2>6. \A c \in 1..built, d \in Device : Knows(c, d)' = Knows(c, d) /\ c \in 1..MaxCiphers /\ ciphers'[c] = ciphers[c]
    <3>2. \A c \in 1..built : c \in 1..MaxCiphers /\ c # b
      BY SMTT(30), <2>1, <1>0, <1>7
    <3> QED BY Zenon, <2>4, <3>2 DEF Knows
  <2>7. \A y \in Device : bridge'[y] # 0 => ciphers'[bridge'[y]].by = y
    <3> SUFFICES ASSUME NEW y \in Device, bridge'[y] # 0 PROVE ciphers'[bridge'[y]].by = y
      BY Zenon
    <3>1. CASE y = x
      BY Zenon, <1>0, <2>2, <2>3, <2>4, <3>1
    <3>2. CASE y # x
      BY Zenon, <1>0, <2>3, <3>2, SessionTypes, <2>6 DEF SessionInv
    <3> QED BY Zenon, <3>1, <3>2
  <2>8. ASSUME NEW c \in 1..built', NEW d \in Device PROVE Known(ciphers[c].by, d, Knows(c, d))'
    BY SMTT(30), <1>7, <2>0, <2>1, <2>2, <2>4, <2>5, <1>4, <1>5, <2>6, SessionTypes DEF SessionInv
  <2>9. ASSUME NEW i \in inbound PROVE CallInv(i)'
    BY SMTT(30), <1>7, SessionTypes, <2>6, <1>5 DEF SessionInv, CallInv
  <2> QED BY SMTT(30), <1>1, <2>7, <2>8, <2>9, <1>2 DEF SessionInv, Told
<1> QED BY Zenon, <1>3, <1>6, <1>7 DEF synchronize

\* The other steps of the bridge tell no cipher a session; a call copies what its cipher
\* knows, and decrypts with what its cipher knows then.
LEMMA PacketsTold ==
    ASSUME BridgeInv, SessionInv,
           \/ advance_key_epoch
           \/ \E x \in Device : \/ clear(x) \/ outbound(x) \/ encrypt(x) \/ outbound_routed(x)
                               \/ \E p \in wire : inbound_take(x, p)
           \/ \E i \in inbound : decrypt(i) \/ inject(i)
           \/ UNCHANGED bvars
    PROVE  SessionInv'
<1>0. /\ ciphers \in [1..MaxCiphers -> CipherType] /\ bridge \in [Device -> 0..MaxCiphers]
      /\ sending \in [Device -> 0..MaxCiphers] /\ built \in Nat /\ built <= MaxCiphers
  BY DEF BridgeInv, BridgeTypeOK
<1>1. UNCHANGED <<session, minted, view, built>>
  BY Zenon DEF advance_key_epoch, clear, outbound, encrypt, outbound_routed, inbound_take, decrypt, inject, bvars, client
<1>2. \A y, d \in Device : Shown(y, d)' = Shown(y, d)
  BY Zenon, <1>1 DEF Shown
<1>3. \A y \in Device : bridge'[y] \in {bridge[y], 0}
  BY Zenon, <1>0 DEF advance_key_epoch, clear, outbound, encrypt, outbound_routed, inbound_take,
     decrypt, inject, bvars, client
<1> DEFINE Same == \A c \in 1..built : /\ ciphers'[c].by = ciphers[c].by /\ ciphers'[c].epoch = ciphers[c].epoch
                                      /\ \A d \in Device : Knows(c, d)' = Knows(c, d)
<1>4. ciphers' = ciphers => Same
  BY Zenon DEF Knows
<1>5. ASSUME NEW k \in 1..MaxCiphers, NEW routed, seal(k, routed) PROVE Same
  <2>2. ASSUME ciphers' = [ciphers EXCEPT ![k].next = @ + 1], NEW c \in 1..MaxCiphers
        PROVE  ciphers'[c].by = ciphers[c].by /\ ciphers'[c].epoch = ciphers[c].epoch /\ ciphers'[c].peers = ciphers[c].peers
    BY Zenon, <1>0, <2>2 DEF CipherType
  <2>3. \A c \in 1..built : c \in 1..MaxCiphers
    BY <1>0
  <2> QED BY Zenon, <1>4, <2>2, <2>3, <1>5 DEF Knows, seal
<1>6. CASE inbound' \subseteq inbound /\ ciphers' = ciphers
  BY Zenon, <1>1, <1>2, <1>3, <1>4, <1>6, NobodyTold
<1>7. ASSUME NEW x \in Device, encrypt(x) \/ outbound_routed(x) PROVE SessionInv'
  <2>1. \E k \in 1..MaxCiphers : \E routed : seal(k, routed)
    <3>1. CASE encrypt(x)
      <4>1. sending[x] # 0 /\ seal(sending[x], FALSE)
        BY Zenon, <3>1 DEF encrypt
      <4>2. sending[x] \in 1..MaxCiphers
        BY <1>0, <4>1
      <4> QED BY Zenon, <4>1, <4>2
    <3>2. CASE outbound_routed(x)
      <4>1. bridge[x] # 0 /\ seal(bridge[x], TRUE)
        BY Zenon, <3>2 DEF outbound_routed
      <4>2. bridge[x] \in 1..MaxCiphers
        BY <1>0, <4>1
      <4> QED BY Zenon, <4>1, <4>2
    <3> QED BY Zenon, <1>7, <3>1, <3>2
  <2> HIDE DEF Same
  <2> QED BY Zenon, <1>1, <1>2, <1>3, NobodyTold, <1>7, <1>5, <2>1 DEF Same, encrypt,
       outbound_routed
<1>8. ASSUME NEW x \in Device, NEW p \in wire, inbound_take(x, p) PROVE SessionInv'
  <2>1. PICK b, s : b = bridge[x] /\ s = ciphers[b].peers[p.from].session
    BY Zenon
  <2> DEFINE i == [at |-> x, packet |-> p, cipher |-> b, plain |-> FALSE, peer |-> s]
  <2>2. inbound' = inbound \cup {i} /\ ciphers' = ciphers /\ b # 0
    BY Zenon, <1>8, <2>1 DEF inbound_take
  <2>3. b \in 1..built /\ b \in 1..MaxCiphers /\ ciphers[b].by = x /\ p.from \in Device /\ b <= built
    <3>1. p \in PacketType
      BY Zenon DEF BridgeInv, BridgeTypeOK
    <3>2. b \in 1..built /\ ciphers[b].by = x
      BY Zenon, <2>1, <2>2, SessionTypes DEF SessionInv
    <3> QED BY <1>0, <3>1, <3>2 DEF PacketType
  <2>4. s = Knows(b, p.from) /\ s \in Nat /\ Known(x, p.from, s)
    BY Zenon, <2>1, <2>3, SessionTypes DEF Knows, SessionInv
  <2>5. i.at = x /\ i.packet = p /\ i.cipher = b /\ i.peer = s /\ ~i.plain
    BY Zenon
  <2> HIDE DEF i
  <2>6. CallInv(i)
    BY <2>3, <2>4, <2>5 DEF CallInv
  <2>7. CallInv(i)'
    BY Zenon, <1>1, <1>2, <2>2, <2>3, <2>4, <2>5, <2>6 DEF CallInv, Known, Told, Knows
  <2> HIDE DEF Same
  <2> QED BY Zenon, <1>1, <1>2, <1>3, NobodyTold, <1>4, <2>2, <2>7 DEF Same
<1>9. ASSUME NEW i \in inbound, decrypt(i) PROVE SessionInv'
  <2> DEFINE p == i.packet
             r == ciphers[i.cipher].peers[p.from]
             j == [i EXCEPT !.plain = TRUE]
  <2>1. /\ i \in CallType /\ p \in PacketType /\ p.from \in Device /\ i.cipher \in 1..MaxCiphers /\ CallInv(i)
        /\ i.at \in Device /\ p.session \in Nat
    BY Zenon, SessionTypes DEF SessionInv
  <2>2. CASE ~Opens(i)
    BY Zenon, <1>9, <2>2, <1>6 DEF decrypt
  <2>3. CASE Opens(i)
    <3>1. /\ ciphers' = [ciphers EXCEPT ![i.cipher].peers[p.from] = opened(r, p)]
          /\ inbound' = (inbound \ {i}) \cup {j}
      BY Zenon, <1>9, <2>3 DEF decrypt
    <3>2. p.epoch = ciphers[i.cipher].epoch /\ p.session # 0 /\ p.session = Knows(i.cipher, p.from)
      BY Zenon, <2>3 DEF Opens, Knows
    <3>3. opened(r, p).session = r.session
      BY Zenon DEF opened
    <3> DEFINE t == opened(r, p)
               v == [ciphers[i.cipher] EXCEPT !.peers[p.from] = t]
    <3>4. ciphers' = [ciphers EXCEPT ![i.cipher] = v]
      BY Zenon, <3>1
    <3> HIDE DEF t
    <3>5. /\ v.peers = [ciphers[i.cipher].peers EXCEPT ![p.from] = t]
          /\ v.by = ciphers[i.cipher].by /\ v.epoch = ciphers[i.cipher].epoch
      BY <1>0, <2>1 DEF CipherType
    <3> HIDE DEF v
    <3>7. \A d \in Device : v.peers[d].session = ciphers[i.cipher].peers[d].session
      BY Zenon, <2>1, <3>3, <3>5, <1>0 DEF t, CipherType
    <3>9. \A c \in 1..MaxCiphers : /\ ciphers'[c].by = ciphers[c].by /\ ciphers'[c].epoch = ciphers[c].epoch
                                  /\ \A d \in Device : Knows(c, d)' = Knows(c, d)
      BY Zenon, <3>5, <3>7, <1>0, <2>1, <3>4 DEF Knows
    <3>10. Same
      <4>1. \A c \in 1..built : c \in 1..MaxCiphers
        BY <1>0
      <4> QED BY Zenon, <3>9, <4>1
    <3>11. j.at = i.at /\ j.packet = p /\ j.cipher = i.cipher /\ j.peer = i.peer
      BY Zenon, <2>1 DEF CallType
    <3>12. j.plain = TRUE
      BY Zenon, <2>1 DEF CallType
    <3> HIDE DEF j, p, r
    <3>14. \A s : Known(i.at, p.from, s)' <=> Known(i.at, p.from, s)
      BY Zenon, <1>1, <1>2, <2>1 DEF Known, Told
    <3>15. Known(i.at, p.from, p.session)
      <4>1. i.cipher \in 1..built /\ ciphers[i.cipher].by = i.at
        BY <1>0, <2>1 DEF CallInv
      <4> QED BY Zenon, <2>1, <3>2, <4>1 DEF SessionInv
    <3>16. /\ i.peer # 0 => i.peer <= p.session
           /\ Known(i.at, p.from, i.peer) /\ i.cipher <= built /\ ciphers[i.cipher].by = i.at
      BY Zenon, <2>1, <3>2 DEF CallInv, p
    <3>17. p.session <= p.session
      BY <2>1
    <3>18. CallInv(j)'
      BY Zenon, <1>1, <3>2, <3>11, <3>14, <3>15, <3>16, <3>17, <2>1, <3>9 DEF CallInv
    <3> HIDE DEF Same
    <3> QED BY Zenon, <1>1, <1>2, <1>3, <3>10, NobodyTold, <3>1, <3>18 DEF Same
  <2> QED BY Zenon, <2>2, <2>3
<1>10. ASSUME NEW i \in inbound, inject(i) PROVE SessionInv'
  BY Zenon, <1>10, <1>6 DEF inject
<1>11. CASE advance_key_epoch \/ UNCHANGED bvars \/ \E x \in Device : clear(x) \/ outbound(x)
  BY Zenon, <1>11, <1>6 DEF advance_key_epoch, clear, outbound, bvars, packets
<1> QED BY Zenon, <1>7, <1>8, <1>9, <1>10, <1>11

\* Sessions are told in their order, whatever the steps.
LEMMA SessionStep == BridgeInv /\ SessionInv /\ [BridgeNext]_bvars => SessionInv'
BY Zenon, CacheTold, SynchronizeTold, PacketsTold DEF BridgeNext

LEMMA SessionStart == BridgeInit => SessionInv
<1> SUFFICES ASSUME BridgeInit PROVE SessionInv
  BY Zenon
<1> QED BY SMTT(30) DEF SessionInv, Told, Shown, BridgeInit, NoView, NoPeers

\* inject: for any number of devices, sessions and threads, and whatever synchronize did
\* between the decryption and the injection, a packet is injected only at its epoch and,
\* unless a gateway handles it, not for a sender known by another session.
THEOREM InjectionsAreCurrent == BridgeSpec => InjectedWhileCurrent
<1>1. ASSUME BridgeInv, SessionInv, [BridgeNext]_bvars, NEW x \in Device PROVE InjectsCurrent(x)
  <2> SUFFICES ASSUME NEW p \in injected'[x] \ injected[x]
               PROVE  /\ bridge[x] # 0
                      /\ ciphers[bridge[x]].epoch = p.epoch
                      /\ ~p.routed => ciphers[bridge[x]].peers[p.from].session \in {p.session, 0}
    BY Zenon DEF InjectsCurrent
  <2>1. injected' # injected
    BY Zenon
  <2>2. PICK i \in inbound : inject(i)
    BY Zenon, <1>1, <2>1 DEF BridgeNext, advance_key_epoch, connect, disconnect, apply_peer_state, apply_network_key,
           peer_state, fetch_peer_state, lapse, synchronize, clear, outbound, encrypt, outbound_routed,
           inbound_take, decrypt, packets, bvars
  <2>3. /\ i.plain /\ (IF i.packet.routed THEN current_routed(i) ELSE current(i))
        /\ injected' = [injected EXCEPT ![i.at] = @ \cup {i.packet}]
    BY Zenon, <2>1, <2>2 DEF inject
  <2>4. p = i.packet /\ x = i.at
    BY Zenon, <1>1, <2>3 DEF BridgeInv, BridgeTypeOK
  <2>5. /\ CallInv(i) /\ i.cipher \in 1..MaxCiphers /\ i.peer \in Nat /\ i.packet.session \in Nat
        /\ i.packet.from \in Device
    BY Zenon, <1>1, SessionTypes DEF SessionInv
  <2>6. CASE i.packet.routed
    BY Zenon, <2>3, <2>4, <2>6 DEF current_routed
  <2>7. CASE ~i.packet.routed
    <3>1. bridge[x] = i.cipher /\ Knows(i.cipher, p.from) = i.peer
      BY Zenon, <2>3, <2>4, <2>7 DEF current, Knows
    <3>2. /\ p.epoch = ciphers[i.cipher].epoch /\ (i.peer # 0 => i.peer <= p.session)
          /\ Knows(i.cipher, p.from) # 0 => p.session <= Knows(i.cipher, p.from)
      BY Zenon, <2>3, <2>4, <2>5 DEF CallInv
    <3>3. i.peer = 0 \/ i.peer = p.session
      BY <2>4, <2>5, <3>1, <3>2
    <3> QED BY SMTT(30), <2>5, <3>1, <3>2, <3>3 DEF Knows
  <2> QED BY Zenon, <2>6, <2>7
<1>2. BridgeInv /\ SessionInv /\ [BridgeNext]_bvars => [\A x \in Device : InjectsCurrent(x)]_bvars
  BY Zenon, <1>1
<1> QED BY <1>2, SessionStart, SessionStep, BridgeCorrect, PTL DEF BridgeSpec, InjectedWhileCurrent
=============================================================================
