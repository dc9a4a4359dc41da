# LanLink verification

TLA+ models of the LanLink relay and client, the TLC configurations that check them on small
instances, and theorems about them that TLAPS proves for every instance. The reference is the
code under `src/` (in this repository's layout `src/src`, `src/include`, `src/apps`); documents
are only quoted where they disagree with it.

## The system

LanLink joins devices into virtual LANs. A *relay* keeps the durable state and forwards what
devices cannot send each other directly; a *client* on each device holds a control stream to a
relay, caches what the relay tells it, and moves packets between a virtual adapter, direct QUIC
paths and the relay.

A control stream authenticates a device (`note_authenticated`); the service publishes the
session's encryption key and tells every member of the device's networks. A request passes the
control channel, which checks that the device is not revoked, and runs as a handler under the
service's mutex; a handler runs one or more database transactions, advances the network's key
epoch and revision, and returns *changes* that the transport sends later under another mutex. The
owner's client makes a packet key for each epoch and publishes it, sealed for each peer's session
key. Clients encrypt packets with it and send them over a direct path or through the relay, which
limits their rate and fans out broadcasts.

| Part | Code | Modules |
|---|---|---|
| Database: networks, memberships, addresses, invitations, links, policies; accounts | `storage/relay_store.cpp` | `RelayStore`, `AccountStore` |
| Opening and migration of the database | `storage/relay_store.cpp` | `SchemaMigration` |
| Audit log | `relay/network_service.cpp`, `storage/relay_store.cpp` | `AuditLog` |
| Network service and control channel | `relay/network_service.cpp`, `relay/network_control_channel.cpp` | `NetworkService` |
| Fan-out of packets under a policy | `relay/network_service.cpp`, `protocol/network_policy.cpp` | `PacketRouting` |
| Rate limits of forwarding | `relay/forwarding_quota.cpp` | `ForwardingQuota` |
| Relay's control streams over QUIC and TCP | `transport/quic.cpp`, `transport/tls.cpp` | `ControlStreams`, `TlsChannel`, `SendBudget` |
| Client's connection: attempts, requests, back-off, stop | `transport/quic.cpp`, `transport/reconnect.cpp` | `RelayClient` |
| Client's queue of events | `transport/quic.cpp` | `EventQueue` (extends `SendBudget`) |
| Choice of a relay | `transport/relay_pool.cpp`, `relay_probe.cpp`, `quic.cpp` | `RelayPool` |
| Policy leases of a client | `transport/quic.cpp` | `PolicyLease` |
| Network keys end to end | `network_service.cpp`, `quic.cpp`, `auth/network_keys.cpp` | `KeyDistribution` |
| Packet encryption, replay window, bridge to the adapter | `auth/packet_crypto.cpp`, `transport/packet_bridge.cpp`, `network/virtual_network.cpp` | `PacketBridge` |
| Direct paths | `session/peer_packet_path.cpp`, `p2p/direct_quic.cpp`, `p2p/punch.cpp` | `PeerPaths` |
| Frames of a stream | `protocol/stream_decoder.cpp`, `protocol/codec.cpp` | `StreamDecoder`, `FrameQueue`, `FrameDelivery` |
| Payloads of frames | `protocol/*.cpp`, `auth/handshake.cpp`, `p2p/candidates.cpp` | `WireFormats` |
| Key file of a device | `auth/identity.cpp`, `auth/secret_store.cpp` | `DeviceIdentity` |
| Control socket of the service (POSIX) | `transport/posix_control.cpp` | `ControlSocket` |
| Client service | `apps/service/client_runtime.cpp`, `windows_service.cpp`, `posix_main.cpp` | `ClientService` |
| Log | `core/logger.cpp` | `Logger` |

`PROJECT.json` lists every part (`components`), the lines each definition stands for (`map`) and
what is hard to test in them (`hazards`). The modules `...Proofs` hold the theorems, those
about small modules together; the modules `MC...` give instances to TLC.

## The modules

Definitions that model code carry the code's names, in lower case; properties are in camel case. A
definition whose comment starts with "Mutation of" is not part of a model: it is a wrong variant
of the definition after it, kept to show that the properties notice it.

**RelayStore, AccountStore.** The database is one record. A public method is an operator from a
database to the one its transaction commits (`add_member(s, n, d)`), with the conditions under
which it commits beside it (`CanAddMember`). SQL triggers, foreign keys and cascades are part of
the operator that fires them. A method that returns false or throws rolls back and is not a step.
Expiry of links is a step of the clock.

**NetworkService** uses those operators in its handlers and adds what the service keeps in memory.
A handler is one action because it holds the service's mutex; what happens outside is a step of its
own: `admit` (the revocation check of the control channel), the two critical sections of
`note_authenticated`, and crashes: `restart` between handlers, `crash_in_revoke` and
`crash_in_redeem` between two transactions of one. A device whose request was refused is still in
`admitted`, which stands for its next request.

**SchemaMigration** has a transaction per version and any number of processes that open the
database. The version is read once, outside the transactions, so a process can work from a stale
one; it then fails cleanly on a table that exists. **AuditLog** keeps the rows, the table of recent
refusals and both clocks. The limit over all networks lets busy networks evict the rows of a quiet
one; `AuditIsKept` says what is kept in spite of that, and what a reader is shown of it: `audit_events`
returns the newest 64 rows of a network, fewer than the log may hold.

**KeyDistribution** is one unmanaged network end to end. The frames a change produces are a *batch*
until the thread that computed them takes the mutex of the control streams; batches of different
threads overtake each other, those of one connection do not. Streams are FIFO and lose what is
under way when they close. Its devices use one transport, so a second stream of a device is refused;
that a QUIC stream takes the place of a TCP stream, and the race in it, is in `ControlStreams`.

**PolicyLease** is the other half, a managed network: a pushed state is used only while an equal
answer to the client's own question renews its lease, counted from the moment of the question.

**PacketBridge** has ciphers with their sequence numbers, packets under way (duplicated and
reordered at will), and bridges whose inbound threads take a session, open a packet and inject it
in separate steps. A session that is rebuilt at the same key gets a new nonce prefix and an empty
window. **PacketRouting** is the relay's side of broadcasts: a replay window and token buckets per
session. **ForwardingQuota** is the map of token buckets with expiry and with clock readings that
arrive late.

**ControlStreams** gives each connection a position between admission and its end; every critical
section of its callbacks or thread is a step. `register`, `note_authenticated`, `unregister` and
`note_disconnected` are separate steps where the code gives up a mutex between them. **TlsChannel**
is the queue of one TCP connection with its budget (`SendBudget`). Frames reserve their bytes, and
a device whose stream has no room for an event loses it; `DataNeverCloses` says when packets cannot
be the reason. By default 64 KiB and 8 frames are kept for control. A larger event, which the peer
state of a full managed network can be, is outside that promise, and in the instance packets alone
do make such an event close a stream. A batch has one event for a device at most.

**RelayClient** has four kinds of thread: the worker in `run_loop`, MsQuic's callbacks, callers of
`request_control`, and a thread in `RelaySession::stop`. **RelayPool** has the probes of a scan with
their threads and timeouts; time passes while they run. **EventQueue** is what callbacks hand over
to the thread of the handlers.

**PeerPaths** is the exchange of candidates between two devices through the relay, the punch and the
direct connection, with late answers, losses, crossing offers and changes of sessions.

**StreamDecoder** is `push` step by step. `FrameQueue` says what a stream of frames promises,
whatever pieces its bytes come in, and `FrameDelivery` states that the decoder implements it under
a refinement mapping. When a piece ends in a malformed header `push` throws, and the frames it had
already decoded from that piece are dropped; `FrameQueue` says so.

**WireFormats** transcribes encoders and decoders separately, field by field, with their checks.
Widths are scaled: bytes are 0..31, identifiers are one byte, longer integers are two, limits are
small. The order of the bytes of an integer is abstracted. Two encoders do not carry all of what they
accept, and `OneEncoding` says so (`Carried`): a round-trip time that equals the value for "unknown"
comes back as unknown, and the approval flag is written only for the actions from `password_set` on.

**DeviceIdentity** distinguishes what is visible in the file system from what a power loss falls
back to. **ControlSocket** has a step per system call of any number of service instances.
**ClientService** is the service from start to end, with files that other programs replace.
**Logger** is the queue, the worker, rotation and the buffer of the stream.

## Runs

A run that names several parts checks unrelated modules together: a variable of the `MC` module,
fixed in the initial state, says which part a behaviour is about, and the state of the others
stays as it is.

| Run | Instance | Properties |
|---|---|---|
| `host` | store: 3 devices, 2 networks, 2 subnets of 2 hosts; or links and policies; or counters ending at 4. 2 relays migrating 3 members; 2 actors and 2 networks with 3 audit rows, 1 of them shown; 3 keys on each platform; 3 services; 3 log files of 2 records | `RowsBelong`, `UniqueAddresses`, `LeaseStable`, `OnlineOwnerMovesEpoch`, `MigratedWhole`, `AuditIsKept`, `IdentityKept`, `ServingIsReachable`, `NewestAreKept` |
| `service` | 3 devices; an account; or a full network with a link of 2 uses; or a managed network | `RevokedHasNoKey`, `PolicyNamesMembers`, `RedemptionJoins` |
| `key_distribution` | owner and peer, 3 sessions, a membership change, a restart, 2 batches | `KeyAgreement`, `DepartedNeverKnows`, `QuietIsConverged` |
| `bridge` | 2 devices, window of 2, numbers up to 3, 2 epochs, 3 ciphers, 2 inbound threads | `AtMostOnce`, `NonceUsedOnce`, `InjectedWhileCurrent` |
| `paths` | 2 devices, 2 contexts, inbox of 2, one trouble | `SettledIsMutual`, `DirectInTheEnd` |
| `forwarding` | quota: 2 devices, 1 entry, clock to 4; fan-out: 2 members, window of 2, 3 sessions; up to 3 frames; every kind of message with up to 2 damages | `SustainedRate`, `RefusalIsFree`, `FannedOutOnce`, `FanoutRate`, `DeliversFrames`, `OneEncoding` |
| `transport` | 2 QUIC and 1 TCP connections of a device, or connections of two devices that send each other packets; 2 admissions; a send queue of 3 frames and 3 bytes of which 2 and 2 are kept for control, with control frames of 1 and of 3 bytes; a channel with 3 senders; an event queue | `RegisteredIsOpen`, `QuietIsPublished`, `ShutIsReleased`, `DataNeverCloses`, `StoppedReleases`, `EventIsQueued` |
| `client` | 2 attempts, 2 relays, 1 caller, 8 request numbers; a lease of 2; 2 relays with 2 keys over 4 units of time | `ResponseIsOwn`, `NobodyWaitsInVain`, `BackoffExact`, `AuthorityIsFresh`, `ChoiceIsFresh` |
| `progress` | a connection without requests; owner and peer with 2 sessions; a service with 3 file replacements | `StopReturns`, `KeyArrives`, `StopIsHeeded` |

Each property's comment says what it means in the code. Three runs show a disagreement, and TLC's
counterexample is the point of each:

* `revoked_member`: `docs/user-accounts.md` says that a revocation removes the device's memberships.
  A request admitted before it, a join request approved after it, or a crash in the middle of it
  leave a revoked device a member.
* `streams_race`: a QUIC connection that registers between the registration and the publication
  of a TCP connection of the same device ends up registered without a published session, because
  the TCP path publishes after it gave up the mutex (`quic.cpp:611`).
* `relay_hold`: `docs/directory.md` says that the current relay is kept for 30 s and then left only
  for one better by more than 25 %. `choose` runs when all probes are back and ignores samples older
  than 5 s; a scan of many relays with timeouts takes longer, so a healthy relay that was measured
  first is passed over.

### Bounds

Pools, uses, revisions, windows and sessions are as small as lets every limit be reached, be
exceeded by a wrong guard, and a value be freed and reused. Three devices are an owner, somebody
who manages and somebody it is done to; three sessions let two connect and one of them reconnect.
Time constants keep the order they have in the code, and where a ratio matters the ratio: in
`relay_hold` the scan outlasts a sample, as 32 relays of 2 s on 4 threads outlast 5 s.
`MaxCounter` is out of reach except in the part that is about it; `service` uses a view without the
counters, which none of its guards and properties reads. Its account and access parts use clients
without the management capability, its policy part has clients with and without it. `MaxBatches` and
`MaxFrames` bound what is under way only when the relay's state changes, so everything under way can
still be delivered. Requests are checked over one round of the worker and rounds without requests
in a part of their own. `progress` has a back-off of one length: how long the worker waits is
checked in `client`, and whether a stop ends the wait does not depend on it. Permuting devices, networks or links is sound: no definition tells them
apart; no run with liveness uses symmetry.

`CHECK_DEADLOCK FALSE` is said where a behaviour may really end: when sessions, time or changes are
used up (`key_distribution`, `client`, `progress`, `forwarding`, `relay_hold`) or when a server or
channel has stopped (`transport`, `streams_race`).

### Fairness

* `KeyDistribution`: weak fairness of the relay's threads (publishing a session, noting a
  disconnection, routing a batch) and of each client's stream handler: callbacks that MsQuic or a
  thread has started. A connection one end gave up is given up by the other in the end
  (keep-alive and idle timeout). Nothing is assumed of users, joins or reconnections.
* `PeerPaths`: weak fairness of the workers, of delivery and of the direct connection; trouble
  happens a bounded number of times.
* `ControlStreams`, `TlsChannel`: weak fairness of a connection's thread and callbacks, which end
  because every handshake and read has a timeout or looks at the stop flag; strong fairness of the
  closing of a connection that was shut down: MsQuic handles the shutdown before it waits for frames
  again, and the loop of a TCP connection looks at `stopping_` between two reads.
* `RelayClient`: weak fairness of the worker's next step, whatever it is (one thread, so no single
  one of its steps is promised), of MsQuic's completion callbacks after a shutdown, of
  the bounded TCP operations and of `stop` itself. Nothing is assumed of the relay.
* `ClientService`: weak fairness of the service's own steps.

## Proofs

TLAPS proves the following for every value of the constants that satisfies the named assumptions
of the modules (limits are natural numbers, positive where the code's are, sets of actors finite
where they are counted, and the obvious distinctness of values). Each bullet names the invariant
that makes the properties inductive and why they are not so by themselves.

* `RelayStoreProofs`: `RowsBelong`, `UniqueAddresses`, `LeaseStable` and the type. The inductive invariant `StoreInv` is the conjunction of the state properties: first fit
  needs the type for a free number to exist (`LowestFreeIsFree`), a new network needs `RowsBelong` to
  start without leases of an old one, and redeeming needs it to know that a live link has a network.
  Each method has a lemma about an arbitrary database.
* `NetworkServiceProofs`: `RevokedHasNoKey`, `PolicyNamesMembers`, `RedemptionJoins`,
  `OnlineOwnerMovesEpoch`. `ServiceInv` adds to `StoreInv` what the memory of the service has to do
  with the database: a handshake between its two critical sections is of a device that was not
  revoked when it was checked, an epoch that a connected owner's network shows is an entry and not
  the default. The handlers are steps over the lemmas of `RelayStoreProofs`; for `RedemptionJoins`, each
  of them keeps every use of a link, is one of the three accounts of a lost one, or is the clock.
* `ForwardingProofs`: for `ForwardingQuota`, `SustainedRate`, `RefusalIsFree` and the type; `QuotaInv`
  relates each bucket to what was admitted since any earlier moment, and forgetting a bucket is
  harmless because it is full by the time it expires. For `PacketRouting`, `FannedOutOnce` (what was
  fanned out in a session is in its window or too old for it) and `FanoutRate` (copies and tokens
  together stay within what a bucket holds and earned). For `StreamDecoder`, that the buffer holds
  less than a largest frame whenever bytes are added (`DecoderInv`), so the throw for an impossible
  size is never reached.
* `PacketBridgeProofs`: `AtMostOnce`, `WindowExact`, `NonceUsedOnce`, `InjectedWhileCurrent` and the
  type. `BridgeInv` says that a window records what was opened and that a cipher has used up the
  number of each of its packets.
* `TransportProofs`: for `ControlStreams`, `RegisteredIsOpen`, `QuietIsPublished` and
  `DataNeverCloses`; `StreamsInv` ties what is registered or published to the position of the thread
  that will undo it, and `OutOK` keeps the packets queued on a connection, in frames and in bytes,
  within what is not kept for control. For `EventQueue`, `EventIsQueued`; its invariant relates the budget to the sizes
  in the queue and in the handler, which is what a displaced packet gives back.
* `HostProofs`: `ServingIsReachable` (`SocketInv`: who can hold the lock at which position and whose
  socket the path can name), `IdentityKept` (`IdentityInv`: what the visible and the durable file can
  be at each step of a write), `NewestAreKept` (the records are in one order through queue, buffer
  and files), `MigratedWhole` (`MigrationInv`: nobody has an address before the table exists, then
  exactly the members, and no process works from a version ahead of the database's; that first fit
  finds a free address is a counting argument) and `AuditIsKept` (`AuditInv`: every row that no bound
  can have removed is in the log; rows only become removable, and a row of the newest *k* of a set
  is one of the newest *k* of each part of it).
* `ClientProofs`: `AuthorityIsFresh`, `RevokedStaysOut` (`LeaseInv` bounds every lease by the last
  time the relay had the state it is for), `ChoiceIsFresh` (`PoolInv`: whatever the pool knows of a
  relay was measured with its key, and the relays a scan probes stay in the pool with that key until
  it ends) and `NobodyWaitsInVain`. `ClientInv` says that a caller waits exactly if the table of its
  attempt has its entry, that entries have identifiers of their own, that only an authenticated
  attempt has entries, only one with a connection is authenticated, and that one which is complete
  or about to be has no connection. That the loop over the identifiers finds a free one is counted.
* `KeyDistributionProofs`: `DepartedNeverKnows` and the types. `BaseInv` relates sessions and
  connections; `DepartedInv` says who can know or be sent the key the owner uses, also while the owner's
  session is not the published one and while envelopes are in its outbox, a batch or a stream.

Where a recursive definition or a `CHOOSE` of a least element occurs, the proofs take a minimal
counterexample from the well-foundedness of the natural numbers.

Only model-checked:

* liveness (`StopReturns`, `KeyArrives`, `StopIsHeeded`, `DirectInTheEnd`, `ShutIsReleased`,
  `StoppedReleases`): fairness is out of the prover's reach;
* `OneEncoding` and `DeliversFrames`, which compute over sequences by recursion and folds, and
  `BackoffExact`, which speaks of a power of two: the provers know no facts about them;
* `ResponseIsOwn`, which rests on the distance of identifiers modulo the size of their space, and
  holds for the bounds of `FarFromWrapping` that the instances satisfy;
* `KeyAgreement` and `QuietIsConverged`, whose invariant is about the whole history of revisions,
  and `SettledIsMutual`, where a worker empties its inbox by recursion;
* `TlsChannel` and `ClientService`, which have no safety property of their own.

## Observations that no run states

* An administrator's replacement of the policy approves a pending gateway
  (`network_service.cpp:260`); `docs/managed-networks.md:22` says that the owner does.
* After a restart the first advance of a network whose owner has not reconnected goes from no entry,
  which peers see as epoch 1, to the entry 1 (`network_service.cpp:300`); `docs/managed-networks.md:9`
  says that every update advances the epoch. While the owner is connected it does
  (`OnlineOwnerMovesEpoch`).
* `wait_for_server` reads the times of the files after they were loaded (`client_runtime.cpp:52`): a
  replacement in between is noticed only with the next one.
* A key loaded after a kill between the rename and the synchronisation of the directory can still
  be lost by a power loss; `IdentityKept` speaks of keys whose `load_or_create` stored them.
* `Logger::rotate` does not look at the result of its flush: a flush that fails there loses the
  buffer silently (`lost` in `Logger`).
* The buckets of fan-out are per session, so a sender that reconnects starts with a full one; a
  cipher rebuilt under the same epoch and session has its first packets refused as old by the relay.

## Not modelled

In the modelled parts: device groups in stored policies, overlap of subnets, ports and addresses of rules,
the throttle of access attempts, the rate limit of control requests, the wording of errors, the
order of connectivity checks and quality averages of direct paths, the bridge of a regional relay to
its upstream (bytes of a connection in both directions). Where policies are stored a rule
is the set of devices it names and a routed subnet is its gateway; `PacketRouting` evaluates rules
with their sides, groups and denials. `crash_in_revoke` removes any subset of the memberships.

Left out entirely: platform adapters, sockets, certificates, ciphers and signatures (system and
library calls), the Windows pipe, configuration files and strings (parsing of text), multicast and
Ethernet parsing, the user interfaces and command lines. They keep no state that another part
depends on beyond what the models take as an input.
