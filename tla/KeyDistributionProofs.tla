----------------------- MODULE KeyDistributionProofs -----------------------
(***************************************************************************)
(* The keys of a network, for any set of devices and any bounds.           *)
(*                                                                         *)
(* BaseInv has the types and what sessions have to do with connections.    *)
(* DepartedInv adds who knows, or is about to be sent, the key that the    *)
(* owner uses: members only while its session is the published one, nobody *)
(* else before it is.                                                      *)
(***************************************************************************)
EXTENDS KeyDistribution, TLAPS

USE KeyAssumption

-----------------------------------------------------------------------------
(* Types.                                                                  *)

StateFrame == [kind : {"state"}, revision : Nat, epoch : Nat \ {0}, keys : [Device -> Nat]]
RevokedFrame == [kind : {"revoked"}, revision : Nat]
EnvelopeFrame == [kind : {"envelope"}, epoch : Nat, key : Nat, from : Nat, to : Nat]
Frame == StateFrame \cup RevokedFrame \cup EnvelopeFrame

IsEnvelope(m) == m.kind = "envelope"

\* What the owner publishes in one request: an envelope for each of some peers.
Publications == UNION {[S -> EnvelopeFrame] : S \in SUBSET (Device \ {Owner})}

Cache == [revision : Nat, state : [epoch : Nat, keys : [Device -> Nat]], key : [epoch : Nat, key : Nat]]

BatchType(b) ==
    /\ b = [by |-> b.by, frames |-> b.frames] /\ b.by \in Nat
    /\ DOMAIN b.frames \subseteq Device
    /\ \A d \in DOMAIN b.frames : b.frames[d] \in Frame

KeyTypeOK ==
    /\ members \subseteq Device /\ Owner \in members
    /\ epoch \in Nat /\ revision \in Nat /\ minted \in Nat /\ keys \in Nat
    /\ active \in [Device -> Nat] /\ conn \in [Device -> Nat] /\ link \in [Device -> Nat]
    /\ \A c \in closing : c = <<c[1], c[2]>> /\ c[1] \in Device /\ c[2] \in Nat
    /\ \A b \in batches : BatchType(b)
    /\ inbox \in [Device -> Seq(Frame)]
    /\ outbox \in Seq(Publications)
    /\ cache \in [Device -> Cache]
    /\ known \in Seq(SUBSET Device) /\ Len(known) = keys

\* Sessions are numbered in the order they are accepted.  The two ends of a control stream
\* agree on its session while both have one, a session that closes is not registered, a
\* client without a session knows nothing, and an owner that is published has made an epoch.
Sessions ==
    /\ \A d \in Device : active[d] <= minted /\ conn[d] <= minted /\ link[d] <= minted
    /\ \A d \in Device : link[d] # 0 /\ conn[d] # 0 => link[d] = conn[d]
    /\ \A d \in Device : \A s \in Nat : <<d, s>> \in closing => s # conn[d] /\ s # 0 /\ s <= minted
    /\ \A d \in Device : link[d] = 0 => inbox[d] = <<>> /\ cache[d] = EmptyCache
    /\ active[Owner] # 0 => epoch >= 1

BaseInv == KeyTypeOK /\ Sessions

\* The fields of a frame.
LEMMA FrameFields ==
  ASSUME NEW m \in Frame
  PROVE  /\ m.kind \in {"state", "revoked", "envelope"}
         /\ m.kind = "state" => m \in StateFrame /\ m.revision \in Nat /\ m.epoch \in Nat /\ m.epoch >= 1 /\ m.keys \in [Device -> Nat]
         /\ m.kind = "revoked" => m.revision \in Nat
         /\ m.kind = "envelope" => /\ m \in EnvelopeFrame
                                   /\ m.epoch \in Nat /\ m.key \in Nat /\ m.from \in Nat /\ m.to \in Nat
  BY DEF Frame, StateFrame, RevokedFrame, EnvelopeFrame

LEMMA PublicationFields ==
  ASSUME NEW p \in Publications
  PROVE  /\ DOMAIN p \subseteq Device \ {Owner}
         /\ \A x \in DOMAIN p : p[x] \in EnvelopeFrame /\ p[x] \in Frame /\ p[x].kind = "envelope"
  BY DEF Publications, EnvelopeFrame, Frame

LEMMA CacheFields ==
  ASSUME NEW c \in Cache
  PROVE  /\ c.revision \in Nat /\ c.state.epoch \in Nat /\ c.state.keys \in [Device -> Nat]
         /\ c.key.epoch \in Nat /\ c.key.key \in Nat
         /\ c = [revision |-> c.revision, state |-> c.state, key |-> c.key]
         /\ c.state = [epoch |-> c.state.epoch, keys |-> c.state.keys]
         /\ c.key = [epoch |-> c.key.epoch, key |-> c.key.key]
  BY DEF Cache

LEMMA CacheMade ==
  ASSUME NEW r \in Nat, NEW e \in Nat, NEW ks \in [Device -> Nat], NEW f \in Nat, NEW k \in Nat
  PROVE  [revision |-> r, key |-> [epoch |-> f, key |-> k], state |-> [epoch |-> e, keys |-> ks]] \in Cache
  BY DEF Cache

LEMMA EmptyCacheType == EmptyCache \in Cache /\ EmptyCache.revision = 0 /\ EmptyCache.key = NoKey /\ EmptyCache.state = NoState
  BY DEF EmptyCache, NoState, NoKey, Cache

\* The fields of what the relay and the owner send.
LEMMA StateMade ==
  ASSUME NEW r \in Nat, NEW e \in Nat \ {0}, NEW ks \in [Device -> Nat]
  PROVE  /\ State(r, e, ks) \in Frame /\ State(r, e, ks).kind = "state"
         /\ State(r, e, ks).revision = r /\ State(r, e, ks).epoch = e /\ State(r, e, ks).keys = ks
  BY DEF State, Frame, StateFrame

LEMMA RevokedMade ==
  ASSUME NEW r \in Nat
  PROVE  Revoked(r) \in Frame /\ Revoked(r).kind = "revoked" /\ Revoked(r).revision = r
  BY DEF Revoked, Frame, RevokedFrame

LEMMA EnvelopeMade ==
  ASSUME NEW e \in Nat, NEW k \in Nat, NEW f \in Nat, NEW t \in Nat
  PROVE  /\ Envelope(e, k, f, t) \in EnvelopeFrame /\ Envelope(e, k, f, t) \in Frame /\ Envelope(e, k, f, t).kind = "envelope"
         /\ Envelope(e, k, f, t).epoch = e /\ Envelope(e, k, f, t).key = k
         /\ Envelope(e, k, f, t).from = f /\ Envelope(e, k, f, t).to = t
  BY DEF Envelope, Frame, EnvelopeFrame

\* The types of the relay's variables.
LEMMA BaseTypes ==
  ASSUME BaseInv
  PROVE  /\ members \subseteq Device /\ Owner \in members /\ Owner \in Device
         /\ epoch \in Nat /\ revision \in Nat /\ minted \in Nat /\ keys \in Nat
         /\ epoch + 1 \in Nat /\ revision + 1 \in Nat /\ minted + 1 \in Nat
         /\ active \in [Device -> Nat] /\ conn \in [Device -> Nat] /\ link \in [Device -> Nat]
  <1>1. epoch \in Nat /\ revision \in Nat /\ minted \in Nat
    BY Zenon DEF BaseInv, KeyTypeOK
  <1>2. epoch + 1 \in Nat /\ revision + 1 \in Nat /\ minted + 1 \in Nat
    BY <1>1
  <1> QED BY <1>1, <1>2, Zenon DEF BaseInv, KeyTypeOK

\* What a batch of peer states holds.
StatesFor(fs, ms, act, e, rev) ==
    /\ DOMAIN fs = ms
    /\ \A d \in ms :
          /\ fs[d] \in Frame /\ fs[d].kind = "state" /\ fs[d].revision = rev
          /\ fs[d].epoch = key_epoch_for(e) /\ fs[d].keys = assemble_peer_state(ms, act)

LEMMA ChangesMade ==
  ASSUME NEW ms, ms \subseteq Device, NEW act \in [Device -> Nat], NEW e \in Nat, NEW rev \in Nat
  PROVE  StatesFor(changes_for_members(ms, act, e, rev), ms, act, e, rev)
  <1>4. PICK f, ks : f = key_epoch_for(e) /\ ks = assemble_peer_state(ms, act)
    BY Zenon
  <1>6. f \in Nat \ {0} /\ ks \in [Device -> Nat]
    BY SMTT(30), <1>4 DEF assemble_peer_state, key_epoch_for
  <1>5. /\ State(rev, f, ks) \in Frame /\ State(rev, f, ks).kind = "state"
        /\ State(rev, f, ks).revision = rev /\ State(rev, f, ks).epoch = f /\ State(rev, f, ks).keys = ks
    BY <1>6, StateMade
  <1> QED BY Zenon, <1>4, <1>5 DEF StatesFor, changes_for_members

-----------------------------------------------------------------------------
(* Steps of the relay.                                                     *)

\* A session of d is published or removed: only the registered one is published, and it is
\* never the one that is removed.
Published(d) ==
    active'[d] # active[d] =>
        \/ active'[d] = 0 /\ active[d] # conn[d]
        \/ active'[d] = conn[d] /\ conn[d] # 0

\* A change that the members are told of.  The batch has the new state for every member and
\* a revocation for who is no member any more.
NewBatch(nb) ==
    /\ BatchType(nb) /\ members' \subseteq DOMAIN nb.frames
    /\ \A d \in members' :
          /\ nb.frames[d].kind = "state" /\ nb.frames[d].revision = revision + 1
          /\ nb.frames[d].epoch = key_epoch_for(epoch')
          /\ nb.frames[d].keys = assemble_peer_state(members', active')
    /\ \A d \in DOMAIN nb.frames \ members' :
          nb.frames[d].kind = "revoked" /\ nb.frames[d].revision = revision + 1 /\ epoch' = epoch + 1

NewRevision ==
    /\ UNCHANGED <<conn, link, inbox, outbox, cache, keys, known, minted>>
    /\ members' \subseteq Device /\ Owner \in members'
    /\ revision' = revision + 1
    /\ active' \in [Device -> Nat] /\ \A d \in Device : Published(d)
    /\ closing' \subseteq closing
    /\ \E nb : /\ NewBatch(nb) /\ batches' = batches \cup {nb}
               /\ active'[Owner] # active[Owner] /\ active'[Owner] # 0 => nb.by = active'[Owner]
    /\ \/ epoch' = epoch /\ members' = members /\ active'[Owner] = active[Owner]
       \/ epoch' = epoch + 1 /\ members' = members
       \/ epoch' = epoch + 1 /\ active' = active

\* A change of a session that is no member's.
Silent ==
    /\ UNCHANGED <<members, epoch, revision, batches, conn, link, inbox, outbox, cache, keys, known, minted>>
    /\ active' \in [Device -> Nat] /\ closing' \subseteq closing
    /\ \A d \in Device : Published(d) /\ (active'[d] # active[d] => d \notin members)

LEMMA SessionChange ==
  ASSUME BaseInv, NEW d \in Device, NEW s \in Nat, NEW v \in Nat,
         session_change(d, s, [active EXCEPT ![d] = v]),
         closing' \subseteq closing, UNCHANGED <<members, conn, link, inbox, outbox, cache, keys, known, minted>>,
         \/ v = 0 /\ active[d] # conn[d]
         \/ v = conn[d] /\ conn[d] # 0 /\ s = v
  PROVE  NewRevision \/ Silent
  <1> DEFINE act == [active EXCEPT ![d] = v]
             e == IF d = Owner THEN epoch + 1 ELSE epoch
             nb == [by |-> s, frames |-> changes_for_members(members, act, e, revision + 1)]
  <1>1. active \in [Device -> Nat] /\ act \in [Device -> Nat] /\ active' = act
    BY Zenon DEF BaseInv, KeyTypeOK, session_change
  <1>2. /\ act[d] = v /\ \A x \in Device \ {d} : act[x] = active[x]
    BY Zenon, <1>1
  <1>3. \A x \in Device : Published(x)
    BY <1>1, <1>2, Zenon DEF Published
  <1>4. epoch' = e /\ e \in Nat /\ revision + 1 \in Nat /\ members \subseteq Device /\ Owner \in members
    BY Zenon, BaseTypes DEF session_change
  <1>5. CASE d \in members
    <2>1. revision' = revision + 1 /\ batches' = batches \cup {nb}
      BY Zenon, <1>5 DEF session_change, compute
    <2>2. BatchType(nb) /\ DOMAIN nb.frames = members /\ nb.by = s
      <3>1. nb.by = s /\ nb.frames = changes_for_members(members, act, e, revision + 1)
        BY Zenon
      <3> HIDE DEF act, e, nb
      <3>2. DOMAIN nb.frames = members /\ \A x \in members : nb.frames[x] \in Frame
        <4>1. StatesFor(changes_for_members(members, act, e, revision + 1), members, act, e, revision + 1)
          BY <1>1, <1>4, ChangesMade, Zenon
        <4> QED BY <3>1, <4>1, Zenon DEF StatesFor
      <3> QED BY Zenon, <1>4, <3>1, <3>2 DEF BatchType, nb
    <2>3. NewBatch(nb)
      <3>1. \A x \in members :
              /\ nb.frames[x].kind = "state" /\ nb.frames[x].revision = revision + 1
              /\ nb.frames[x].epoch = key_epoch_for(e) /\ nb.frames[x].keys = assemble_peer_state(members, act)
        <4>1. nb.frames = changes_for_members(members, act, e, revision + 1)
          BY Zenon
        <4> HIDE DEF nb, act, e
        <4>2. StatesFor(changes_for_members(members, act, e, revision + 1), members, act, e, revision + 1)
          BY <1>1, <1>4, ChangesMade, Zenon
        <4> QED BY <4>1, <4>2, Zenon DEF StatesFor
      <3> HIDE DEF nb, act, e
      <3> QED BY <1>1, <1>4, <2>2, <3>1, Zenon DEF NewBatch
    <2>4. active'[Owner] # active[Owner] => d = Owner /\ active'[Owner] = v
      BY Zenon, <1>1, <1>2
    <2>6. \/ epoch' = epoch /\ members' = members /\ active'[Owner] = active[Owner]
          \/ epoch' = epoch + 1 /\ members' = members
      BY Zenon, <1>4, <2>4
    <2> HIDE DEF nb, act, e
    <2> QED BY Zenon, <1>1, <1>3, <1>4, <2>1, <2>3, <2>6, <2>2, <2>4 DEF NewRevision
  <1>6. CASE d \notin members
    BY Zenon, <1>4, <1>6, <1>1, <1>2, <1>3 DEF session_change, Silent
  <1> QED BY Zenon, <1>5, <1>6

\* The four ways the relay changes its state.
LEMMA RelayChanges ==
  ASSUME BaseInv, NEW d \in Device,
         \/ publish_device_key(d) \/ \E s \in 1..minted : remove_device_key(d, s)
         \/ add_member(d) \/ remove_member(d)
  PROVE  NewRevision \/ Silent
  <1>0. active \in [Device -> Nat] /\ conn \in [Device -> Nat] /\ minted \in Nat /\ revision \in Nat /\ epoch \in Nat
    BY Zenon DEF BaseInv, KeyTypeOK
  <1>1. CASE publish_device_key(d)
    BY Zenon, <1>0, <1>1, SessionChange DEF publish_device_key, clients
  <1>2. ASSUME NEW s \in 1..minted, remove_device_key(d, s) PROVE NewRevision \/ Silent
    <2>3. closing' \subseteq closing /\ UNCHANGED <<members, conn, link, inbox, outbox, cache, keys, known, minted>>
      BY Zenon, <1>2 DEF remove_device_key, clients
    <2>4. CASE active[d] = s
      BY Zenon, <1>2, <2>4, <2>3, SessionChange, <1>0 DEF remove_device_key, BaseInv, Sessions
    <2>5. CASE active[d] # s
      BY Zenon, <1>2, <2>5, <1>0, <2>3 DEF remove_device_key, Silent, Published
    <2> QED BY Zenon, <2>4, <2>5
  <1>3. CASE add_member(d)
    <2> DEFINE ms == members \cup {d}
               nb == [by |-> 0, frames |-> changes_for_members(ms, active, epoch + 1, revision + 1)]
    <2>1. /\ members' = ms /\ epoch' = epoch + 1 /\ revision' = revision + 1 /\ batches' = batches \cup {nb}
          /\ UNCHANGED <<active, conn, closing, link, inbox, outbox, cache, keys, known, minted>>
      BY Zenon, <1>3 DEF add_member, clients, compute
    <2>2. ms \subseteq Device /\ Owner \in ms /\ revision + 1 \in Nat /\ epoch + 1 \in Nat
      BY Zenon, BaseTypes
    <2>3. nb.by = 0 /\ nb.frames = changes_for_members(ms, active, epoch + 1, revision + 1) /\ 0 \in Nat
      BY Zenon
    <2>4. /\ DOMAIN nb.frames = ms /\ \A x \in ms : nb.frames[x] \in Frame
          /\ \A x \in ms :
              /\ nb.frames[x].kind = "state" /\ nb.frames[x].revision = revision + 1
              /\ nb.frames[x].epoch = key_epoch_for(epoch + 1) /\ nb.frames[x].keys = assemble_peer_state(ms, active)
      <3> HIDE DEF nb, ms
      <3>1. StatesFor(changes_for_members(ms, active, epoch + 1, revision + 1), ms, active, epoch + 1, revision + 1)
        BY <1>0, <2>2, ChangesMade, Zenon
      <3> QED BY <2>3, <3>1, Zenon DEF StatesFor
    <2>5. BatchType(nb)
      BY <2>2, <2>3, <2>4, Zenon DEF BatchType
    <2> HIDE DEF nb
    <2> QED BY Zenon, <1>0, <2>1, <2>2, <2>4, <2>5 DEF NewRevision, Published, NewBatch
  <1>4. CASE remove_member(d)
    <2> DEFINE ms == members \ {d}
               batch == changes_for_members(ms, active, epoch + 1, revision + 1)
               fs == [x \in members |-> IF x = d THEN Revoked(revision + 1) ELSE batch[x]]
               nb == [by |-> 0, frames |-> fs]
    <2>1. /\ members' = ms /\ epoch' = epoch + 1 /\ revision' = revision + 1 /\ batches' = batches \cup {nb}
          /\ UNCHANGED <<active, conn, closing, link, inbox, outbox, cache, keys, known, minted>>
      BY Zenon, <1>4 DEF remove_member, clients, compute
    <2>2. /\ ms \subseteq Device /\ Owner \in ms /\ revision + 1 \in Nat /\ epoch + 1 \in Nat
          /\ members \subseteq Device /\ d \in members
      BY Zenon, <1>4, BaseTypes DEF remove_member
    <2>3. \A x \in ms : /\ batch[x] \in Frame /\ batch[x].kind = "state" /\ batch[x].revision = revision + 1
                        /\ batch[x].epoch = key_epoch_for(epoch + 1) /\ batch[x].keys = assemble_peer_state(ms, active)
      <3> HIDE DEF ms
      <3>1. StatesFor(changes_for_members(ms, active, epoch + 1, revision + 1), ms, active, epoch + 1, revision + 1)
        BY <1>0, <2>2, ChangesMade, Zenon
      <3> QED BY <3>1, Zenon DEF StatesFor
    <2>4. DOMAIN fs = members /\ fs[d] = Revoked(revision + 1) /\ \A x \in ms : fs[x] = batch[x]
      BY Zenon, <2>2
    <2>5. fs[d] \in Frame /\ fs[d].kind = "revoked" /\ fs[d].revision = revision + 1
      BY <2>2, <2>4, RevokedMade, Zenon
    <2>6. nb.by = 0 /\ nb.frames = fs /\ 0 \in Nat /\ nb = [by |-> nb.by, frames |-> nb.frames]
      BY Zenon
    <2> HIDE DEF fs, batch, nb
    <2>7. \A x \in members : fs[x] \in Frame
      BY <2>3, <2>4, <2>5, Zenon
    <2>8. BatchType(nb)
      BY <2>2, <2>4, <2>6, <2>7, Zenon DEF BatchType
    <2>9. \A x \in ms :
              /\ nb.frames[x].kind = "state" /\ nb.frames[x].revision = revision + 1
              /\ nb.frames[x].epoch = key_epoch_for(epoch + 1) /\ nb.frames[x].keys = assemble_peer_state(ms, active)
      BY <2>3, <2>4, <2>6, Zenon
    <2>11. NewBatch(nb)
      BY Zenon, <2>1, <2>4, <2>6, <2>8, <2>9, <2>5 DEF NewBatch
    <2> QED BY <1>0, <2>1, <2>2, <2>11, Zenon DEF NewRevision, Published
  <1> QED BY Zenon, <1>1, <1>2, <1>3, <1>4

-----------------------------------------------------------------------------
(* Steps of the clients.                                                   *)

RelaySame == UNCHANGED <<members, epoch, revision, active, conn, closing, batches, minted>>

\* The client of d takes the first frame off its stream, or replaces its cache by c.
Taken(d) ==
    /\ inbox[d] # <<>> /\ inbox' \in [Device -> Seq(Frame)]
    /\ inbox'[d] = Tail(inbox[d]) /\ \A x \in Device \ {d} : inbox'[x] = inbox[x]

Cached(d, c) ==
    /\ c \in Cache /\ cache' \in [Device -> Cache]
    /\ cache'[d] = c /\ \A x \in Device \ {d} : cache'[x] = cache[x]

SkipReason(d, m) ==
    \/ m.kind = "state" /\ Outdated(cache[d], m)
    \/ m.kind = "revoked" /\ m.revision < cache[d].revision
    \/ m.kind = "envelope" /\ cache[d].state.epoch # m.epoch

Skips(d, m) ==
    RelaySame /\ Taken(d) /\ SkipReason(d, m) /\ UNCHANGED <<link, cache, outbox, keys, known>>

HangsUp(d) ==
    /\ RelaySame /\ UNCHANGED <<outbox, keys, known>>
    /\ link' \in [Device -> Nat] /\ link'[d] = 0 /\ \A x \in Device \ {d} : link'[x] = link[x]
    /\ inbox' \in [Device -> Seq(Frame)] /\ inbox'[d] = <<>> /\ \A x \in Device \ {d} : inbox'[x] = inbox[x]
    /\ Cached(d, EmptyCache)

\* The cache of a client that applied the state m, except for its key.
Learnt(c, m) == c.revision = m.revision /\ c.state.epoch = m.epoch /\ c.state.keys = m.keys

Learns(d, m) ==
    /\ RelaySame /\ Taken(d) /\ UNCHANGED <<link, outbox, keys, known>>
    /\ m.kind = "state" /\ ~Outdated(cache[d], m) /\ d # Owner
    /\ \E c : /\ Cached(d, c) /\ Learnt(c, m)
              /\ \/ c.key = cache[d].key /\ cache[d].key.epoch = m.epoch
                 \/ c.key = NoKey /\ cache[d].key.epoch # m.epoch

\* The owner's client publishes the key of c for the peers of m.
Publishes(c, m) ==
    \/ UNCHANGED outbox /\ (~Connected(Owner) \/ \A y \in Device \ {Owner} : m.keys[y] = 0)
    \/ /\ Connected(Owner)
       /\ \E p \in Publications :
             /\ outbox' = Append(outbox, p)
             /\ DOMAIN p = {y \in Device \ {Owner} : m.keys[y] # 0}
             /\ \A x \in DOMAIN p : /\ p[x].epoch = m.epoch /\ p[x].key = c.key.key
                                    /\ p[x].from = link[Owner] /\ p[x].to = m.keys[x]

OwnerLearns(m) ==
    /\ RelaySame /\ Taken(Owner) /\ UNCHANGED link
    /\ m.kind = "state" /\ ~Outdated(cache[Owner], m)
    /\ \E c : /\ Cached(Owner, c) /\ Learnt(c, m) /\ Publishes(c, m)
              /\ \/ /\ c.key = cache[Owner].key /\ cache[Owner].key.epoch = m.epoch
                    /\ UNCHANGED <<keys, known>>
                 \/ /\ c.key.epoch = m.epoch /\ c.key.key = keys + 1 /\ cache[Owner].key.epoch # m.epoch
                    /\ keys' = keys + 1 /\ known' = Append(known, {Owner})

Leaves(d, m) ==
    /\ RelaySame /\ Taken(d) /\ UNCHANGED <<link, outbox, keys, known>>
    /\ m.kind = "revoked" /\ ~(m.revision < cache[d].revision)
    /\ \E c : Cached(d, c) /\ c.revision = m.revision /\ c.state = NoState /\ c.key = NoKey

\* Device d gets to know key k.
KnownTo(ks, k, d) == [ks EXCEPT ![k] = @ \cup {d}]

OpensKey(d, m) ==
    /\ RelaySame /\ Taken(d) /\ UNCHANGED <<link, outbox, keys>>
    /\ m.kind = "envelope" /\ cache[d].state.epoch = m.epoch /\ Opens(d, m) /\ ~Conflicts(d, m)
    /\ known' = KnownTo(known, m.key, d)
    /\ \E c : /\ Cached(d, c) /\ c.revision = cache[d].revision /\ c.state = cache[d].state
              /\ c.key.epoch = m.epoch /\ c.key.key = m.key

LEMMA Hanging ==
  ASSUME BaseInv, NEW d \in Device, hang_up(d), RelaySame
  PROVE  HangsUp(d)
  <1>1. link \in [Device -> Nat] /\ inbox \in [Device -> Seq(Frame)] /\ cache \in [Device -> Cache] /\ <<>> \in Seq(Frame)
    BY SMTT(30) DEF BaseInv, KeyTypeOK
  <1> QED BY Zenon, EmptyCacheType, <1>1 DEF HangsUp, Cached, hang_up

\* What a client may do with the first frame of its stream.
Handles(d, m) ==
    /\ m = Head(inbox[d]) /\ inbox[d] # <<>>
    /\ \/ Skips(d, m) \/ HangsUp(d) \/ Learns(d, m) \/ Leaves(d, m) \/ OpensKey(d, m)
       \/ d = Owner /\ OwnerLearns(m)

LEMMA Handling ==
  ASSUME BaseInv, NEW d \in Device, handle_control_frame(d)
  PROVE  \E m \in Frame : Handles(d, m)
  <1>1. inbox[d] # <<>> /\ RelaySame
    BY Zenon DEF handle_control_frame, relay, RelaySame
  <1>2. inbox \in [Device -> Seq(Frame)] /\ cache \in [Device -> Cache] /\ link \in [Device -> Nat] /\ keys \in Nat /\ outbox \in Seq(Publications)
    BY Zenon DEF BaseInv, KeyTypeOK
  <1>3. Head(inbox[d]) \in Frame /\ Tail(inbox[d]) \in Seq(Frame)
    BY <1>1, <1>2
  <1>4. PICK m \in Frame : m = Head(inbox[d])
    BY Zenon, <1>3
  <1> DEFINE take == inbox' = [inbox EXCEPT ![d] = Tail(@)] /\ UNCHANGED link
             skip == take /\ UNCHANGED <<cache, outbox, keys, known>>
  <1>5. \/ m.kind = "state" /\ Outdated(cache[d], m) /\ skip
        \/ m.kind = "state" /\ ~Outdated(cache[d], m) /\ take /\ apply_peer_state(d, m)
        \/ m.kind = "revoked" /\ m.revision < cache[d].revision /\ skip
        \/ m.kind = "revoked" /\ ~(m.revision < cache[d].revision) /\ take /\ apply_peer_revocation(d, m)
        \/ m.kind = "envelope" /\ cache[d].state.epoch # m.epoch /\ skip
        \/ m.kind = "envelope" /\ hang_up(d)
        \/ /\ m.kind = "envelope" /\ cache[d].state.epoch = m.epoch /\ Opens(d, m) /\ ~Conflicts(d, m)
           /\ take /\ apply_network_key_envelope(d, m)
    BY <1>4, Zenon DEF handle_control_frame
  <1>6. take => Taken(d)
    BY Zenon, <1>1, <1>2, <1>3 DEF Taken
  <1>7. take => UNCHANGED link
    BY Zenon
  <1>8. cache[d] \in Cache
    BY Zenon, <1>2
  <1> HIDE DEF take
  <1>9. CASE skip /\ SkipReason(d, m)
    BY <1>1, <1>4, <1>6, <1>7, <1>9, Zenon DEF Skips, Handles
  <1>10. CASE m.kind = "state" /\ ~Outdated(cache[d], m) /\ take /\ apply_peer_state(d, m)
    <2> DEFINE new == KeyAfter(d, m)
               c == [revision |-> m.revision, key |-> new, state |-> [epoch |-> m.epoch, keys |-> m.keys]]
    <2>1. /\ m.revision \in Nat /\ m.epoch \in Nat /\ m.epoch >= 1 /\ m.keys \in [Device -> Nat]
      BY Zenon, <1>10, FrameFields
    <2>2. cache[d].key.epoch \in Nat /\ cache[d].key.key \in Nat /\ cache[d].key = [epoch |-> cache[d].key.epoch, key |-> cache[d].key.key]
      BY Zenon, <1>8, CacheFields
    <2>3. /\ cache[d].key.epoch = m.epoch => new = cache[d].key
          /\ cache[d].key.epoch # m.epoch /\ d = Owner => new = [epoch |-> m.epoch, key |-> keys + 1]
          /\ cache[d].key.epoch # m.epoch /\ d # Owner => new = NoKey
      BY Zenon DEF KeyAfter
    <2>4. PICK f \in Nat, k \in Nat : new = [epoch |-> f, key |-> k]
      <3>1. CASE cache[d].key.epoch = m.epoch
        BY <2>2, <2>3, <3>1, Zenon
      <3>2. CASE cache[d].key.epoch # m.epoch /\ d = Owner
        <4>1. keys + 1 \in Nat
          BY <1>2
        <4> QED BY <2>1, <2>3, <3>2, <4>1, Zenon
      <3>3. CASE cache[d].key.epoch # m.epoch /\ d # Owner
        BY Zenon, <2>3, <3>3 DEF NoKey
      <3> QED BY Zenon, <3>1, <3>2, <3>3
    <2>5. c \in Cache
      BY <2>1, <2>4, CacheMade, Zenon
    <2>6. c.revision = m.revision /\ c.state.epoch = m.epoch /\ c.state.keys = m.keys /\ c.key = new
      BY Zenon
    <2>7. cache' = [cache EXCEPT ![d] = c]
      BY Zenon, <1>10 DEF apply_peer_state
    <2> HIDE DEF c, new
    <2>8. Cached(d, c) /\ Learnt(c, m)
      BY Zenon, <1>2, <2>5, <2>6, <2>7 DEF Cached, Learnt
    <2>9. CASE d # Owner
      BY Zenon, <1>10, <2>9, <1>1, <1>4, <1>6, <1>7, <2>3, <2>6, <2>8 DEF apply_peer_state, Learns,
         Handles
    <2>10. CASE d = Owner
      <3>2. /\ cache[d].key.epoch = m.epoch => UNCHANGED <<keys, known>>
            /\ cache[d].key.epoch # m.epoch => keys' = keys + 1 /\ known' = Append(known, {Owner})
        BY SMTT(30), <1>10, <2>10, <2>3 DEF apply_peer_state, new
      <3>3. cache[d].key.epoch # m.epoch => new.epoch = m.epoch /\ new.key = keys + 1
        BY <2>3, <2>10
      <3>4. Publishes(c, m)
        <4> DEFINE p == Publication(m)
                   S == {y \in Device \ {Owner} : m.keys[y] # 0}
        <4>1. outbox' = IF DOMAIN p # {} /\ Connected(Owner) THEN Append(outbox, p) ELSE outbox
          BY Zenon, <1>10, <2>10 DEF apply_peer_state
        <4>2. DOMAIN p = S /\ \A x \in S : p[x] = Envelope(m.epoch, new.key, link[Owner], m.keys[x])
          BY Zenon, <2>10 DEF Publication, new
        <4>3. new.key = k /\ k \in Nat /\ link[Owner] \in Nat /\ S \in SUBSET (Device \ {Owner}) /\ \A x \in S : m.keys[x] \in Nat
          BY Zenon, <1>2, <2>1, <2>4
        <4>4. \A x \in S : /\ p[x] \in EnvelopeFrame /\ p[x].epoch = m.epoch /\ p[x].key = new.key
                           /\ p[x].from = link[Owner] /\ p[x].to = m.keys[x]
          <5> HIDE DEF S, p
          <5> SUFFICES ASSUME NEW x \in S
                       PROVE  /\ p[x] \in EnvelopeFrame /\ p[x].epoch = m.epoch /\ p[x].key = new.key
                              /\ p[x].from = link[Owner] /\ p[x].to = m.keys[x]
            BY Zenon
          <5>1. PICK lo, t : lo = link[Owner] /\ t = m.keys[x]
            BY Zenon
          <5>2. lo \in Nat /\ t \in Nat
            BY <4>3, <5>1, Zenon
          <5>4. /\ p[x] \in EnvelopeFrame /\ p[x].epoch = m.epoch /\ p[x].key = k
                /\ p[x].from = lo /\ p[x].to = t
            <6>1. PICK e : e = m.epoch
              BY Zenon
            <6>2. e \in Nat /\ p[x] = Envelope(e, k, lo, t)
              BY Zenon, <2>1, <6>1, <4>2, <4>3, <5>1
            <6>3. /\ Envelope(e, k, lo, t) \in EnvelopeFrame /\ Envelope(e, k, lo, t).epoch = e /\ Envelope(e, k, lo, t).key = k
                  /\ Envelope(e, k, lo, t).from = lo /\ Envelope(e, k, lo, t).to = t
              BY <5>2, <6>2, Zenon DEF Envelope, EnvelopeFrame
            <6> QED BY <6>1, <6>2, <6>3, Zenon
          <5> QED BY <4>3, <5>1, <5>4, Zenon
        <4>5. p \in [S -> EnvelopeFrame]
          <5>1. p = [x \in S |-> p[x]]
            BY Zenon DEF Publication
          <5> HIDE DEF p
          <5> QED BY Zenon, <4>4, <5>1
        <4>6. p \in Publications
          <5> HIDE DEF p, S
          <5> QED BY Zenon, <4>3, <4>5 DEF Publications
        <4> HIDE DEF p
        <4>7. CASE DOMAIN p # {} /\ Connected(Owner)
          BY <2>6, <4>1, <4>2, <4>4, <4>6, <4>7, Zenon DEF Publishes
        <4>8. CASE ~(DOMAIN p # {} /\ Connected(Owner))
          BY Zenon, <4>1, <4>2, <4>8 DEF Publishes
        <4> QED BY Zenon, <4>7, <4>8
      <3> QED BY <1>1, <1>4, <1>6, <1>7, <1>10, <2>3, <2>6, <2>8, <2>10, <3>2, <3>3, <3>4, Zenon DEF OwnerLearns, Handles
    <2> QED BY Zenon, <2>9, <2>10
  <1>11. CASE m.kind = "revoked" /\ ~(m.revision < cache[d].revision) /\ take /\ apply_peer_revocation(d, m)
    <2> DEFINE c == [EmptyCache EXCEPT !.revision = m.revision]
    <2>2. c \in Cache /\ c.revision = m.revision /\ c.state = NoState /\ c.key = NoKey
      BY Zenon, <1>11, FrameFields DEF EmptyCache, NoState, NoKey, Cache
    <2>3. cache' = [cache EXCEPT ![d] = c] /\ UNCHANGED <<outbox, keys, known>>
      BY Zenon, <1>11 DEF apply_peer_revocation
    <2> HIDE DEF c
    <2> QED BY Zenon, <1>1, <1>4, <1>6, <1>7, <1>11, <2>2, <2>3, <1>2 DEF Leaves, Handles, Cached
  <1>12. CASE m.kind = "envelope" /\ hang_up(d)
    BY <1>1, <1>4, <1>12, Hanging, Zenon DEF Handles
  <1>13. CASE /\ m.kind = "envelope" /\ cache[d].state.epoch = m.epoch /\ Opens(d, m) /\ ~Conflicts(d, m)
              /\ take /\ apply_network_key_envelope(d, m)
    <2> DEFINE c == [cache[d] EXCEPT !.key = [epoch |-> m.epoch, key |-> m.key]]
    <2>2. /\ c \in Cache /\ c.revision = cache[d].revision /\ c.state = cache[d].state
          /\ c.key.epoch = m.epoch /\ c.key.key = m.key
      BY Zenon, <1>8, <1>13, FrameFields DEF Cache
    <2>3. /\ cache' = [cache EXCEPT ![d] = c] /\ UNCHANGED <<outbox, keys>>
          /\ known' = KnownTo(known, m.key, d)
      BY Zenon, <1>2, <1>13 DEF apply_network_key_envelope, KnownTo
    <2> HIDE DEF c
    <2> QED BY Zenon, <1>1, <1>4, <1>6, <1>7, <1>13, <2>2, <2>3, <1>2 DEF OpensKey, Handles, Cached
  <1> QED BY <1>5, <1>9, <1>10, <1>11, <1>12, <1>13, Zenon DEF SkipReason

-----------------------------------------------------------------------------
(* The other steps of the relay, and the kinds of a step.                  *)

Registers(d) ==
    /\ link[d] = 0 /\ conn[d] = 0 /\ minted' = minted + 1
    /\ conn' \in [Device -> Nat] /\ conn'[d] = minted + 1 /\ \A x \in Device \ {d} : conn'[x] = conn[x]
    /\ link' \in [Device -> Nat] /\ link'[d] = minted + 1 /\ \A x \in Device \ {d} : link'[x] = link[x]
    /\ UNCHANGED <<members, epoch, revision, active, closing, batches, inbox, outbox, cache, keys, known>>

Shuts(d) ==
    /\ conn[d] # 0 /\ active[d] = conn[d] /\ \A b \in batches : b.by # conn[d]
    /\ conn' \in [Device -> Nat] /\ conn'[d] = 0 /\ \A x \in Device \ {d} : conn'[x] = conn[x]
    /\ closing' = closing \cup {<<d, conn[d]>>}
    /\ d = Owner => outbox' = <<>>
    /\ d # Owner => outbox' = outbox
    /\ UNCHANGED <<members, epoch, revision, active, batches, link, inbox, cache, keys, known, minted>>

Routes(b) ==
    /\ b \in batches /\ batches' = batches \ {b}
    /\ inbox' \in [Device -> Seq(Frame)]
    /\ \A d \in Device :
          /\ d \in DOMAIN b.frames /\ Connected(d) => b.frames[d] \in Frame /\ inbox'[d] = Append(inbox[d], b.frames[d])
          /\ ~(d \in DOMAIN b.frames /\ Connected(d)) => inbox'[d] = inbox[d]
    /\ UNCHANGED <<members, epoch, revision, active, conn, closing, link, outbox, cache, keys, known, minted>>

Forwards(p) ==
    /\ outbox # <<>> /\ p = Head(outbox) /\ outbox' = Tail(outbox)
    /\ conn[Owner] # 0 /\ active[Owner] = conn[Owner] /\ \A b \in batches : b.by # conn[Owner]
    /\ \/ ~CanPublish(p) /\ UNCHANGED batches
       \/ /\ CanPublish(p)
          /\ \E nb : BatchType(nb) /\ nb.by = conn[Owner] /\ nb.frames = p /\ batches' = batches \cup {nb}
    /\ UNCHANGED <<members, epoch, revision, active, conn, closing, link, inbox, cache, keys, known, minted>>

Restarts ==
    /\ epoch' = 0 /\ revision' = 0 /\ closing' = {} /\ batches' = {} /\ outbox' = <<>>
    /\ active' = [d \in Device |-> 0] /\ conn' = [d \in Device |-> 0]
    /\ UNCHANGED <<members, link, inbox, cache, keys, known, minted>>

KindOfStep ==
    \/ NewRevision \/ Silent \/ Restarts
    \/ \E d \in Device : Registers(d) \/ Shuts(d) \/ HangsUp(d)
    \/ \E d \in Device : \E m \in Frame : Handles(d, m)
    \/ \E b \in batches : Routes(b)
    \/ \E p \in Publications : Forwards(p)

LEMMA Registering ==
  ASSUME BaseInv, NEW d \in Device, register_control_stream(d)
  PROVE  Registers(d)
  BY Zenon, BaseTypes DEF register_control_stream, Registers

LEMMA ShuttingDown ==
  ASSUME BaseInv, NEW d \in Device, connection_shutdown(d)
  PROVE  Shuts(d)
  BY Zenon, BaseTypes DEF connection_shutdown, Shuts, NextCallback

LEMMA Routing ==
  ASSUME BaseInv, NEW b \in batches, route_control_events(b)
  PROVE  Routes(b)
  <1>1. inbox \in [Device -> Seq(Frame)] /\ \A d \in Device : d \in DOMAIN b.frames => b.frames[d] \in Frame
    BY Zenon DEF BaseInv, KeyTypeOK, BatchType
  <1> QED BY SMTT(30), <1>1 DEF Routes, route_control_events

LEMMA Forwarding ==
  ASSUME BaseInv, publish_network_keys
  PROVE  \E p \in Publications : Forwards(p)
  <1>1. outbox \in Seq(Publications) /\ outbox # <<>> /\ conn[Owner] \in Nat
    BY Zenon DEF BaseInv, KeyTypeOK, publish_network_keys
  <1>2. PICK p \in Publications : p = Head(outbox)
    BY <1>1
  <1>5. PICK nb : nb = [by |-> conn[Owner], frames |-> p]
    BY Zenon
  <1> QED BY Zenon, <1>1, <1>2, <1>5, PublicationFields DEF Forwards, publish_network_keys,
       NextCallback, compute, BatchType

LEMMA Steps ==
  ASSUME BaseInv, KeyNext
  PROVE  KindOfStep
  BY Zenon, RelayChanges, Routing, Forwarding, Handling, Registering, ShuttingDown, Hanging DEF
     KindOfStep, client_disconnected, relay, RelaySame, restart, Restarts, KeyNext, RelayWork,
     Churn

-----------------------------------------------------------------------------
(* The types and the sessions.                                             *)

OneKnowsMore(t, s, k, d) == \A j \in 1..Len(s) : t[j] = IF j = k THEN s[j] \cup {d} ELSE s[j]

LEMMA KnownMore ==
  ASSUME NEW s \in Seq(SUBSET Device), NEW k, NEW d \in Device
  PROVE  /\ KnownTo(s, k, d) \in Seq(SUBSET Device) /\ Len(KnownTo(s, k, d)) = Len(s)
         /\ OneKnowsMore(KnownTo(s, k, d), s, k, d)
  <1> DEFINE t == [s EXCEPT ![k] = @ \cup {d}]
             n == Len(s)
  <1>1. n \in Nat /\ s \in [1..n -> SUBSET Device]
    OBVIOUS
  <1>2. DOMAIN t = 1..n /\ \A j \in 1..n : t[j] = IF j = k THEN s[j] \cup {d} ELSE s[j]
    BY Zenon, <1>1
  <1>4. t \in [1..n -> SUBSET Device]
    BY Zenon, <1>1, <1>2
  <1> HIDE DEF t, n
  <1>5. t \in Seq(SUBSET Device) /\ Len(t) = n
    BY <1>1, <1>4
  <1> QED BY Zenon, <1>2, <1>5 DEF n, OneKnowsMore, KnownTo, t

LEMMA SessionBounds ==
  ASSUME BaseInv
  PROVE  /\ 0 <= minted /\ minted + 1 <= minted + 1
         /\ \A d \in Device : active[d] <= minted /\ conn[d] <= minted /\ link[d] <= minted
         /\ \A d \in Device : active[d] <= minted + 1 /\ conn[d] <= minted + 1 /\ link[d] <= minted + 1 /\ conn[d] # minted + 1
         /\ \A d \in Device : \A s \in Nat : <<d, s>> \in closing => s # conn[d] /\ s # 0 /\ s <= minted /\ s <= minted + 1 /\ s # minted + 1
  <1>1. /\ minted \in Nat
        /\ active \in [Device -> Nat] /\ conn \in [Device -> Nat] /\ link \in [Device -> Nat]
        /\ \A d \in Device : active[d] <= minted /\ conn[d] <= minted /\ link[d] <= minted
        /\ \A d \in Device : \A s \in Nat : <<d, s>> \in closing => s # conn[d] /\ s # 0 /\ s <= minted
    BY Zenon DEF BaseInv, KeyTypeOK, Sessions
  <1> QED BY <1>1

LEMMA BaseInit ==
  ASSUME KeyInit
  PROVE  BaseInv
  BY SMTT(30), EmptyCacheType DEF KeyInit, KeyTypeOK, Sessions, BaseInv

LEMMA BaseByNewRevision ==
  ASSUME BaseInv, NewRevision
  PROVE  BaseInv'
  <1>1. PICK nb : BatchType(nb) /\ batches' = batches \cup {nb}
    BY Zenon DEF NewRevision, NewBatch
  <1>2. epoch' \in Nat /\ revision' \in Nat /\ (epoch' = epoch \/ epoch' = epoch + 1)
    BY Zenon, BaseTypes DEF NewRevision
  <1>8. active'[Owner] # 0 => epoch' >= 1
    BY SMTT(30), <1>2, BaseTypes DEF BaseInv, Sessions, NewRevision
  <1>9. Sessions'
    BY Zenon, <1>8, SessionBounds DEF BaseInv, Sessions, NewRevision, Published
  <1> QED BY Zenon, <1>9, <1>2, <1>1 DEF BaseInv, KeyTypeOK, NewRevision, BatchType

LEMMA BaseBySilent ==
  ASSUME BaseInv, Silent
  PROVE  BaseInv'
  BY Zenon, SessionBounds, BaseTypes DEF BaseInv, KeyTypeOK, Silent, BatchType, Published, Sessions

LEMMA BaseByRelay ==
  ASSUME BaseInv, NEW d \in Device,
         \/ Registers(d) \/ Shuts(d) \/ Restarts \/ \E b \in batches : Routes(b)
         \/ \E p \in Publications : Forwards(p)
  PROVE  BaseInv'
  <1>0. BaseInv
    BY Zenon
  <1>1. CASE Registers(d)
    <2>2. \A x \in Device : active[x] <= minted + 1 /\ conn'[x] <= minted + 1 /\ link'[x] <= minted + 1
      BY <1>1, SessionBounds, Zenon DEF Registers
    <2>4. \A x \in Device : \A s \in Nat : <<x, s>> \in closing => s # conn'[x] /\ s # 0 /\ s <= minted + 1
      BY <1>1, SessionBounds, Zenon DEF Registers
    <2> QED BY Zenon, <1>1, BaseTypes, <2>2, <2>4 DEF BaseInv, KeyTypeOK, Registers, BatchType,
         Sessions
  <1>2. CASE Shuts(d)
    <2>1. \A c \in closing' : c = <<c[1], c[2]>> /\ c[1] \in Device /\ c[2] \in Nat
      <3>1. conn[d] \in Nat /\ closing' = closing \cup {<<d, conn[d]>>}
        BY Zenon, <1>2, BaseTypes DEF Shuts
      <3>2. \A c \in closing : c = <<c[1], c[2]>> /\ c[1] \in Device /\ c[2] \in Nat
        BY Zenon DEF BaseInv, KeyTypeOK
      <3> QED BY <3>1, <3>2
    <2>2. outbox' \in Seq(Publications)
      <3>1. outbox \in Seq(Publications) /\ <<>> \in Seq(Publications)
        BY DEF BaseInv, KeyTypeOK
      <3> QED BY <1>2, <3>1, Zenon DEF Shuts
    <2>4. \A x \in Device : conn'[x] = conn[x] \/ conn'[x] = 0
      BY Zenon, <1>2 DEF Shuts
    <2>6. \A x \in Device : \A s \in Nat : <<x, s>> \in closing' => s # conn'[x] /\ s # 0 /\ s <= minted
      BY Zenon, <1>2, <2>4 DEF BaseInv, Sessions, Shuts
    <2> QED BY Zenon, <1>2, <2>1, <2>2, <2>4, <2>6, SessionBounds DEF BaseInv, KeyTypeOK, Shuts,
         BatchType, Sessions
  <1>3. CASE Restarts
    <2>1. KeyTypeOK'
      <3>1. /\ <<>> \in Seq(Publications) /\ 0 \in Nat /\ active' \in [Device -> Nat] /\ conn' \in [Device -> Nat]
            /\ \A c \in closing' : c = <<c[1], c[2]>> /\ c[1] \in Device /\ c[2] \in Nat
            /\ \A b \in batches' : BatchType(b)
        BY <1>3 DEF Restarts
      <3> QED BY <1>3, <3>1, Zenon DEF BaseInv, KeyTypeOK, Restarts, BatchType
    <2>2. Sessions'
      BY SMTT(30), <1>3, BaseTypes DEF BaseInv, Sessions, Restarts
    <2> QED BY Zenon, <2>1, <2>2 DEF BaseInv
  <1>4. ASSUME NEW b \in batches, Routes(b) PROVE BaseInv'
    BY Zenon, <1>4 DEF BaseInv, KeyTypeOK, Routes, BatchType, Connected, Sessions
  <1>5. ASSUME NEW p \in Publications, Forwards(p) PROVE BaseInv'
    <2>1. outbox' \in Seq(Publications)
      BY <1>5 DEF BaseInv, KeyTypeOK, Forwards
    <2> QED BY Zenon, <1>5, <2>1 DEF BaseInv, Sessions, Forwards, KeyTypeOK, BatchType
  <1> QED BY Zenon, <1>1, <1>2, <1>3, <1>4, <1>5

LEMMA BaseByClient ==
  ASSUME BaseInv, NEW d \in Device, HangsUp(d) \/ \E m \in Frame : Handles(d, m)
  PROVE  BaseInv'
  <1>1. CASE HangsUp(d)
    <2>4. \A x \in Device : link'[x] = 0 => inbox'[x] = <<>> /\ cache'[x] = EmptyCache
      BY Zenon, <1>1 DEF BaseInv, Sessions, HangsUp, Cached
    <2>5. Sessions'
      BY Zenon, <1>1, <2>4, SessionBounds DEF BaseInv, Sessions, HangsUp, RelaySame
    <2> QED BY Zenon, <2>5, <1>1 DEF BaseInv, KeyTypeOK, HangsUp, RelaySame, BatchType, Cached
  <1>2. ASSUME NEW m \in Frame, Handles(d, m), ~HangsUp(d) PROVE BaseInv'
    <2>1. inbox[d] # <<>> /\ RelaySame /\ Taken(d) /\ UNCHANGED link
      BY <1>2, Zenon DEF Handles, Skips, Learns, Leaves, OpensKey, OwnerLearns
    <2>2. cache' \in [Device -> Cache] /\ \A x \in Device \ {d} : cache'[x] = cache[x]
      BY Zenon, <1>2 DEF BaseInv, KeyTypeOK, Handles, Skips, Learns, Leaves, OpensKey, OwnerLearns,
         Cached
    <2>3. keys' \in Nat /\ known' \in Seq(SUBSET Device) /\ Len(known') = keys'
      <3>1. keys \in Nat /\ known \in Seq(SUBSET Device) /\ Len(known) = keys
        BY Zenon DEF BaseInv, KeyTypeOK
      <3>3. CASE keys' = keys + 1 /\ known' = Append(known, {Owner})
        BY <3>1, <3>3
      <3>4. CASE keys' = keys /\ known' = KnownTo(known, m.key, d)
        BY <3>1, <3>4, KnownMore, Zenon
      <3> QED BY Zenon, <3>1, <3>3, <3>4, <1>2 DEF Handles, Skips, Learns, Leaves, OpensKey,
           OwnerLearns
    <2>4. outbox' \in Seq(Publications)
      <3>1. outbox \in Seq(Publications)
        BY Zenon DEF BaseInv, KeyTypeOK
      <3>2. outbox' = outbox \/ \E p \in Publications : outbox' = Append(outbox, p)
        BY <1>2, Zenon DEF Handles, Skips, Learns, Leaves, OpensKey, OwnerLearns, Publishes
      <3> QED BY <3>1, <3>2
    <2> QED BY Zenon, <2>1, <2>2, <2>3, <2>4 DEF BaseInv, KeyTypeOK, RelaySame, Taken, BatchType,
         Sessions
  <1> QED BY Zenon, <1>1, <1>2

LEMMA BaseStep ==
  ASSUME BaseInv, KindOfStep
  PROVE  BaseInv'
  BY Zenon, BaseByNewRevision, BaseBySilent, BaseByRelay, BaseByClient DEF KindOfStep

LEMMA BaseStutters ==
  ASSUME BaseInv, UNCHANGED kvars
  PROVE  BaseInv'
  BY Zenon DEF BaseInv, KeyTypeOK, Sessions, BatchType, kvars, relay, clients

\* In every reachable state the relay's and the clients' variables have their types, a
\* client with a stream is in the session the relay has for it while it has one, a stream
\* the relay is still closing is not the current one, and a client without a stream has
\* forgotten what it was told (clear_peer_states in quic.cpp).
THEOREM KeyTypeCorrect == KeySpec => []BaseInv
  <1>1. BaseInv /\ [KeyNext]_kvars => BaseInv'
    BY Zenon, Steps, BaseStep, BaseStutters
  <1> QED BY <1>1, BaseInit, PTL DEF KeySpec

-----------------------------------------------------------------------------
(* A key is never known to a device that left before the key was used.     *)

InBatch(d, m) == \E b \in batches : d \in DOMAIN b.frames /\ m = b.frames[d]
InInbox(d, m) == \E i \in 1..Len(inbox[d]) : m = inbox[d][i]
UnderWay(d, m) == InBatch(d, m) \/ InInbox(d, m)

\* The client has a session that the relay has not given up, or has published.
Live(d) == link[d] # 0 /\ (link[d] = conn[d] \/ link[d] = active[d])

\* Every key was made by the owner's client, which is sent no envelope.
KeysAreMade ==
    /\ \A d \in Device : \A m \in Frame : UnderWay(d, m) /\ IsEnvelope(m) => m.key \in 1..keys /\ d # Owner
    /\ \A i \in 1..Len(outbox) : \A x \in DOMAIN outbox[i] : outbox[i][x].key \in 1..keys
    /\ cache[Owner].key.epoch # 0 => cache[Owner].key.key \in 1..keys

\* The owner's client is not ahead of the relay.
OwnerNotAhead ==
    /\ \A m \in Frame : InBatch(Owner, m) /\ m.kind = "state" => m.epoch <= key_epoch_for(epoch)
    /\ Live(Owner) => /\ \A m \in Frame : InInbox(Owner, m) /\ m.kind = "state" => m.epoch <= key_epoch_for(epoch)
                      /\ cache[Owner].key.epoch <= key_epoch_for(epoch)

\* A key of the current epoch goes to members only; one that was made by a session that is
\* not published is the owner's alone.
KeyIsMembers ==
    /\ Current(Owner) =>
          /\ known[cache[Owner].key.key] \subseteq members
          /\ \A d \in Device : \A m \in Frame :
                UnderWay(d, m) /\ IsEnvelope(m) /\ m.key = cache[Owner].key.key => d \in members
    /\ Connected(Owner) /\ active[Owner] # link[Owner] /\ cache[Owner].key.epoch # 0 =>
          /\ known[cache[Owner].key.key] = {Owner}
          /\ \A d \in Device : \A m \in Frame :
                UnderWay(d, m) /\ IsEnvelope(m) => m.key # cache[Owner].key.key

DepartedInv == BaseInv /\ KeysAreMade /\ OwnerNotAhead /\ KeyIsMembers

\* What is under way after a step.
LEMMA WayOfNewRevision ==
  ASSUME BaseInv, NewRevision, NEW d \in Device, NEW m
  PROVE  /\ InBatch(d, m)' => \/ InBatch(d, m)
                              \/ m.kind = "state" /\ m.epoch = key_epoch_for(epoch')
                              \/ m.kind = "revoked"
         /\ InInbox(d, m)' => InInbox(d, m)
  <1>1. PICK nb : NewBatch(nb) /\ batches' = batches \cup {nb}
    BY Zenon DEF NewRevision
  <1>2. ASSUME d \in DOMAIN nb.frames, m = nb.frames[d]
        PROVE  \/ m.kind = "state" /\ m.epoch = key_epoch_for(epoch')
               \/ m.kind = "revoked"
    BY <1>1, <1>2, Zenon DEF NewBatch
  <1> QED BY Zenon, <1>1, <1>2 DEF InBatch, NewRevision, InInbox

LEMMA WayOfRouting ==
  ASSUME BaseInv, NEW b \in batches, Routes(b), NEW d \in Device, NEW m
  PROVE  /\ InBatch(d, m)' => InBatch(d, m)
         /\ InInbox(d, m)' => InInbox(d, m) \/ (InBatch(d, m) /\ Connected(d))
  <1>1. InBatch(d, m)' => InBatch(d, m)
    BY Zenon DEF Routes, InBatch
  <1>2. inbox[d] \in Seq(Frame)
    BY Zenon DEF BaseInv, KeyTypeOK
  <1>3. CASE d \in DOMAIN b.frames /\ Connected(d)
    <2>1. inbox'[d] = Append(inbox[d], b.frames[d])
      BY <1>3, Zenon DEF Routes
    <2> QED BY SMTT(30), <1>1, <1>3, <1>2, <2>1 DEF InBatch, InInbox
  <1>4. CASE ~(d \in DOMAIN b.frames /\ Connected(d))
    BY Zenon, <1>4, <1>1 DEF Routes, InInbox
  <1> QED BY Zenon, <1>3, <1>4

LEMMA WayOfForwarding ==
  ASSUME NEW p \in Publications, Forwards(p), NEW d \in Device, NEW m
  PROVE  /\ InBatch(d, m)' => InBatch(d, m) \/ (CanPublish(p) /\ d \in DOMAIN p /\ m = p[d])
         /\ InInbox(d, m)' => InInbox(d, m)
  BY Zenon DEF Forwards, InBatch, InInbox

LEMMA WayOfHanging ==
  ASSUME BaseInv, NEW x \in Device, HangsUp(x), NEW d \in Device, NEW m
  PROVE  /\ InBatch(d, m)' => InBatch(d, m)
         /\ InInbox(d, m)' => InInbox(d, m) /\ d # x
  <1>1. InBatch(d, m)' => InBatch(d, m)
    BY Zenon DEF HangsUp, RelaySame, InBatch
  <1>2. CASE d = x
    BY SMTT(30), <1>2, <1>1 DEF HangsUp, InInbox
  <1>3. CASE d # x
    BY Zenon, <1>3, <1>1 DEF HangsUp, InInbox
  <1> QED BY Zenon, <1>2, <1>3

LEMMA WayOfTaking ==
  ASSUME BaseInv, NEW x \in Device, Taken(x), RelaySame, NEW d \in Device, NEW m
  PROVE  /\ InBatch(d, m)' => InBatch(d, m)
         /\ InInbox(d, m)' => InInbox(d, m)
  <1>1. InBatch(d, m)' => InBatch(d, m)
    BY Zenon DEF RelaySame, InBatch
  <1>2. inbox[d] \in Seq(Frame)
    BY Zenon DEF BaseInv, KeyTypeOK
  <1>3. CASE d = x
    <2>1. inbox'[d] = Tail(inbox[d]) /\ inbox[d] # <<>>
      BY <1>3, Zenon DEF Taken
    <2> QED BY SMTT(30), <1>1, <1>2, <2>1 DEF InInbox
  <1>4. CASE d # x
    BY Zenon, <1>4, <1>1 DEF Taken, InInbox
  <1> QED BY Zenon, <1>3, <1>4

LEMMA HeadIsUnderWay ==
  ASSUME BaseInv, NEW d \in Device, NEW m \in Frame, Handles(d, m)
  PROVE  InInbox(d, m) /\ link[d] # 0
  <1>1. inbox[d] \in Seq(Frame) /\ inbox[d] # <<>> /\ m = Head(inbox[d])
    BY Zenon DEF BaseInv, KeyTypeOK, Handles
  <1> QED BY SMTT(30), <1>1 DEF InInbox, BaseInv, Sessions

LEMMA EpochShown ==
  ASSUME NEW e \in Nat
  PROVE  /\ key_epoch_for(e) \in Nat /\ key_epoch_for(e) # 0 /\ 0 <= key_epoch_for(e) /\ 1 <= key_epoch_for(e)
         /\ key_epoch_for(e) <= key_epoch_for(e) /\ key_epoch_for(e) <= key_epoch_for(e + 1)
         /\ e >= 1 => \A n \in Nat : n <= key_epoch_for(e) => n # key_epoch_for(e + 1)
         /\ \A n \in Nat : n <= key_epoch_for(e) => n <= key_epoch_for(e + 1)
  BY DEF key_epoch_for

LEMMA OwnerTypes ==
  ASSUME BaseInv
  PROVE  /\ cache[Owner] \in Cache /\ cache[Owner].key.epoch \in Nat /\ cache[Owner].key.key \in Nat
         /\ link[Owner] = 0 => cache[Owner].key.epoch = 0
  <1>3. EmptyCache.key.epoch = 0
    BY Zenon DEF EmptyCache, NoKey
  <1> QED BY Zenon, <1>3, CacheFields DEF BaseInv, KeyTypeOK, Sessions

\* The steps that leave the owner's client, the keys and the epoch alone and send nothing new.
LEMMA DepartedSame ==
  ASSUME DepartedInv, BaseInv', UNCHANGED <<members, epoch, keys, known, outbox>>,
         link'[Owner] = link[Owner], active'[Owner] = active[Owner],
         conn'[Owner] = conn[Owner] \/ conn'[Owner] = 0,
         cache'[Owner] = cache[Owner],
         \A d \in Device : \A m \in Frame : UnderWay(d, m)' => UnderWay(d, m),
         \A m \in Frame : InBatch(Owner, m)' => InBatch(Owner, m),
         \A m \in Frame : InInbox(Owner, m)' => InInbox(Owner, m) \/ InBatch(Owner, m)
  PROVE  DepartedInv'
  BY Zenon DEF Live, Current, Connected, DepartedInv, KeysAreMade, OwnerNotAhead, KeyIsMembers

LEMMA DepartedByNewRevision ==
  ASSUME DepartedInv, NewRevision, BaseInv'
  PROVE  DepartedInv'
  <1>0. BaseInv /\ KeysAreMade /\ OwnerNotAhead /\ KeyIsMembers /\ Owner \in Device
    BY Zenon DEF DepartedInv
  <1>1. /\ UNCHANGED <<conn, link, outbox, cache, keys, known>> /\ Published(Owner) /\ Owner \in members'
        /\ \/ epoch' = epoch /\ members' = members /\ active'[Owner] = active[Owner]
           \/ epoch' = epoch + 1
    BY <1>0, Zenon DEF NewRevision
  <1>2. /\ key_epoch_for(epoch') \in Nat /\ key_epoch_for(epoch') # 0
        /\ \A n \in Nat : n <= key_epoch_for(epoch) => n <= key_epoch_for(epoch')
        /\ key_epoch_for(epoch') <= key_epoch_for(epoch')
        /\ epoch >= 1 /\ epoch' = epoch + 1 => \A n \in Nat : n <= key_epoch_for(epoch) => n # key_epoch_for(epoch')
    <2>2. PICK e \in Nat : e = epoch
      BY Zenon, <1>0, BaseTypes
    <2>4. e + 1 \in Nat
      OBVIOUS
    <2>5. CASE epoch' = e
      BY Zenon, <2>2, <2>5, EpochShown
    <2>6. CASE epoch' = e + 1
      BY <2>2, <2>4, <2>6, EpochShown, Zenon
    <2> QED BY Zenon, <2>5, <2>6, <1>1, <2>2
  <1>3. \A d \in Device : \A m \in Frame : UnderWay(d, m)' /\ IsEnvelope(m) => UnderWay(d, m)
    BY <1>0, WayOfNewRevision, Zenon DEF UnderWay, IsEnvelope
  <1>7. Current(Owner)' => \/ Current(Owner) /\ members' = members
                           \/ Connected(Owner) /\ active[Owner] # link[Owner] /\ cache[Owner].key.epoch # 0
    <2> SUFFICES ASSUME Current(Owner)'
                 PROVE  \/ Current(Owner) /\ members' = members
                        \/ Connected(Owner) /\ active[Owner] # link[Owner] /\ cache[Owner].key.epoch # 0
      BY Zenon
    <2>1. link[Owner] # 0 /\ link[Owner] = active'[Owner] /\ cache[Owner].key.epoch = key_epoch_for(epoch')
      BY <1>1, Zenon DEF Current
    <2>2. CASE epoch' = epoch /\ members' = members /\ active'[Owner] = active[Owner]
      BY <2>1, <2>2, Zenon DEF Current
    <2>3. CASE epoch' = epoch + 1 /\ active[Owner] = link[Owner]
      BY Zenon, <1>0, <2>1, <2>3, OwnerTypes, <1>2 DEF BaseInv, Sessions, Live, OwnerNotAhead
    <2>4. CASE active[Owner] # link[Owner]
      BY Zenon, <1>1, <2>1, <2>4, <1>2 DEF Published, Connected
    <2> QED BY Zenon, <1>1, <2>2, <2>3, <2>4
  <1> QED BY Zenon, <1>0, <1>1, <1>3, FrameFields, <1>2, WayOfNewRevision, OwnerTypes, <1>7 DEF
       DepartedInv, KeysAreMade, OwnerNotAhead, Live, Published, KeyIsMembers, Connected

LEMMA DepartedByRelay ==
  ASSUME DepartedInv, BaseInv', NEW d \in Device,
         \/ Silent \/ Registers(d) \/ Shuts(d) \/ Restarts \/ \E b \in batches : Routes(b)
         \/ \E p \in Publications : Forwards(p)
  PROVE  DepartedInv'
  <1>0. BaseInv /\ KeysAreMade /\ OwnerNotAhead /\ KeyIsMembers /\ Owner \in Device
    BY Zenon DEF DepartedInv
  <1>1. CASE Silent
    BY Zenon, <1>0, <1>1, BaseTypes, DepartedSame DEF Silent, InBatch, InInbox, UnderWay
  <1>2. CASE Registers(d)
    <2>1. \A x \in Device : \A m \in Frame : (InBatch(x, m)' => InBatch(x, m)) /\ (InInbox(x, m)' => InInbox(x, m))
      BY <1>2, Zenon DEF Registers, InBatch, InInbox
    <2>2. CASE d # Owner
      BY Zenon, <1>0, <1>2, <2>2, <2>1, DepartedSame DEF Registers, UnderWay
    <2>3. CASE d = Owner
      <3>1. /\ UNCHANGED <<members, epoch, keys, known, outbox, cache, inbox, batches>> /\ link[Owner] = 0
        BY <1>2, <2>3, Zenon DEF Registers
      <3>4. \A m \in Frame : ~InInbox(Owner, m)
        <4>1. inbox[Owner] = <<>>
          BY <1>0, <3>1, Zenon DEF BaseInv, Sessions
        <4> QED BY SMTT(30), <4>1 DEF InInbox
      <3> QED BY Zenon, <1>0, <2>1, <3>1, <3>4, OwnerTypes, BaseTypes, EpochShown DEF DepartedInv,
           KeysAreMade, UnderWay, OwnerNotAhead, KeyIsMembers, Current
    <2> QED BY Zenon, <2>2, <2>3
  <1>3. CASE Shuts(d)
    <2>1. \A x \in Device : \A m \in Frame : (InBatch(x, m)' => InBatch(x, m)) /\ (InInbox(x, m)' => InInbox(x, m))
      BY <1>3, Zenon DEF Shuts, InBatch, InInbox
    <2>2. CASE d # Owner
      BY Zenon, <1>0, <1>3, <2>2, <2>1, DepartedSame DEF Shuts, UnderWay
    <2>3. CASE d = Owner
      <3>1. UNCHANGED <<members, epoch, keys, known, cache, link, active>> /\ outbox' = <<>> /\ conn'[Owner] = 0
        BY <1>3, <2>3, Zenon DEF Shuts
      <3>2. \A i \in 1..Len(outbox') : FALSE
        BY SMTT(30), <3>1
      <3> QED BY Zenon, <1>0, <2>1, <3>1, <3>2 DEF DepartedInv, KeysAreMade, UnderWay,
           OwnerNotAhead, Live, KeyIsMembers, Connected, Current
    <2> QED BY Zenon, <2>2, <2>3
  <1>4. CASE Restarts
    <2>2. /\ UNCHANGED <<keys, known, cache, link>> /\ conn'[Owner] = 0 /\ active'[Owner] = 0
          /\ \A i \in 1..Len(outbox') : FALSE
      BY <1>0, <1>4 DEF Restarts
    <2> QED BY Zenon, <1>0, <2>2, <1>4 DEF DepartedInv, OwnerNotAhead, KeyIsMembers, Live,
         Connected, Current, KeysAreMade, UnderWay, Restarts, InBatch, InInbox
  <1>5. ASSUME NEW b \in batches, Routes(b) PROVE DepartedInv'
    BY Zenon, <1>0, <1>5, WayOfRouting, DepartedSame DEF Routes, UnderWay
  <1>6. ASSUME NEW p \in Publications, Forwards(p) PROVE DepartedInv'
    <2>1. /\ UNCHANGED <<members, epoch, active, conn, link, inbox, cache, keys, known>>
          /\ outbox # <<>> /\ p = Head(outbox) /\ outbox' = Tail(outbox)
          /\ conn[Owner] # 0 /\ active[Owner] = conn[Owner]
      BY <1>6, Zenon DEF Forwards
    <2>2. outbox \in Seq(Publications)
      BY Zenon, <1>0 DEF BaseInv, KeyTypeOK
    <2>3. /\ 1 \in 1..Len(outbox) /\ p = outbox[1]
          /\ \A i \in 1..Len(outbox') : i + 1 \in 1..Len(outbox) /\ outbox'[i] = outbox[i + 1]
      BY <2>1, <2>2
    <2>4. DOMAIN p \subseteq Device \ {Owner} /\ \A x \in DOMAIN p : p[x].kind = "envelope"
      BY Zenon, PublicationFields
    <2>5. \A x \in DOMAIN p : p[x].key \in 1..keys
      BY <1>0, <2>3, Zenon DEF KeysAreMade
    <2>6. \A x \in Device : \A m \in Frame :
            /\ InBatch(x, m)' => InBatch(x, m) \/ (CanPublish(p) /\ x \in DOMAIN p /\ m = p[x])
            /\ InInbox(x, m)' => InInbox(x, m)
      BY <1>6, WayOfForwarding, Zenon
    <2>7. KeysAreMade'
      <3>1. \A x \in Device : \A m \in Frame : UnderWay(x, m)' /\ IsEnvelope(m) => m.key \in 1..keys /\ x # Owner
        BY <1>0, <2>4, <2>5, <2>6, Zenon DEF KeysAreMade, UnderWay
      <3>2. \A i \in 1..Len(outbox') : \A x \in DOMAIN outbox'[i] : outbox'[i][x].key \in 1..keys
        BY <1>0, <2>3, Zenon DEF KeysAreMade
      <3> QED BY Zenon, <2>1, <3>1, <3>2, <1>0 DEF KeysAreMade
    <2> QED BY Zenon, <2>7, <1>0, <2>1, <2>4, <2>6 DEF DepartedInv, OwnerNotAhead, Live,
         KeyIsMembers, UnderWay, Connected, Current, CanPublish
  <1> QED BY Zenon, <1>1, <1>2, <1>3, <1>4, <1>5, <1>6

LEMMA DepartedByClient ==
  ASSUME DepartedInv, BaseInv', NEW d \in Device, HangsUp(d) \/ \E m \in Frame : Handles(d, m)
  PROVE  DepartedInv'
  <1>0. BaseInv /\ KeysAreMade /\ OwnerNotAhead /\ KeyIsMembers /\ Owner \in Device
    BY Zenon DEF DepartedInv
  <1>9. epoch \in Nat /\ 0 <= key_epoch_for(epoch) /\ key_epoch_for(epoch) # 0
    BY Zenon, <1>0, BaseTypes, EpochShown
  <1>1. CASE HangsUp(d)
    <2>1. \A x \in Device : \A m \in Frame : (InBatch(x, m)' => InBatch(x, m)) /\ (InInbox(x, m)' => InInbox(x, m))
      BY <1>0, <1>1, WayOfHanging, Zenon
    <2>2. UNCHANGED <<members, epoch, active, conn, keys, known, outbox>>
      BY <1>1, Zenon DEF HangsUp, RelaySame
    <2>3. CASE d # Owner
      BY Zenon, <1>0, <1>1, <2>3, <2>1, <2>2, DepartedSame DEF HangsUp, Cached, UnderWay
    <2>4. CASE d = Owner
      <3>2. cache'[Owner].key.epoch = 0
        <4>1. cache'[Owner] = EmptyCache
          BY <1>1, <2>4, Zenon DEF HangsUp, Cached
        <4> QED BY <4>1 DEF EmptyCache, NoKey
      <3> QED BY Zenon, <1>0, <2>1, <2>2, <3>2, <1>1, <2>4 DEF DepartedInv, KeyIsMembers,
           KeysAreMade, UnderWay, OwnerNotAhead, Live, Connected, Current, HangsUp
    <2> QED BY Zenon, <2>3, <2>4
  <1>2. ASSUME NEW m \in Frame, Handles(d, m), ~HangsUp(d) PROVE DepartedInv'
    <2>1. RelaySame /\ Taken(d) /\ UNCHANGED link
      BY <1>2, Zenon DEF Handles, Skips, Learns, Leaves, OpensKey, OwnerLearns
    <2>2. UNCHANGED <<members, epoch, active, conn, link>>
      BY <2>1, Zenon DEF RelaySame
    <2>3. \A x \in Device : \A n \in Frame : (InBatch(x, n)' => InBatch(x, n)) /\ (InInbox(x, n)' => InInbox(x, n))
      BY <1>0, <2>1, WayOfTaking, Zenon
    <2>4. InInbox(d, m)
      BY <1>0, <1>2, HeadIsUnderWay, Zenon
    <2>5. CASE Skips(d, m)
      BY <1>0, <2>2, <2>3, <2>5, DepartedSame, Zenon DEF UnderWay, Skips
    <2>6. CASE Learns(d, m)
      BY Zenon, <1>0, <2>6, <2>2, <2>3, DepartedSame DEF Learns, Cached, UnderWay
    <2>7. CASE Leaves(d, m)
      <3>1. CASE d # Owner
        BY Zenon, <1>0, <2>7, <3>1, <2>2, <2>3, DepartedSame DEF Leaves, Cached, UnderWay
      <3>2. CASE d = Owner
        <4>1. cache'[Owner].key.epoch = 0
          BY SMTT(30), <2>7, <3>2 DEF Leaves, Cached, NoKey
        <4> QED BY Zenon, <1>0, <1>9, <2>2, <2>3, <4>1, <2>7 DEF DepartedInv, OwnerNotAhead, Live,
             KeysAreMade, UnderWay, Leaves, KeyIsMembers, Current
      <3> QED BY Zenon, <3>1, <3>2
    <2>8. CASE OpensKey(d, m)
      <3>1. m.key \in 1..keys /\ d # Owner /\ IsEnvelope(m)
        BY <1>0, <2>4, <2>8, Zenon DEF KeysAreMade, UnderWay, OpensKey, IsEnvelope
      <3>2. UNCHANGED <<keys, outbox>> /\ known' = KnownTo(known, m.key, d) /\ cache'[Owner] = cache[Owner]
        BY <1>0, <2>8, <3>1, Zenon DEF OpensKey, Cached
      <3>3. known \in Seq(SUBSET Device) /\ Len(known) = keys
        BY Zenon, <1>0 DEF BaseInv, KeyTypeOK
      <3>4. \A j \in 1..keys : known'[j] = IF j = m.key THEN known[j] \cup {d} ELSE known[j]
        <4>1. OneKnowsMore(KnownTo(known, m.key, d), known, m.key, d)
          BY <3>3, KnownMore, Zenon
        <4> QED BY <3>2, <3>3, <4>1, Zenon DEF OneKnowsMore
      <3>7. Current(Owner) => cache[Owner].key.epoch # 0
        BY <1>9, Zenon DEF Current
      <3>8. cache[Owner].key.epoch # 0 => cache[Owner].key.key \in 1..keys
        BY <1>0, Zenon DEF KeysAreMade
      <3>9. Current(Owner) => known'[cache[Owner].key.key] \subseteq members
        <4> SUFFICES ASSUME Current(Owner) PROVE known'[cache[Owner].key.key] \subseteq members
          BY Zenon
        <4>1. m.key = cache[Owner].key.key => d \in members
          BY <1>0, <2>4, <3>1, Zenon DEF KeyIsMembers, UnderWay
        <4>2. known[cache[Owner].key.key] \subseteq members
          BY <1>0, Zenon DEF KeyIsMembers
        <4> QED BY Zenon, <3>4, <3>7, <3>8, <4>1, <4>2
      <3>10. Connected(Owner) /\ active[Owner] # link[Owner] /\ cache[Owner].key.epoch # 0 => known'[cache[Owner].key.key] = {Owner}
        BY <1>0, <2>4, <3>1, <3>4, <3>8, Zenon DEF KeyIsMembers, UnderWay
      <3> QED BY Zenon, <1>0, <2>3, <3>2, <2>2, <3>9, <3>10 DEF DepartedInv, KeysAreMade, UnderWay,
           OwnerNotAhead, Live, KeyIsMembers, Current, Connected
    <2>10. CASE d = Owner /\ OwnerLearns(m)
      <3>1. m.epoch \in Nat /\ m.epoch >= 1 /\ m.epoch # 0 /\ m.kind = "state"
        BY SMTT(30), <2>10, FrameFields DEF OwnerLearns
      <3>2. PICK c : /\ Cached(Owner, c) /\ Learnt(c, m) /\ Publishes(c, m)
                     /\ \/ /\ c.key = cache[Owner].key /\ cache[Owner].key.epoch = m.epoch
                           /\ UNCHANGED <<keys, known>>
                        \/ /\ c.key.epoch = m.epoch /\ c.key.key = keys + 1 /\ cache[Owner].key.epoch # m.epoch
                           /\ keys' = keys + 1 /\ known' = Append(known, {Owner})
        BY <2>10, Zenon DEF OwnerLearns
      <3>3. cache'[Owner] = c /\ c.key.epoch = m.epoch
        BY <3>2, Zenon DEF Cached
      <3>4. known \in Seq(SUBSET Device) /\ Len(known) = keys /\ keys \in Nat /\ outbox \in Seq(Publications)
        BY Zenon, <1>0 DEF BaseInv, KeyTypeOK
      <3>5. c.key.key \in 1..keys' /\ \A k \in 1..keys : k \in 1..keys'
        BY SMTT(30), <1>0, <3>1, <3>4, <3>2 DEF KeysAreMade
      <3>6. \A i \in 1..Len(outbox') : \A x \in DOMAIN outbox'[i] : outbox'[i][x].key \in 1..keys'
        <4>1. CASE outbox' = outbox
          BY <1>0, <3>5, <4>1, Zenon DEF KeysAreMade
        <4>2. ASSUME NEW p \in Publications, outbox' = Append(outbox, p), \A x \in DOMAIN p : p[x].key = c.key.key
              PROVE  \A i \in 1..Len(outbox') : \A x \in DOMAIN outbox'[i] : outbox'[i][x].key \in 1..keys'
          BY SMTT(30), <3>4, <4>2, <1>0, <3>5 DEF KeysAreMade
        <4> QED BY <3>2, <4>1, <4>2, Zenon DEF Publishes
      <3>7. KeysAreMade'
        BY <1>0, <2>3, <3>3, <3>5, <3>6, Zenon DEF KeysAreMade, UnderWay
      <3>9. OwnerNotAhead'
        BY Zenon, <1>0, <2>2, <2>3, <3>3, <2>4, <2>10, <3>1 DEF OwnerNotAhead, Live
      <3>10. CASE c.key = cache[Owner].key /\ cache[Owner].key.epoch = m.epoch /\ UNCHANGED <<keys, known>>
        BY Zenon, <3>3, <3>10, <2>2, <1>0, <2>3, <3>7, <3>9 DEF Current, Connected, KeyIsMembers,
           UnderWay, DepartedInv
      <3>11. CASE c.key.key = keys + 1 /\ known' = Append(known, {Owner})
        <4>1. known'[keys + 1] = {Owner} /\ keys + 1 \notin 1..keys
          BY SMTT(30), <3>4, <3>11
        <4>3. \A x \in Device : \A n \in Frame : UnderWay(x, n)' /\ IsEnvelope(n) => n.key # keys + 1
          BY <1>0, <2>3, <4>1, Zenon DEF KeysAreMade, UnderWay
        <4> QED BY Zenon, <3>7, <3>9, <2>2, <4>1, <4>3, <3>3, <3>11, <1>0, BaseTypes DEF
             DepartedInv, KeyIsMembers
      <3> QED BY Zenon, <3>2, <3>10, <3>11
    <2> QED BY <1>2, <2>5, <2>6, <2>7, <2>8, <2>10, Zenon DEF Handles
  <1> QED BY Zenon, <1>1, <1>2

LEMMA DepartedStep ==
  ASSUME DepartedInv, KindOfStep
  PROVE  DepartedInv'
  BY Zenon, BaseStep, DepartedByNewRevision, DepartedByRelay, DepartedByClient DEF DepartedInv,
     KindOfStep

LEMMA DepartedInit ==
  ASSUME KeyInit
  PROVE  DepartedInv
  BY SMTT(30), BaseInit, OwnerTypes DEF KeyInit, InBatch, InInbox, Live, Current, KeysAreMade,
     UnderWay, OwnerNotAhead, KeyIsMembers, DepartedInv

LEMMA DepartedStutters ==
  ASSUME DepartedInv, UNCHANGED kvars
  PROVE  DepartedInv'
  BY Zenon, BaseStutters, DepartedSame DEF DepartedInv, kvars, relay, clients, InBatch, InInbox,
     UnderWay

\* Whatever the order of publications, removals and reconnections: while the owner's client
\* is current, no device that left the network knows the key the owner encrypts with
\* (apply_peer_state and apply_network_key_envelope in quic.cpp).
THEOREM DepartedNever == KeySpec => []DepartedNeverKnows
  <1>1. DepartedInv /\ [KeyNext]_kvars => DepartedInv'
    BY Zenon, Steps, DepartedStep, DepartedStutters DEF DepartedInv
  <1>2. DepartedInv => DepartedNeverKnows
    BY Zenon DEF DepartedInv, KeyIsMembers, DepartedNeverKnows
  <1> QED BY <1>1, <1>2, DepartedInit, PTL DEF KeySpec

=============================================================================
