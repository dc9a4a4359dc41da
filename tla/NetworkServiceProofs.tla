------------------------ MODULE NetworkServiceProofs ------------------------
(***************************************************************************)
(* Proofs about NetworkService, on top of what RelayStoreProofs proves of  *)
(* the methods of the database.                                            *)
(***************************************************************************)
EXTENDS NetworkService, RelayStoreProofs, FiniteSetTheorems

-----------------------------------------------------------------------------
(* What the methods of the database change.                                *)

\* Networks, members and policies are the same.
SameStanding(s, t) ==
    t.owner = s.owner /\ t.members = s.members /\ t.policy = s.policy

LEMMA RecordDeviceEffect ==
    ASSUME NEW s \in Store, NEW d \in Device
    PROVE  SameStanding(s, record_device(s, d)) /\ record_device(s, d).links = s.links
BY DEF SameStanding, record_device, Store

LEMMA CreateNetworkEffect ==
    ASSUME NEW s \in Store, NEW n \in Network, NEW d \in Device, NEW pw \in Password
    PROVE  /\ store_create_network(s, n, d, pw).owner = [s.owner EXCEPT ![n] = d]
           /\ store_create_network(s, n, d, pw).members = [s.members EXCEPT ![n] = {d}]
           /\ store_create_network(s, n, d, pw).policy = s.policy
           /\ store_create_network(s, n, d, pw).links = s.links
BY DEF store_create_network, Store

LEMMA AddMemberEffect ==
    ASSUME NEW s \in Store, NEW n \in Network, NEW d \in Device
    PROVE  /\ add_member(s, n, d).owner = s.owner
           /\ add_member(s, n, d).members = [s.members EXCEPT ![n] = @ \cup {d}]
           /\ add_member(s, n, d).policy = s.policy
           /\ add_member(s, n, d).links = s.links
BY DEF add_member, Store

LEMMA RemoveMemberEffect ==
    ASSUME NEW s \in Store, NEW n \in Network, NEW d \in Device
    PROVE  /\ remove_member(s, n, d).owner = s.owner
           /\ remove_member(s, n, d).members = [s.members EXCEPT ![n] = @ \ {d}]
           /\ remove_member(s, n, d).policy = [s.policy EXCEPT ![n] = ScrubbedPolicy(@, d)]
           /\ remove_member(s, n, d).links = s.links
BY DEF remove_member, Store

LEMMA PendingEffect ==
    ASSUME NEW s \in Store, NEW n \in Network, NEW d \in Device
    PROVE  /\ SameStanding(s, add_invitation(s, n, d)) /\ add_invitation(s, n, d).links = s.links
           /\ SameStanding(s, add_join_request(s, n, d)) /\ add_join_request(s, n, d).links = s.links
BY DEF SameStanding, add_invitation, add_join_request, Store

LEMMA RedeemEffect ==
    ASSUME NEW s \in Store, NEW n \in Network, NEW l \in Link, NEW d \in Device
    PROVE  /\ SameStanding(s, redeem_invite_link(s, n, l, d))
           /\ redeem_invite_link(s, n, l, d).links = [s.links EXCEPT ![n][l] = @ - 1]
           /\ redeem_invite_link(s, n, l, d).invited = [s.invited EXCEPT ![n] = @ \cup {d}]
           /\ redeem_invite_link(s, n, l, d).host = s.host
           /\ redeem_invite_link(s, n, l, d).devices = s.devices
BY DEF SameStanding, redeem_invite_link, Store

LEMMA PasswordEffect ==
    ASSUME NEW s \in Store, NEW n \in Network, NEW pw \in Password
    PROVE  /\ SameStanding(s, set_network_password(s, n, pw))
           /\ set_network_password(s, n, pw).links = s.links
BY DEF SameStanding, set_network_password, Store

LEMMA SavePolicyEffect ==
    ASSUME NEW s \in Store, NEW n \in Network, NEW p \in Policy, NEW e \in 0..MaxPolicyRevision
    PROVE  /\ save_network_policy(s, n, p, e).owner = s.owner
           /\ save_network_policy(s, n, p, e).members = s.members
           /\ save_network_policy(s, n, p, e).policy = [s.policy EXCEPT ![n] = [p EXCEPT !.revision = e + 1]]
           /\ save_network_policy(s, n, p, e).links = s.links
BY DEF save_network_policy, Store

-----------------------------------------------------------------------------
(* Policies name members.                                                  *)

\* PolicyNamesMembers, of one network.
Names(p, members, owner) ==
    /\ p.hubs \subseteq members /\ p.routes \subseteq members
    /\ \A r \in p.rules : r \subseteq members
    /\ \A d \in Device : p.gateway[d] # "none" => d \in members /\ p.role[d] # "restricted"
    /\ \A d \in Device : p.role[d] = "administrator" => d \in members
    /\ \A d \in p.routes : p.gateway[d] = "approved"
    /\ p.role[owner] = "member"

NamesIn(s) == \A n \in Network : find_network(s, n) => Names(s.policy[n], s.members[n], s.owner[n])

LEMMA NamesIsPolicyNamesMembers == NamesIn(db) => PolicyNamesMembers
<1> SUFFICES ASSUME NamesIn(db), NEW n \in Network, find_network(db, n)
             PROVE  LET p == db.policy[n]
                        gateways == {d \in Device : p.gateway[d] # "none"}
                        administrators == {d \in Device : p.role[d] = "administrator"}
                    IN  /\ p.hubs \cup (UNION p.rules) \cup p.routes \cup gateways
                                \cup administrators \subseteq db.members[n]
                        /\ \A d \in p.routes : p.gateway[d] = "approved"
                        /\ \A d \in gateways : p.role[d] # "restricted"
                        /\ p.role[db.owner[n]] = "member"
  BY Zenon DEF PolicyNamesMembers
<1> DEFINE p == db.policy[n]
           gateways == {d \in Device : p.gateway[d] # "none"}
           administrators == {d \in Device : p.role[d] = "administrator"}
           ruled == UNION p.rules
<1> HIDE DEF p, gateways, administrators, ruled
<1> QED BY Zenon DEF p, gateways, administrators, ruled, Names, NamesIn

LEMMA NoPolicyNames ==
    ASSUME NEW m, NEW o \in Device
    PROVE  Names(NoPolicy, m, o)
BY DEF Names, NoPolicy

LEMMA ScrubbedNames ==
    ASSUME NEW p \in Policy, NEW m, NEW o \in Device, NEW d \in Device, d # o, Names(p, m, o)
    PROVE  Names(ScrubbedPolicy(p, d), m \ {d}, o)
<1> DEFINE q == PrunedPolicy(p, d)
<1>1. /\ q.hubs = p.hubs \ {d} /\ q.routes = p.routes \ {d} /\ q.rules = {r \in p.rules : d \notin r}
      /\ q.gateway = [p.gateway EXCEPT ![d] = "none"]
      /\ q.role = [p.role EXCEPT ![d] = IF @ = "restricted" THEN @ ELSE "member"]
  BY Zenon DEF PrunedPolicy, Policy
<1> HIDE DEF q
<1>4. Names(q, m \ {d}, o)
  BY SMTT(30), <1>1 DEF Names, Policy
<1>5. \A k : Names([q EXCEPT !.revision = k], m \ {d}, o)
  <2> TAKE k
  <2> DEFINE z == [q EXCEPT !.revision = k]
  <2> HIDE DEF z
  <2> QED BY SMTT(30), <1>4 DEF z, Names, Policy, PrunedPolicy, Role, GatewayState
<1> QED BY Zenon, <1>4, <1>5 DEF ScrubbedPolicy, q

\* A change of one network's row keeps NamesIn if it does so for that network.
LEMMA NamesOfOne ==
    ASSUME NEW s \in Store, NamesIn(s), NEW t \in Store, NEW n \in Network,
           \A m \in Network \ {n} : /\ t.owner[m] = s.owner[m] /\ t.members[m] = s.members[m]
                                    /\ t.policy[m] = s.policy[m],
           find_network(t, n) => Names(t.policy[n], t.members[n], t.owner[n])
    PROVE  NamesIn(t)
BY DEF NamesIn, find_network

LEMMA SameNames ==
    ASSUME NEW s, NEW t, SameStanding(s, t), NamesIn(s)
    PROVE  NamesIn(t)
BY DEF NamesIn, find_network, SameStanding

LEMMA MoreMembersNames ==
    ASSUME NEW p \in Policy, NEW m, NEW k, m \subseteq k, NEW o, Names(p, m, o)
    PROVE  Names(p, k, o)
BY SMTT(30) DEF Names

LEMMA AddMemberNames ==
    ASSUME NEW s, StoreInvIn(s), NamesIn(s), NEW n \in Network, NEW d \in Device, CanAddMember(s, n, d)
    PROVE  NamesIn(add_member(s, n, d))
<1> DEFINE t == add_member(s, n, d)
<1>1. s \in Store /\ t \in Store
  BY Zenon, AddMemberInv DEF StoreInvIn
<1>2. t.owner = s.owner /\ t.members = [s.members EXCEPT ![n] = @ \cup {d}] /\ t.policy = s.policy
  BY SMTT(30), <1>1, AddMemberEffect
<1> HIDE DEF t
<1>5. Names(t.policy[n], t.members[n], t.owner[n])
  BY SMTT(30), <1>2, MoreMembersNames, <1>1 DEF NamesIn, CanAddMember, Store
<1> QED BY Zenon, <1>1, <1>5, NamesOfOne, <1>2 DEF t, Store

LEMMA RemoveMemberNames ==
    ASSUME NEW s, StoreInvIn(s), NamesIn(s), NEW n \in Network, NEW d \in Device, CanRemoveMember(s, n, d)
    PROVE  NamesIn(remove_member(s, n, d))
<1> DEFINE t == remove_member(s, n, d)
<1>1. s \in Store /\ t \in Store
  BY Zenon, RemoveMemberInv DEF StoreInvIn
<1>2. /\ t.owner = s.owner /\ t.members = [s.members EXCEPT ![n] = @ \ {d}]
      /\ t.policy = [s.policy EXCEPT ![n] = ScrubbedPolicy(@, d)]
  BY SMTT(30), <1>1, RemoveMemberEffect
<1> HIDE DEF t
<1>3. s.policy[n] \in Policy /\ t.members[n] = s.members[n] \ {d}
      /\ t.policy[n] = ScrubbedPolicy(s.policy[n], d)
  BY SMTT(30), <1>1, <1>2 DEF Store
<1>4. find_network(t, n) => Names(t.policy[n], t.members[n], t.owner[n])
  <2> SUFFICES ASSUME find_network(t, n) PROVE Names(t.policy[n], t.members[n], t.owner[n])
    BY Zenon
  <2>1. find_network(s, n) /\ s.owner[n] \in Device /\ d # s.owner[n]
    BY <1>1, <1>2 DEF find_network, CanRemoveMember, Store
  <2> QED BY SMTT(30), <1>2, <1>3, <2>1, ScrubbedNames DEF NamesIn
<1>6. \A m \in Network \ {n} : t.owner[m] = s.owner[m] /\ t.members[m] = s.members[m] /\ t.policy[m] = s.policy[m]
  BY SMTT(30), <1>1, <1>2 DEF Store
<1>7. NamesIn(t)
  BY Zenon, <1>1, <1>4, <1>6, NamesOfOne
<1> QED BY Zenon, <1>7 DEF t

LEMMA CreateNetworkNames ==
    ASSUME NEW s, StoreInvIn(s), NamesIn(s), NEW n \in Network, NEW d \in Device, NEW pw \in Password,
           CanCreateNetwork(s, n, d)
    PROVE  NamesIn(store_create_network(s, n, d, pw))
<1> DEFINE t == store_create_network(s, n, d, pw)
<1>1. s \in Store /\ t \in Store
  BY Zenon, CreateNetworkInv DEF StoreInvIn
<1>2. /\ t.owner = [s.owner EXCEPT ![n] = d] /\ t.members = [s.members EXCEPT ![n] = {d}]
      /\ t.policy = s.policy
  BY SMTT(30), <1>1, CreateNetworkEffect
<1> HIDE DEF t
<1>3. s.policy[n] = NoPolicy /\ t.owner[n] = d
  BY Zenon, <1>1, <1>2 DEF StoreInvIn, RowsBelongIn, CanCreateNetwork, Store
<1>4. Names(t.policy[n], t.members[n], t.owner[n])
  BY Zenon, <1>2, <1>3, NoPolicyNames
<1> QED BY Zenon, <1>1, <1>4, NamesOfOne, <1>2 DEF t, Store

\* A document that passes the checks of manage_network and of the store.
LEMMA AcceptableNames ==
    ASSUME StoreInv, NamesIn(db), NEW n \in Network, NEW d \in Device, NEW p \in Policy,
           NEW request \in BOOLEAN, NEW base \in 0..MaxPolicyRevision,
           request => p.hubs = db.policy[n].hubs /\ p.rules = db.policy[n].rules,
           AcceptablePolicy(d, n, p, request), CanSavePolicy(db, n, p, base)
    PROVE  Names(p, db.members[n], db.owner[n])
<1>1. find_network(db, n) /\ \A x \in p.routes : p.gateway[x] = "approved"
  BY Zenon DEF CanSavePolicy, WellFormedPolicy
<1>2. db \in Store /\ db.owner[n] \in Device
  BY Zenon, <1>1 DEF StoreInv, StoreInvIn, Store, find_network
<1>3. \A x \in Device : db.host[n][x] # 0 => x \in db.members[n]
  BY Zenon DEF StoreInv, StoreInvIn, LeaseIffMemberIn
<1>4. /\ p.hubs \subseteq Device /\ p.routes \subseteq Device /\ p.rules \subseteq SUBSET Device
      /\ p.role \in [Device -> Role] /\ p.gateway \in [Device -> GatewayState]
  BY Zenon DEF Policy
<1>5. p.hubs \subseteq db.members[n] /\ \A r \in p.rules : r \subseteq db.members[n]
  BY Zenon, <1>1, <1>3, <1>4 DEF NamesIn, Names, AcceptablePolicy
<1>9. p.role[db.owner[n]] = "member"
  BY Zenon, <1>2 DEF AcceptablePolicy
<1> QED BY Zenon, <1>1, <1>5, <1>9, <1>3, <1>4 DEF Names, AcceptablePolicy

LEMMA RevisedNames ==
    ASSUME NEW p \in Policy, NEW k, NEW m, NEW o, Names(p, m, o)
    PROVE  Names([p EXCEPT !.revision = k], m, o)
<1> DEFINE z == [p EXCEPT !.revision = k]
<1> HIDE DEF z
<1> QED BY Zenon DEF z, Names, Policy

LEMMA SaveAnyPolicyInv ==
    ASSUME NEW s, StoreInvIn(s), NEW n \in Network, NEW p \in Policy,
           NEW expected \in 0..MaxPolicyRevision, CanSavePolicy(s, n, p, expected)
    PROVE  StoreInvIn(save_network_policy(s, n, p, expected))
<1> DEFINE t == save_network_policy(s, n, p, expected)
           q == [p EXCEPT !.revision = expected + 1]
<1>1. q \in Policy
  BY StoreAssumption DEF Policy, CanSavePolicy
<1>2. t = [s EXCEPT !.policy[n] = q] /\ find_network(s, n)
  BY Zenon DEF save_network_policy, CanSavePolicy
<1> HIDE DEF q, t
<1>3. t \in Store
  BY Zenon, <1>1, <1>2 DEF StoreInvIn, Store
<1>4. /\ t.devices = s.devices /\ t.owner = s.owner /\ t.members = s.members /\ t.subnet = s.subnet
      /\ t.host = s.host /\ t.invited = s.invited /\ t.requested = s.requested /\ t.links = s.links
      /\ t.password = s.password /\ \A m \in Network \ {n} : t.policy[m] = s.policy[m]
  BY Zenon, <1>2 DEF StoreInvIn, Store
<1>5. RowsBelongIn(t)
  BY SMTT(30), <1>2, <1>4 DEF StoreInvIn, RowsBelongIn, find_network
<1>6. LeaseIffMemberIn(t) /\ UniqueAddressesIn(t) /\ OneStandingIn(t)
  BY SMTT(30), <1>4 DEF StoreInvIn, LeaseIffMemberIn, UniqueAddressesIn, OneStandingIn
<1> QED BY Zenon, <1>3, <1>5, <1>6 DEF StoreInvIn, t

LEMMA SavePolicyNames ==
    ASSUME StoreInv, NamesIn(db), NEW n \in Network, NEW d \in Device, NEW p \in Policy,
           NEW request \in BOOLEAN, NEW base \in 0..MaxPolicyRevision,
           request => p.hubs = db.policy[n].hubs /\ p.rules = db.policy[n].rules,
           AcceptablePolicy(d, n, p, request), CanSavePolicy(db, n, p, base)
    PROVE  NamesIn(save_network_policy(db, n, p, base))
<1> DEFINE t == save_network_policy(db, n, p, base)
<1>1. db \in Store /\ t \in Store
  BY Zenon, SaveAnyPolicyInv DEF StoreInv, StoreInvIn
<1>2. t.owner = db.owner /\ t.members = db.members /\ t.policy = [db.policy EXCEPT ![n] = [p EXCEPT !.revision = base + 1]]
  BY SMTT(30), <1>1, SavePolicyEffect
<1> HIDE DEF t
<1>3. Names(p, db.members[n], db.owner[n])
  BY Zenon, AcceptableNames
<1>4. t.policy[n] = [p EXCEPT !.revision = base + 1]
  BY Zenon, <1>1, <1>2 DEF Store
<1>5. Names(t.policy[n], t.members[n], t.owner[n])
  BY <1>2, <1>3, <1>4, RevisedNames
<1>6. \A m \in Network \ {n} : t.owner[m] = db.owner[m] /\ t.members[m] = db.members[m] /\ t.policy[m] = db.policy[m]
  BY Zenon, <1>1, <1>2 DEF Store
<1> QED BY Zenon, <1>1, <1>5, <1>6, NamesOfOne DEF t

-----------------------------------------------------------------------------
(* The removals of device_revoke, all or some of them.                     *)

LEMMA RemovedFromEffect ==
    ASSUME db \in Store, NEW ns \in SUBSET Network, NEW t \in Device
    PROVE  /\ RemovedFrom(ns, t).devices = db.devices /\ RemovedFrom(ns, t).owner = db.owner
           /\ RemovedFrom(ns, t).subnet = db.subnet /\ RemovedFrom(ns, t).invited = db.invited
           /\ RemovedFrom(ns, t).requested = db.requested /\ RemovedFrom(ns, t).links = db.links
           /\ RemovedFrom(ns, t).password = db.password
           /\ RemovedFrom(ns, t).members =
                 [n \in Network |-> IF n \in ns THEN db.members[n] \ {t} ELSE db.members[n]]
           /\ RemovedFrom(ns, t).host =
                 [n \in Network |-> IF n \in ns THEN [db.host[n] EXCEPT ![t] = 0] ELSE db.host[n]]
           /\ RemovedFrom(ns, t).policy =
                 [n \in Network |-> IF n \in ns THEN ScrubbedPolicy(db.policy[n], t) ELSE db.policy[n]]
BY DEF RemovedFrom, Store

LEMMA RemovedFromTyped ==
    ASSUME db \in Store, NEW ns \in SUBSET Network, NEW t \in Device,
           \A n \in ns : CanRemoveMember(db, n, t)
    PROVE  RemovedFrom(ns, t) \in Store
<1> DEFINE members == [n \in Network |-> IF n \in ns THEN db.members[n] \ {t} ELSE db.members[n]]
           host == [n \in Network |-> IF n \in ns THEN [db.host[n] EXCEPT ![t] = 0] ELSE db.host[n]]
           policy == [n \in Network |-> IF n \in ns THEN ScrubbedPolicy(db.policy[n], t) ELSE db.policy[n]]
<1>1. RemovedFrom(ns, t) = [db EXCEPT !.members = members, !.host = host, !.policy = policy]
  BY Zenon DEF RemovedFrom, Store
<1>2. members \in [Network -> SUBSET Device]
  BY Zenon DEF Store
<1>3. host \in [Network -> [Device -> 0..HostSlots]]
  BY SMTT(30), StoreAssumption DEF Store
<1>4. policy \in [Network -> Policy]
  BY Zenon, ScrubbedPolicyIsPolicy DEF Store, CanRemoveMember
<1> HIDE DEF members, host, policy
<1> QED BY Zenon, <1>1, <1>2, <1>3, <1>4 DEF Store

LEMMA RemovedFromInv ==
    ASSUME StoreInv, NEW ns \in SUBSET Network, NEW t \in Device,
           \A n \in ns : CanRemoveMember(db, n, t)
    PROVE  StoreInvIn(RemovedFrom(ns, t))
<1> DEFINE r == RemovedFrom(ns, t)
<1>1. db \in Store /\ r \in Store
  BY Zenon, RemovedFromTyped DEF StoreInv, StoreInvIn
<1>2. /\ r.devices = db.devices /\ r.owner = db.owner /\ r.subnet = db.subnet
      /\ r.invited = db.invited /\ r.requested = db.requested /\ r.links = db.links
      /\ r.password = db.password
      /\ r.members = [n \in Network |-> IF n \in ns THEN db.members[n] \ {t} ELSE db.members[n]]
      /\ r.host = [n \in Network |-> IF n \in ns THEN [db.host[n] EXCEPT ![t] = 0] ELSE db.host[n]]
      /\ r.policy = [n \in Network |-> IF n \in ns THEN ScrubbedPolicy(db.policy[n], t) ELSE db.policy[n]]
  BY <1>1, RemovedFromEffect
<1>3. \A n \in ns : t \in db.members[n] /\ t # db.owner[n] /\ find_network(db, n)
  BY Zenon DEF CanRemoveMember, StoreInv, StoreInvIn, RowsBelongIn
<1> HIDE DEF r
<1>4. RowsBelongIn(r)
  BY SMTT(30), <1>1, <1>2, <1>3 DEF StoreInv, StoreInvIn, RowsBelongIn, find_network
<1>5. LeaseIffMemberIn(r)
  BY SMTT(30), <1>1, <1>2, <1>3 DEF StoreInv, StoreInvIn, LeaseIffMemberIn, Store
<1>6. UniqueAddressesIn(r)
  BY SMTT(30), <1>1, <1>2 DEF StoreInv, StoreInvIn, UniqueAddressesIn, Store
<1>7. OneStandingIn(r)
  BY SMTT(30), <1>2 DEF StoreInv, StoreInvIn, OneStandingIn
<1> QED BY Zenon, <1>1, <1>4, <1>5, <1>6, <1>7 DEF StoreInvIn, r

LEMMA RemovedFromNames ==
    ASSUME StoreInv, NamesIn(db), NEW ns \in SUBSET Network, NEW t \in Device,
           \A n \in ns : CanRemoveMember(db, n, t)
    PROVE  NamesIn(RemovedFrom(ns, t))
<1> DEFINE r == RemovedFrom(ns, t)
<1>1. db \in Store
  BY Zenon DEF StoreInv, StoreInvIn
<1>2. /\ r.owner = db.owner
      /\ r.members = [n \in Network |-> IF n \in ns THEN db.members[n] \ {t} ELSE db.members[n]]
      /\ r.policy = [n \in Network |-> IF n \in ns THEN ScrubbedPolicy(db.policy[n], t) ELSE db.policy[n]]
  BY Zenon, <1>1, RemovedFromEffect
<1> HIDE DEF r
<1>3. ASSUME NEW n \in Network, find_network(r, n)
      PROVE  Names(r.policy[n], r.members[n], r.owner[n])
  <2>1. find_network(db, n) /\ db.owner[n] \in Device /\ db.policy[n] \in Policy
    BY SMTT(30), <1>1, <1>2, <1>3 DEF find_network, Store
  <2>2. Names(db.policy[n], db.members[n], db.owner[n])
    BY Zenon, <2>1 DEF NamesIn
  <2>3. CASE n \in ns
    BY SMTT(30), <2>3, <1>2, <2>1, <2>2, ScrubbedNames DEF CanRemoveMember
  <2>4. CASE n \notin ns
    BY Zenon, <1>2, <2>2, <2>4
  <2> QED BY Zenon, <2>3, <2>4
<1> QED BY Zenon, <1>3 DEF NamesIn, r

-----------------------------------------------------------------------------
(* A network with a free place has a free address.                         *)

LEMMA LowestFreeIsLeast ==
    ASSUME NEW slots \in Nat, NEW used, used \subseteq 0..slots, NEW k \in 1..slots, k \notin used
    PROVE  LowestFree(used, slots) <= slots
<1> DEFINE T == {j \in 1..(slots + 1) : j \notin used}
           P(j) == j \notin used /\ \A i \in 1..(j - 1) : i \in used
<1>1. T \subseteq Nat /\ k \in T
  OBVIOUS
<1> HIDE DEF T
<1>2. PICK x \in T : \A y \in T : ~ (<<y, x>> \in OpToRel(<, Nat))
  BY <1>1, WFMin, NatLessThanWellFounded, Zenon
<1>3. \A y \in T : ~ (y < x)
  BY Zenon, <1>1, <1>2 DEF OpToRel
<1> DEFINE f == LowestFree(used, slots)
<1> HIDE DEF f
<1> QED BY SMTT(30), <1>3 DEF f, LowestFree, T

LEMMA PlaceIsFree ==
    ASSUME NEW s, StoreInvIn(s), NEW n \in Network, Cardinality(s.members[n]) < HostSlots
    PROVE  insert_lease(s, n) <= HostSlots
<1> DEFINE used == {s.host[n][d] : d \in Device}
           m == s.members[n]
<1>1. HostSlots \in Nat /\ used \subseteq 0..HostSlots
  BY SMTT(30), StoreAssumption DEF StoreInvIn, Store
<1>2. /\ m \subseteq Device
      /\ \A d \in Device : d \in m <=> s.host[n][d] # 0
      /\ \A d \in Device : s.host[n][d] \in 0..HostSlots
      /\ \A d, e \in Device : s.host[n][d] # 0 /\ s.host[n][d] = s.host[n][e] => d = e
  BY DEF StoreInvIn, Store, LeaseIffMemberIn, UniqueAddressesIn
<1>3. IsFiniteSet(m) /\ Cardinality(m) \in Nat
  <2> DEFINE f == [d \in m |-> s.host[n][d]]
  <2>1. f \in Injection(m, 1..HostSlots)
    BY SMTT(30), <1>1, <1>2 DEF Injection, IsInjective
  <2> HIDE DEF f
  <2> QED BY SMTT(30), FS_CardinalityType, <2>1, FS_Injection, <1>1, FS_Interval
<1>4. PICK k \in 1..HostSlots : k \notin used
  <2>1. SUFFICES ASSUME \A k \in 1..HostSlots : k \in used PROVE FALSE
    BY Zenon
  <2> DEFINE g == [k \in 1..HostSlots |-> CHOOSE d \in Device : s.host[n][d] = k]
  <2>2. \A k \in 1..HostSlots : g[k] \in Device /\ s.host[n][g[k]] = k
    BY Zenon, <2>1
  <2>3. IsFiniteSet(1..HostSlots) /\ Cardinality(1..HostSlots) = HostSlots
    BY SMTT(30), <1>1, FS_Interval
  <2> HIDE DEF g
  <2>4. \A k \in 1..HostSlots : g[k] \in m
    BY <1>2, <2>2
  <2>5. g \in [1..HostSlots -> m]
    BY Zenon, <2>4 DEF g
  <2>6. \E x, y \in 1..HostSlots : x # y /\ g[x] = g[y]
    BY Zenon, <1>3, <2>3, <2>5, FS_PigeonHole
  <2> QED BY Zenon, <2>2, <2>6
<1> HIDE DEF used
<1> QED BY Zenon, <1>1, <1>4, LowestFreeIsLeast DEF insert_lease, used

-----------------------------------------------------------------------------
(* The invariant of the service, and what a step does to each network.     *)

ServiceTypeOK ==
    /\ acct \in Accounts
    /\ epoch \in [Network -> Nat]
    /\ active \in [Device -> Nat]
    /\ greeting \in [Device -> Nat]
    /\ admitted \in SUBSET Device
    /\ minted \in Nat

\* The epoch of a network whose owner is connected has been advanced since the relay
\* started, so that the epoch its peers see is the one that is kept.
EpochStarted ==
    \A n \in Network : find_network(db, n) /\ active[db.owner[n]] # 0 => epoch[n] # 0

ServiceInv ==
    StoreInv /\ ServiceTypeOK /\ NamesIn(db) /\ RevokedHasNoKey /\ EpochStarted

\* A network either gets a new epoch or keeps its owner, the owner's session, its members
\* and its policy; unless the relay starts again.
EpochMoves(n) ==
    \/ forget
    \/ epoch'[n] = epoch[n] + 1
    \/ /\ epoch'[n] = epoch[n]
       /\ db'.owner[n] = db.owner[n] /\ db'.members[n] = db.members[n] /\ db'.policy[n] = db.policy[n]
       /\ find_network(db, n) => active'[db.owner[n]] = active[db.owner[n]]

OwnersStay == \A n \in Network : find_network(db, n) => db'.owner[n] = db.owner[n]

ServiceStep ==
    /\ StoreInvIn(db') /\ ServiceTypeOK' /\ NamesIn(db') /\ RevokedHasNoKey'
    /\ OwnersStay
    /\ \A n \in Network : EpochMoves(n)
    /\ \A n \in Network, l \in Link : UseIsAccountedFor(n, l)

LEMMA SpendsNothing ==
    ASSUME db'.links = db.links, db \in Store
    PROVE  \A n \in Network, l \in Link : UseIsAccountedFor(n, l)
<1>1. \A n \in Network, l \in Link : ~(db'.links[n][l] < db.links[n][l])
  BY SMTT(30), StoreAssumption DEF Store
<1> QED BY Zenon, <1>1 DEF UseIsAccountedFor

\* So does a step on another link.
LEMMA KeepsUses ==
    ASSUME NEW n \in Network, NEW l \in Link, db.links[n][l] \in Nat, db'.links[n][l] \in Nat,
           db'.links[n][l] >= db.links[n][l]
    PROVE  UseIsAccountedFor(n, l)
<1>1. ~(db'.links[n][l] < db.links[n][l])
  BY SMTT(30)
<1> QED BY Zenon, <1>1 DEF UseIsAccountedFor

LEMMA AdvanceEpochs ==
    ASSUME ServiceTypeOK, NEW ns \in SUBSET Network, advance_key_epoch(ns)
    PROVE  /\ epoch' \in [Network -> Nat]
           /\ \A n \in ns : epoch'[n] = epoch[n] + 1
           /\ \A n \in Network \ ns : epoch'[n] = epoch[n]
BY DEF ServiceTypeOK, advance_key_epoch

LEMMA RestartForgets ==
    ASSUME ServiceTypeOK, forget
    PROVE  /\ epoch' \in [Network -> Nat] /\ active' \in [Device -> Nat]
           /\ greeting' \in [Device -> Nat] /\ admitted' \in SUBSET Device
           /\ minted' \in Nat
           /\ \A d \in Device : active'[d] = 0
BY DEF ServiceTypeOK, forget

\* A step of a handler that writes neither members nor policies nor keys.
LEMMA QuietStep ==
    ASSUME ServiceInv, StoreInvIn(db'), SameStanding(db, db'), ServiceTypeOK', UNCHANGED <<epoch, active>>,
           acct'.revoked \subseteq acct.revoked,
           \A n \in Network, l \in Link : UseIsAccountedFor(n, l)
    PROVE  ServiceStep
BY Zenon, SameNames DEF ServiceInv, SameStanding, OwnersStay, EpochMoves, RevokedHasNoKey,
   ServiceStep

\* A handler that changes one network and advances its epoch.
LEMMA RepublishStep ==
    ASSUME ServiceInv, NEW n \in Network, StoreInvIn(db'), NamesIn(db'), republish({n}),
           UNCHANGED <<acct, active, greeting, minted>>, admitted' \in SUBSET Device,
           find_network(db, n) => db'.owner[n] = db.owner[n],
           \A m \in Network \ {n} : /\ db'.owner[m] = db.owner[m] /\ db'.members[m] = db.members[m]
                                    /\ db'.policy[m] = db.policy[m],
           \A m \in Network, l \in Link : UseIsAccountedFor(m, l)
    PROVE  ServiceStep
BY Zenon, AdvanceEpochs DEF ServiceInv, republish, ServiceTypeOK, RevokedHasNoKey, OwnersStay,
   EpochMoves, ServiceStep

LEMMA ServedIsType ==
    ASSUME ServiceInv, NEW d \in Device, serves(d)
    PROVE  admitted' \in SUBSET Device /\ d \in admitted /\ admitted' = admitted \ {d}
BY DEF ServiceInv, ServiceTypeOK, serves

-----------------------------------------------------------------------------
(* Sessions.                                                               *)

LEMMA SessionStepHolds ==
    ASSUME ServiceInv, NEW d \in Device, SessionStep(d)
    PROVE  ServiceStep
<1>0. /\ StoreInvIn(db) /\ db \in Store /\ ServiceTypeOK /\ NamesIn(db) /\ RevokedHasNoKey
      /\ acct \in Accounts /\ active \in [Device -> Nat] /\ greeting \in [Device -> Nat]
      /\ acct.revoked \subseteq Device
  BY Zenon DEF ServiceInv, StoreInv, StoreInvIn, ServiceTypeOK, Accounts
<1>1. ASSUME UNCHANGED <<db, acct, epoch, active>>, greeting' \in [Device -> Nat], admitted' \in SUBSET Device,
             minted' \in Nat
      PROVE  ServiceStep
  BY Zenon, <1>0, <1>1, SpendsNothing, QuietStep DEF ServiceTypeOK, SameStanding
<1>2. CASE note_authenticated(d)
  BY SMTT(30), <1>0, <1>1, <1>2 DEF note_authenticated, ServiceTypeOK
<1>3. CASE admit(d)
  BY Zenon, <1>0, <1>1, <1>3 DEF admit, ServiceTypeOK
<1>4. CASE set_management_capable(d)
  BY Zenon, <1>0, <1>1, <1>4, ServedIsType DEF set_management_capable, ServiceTypeOK
<1>5. CASE publish_device_key(d) \/ \E s \in 1..minted : remove_device_key(d, s)
  <2>1. /\ acct' = acct /\ admitted' = admitted /\ minted' = minted /\ advance_key_epoch(OwnedBy(d))
        /\ greeting' \in [Device -> Nat] /\ active' \in [Device -> Nat]
        /\ \A e \in Device \ {d} : active'[e] = active[e]
        /\ d \in acct.revoked => active'[d] = 0
        /\ db' = record_device(db, d) \/ db' = db
    BY SMTT(30), <1>0, <1>5 DEF publish_device_key, remove_device_key, device_allowed, device_revoked
  <2>2. StoreInvIn(db') /\ SameStanding(db, db') /\ db'.links = db.links
    BY <1>0, <2>1, RecordDeviceInv, RecordDeviceEffect DEF SameStanding
  <2>3. /\ epoch' \in [Network -> Nat]
        /\ \A n \in OwnedBy(d) : epoch'[n] = epoch[n] + 1
        /\ \A n \in Network \ OwnedBy(d) : epoch'[n] = epoch[n]
    BY Zenon, <1>0, <2>1, AdvanceEpochs DEF OwnedBy
  <2>4. ServiceTypeOK'
    BY Zenon, <1>0, <2>1, <2>3 DEF ServiceTypeOK
  <2>5. NamesIn(db') /\ OwnersStay
    BY Zenon, <1>0, <2>2, SameNames DEF OwnersStay, SameStanding
  <2>6. RevokedHasNoKey'
    BY Zenon, <1>0, <2>1 DEF RevokedHasNoKey
  <2>7. \A n \in Network : EpochMoves(n)
    <3> SUFFICES ASSUME NEW n \in Network PROVE EpochMoves(n)
      BY Zenon
    <3>1. CASE n \in OwnedBy(d)
      BY Zenon, <3>1, <2>3 DEF EpochMoves
    <3>2. CASE n \notin OwnedBy(d)
      <4>1. find_network(db, n) => db.owner[n] \in Device \ {d}
        BY Zenon, <3>2, <1>0 DEF OwnedBy, find_network, Store
      <4> QED BY Zenon, <3>2, <4>1, <2>1, <2>2, <2>3 DEF EpochMoves, SameStanding
    <3> QED BY Zenon, <3>1, <3>2
  <2>8. \A n \in Network, l \in Link : UseIsAccountedFor(n, l)
    BY Zenon, <1>0, <2>2, SpendsNothing
  <2> QED BY Zenon, <2>2, <2>4, <2>5, <2>6, <2>7, <2>8 DEF ServiceStep
<1>6. CASE publish_refused(d)
  BY Zenon, <1>0, <1>6, RecordDeviceInv, RecordDeviceEffect, SpendsNothing, QuietStep DEF
     publish_refused, ServiceTypeOK
<1> QED BY Zenon, <1>2, <1>3, <1>4, <1>5, <1>6 DEF SessionStep

-----------------------------------------------------------------------------
(* Members.                                                                *)

LEMMA AddMemberStep ==
    ASSUME ServiceInv, NEW n \in Network, NEW t \in Device, CanAddMember(db, n, t),
           db' = add_member(db, n, t), republish({n}), UNCHANGED <<acct, active, greeting, minted>>,
           admitted' \in SUBSET Device
    PROVE  ServiceStep
<1>1. StoreInvIn(db) /\ db \in Store /\ NamesIn(db)
  BY Zenon DEF ServiceInv, StoreInv, StoreInvIn
<1>2. StoreInvIn(db') /\ NamesIn(db')
  BY Zenon, <1>1, AddMemberInv, AddMemberNames
<1>3. /\ db'.owner = db.owner /\ db'.members = [db.members EXCEPT ![n] = @ \cup {t}]
      /\ db'.policy = db.policy /\ db'.links = db.links
  BY <1>1, AddMemberEffect
<1> QED BY Zenon, <1>2, <1>3, RepublishStep, <1>1, SpendsNothing DEF Store

LEMMA RemoveMemberStep ==
    ASSUME ServiceInv, NEW n \in Network, NEW t \in Device, CanRemoveMember(db, n, t),
           db' = remove_member(db, n, t), republish({n}), UNCHANGED <<acct, active, greeting, minted>>,
           admitted' \in SUBSET Device
    PROVE  ServiceStep
<1>1. StoreInvIn(db) /\ db \in Store /\ NamesIn(db)
  BY Zenon DEF ServiceInv, StoreInv, StoreInvIn
<1>2. StoreInvIn(db') /\ NamesIn(db')
  BY Zenon, <1>1, RemoveMemberInv, RemoveMemberNames
<1>3. /\ db'.owner = db.owner /\ db'.members = [db.members EXCEPT ![n] = @ \ {t}]
      /\ db'.policy = [db.policy EXCEPT ![n] = ScrubbedPolicy(@, t)] /\ db'.links = db.links
  BY SMTT(30), <1>1, RemoveMemberEffect
<1>4. \A m \in Network \ {n} : /\ db'.owner[m] = db.owner[m] /\ db'.members[m] = db.members[m]
                               /\ db'.policy[m] = db.policy[m]
  BY <1>1, <1>3 DEF Store
<1>5. \A m \in Network, l \in Link : UseIsAccountedFor(m, l)
  BY Zenon, <1>1, <1>3, SpendsNothing
<1> QED BY Zenon, <1>2, <1>3, <1>4, <1>5, RepublishStep

LEMMA PendingStep ==
    ASSUME ServiceInv, StoreInvIn(db'), SameStanding(db, db'),
           UNCHANGED <<acct, epoch, active, greeting, minted>>, admitted' \in SUBSET Device,
           \A n \in Network, l \in Link : UseIsAccountedFor(n, l)
    PROVE  ServiceStep
BY Zenon, QuietStep DEF ServiceInv, ServiceTypeOK

LEMMA CreateStep ==
    ASSUME ServiceInv, NEW d \in Device, NEW n \in Network, NEW pw \in Password, create_network(d, n, pw)
    PROVE  ServiceStep
<1>1. StoreInvIn(db) /\ db \in Store /\ NamesIn(db)
  BY Zenon DEF ServiceInv, StoreInv, StoreInvIn
<1>2. /\ CanCreateNetwork(db, n, d) /\ db' = store_create_network(db, n, d, pw) /\ republish({n})
      /\ UNCHANGED <<acct, active, greeting, minted>> /\ serves(d)
  BY Zenon DEF create_network
<1>3. StoreInvIn(db') /\ NamesIn(db')
  BY Zenon, <1>1, <1>2, CreateNetworkInv, CreateNetworkNames
<1>4. /\ db'.owner = [db.owner EXCEPT ![n] = d] /\ db'.members = [db.members EXCEPT ![n] = {d}]
      /\ db'.policy = db.policy /\ db'.links = db.links
  BY SMTT(30), <1>1, <1>2, CreateNetworkEffect
<1>5. \A m \in Network \ {n} : /\ db'.owner[m] = db.owner[m] /\ db'.members[m] = db.members[m]
                               /\ db'.policy[m] = db.policy[m]
  BY Zenon, <1>1, <1>4 DEF Store
<1>6. ~find_network(db, n)
  BY Zenon, <1>2 DEF CanCreateNetwork
<1>7. \A m \in Network, l \in Link : UseIsAccountedFor(m, l)
  BY Zenon, <1>1, <1>4, SpendsNothing
<1>8. admitted' \in SUBSET Device
  BY Zenon, <1>2, ServedIsType
<1> QED BY Zenon, <1>2, <1>3, <1>5, <1>6, <1>7, <1>8, RepublishStep

LEMMA JoinStep ==
    ASSUME ServiceInv, NEW d \in Device, NEW n \in Network, NEW verified \in BOOLEAN, serves(d),
           join_network_locked(d, n, verified), UNCHANGED <<acct, active, capable, greeting, minted>>
    PROVE  ServiceStep
<1>0. StoreInvIn(db) /\ db \in Store /\ admitted' \in SUBSET Device
  BY Zenon, ServedIsType DEF ServiceInv, StoreInv, StoreInvIn
<1>1. CASE JoinsDirectly(db, n, d, verified) /\ db' = add_member(db, n, d) /\ republish({n})
  BY Zenon, <1>0, <1>1, AddMemberStep DEF JoinsDirectly
<1>2. CASE AsksToJoin(db, n, d, verified) /\ db' = add_join_request(db, n, d) /\ UNCHANGED <<epoch, revision>>
  BY Zenon, <1>0, <1>2, AddJoinRequestInv, PendingEffect, SpendsNothing, PendingStep DEF AsksToJoin
<1> QED BY Zenon, <1>1, <1>2 DEF join_network_locked

LEMMA MembershipStepHolds ==
    ASSUME ServiceInv, NEW d \in Device, NEW n \in Network, MembershipStep(d, n)
    PROVE  ServiceStep
<1>0. StoreInvIn(db) /\ db \in Store
  BY Zenon DEF ServiceInv, StoreInv, StoreInvIn
<1>1. CASE create_network(d, n, "none")
  BY Zenon, <1>1, CreateStep DEF Password
<1>2. CASE join_network(d, n)
  BY Zenon, <1>2, JoinStep DEF join_network
<1>3. CASE leave_network(d, n)
  BY Zenon, <1>3, ServedIsType, RemoveMemberStep DEF leave_network
<1>4. ASSUME NEW t \in Device, invite_member(d, n, t) PROVE ServiceStep
  <2>1. StoreInvIn(db') /\ SameStanding(db, db') /\ db'.links = db.links
    BY Zenon, <1>0, <1>4, AddInvitationInv, PendingEffect DEF invite_member
  <2>3. UNCHANGED <<acct, epoch, active, greeting, minted>> /\ admitted' \in SUBSET Device
    BY Zenon, <1>4, ServedIsType DEF invite_member
  <2> QED BY Zenon, <2>1, <2>3, PendingStep, <1>0, SpendsNothing
<1>5. ASSUME NEW t \in Device, approve_member(d, n, t) PROVE ServiceStep
  BY Zenon, <1>5, ServedIsType, AddMemberStep DEF approve_member
<1>6. ASSUME NEW t \in Device, kick_member(d, n, t) PROVE ServiceStep
  BY Zenon, <1>6, ServedIsType, RemoveMemberStep DEF kick_member
<1> QED BY Zenon, <1>1, <1>2, <1>3, <1>4, <1>5, <1>6 DEF MembershipStep

-----------------------------------------------------------------------------
(* Links and passwords.                                                    *)

\* The checks before redeem_invite_link make the join that follows succeed.
LEMMA RedeemedJoins ==
    ASSUME StoreInv, NEW d \in Device, NEW n \in Network, NEW l \in Link, CanRedeem(d, n, l)
    PROVE  JoinsDirectly(redeem_invite_link(db, n, l, d), n, d, FALSE)
<1> DEFINE r == redeem_invite_link(db, n, l, d)
<1>1. StoreInvIn(db) /\ db \in Store /\ CanRedeemInviteLink(db, n, l, d)
      /\ Cardinality(db.members[n]) < HostSlots /\ ~network_limit_reached(d)
  BY Zenon DEF StoreInv, StoreInvIn, CanRedeem
<1>2. StoreInvIn(r)
  BY Zenon, <1>1, RedeemInv
<1>3. /\ r.owner = db.owner /\ r.members = db.members /\ r.devices = db.devices
      /\ r.invited = [db.invited EXCEPT ![n] = @ \cup {d}]
  <2>1. SameStanding(db, r) /\ r.devices = db.devices /\ r.invited = [db.invited EXCEPT ![n] = @ \cup {d}]
    BY Zenon, <1>1 DEF redeem_invite_link, SameStanding, Store
  <2> HIDE DEF r
  <2> QED BY Zenon, <2>1 DEF SameStanding
<1> HIDE DEF r
<1>5. find_network(db, n)
  BY SMTT(30), <1>1 DEF CanRedeemInviteLink, StoreInvIn, RowsBelongIn
<1>6. CanAddMember(r, n, d)
  BY Zenon, <1>1, <1>3, <1>5, <1>2, PlaceIsFree DEF CanAddMember, CanRedeemInviteLink, find_network
<1>7. d \in r.invited[n]
  BY Zenon, <1>1, <1>3 DEF Store
<1> QED BY Zenon, <1>1, <1>6, <1>7 DEF JoinsDirectly, r

LEMMA RedeemStep ==
    ASSUME ServiceInv, NEW d \in Device, NEW n \in Network, NEW l \in Link, redeem_invite(d, n, l)
    PROVE  ServiceStep
<1> DEFINE r == redeem_invite_link(db, n, l, d)
<1>1. StoreInv /\ StoreInvIn(db) /\ db \in Store /\ NamesIn(db)
  BY Zenon DEF ServiceInv, StoreInv, StoreInvIn
<1>2. CanRedeem(d, n, l) /\ serves(d) /\ UNCHANGED <<acct, active, greeting, minted>>
  BY Zenon DEF redeem_invite
<1>3. JoinsDirectly(r, n, d, FALSE)
  BY Zenon, <1>1, <1>2, RedeemedJoins
<1>4. db' = add_member(r, n, d) /\ republish({n})
  BY Zenon, <1>3 DEF redeem_invite
<1>5. StoreInvIn(r) /\ r \in Store
  BY Zenon, <1>1, <1>2, RedeemInv DEF CanRedeem, StoreInvIn
<1>6. /\ r.owner = db.owner /\ r.members = db.members /\ r.policy = db.policy
      /\ r.links = [db.links EXCEPT ![n][l] = @ - 1] /\ SameStanding(db, r)
  <2>1. SameStanding(db, r) /\ r.links = [db.links EXCEPT ![n][l] = @ - 1]
    BY Zenon, <1>1 DEF redeem_invite_link, SameStanding, Store
  <2> HIDE DEF r
  <2> QED BY Zenon, <2>1 DEF SameStanding
<1> HIDE DEF r
<1>7. NamesIn(r)
  BY Zenon, <1>1, <1>6, SameNames
<1>8. CanAddMember(r, n, d)
  BY Zenon, <1>3 DEF JoinsDirectly
<1>9. StoreInvIn(db') /\ NamesIn(db')
  BY Zenon, <1>4, <1>5, <1>7, <1>8, AddMemberInv, AddMemberNames
<1>10. /\ db'.owner = db.owner /\ db'.members = [db.members EXCEPT ![n] = @ \cup {d}]
       /\ db'.policy = db.policy /\ db'.links = [db.links EXCEPT ![n][l] = @ - 1]
  BY SMTT(30), <1>4, <1>5, <1>6, AddMemberEffect
<1>11. \A m \in Network \ {n} : /\ db'.owner[m] = db.owner[m] /\ db'.members[m] = db.members[m]
                                /\ db'.policy[m] = db.policy[m]
  BY Zenon, <1>1, <1>10 DEF Store
<1>12. admitted' \in SUBSET Device /\ d \in admitted /\ Served(d)
  BY Zenon, <1>2, ServedIsType DEF Served
<1>13. d \in db'.members[n] \ db.members[n]
  BY SMTT(30), <1>1, <1>6, <1>8, <1>10 DEF CanAddMember, Store
<1>14. ASSUME NEW m \in Network, NEW k \in Link PROVE UseIsAccountedFor(m, k)
  <2>1. CASE m = n /\ k = l
    BY Zenon, <2>1, <1>12, <1>13, <1>10 DEF UseIsAccountedFor
  <2>2. CASE m # n \/ k # l
    <3>1. db'.links[m][k] = db.links[m][k] /\ db.links[m][k] \in Nat
      BY SMTT(30), <2>2, <1>1, <1>10, StoreAssumption DEF Store
    <3>2. db'.links[m][k] >= db.links[m][k]
      BY SMTT(30), <3>1
    <3> QED BY Zenon, <3>1, <3>2, KeepsUses
  <2> QED BY Zenon, <2>1, <2>2
<1> QED BY SMTT(30), <1>2, <1>4, <1>9, <1>10, <1>11, <1>12, <1>14, RepublishStep

LEMMA CrashInRedeemStep ==
    ASSUME ServiceInv, NEW d \in Device, NEW n \in Network, NEW l \in Link, crash_in_redeem(d, n, l)
    PROVE  ServiceStep
<1>1. StoreInvIn(db) /\ db \in Store /\ NamesIn(db) /\ ServiceTypeOK
  BY Zenon DEF ServiceInv, StoreInv, StoreInvIn
<1>2. /\ d \in admitted /\ CanRedeemInviteLink(db, n, l, d) /\ db' = redeem_invite_link(db, n, l, d)
      /\ acct' = acct /\ forget
  BY Zenon DEF crash_in_redeem, CanRedeem
<1>3. StoreInvIn(db')
  BY Zenon, <1>1, <1>2, RedeemInv
<1>4. /\ SameStanding(db, db') /\ db'.links = [db.links EXCEPT ![n][l] = @ - 1]
      /\ db'.invited = [db.invited EXCEPT ![n] = @ \cup {d}]
  BY SMTT(30), <1>1, <1>2, RedeemEffect
<1>5. NamesIn(db') /\ OwnersStay /\ \A m \in Network : EpochMoves(m)
  BY Zenon, <1>1, <1>2, <1>4, SameNames DEF OwnersStay, SameStanding, EpochMoves
<1>6. ServiceTypeOK' /\ RevokedHasNoKey'
  BY Zenon, <1>1, <1>2, RestartForgets DEF ServiceTypeOK, Accounts, RevokedHasNoKey
<1>7. d \in db'.invited[n] \ db.members[n]
  BY SMTT(30), <1>1, <1>2, <1>4 DEF CanRedeemInviteLink, Store
<1>8. ASSUME NEW m \in Network, NEW k \in Link PROVE UseIsAccountedFor(m, k)
  <2>1. CASE m = n /\ k = l
    BY Zenon, <2>1, <1>2, <1>7, <1>4 DEF UseIsAccountedFor
  <2>2. CASE m # n \/ k # l
    <3>1. db'.links[m][k] = db.links[m][k] /\ db.links[m][k] \in Nat
      BY SMTT(30), <2>2, <1>1, <1>4, StoreAssumption DEF Store
    <3>2. db'.links[m][k] >= db.links[m][k]
      BY SMTT(30), <3>1
    <3> QED BY Zenon, <3>1, <3>2, KeepsUses
  <2> QED BY Zenon, <2>1, <2>2
<1> QED BY Zenon, <1>3, <1>5, <1>6, <1>8 DEF ServiceStep

LEMMA AccessStepHolds ==
    ASSUME ServiceInv, NEW d \in Device, NEW n \in Network, AccessStep(d, n)
    PROVE  ServiceStep
<1>0. StoreInvIn(db) /\ db \in Store /\ MaxUses \in Nat
      /\ \A m \in Network, l \in Link : db.links[m][l] \in Nat
  BY SMTT(30), StoreAssumption DEF ServiceInv, StoreInv, StoreInvIn, Store
<1>1. ASSUME NEW pw \in Password \ {"none"}, create_network(d, n, pw) PROVE ServiceStep
  BY Zenon, <1>1, CreateStep
<1>2. CASE password_join(d, n)
  BY Zenon, <1>2, JoinStep DEF password_join
<1>3. ASSUME NEW pw \in Password, set_password(d, n, pw) PROVE ServiceStep
  <2>1. StoreInvIn(db') /\ SameStanding(db, db') /\ db'.links = db.links
    BY Zenon, <1>0, <1>3, SetPasswordInv, PasswordEffect DEF set_password, can_manage_network
  <2>3. \A m \in Network, l \in Link : UseIsAccountedFor(m, l)
    BY Zenon, <1>0, <2>1, SpendsNothing
  <2> QED BY Zenon, <2>1, <2>3, PendingStep, <1>3, ServedIsType DEF set_password
<1>4. ASSUME NEW l \in Link, redeem_invite(d, n, l) PROVE ServiceStep
  BY Zenon, <1>4, RedeemStep
<1>5. ASSUME NEW l \in Link, crash_in_redeem(d, n, l) PROVE ServiceStep
  BY Zenon, <1>5, CrashInRedeemStep
<1>6. ASSUME NEW l \in Link, NEW uses \in 1..MaxUses, issue_invite(d, n, l, uses) PROVE ServiceStep
  <2>0. CanIssueInviteLink(db, n, l) /\ db' = issue_invite_link(db, n, l, uses)
        /\ find_network(db, n) /\ db.links[n][l] = 0 /\ uses \in 0..MaxUses /\ uses \in Nat
    BY SMTT(30), <1>0, <1>6 DEF issue_invite, CanIssueInviteLink
  <2>1. StoreInvIn(db')
    BY Zenon, <1>0, <2>0, LinkUsesInv DEF issue_invite_link
  <2>2. SameStanding(db, db') /\ db'.links = [db.links EXCEPT ![n][l] = uses]
    BY Zenon, <1>0, <2>0 DEF issue_invite_link, SameStanding, Store
  <2>3. UNCHANGED <<acct, epoch, active, greeting, minted>> /\ admitted' \in SUBSET Device
    BY Zenon, <1>6, ServedIsType DEF issue_invite
  <2>4. \A m \in Network, k \in Link :
           db.links[m][k] \in Nat /\ db'.links[m][k] \in Nat /\ db'.links[m][k] >= db.links[m][k]
    BY SMTT(30), <1>0, <2>0, <2>2 DEF Store
  <2>5. \A m \in Network, k \in Link : UseIsAccountedFor(m, k)
    BY Zenon, <2>4, KeepsUses
  <2> QED BY Zenon, <2>1, <2>2, <2>3, <2>5, PendingStep
<1>7. CASE revoke_invites(d, n)
  <2>1. StoreInvIn(db')
    BY Zenon, <1>0, <1>7, RevokeLinksInv DEF revoke_invites
  <2>2. SameStanding(db, db') /\ db'.links = [db.links EXCEPT ![n] = [k \in Link |-> 0]]
    BY Zenon, <1>0, <1>7 DEF revoke_invites, revoke_invite_links, SameStanding, Store
  <2>3. UNCHANGED <<acct, epoch, active, greeting, minted>> /\ admitted' \in SUBSET Device
    BY Zenon, <1>7, ServedIsType DEF revoke_invites
  <2>4. \A m \in Network \ {n}, k \in Link :
           db.links[m][k] \in Nat /\ db'.links[m][k] \in Nat /\ db'.links[m][k] >= db.links[m][k]
    BY SMTT(30), <1>0, <2>2 DEF Store
  <2>5. db'.links[n] = [k \in Link |-> 0]
    BY Zenon, <1>0, <2>2 DEF Store
  <2>6. \E x \in admitted : Served(x) /\ can_manage_network(n, x)
    BY Zenon, <1>7, ServedIsType DEF revoke_invites, Served
  <2>7. ASSUME NEW k \in Link PROVE UseIsAccountedFor(n, k)
    BY Zenon, <2>5, <2>6 DEF UseIsAccountedFor
  <2>8. ASSUME NEW m \in Network \ {n}, NEW k \in Link PROVE UseIsAccountedFor(m, k)
    BY Zenon, <2>4, KeepsUses
  <2>9. \A m \in Network, k \in Link : UseIsAccountedFor(m, k)
    BY Zenon, <2>7, <2>8
  <2> QED BY Zenon, <2>1, <2>2, <2>3, <2>9, PendingStep
<1> QED BY SMTT(30), <1>1, <1>2, <1>3, <1>4, <1>5, <1>6, <1>7 DEF AccessStep

-----------------------------------------------------------------------------
(* Policies.                                                               *)

LEMMA SavePolicyStep ==
    ASSUME ServiceInv, NEW d \in Device, NEW n \in Network, NEW p \in Policy,
           NEW base \in 0..MaxPolicyRevision, NEW request \in BOOLEAN, serves(d),
           request => p.hubs = db.policy[n].hubs /\ p.rules = db.policy[n].rules,
           save_policy(d, n, p, base, request)
    PROVE  ServiceStep
<1>1. StoreInv /\ StoreInvIn(db) /\ db \in Store /\ NamesIn(db)
  BY Zenon DEF ServiceInv, StoreInv, StoreInvIn
<1>2. /\ AcceptablePolicy(d, n, p, request) /\ CanSavePolicy(db, n, p, base)
      /\ db' = save_network_policy(db, n, p, base) /\ republish({n})
      /\ UNCHANGED <<acct, active, greeting, minted>>
  BY Zenon DEF save_policy
<1>3. StoreInvIn(db') /\ NamesIn(db')
  BY Zenon, <1>1, <1>2, SaveAnyPolicyInv, SavePolicyNames
<1>4. /\ db'.owner = db.owner /\ db'.members = db.members /\ db'.links = db.links
      /\ db'.policy = [db.policy EXCEPT ![n] = [p EXCEPT !.revision = base + 1]]
  BY SMTT(30), <1>1, <1>2, SavePolicyEffect
<1>5. \A m \in Network \ {n} : /\ db'.owner[m] = db.owner[m] /\ db'.members[m] = db.members[m]
                               /\ db'.policy[m] = db.policy[m]
  BY Zenon, <1>1, <1>4 DEF Store
<1>6. \A m \in Network, l \in Link : UseIsAccountedFor(m, l)
  BY Zenon, <1>1, <1>4, SpendsNothing
<1>7. admitted' \in SUBSET Device
  BY Zenon, ServedIsType
<1> QED BY Zenon, <1>2, <1>3, <1>4, <1>5, <1>6, <1>7, RepublishStep

LEMMA PolicyStepHolds ==
    ASSUME ServiceInv, NEW d \in Device, NEW n \in Network, PolicyStep(d, n)
    PROVE  ServiceStep
<1>0. db \in Store /\ db.policy[n] \in Policy
  BY Zenon DEF ServiceInv, StoreInv, StoreInvIn, Store
<1>1. ASSUME NEW base \in 0..MaxPolicyRevision, request_gateway(d, n, base) PROVE ServiceStep
  <2> DEFINE p == [db.policy[n] EXCEPT !.gateway[d] = "pending"]
  <2>1. p \in Policy /\ p.hubs = db.policy[n].hubs /\ p.rules = db.policy[n].rules
    BY Zenon, <1>0 DEF Policy, GatewayState
  <2>2. serves(d) /\ save_policy(d, n, p, base, TRUE)
    BY Zenon, <1>1 DEF request_gateway
  <2> HIDE DEF p
  <2> QED BY Zenon, <2>1, <2>2, SavePolicyStep
<1>2. ASSUME NEW p \in Documents, NEW base \in 0..MaxPolicyRevision, replace_policy(d, n, p, base)
      PROVE  ServiceStep
  BY Zenon, <1>2, DocumentsAssumption, SavePolicyStep DEF replace_policy
<1> QED BY Zenon, <1>1, <1>2 DEF PolicyStep

-----------------------------------------------------------------------------
(* Accounts.                                                               *)

\* The tables of accounts stay well formed, and only a revocation revokes.
LEMMA AccountEffect ==
    ASSUME NEW t \in Accounts, NEW a \in Account, NEW d \in Device
    PROVE  /\ create_account(t, a, d) \in Accounts /\ create_account(t, a, d).revoked = t.revoked
           /\ issue_enrollment(t, a) \in Accounts /\ issue_enrollment(t, a).revoked = t.revoked
           /\ expire_enrollment(t, a) \in Accounts /\ expire_enrollment(t, a).revoked = t.revoked
           /\ enroll_device(t, a, d) \in Accounts /\ enroll_device(t, a, d).revoked = t.revoked \ {d}
BY Zenon DEF create_account, Accounts, issue_enrollment, expire_enrollment, enroll_device

LEMMA RevokeEffect ==
    ASSUME NEW t \in Accounts, NEW a, NEW d \in Device
    PROVE  /\ revoke_account_device(t, a, d) \in Accounts
           /\ revoke_account_device(t, a, d).revoked \subseteq t.revoked \cup {d}
BY SMTT(30) DEF revoke_account_device, Accounts

LEMMA AccountsStep ==
    ASSUME ServiceInv, db' = db, UNCHANGED <<epoch, active, greeting, minted>>, admitted' \in SUBSET Device,
           acct' \in Accounts, acct'.revoked \subseteq acct.revoked
    PROVE  ServiceStep
BY Zenon, SpendsNothing, QuietStep DEF ServiceInv, StoreInv, StoreInvIn, SameStanding, ServiceTypeOK

LEMMA DeviceRevokeStep ==
    ASSUME ServiceInv, NEW d \in Device, NEW t \in Device, device_revoke(d, t)
    PROVE  ServiceStep
<1> DEFINE ns == list_networks_for_device(db, t)
<1>0. ns \in SUBSET Network
  BY Zenon DEF list_networks_for_device
<1>1. /\ StoreInv /\ StoreInvIn(db) /\ db \in Store /\ NamesIn(db) /\ ServiceTypeOK /\ RevokedHasNoKey
      /\ acct \in Accounts /\ active \in [Device -> Nat] /\ acct.revoked \subseteq Device
  BY Zenon DEF ServiceInv, StoreInv, StoreInvIn, ServiceTypeOK, Accounts
<1>2. /\ serves(d) /\ OwnedBy(t) = {} /\ (\A n \in ns : CanRemoveMember(db, n, t))
      /\ acct' = revoke_account_device(acct, acct.account[d], t)
      /\ db' = RemovedFrom(ns, t) /\ advance_key_epoch(ns)
      /\ active' = [active EXCEPT ![t] = 0] /\ UNCHANGED <<greeting, minted>>
  BY Zenon DEF device_revoke, CanRevokeDevice, republish
<1> HIDE DEF ns
<1>3. StoreInvIn(db') /\ NamesIn(db')
  BY Zenon, <1>0, <1>1, <1>2, RemovedFromInv, RemovedFromNames
<1>4. /\ db'.owner = db.owner /\ db'.links = db.links
      /\ \A n \in Network \ ns : db'.members[n] = db.members[n] /\ db'.policy[n] = db.policy[n]
  <2>1. /\ db'.owner = db.owner /\ db'.links = db.links
        /\ db'.members = [n \in Network |-> IF n \in ns THEN db.members[n] \ {t} ELSE db.members[n]]
        /\ db'.policy = [n \in Network |-> IF n \in ns THEN ScrubbedPolicy(db.policy[n], t) ELSE db.policy[n]]
    BY Zenon, <1>0, <1>1, <1>2, RemovedFromEffect
  <2> QED BY Zenon, <2>1
<1>5. acct' \in Accounts /\ acct'.revoked \subseteq acct.revoked \cup {t} /\ acct'.revoked \subseteq Device
  BY SMTT(30), <1>1, <1>2, RevokeEffect DEF Accounts
<1>6. /\ epoch' \in [Network -> Nat] /\ \A n \in ns : epoch'[n] = epoch[n] + 1
      /\ \A n \in Network \ ns : epoch'[n] = epoch[n]
  BY Zenon, <1>0, <1>1, <1>2, AdvanceEpochs
<1>7. ServiceTypeOK'
  BY SMTT(30), <1>1, <1>2, <1>5, <1>6, ServedIsType DEF ServiceTypeOK
<1>8. RevokedHasNoKey'
  BY Zenon, <1>1, <1>2, <1>5 DEF RevokedHasNoKey
<1>9. OwnersStay
  BY Zenon, <1>4 DEF OwnersStay
<1>10. ASSUME NEW n \in Network PROVE EpochMoves(n)
  <2>1. CASE n \in ns
    BY Zenon, <2>1, <1>6 DEF EpochMoves
  <2>2. CASE n \notin ns
    <3>1. find_network(db, n) => active'[db.owner[n]] = active[db.owner[n]]
      BY Zenon, <1>1, <1>2 DEF OwnedBy, find_network, Store
    <3> QED BY Zenon, <2>2, <3>1, <1>4, <1>6 DEF EpochMoves
  <2> QED BY Zenon, <2>1, <2>2
<1>11. \A m \in Network, l \in Link : UseIsAccountedFor(m, l)
  BY Zenon, <1>1, <1>4, SpendsNothing
<1> QED BY Zenon, <1>3, <1>7, <1>8, <1>9, <1>10, <1>11 DEF ServiceStep

LEMMA CrashInRevokeStep ==
    ASSUME ServiceInv, NEW d \in Device, NEW t \in Device, NEW done \in SUBSET Network,
           crash_in_revoke(d, t, done)
    PROVE  ServiceStep
<1>1. /\ StoreInv /\ StoreInvIn(db) /\ db \in Store /\ NamesIn(db) /\ ServiceTypeOK
      /\ acct \in Accounts
  BY Zenon DEF ServiceInv, StoreInv, StoreInvIn, ServiceTypeOK
<1>2. /\ (\A n \in done : CanRemoveMember(db, n, t)) /\ db' = RemovedFrom(done, t) /\ forget
      /\ acct' = revoke_account_device(acct, acct.account[d], t)
  BY Zenon DEF crash_in_revoke
<1>3. StoreInvIn(db') /\ NamesIn(db')
  BY Zenon, <1>1, <1>2, RemovedFromInv, RemovedFromNames
<1>4. db'.owner = db.owner /\ db'.links = db.links
  BY Zenon, <1>1, <1>2, RemovedFromEffect
<1>6. ServiceTypeOK' /\ RevokedHasNoKey'
  BY Zenon, <1>1, <1>2, RestartForgets, RevokeEffect DEF ServiceTypeOK, RevokedHasNoKey, Accounts
<1>7. OwnersStay /\ \A n \in Network : EpochMoves(n)
  BY Zenon, <1>2, <1>4 DEF OwnersStay, EpochMoves
<1>8. \A m \in Network, l \in Link : UseIsAccountedFor(m, l)
  BY Zenon, <1>1, <1>4, SpendsNothing
<1> QED BY Zenon, <1>3, <1>6, <1>7, <1>8 DEF ServiceStep

LEMMA AccountStepHolds ==
    ASSUME ServiceInv, NEW d \in Device, AccountStep(d)
    PROVE  ServiceStep
<1>0. acct \in Accounts
  BY Zenon DEF ServiceInv, ServiceTypeOK
<1>1. ASSUME NEW a \in Account, account_create(d, a) PROVE ServiceStep
  BY SMTT(30), <1>0, <1>1, ServedIsType, AccountEffect, AccountsStep DEF account_create
<1>2. ASSUME NEW a \in Account, enrollment_issue(d, a) PROVE ServiceStep
  BY Zenon, <1>0, <1>2, ServedIsType, AccountEffect, AccountsStep DEF enrollment_issue
<1>3. ASSUME NEW a \in Account, device_enroll(d, a) PROVE ServiceStep
  BY SMTT(30), <1>0, <1>3, ServedIsType, AccountEffect, AccountsStep DEF device_enroll
<1>4. ASSUME NEW t \in Device, device_revoke(d, t) PROVE ServiceStep
  BY Zenon, <1>4, DeviceRevokeStep
<1>5. ASSUME NEW t \in Device, NEW done \in SUBSET Network, crash_in_revoke(d, t, done) PROVE ServiceStep
  BY Zenon, <1>5, CrashInRevokeStep
<1> QED BY SMTT(30), <1>1, <1>2, <1>3, <1>4, <1>5 DEF AccountStep

LEMMA ExpiryHolds ==
    ASSUME ServiceInv, Expiry
    PROVE  ServiceStep
<1>0. /\ StoreInvIn(db) /\ db \in Store /\ acct \in Accounts /\ admitted \in SUBSET Device
      /\ \A m \in Network, l \in Link : db.links[m][l] \in Nat
      /\ MaxUses \in Nat
  BY SMTT(30), StoreAssumption DEF ServiceInv, ServiceTypeOK, StoreInv, StoreInvIn, Store
<1>1. ASSUME NEW n \in Network, NEW l \in Link, invite_expires(n, l) PROVE ServiceStep
  <2>1. StoreInvIn(db')
    BY SMTT(30), <1>0, <1>1, LinkUsesInv DEF invite_expires, expire_invite_link
  <2>2. SameStanding(db, db') /\ db'.links = [db.links EXCEPT ![n][l] = 0]
    BY Zenon, <1>0, <1>1 DEF invite_expires, expire_invite_link, SameStanding, Store
  <2>3. UNCHANGED <<acct, epoch, active, greeting, minted>> /\ admitted' \in SUBSET Device
    BY Zenon, <1>0, <1>1 DEF invite_expires, memory
  <2>4. ASSUME NEW m \in Network, NEW k \in Link PROVE UseIsAccountedFor(m, k)
    <3>1. CASE m = n /\ k = l
      <4>1. db'.links[n][l] = 0
        BY SMTT(30), <1>0, <2>2 DEF Store
      <4>2. admitted' = admitted
        BY Zenon, <1>1 DEF invite_expires, memory
      <4> QED BY Zenon, <3>1, <4>1, <4>2 DEF UseIsAccountedFor
    <3>2. CASE m # n \/ k # l
      <4>1. /\ db.links[m][k] \in Nat /\ db'.links[m][k] \in Nat
            /\ db'.links[m][k] >= db.links[m][k]
        BY SMTT(30), <1>0, <2>2, <3>2 DEF Store
      <4> QED BY Zenon, <4>1, KeepsUses
    <3> QED BY Zenon, <3>1, <3>2
  <2> QED BY Zenon, <2>1, <2>2, <2>3, <2>4, PendingStep
<1>2. ASSUME NEW a \in Account, enrollment_expires(a) PROVE ServiceStep
  BY Zenon, <1>0, <1>2, AccountsStep DEF enrollment_expires, expire_enrollment, Accounts, memory
<1> QED BY Zenon, <1>1, <1>2 DEF Expiry

LEMMA RestartHolds ==
    ASSUME ServiceInv, restart
    PROVE  ServiceStep
BY Zenon, RestartForgets, SpendsNothing DEF ServiceInv, StoreInv, StoreInvIn, ServiceTypeOK,
   Accounts, restart, RevokedHasNoKey, OwnersStay, EpochMoves, ServiceStep

-----------------------------------------------------------------------------
(* The theorems.                                                           *)

LEMMA ServiceStart == ServiceInit => ServiceInv
<1> SUFFICES ASSUME ServiceInit PROVE ServiceInv
  BY Zenon
<1> QED BY Zenon, EmptyStoreInv DEF ServiceInv, ServiceInit, StoreInit, StoreInv, ServiceTypeOK,
     EmptyStore, NamesIn, EpochStarted, find_network, RevokedHasNoKey, NoAccounts, Accounts

LEMMA ServiceSteps ==
    ASSUME ServiceInv, ServiceNext
    PROVE  ServiceStep
BY SMTT(30), SessionStepHolds, MembershipStepHolds, AccessStepHolds, PolicyStepHolds, AccountStepHolds,
   ExpiryHolds, RestartHolds DEF ServiceNext

LEMMA ServiceKeeps == ServiceInv /\ [ServiceNext]_svars => ServiceInv'
<1> SUFFICES ASSUME ServiceInv, [ServiceNext]_svars PROVE ServiceInv'
  BY Zenon
<1>1. CASE ServiceNext
  <2>1. ServiceStep
    BY Zenon, <1>1, ServiceSteps
  <2>2. EpochStarted'
    <3> SUFFICES ASSUME NEW n \in Network, find_network(db', n), active'[db'.owner[n]] # 0
                 PROVE  epoch'[n] # 0
      BY Zenon DEF EpochStarted
    <3>1. epoch[n] \in Nat /\ db'.owner[n] \in Device
      BY Zenon, <2>1 DEF ServiceInv, ServiceTypeOK, ServiceStep, StoreInvIn, Store, find_network
    <3>2. EpochMoves(n)
      BY Zenon, <2>1 DEF ServiceStep
    <3>3. ~forget
      BY Zenon, <3>1 DEF forget
    <3> QED BY SMTT(30), <3>1, <3>2, <3>3 DEF EpochMoves, ServiceInv, EpochStarted, find_network
  <2> QED BY Zenon, <2>1, <2>2 DEF ServiceStep, ServiceInv, StoreInv
<1>2. CASE UNCHANGED svars
  BY Zenon, <1>2 DEF svars, ServiceInv, StoreInv, ServiceTypeOK, RevokedHasNoKey, EpochStarted
<1> QED BY Zenon, <1>1, <1>2

\* The inductive invariant of the service: through every interleaving of handshakes,
\* requests, expiries, crashes and restarts the database keeps its own invariant, a
\* revoked device has no published key, and an epoch counts while its owner is connected.
THEOREM ServiceCorrect == ServiceSpec => []ServiceInv
BY ServiceStart, ServiceKeeps, PTL DEF ServiceSpec

\* No revoked device has a published key, wherever the revocation meets its handshake.
THEOREM RevokedNeverHasKey == ServiceSpec => []RevokedHasNoKey
<1>1. ServiceInv => RevokedHasNoKey
  BY Zenon DEF ServiceInv
<1> QED BY <1>1, ServiceCorrect, PTL

\* A stored policy names members only, whatever order updates, departures and revocations
\* come in.
THEOREM PoliciesNameMembers == ServiceSpec => []PolicyNamesMembers
<1>1. ServiceInv => PolicyNamesMembers
  BY Zenon, NamesIsPolicyNamesMembers DEF ServiceInv
<1> QED BY <1>1, ServiceCorrect, PTL

\* A use of a link, the last one included, is lost only to a redemption, which makes its
\* bearer a member (a crash leaves an invitation instead), to a manager who revokes the links
\* or to the link's expiry.
THEOREM RedemptionsJoin == ServiceSpec => RedemptionJoins
<1>1. ServiceInv /\ [ServiceNext]_svars => [\A n \in Network, l \in Link : UseIsAccountedFor(n, l)]_svars
  BY Zenon, ServiceSteps DEF ServiceStep
<1> QED BY <1>1, ServiceCorrect, PTL DEF ServiceSpec, RedemptionJoins

\* A change of a connected owner's network moves the epoch that its peers see.
THEOREM OwnersMoveEpochs == ServiceSpec => OnlineOwnerMovesEpoch
<1>1. ASSUME ServiceInv, ServiceNext, NEW n \in Network, find_network(db, n), active[db.owner[n]] # 0,
             \/ db'.members[n] # db.members[n]
             \/ db'.policy[n] # db.policy[n]
             \/ active'[db.owner[n]] # active[db.owner[n]],
             ~forget
      PROVE  key_epoch_for(n)' > key_epoch_for(n)
  <2>3. epoch'[n] = epoch[n] + 1
    BY Zenon, <1>1, ServiceSteps DEF EpochMoves, ServiceStep
  <2> QED BY SMTT(30), <2>3, <1>1 DEF key_epoch_for, ServiceInv, ServiceTypeOK, EpochStarted
<1>2. ServiceInv /\ [ServiceNext]_svars =>
        [\A n \in Network :
            LET o == db.owner[n] IN
            /\ find_network(db, n) /\ active[o] # 0
            /\ \/ db'.members[n] # db.members[n]
               \/ db'.policy[n] # db.policy[n]
               \/ active'[o] # active[o]
            => key_epoch_for(n)' > key_epoch_for(n) \/ forget]_svars
  BY Zenon, <1>1
<1> QED BY <1>2, ServiceCorrect, PTL DEF ServiceSpec, OnlineOwnerMovesEpoch
=============================================================================
