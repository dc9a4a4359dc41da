-------------------------- MODULE RelayStoreProofs --------------------------
(***************************************************************************)
(* The database invariant of module RelayStore, for any sets of devices,   *)
(* networks and links and any pool sizes.                                  *)
(*                                                                         *)
(* Each method is shown to keep StoreInvIn in a lemma of its own, stated   *)
(* for an arbitrary database s, so that the modules that call the methods  *)
(* inside larger steps can use it too.                                     *)
(***************************************************************************)
EXTENDS RelayStore, NaturalsInduction, WellFoundedInduction, TLAPS

-----------------------------------------------------------------------------
(* Address allocation.                                                     *)

\* The scan of insert_subnet and insert_lease returns a number that no row
\* holds, at most one past the end of the pool.
LEMMA LowestFreeIsFree ==
    ASSUME NEW slots \in Nat, NEW used, used \subseteq 0..slots
    PROVE  /\ LowestFree(used, slots) \in 1..(slots + 1)
           /\ LowestFree(used, slots) \notin used
<1> DEFINE T == {k \in 1..(slots + 1) : k \notin used}
<1>1. T \subseteq Nat /\ T # {}
    BY SMTT(30)
<1> HIDE DEF T
<1>2. PICK x \in T : \A y \in T : ~ (<<y, x>> \in OpToRel(<, Nat))
    BY <1>1, WFMin, NatLessThanWellFounded, Zenon
<1>3. \A y \in T : ~ (y < x)
    BY <1>1, <1>2, Zenon DEF OpToRel
<1> USE DEF T
<1> QED BY SMTT(30), <1>3 DEF LowestFree

\* A new network gets a subnet that no network has ...
LEMMA SubnetIsFree ==
    ASSUME NEW s, StoreInvIn(s)
    PROVE  /\ insert_subnet(s) \in 1..(SubnetSlots + 1)
           /\ \A m \in Network : s.subnet[m] # insert_subnet(s)
<1> DEFINE used == {s.subnet[m] : m \in Network}
<1>1. SubnetSlots \in Nat /\ used \subseteq 0..SubnetSlots
    BY StoreAssumption DEF StoreInvIn, Store
<1> HIDE DEF used
<1> QED BY Zenon, <1>1, LowestFreeIsFree DEF used, insert_subnet

\* ... and a new member a host number that no member of its network has.
LEMMA LeaseIsFree ==
    ASSUME NEW s, StoreInvIn(s), NEW n \in Network
    PROVE  /\ insert_lease(s, n) \in 1..(HostSlots + 1)
           /\ \A d \in Device : s.host[n][d] # insert_lease(s, n)
<1> DEFINE used == {s.host[n][d] : d \in Device}
<1>1. HostSlots \in Nat /\ used \subseteq 0..HostSlots
    BY StoreAssumption DEF StoreInvIn, Store
<1> HIDE DEF used
<1> QED BY Zenon, <1>1, LowestFreeIsFree DEF used, insert_lease

\* A network starts with a policy, the empty one.
LEMMA NoPolicyIsPolicy == NoPolicy \in Policy
BY StoreAssumption DEF NoPolicy, Policy, Role, GatewayState

-----------------------------------------------------------------------------
(* The methods.                                                            *)

\* The empty database is consistent.
LEMMA EmptyStoreInv == StoreInvIn(EmptyStore)
<1>1. EmptyStore \in Store
    BY StoreAssumption, NoPolicyIsPolicy DEF EmptyStore, Store, Password
<1> QED BY Zenon, <1>1 DEF StoreInvIn, RowsBelongIn, EmptyStore, find_network, LeaseIffMemberIn,
     UniqueAddressesIn, OneStandingIn

\* Recording a device, new or known, disturbs no other row.
LEMMA RecordDeviceInv ==
    ASSUME NEW s, StoreInvIn(s), NEW d \in Device
    PROVE  StoreInvIn(record_device(s, d))
<1> DEFINE t == record_device(s, d)
<1>2. RowsBelongIn(t)
    BY DEF StoreInvIn, Store, RowsBelongIn, find_network, record_device
<1>4. UniqueAddressesIn(t)
    BY Zenon DEF StoreInvIn, Store, UniqueAddressesIn, record_device
<1> QED BY Zenon, <1>2, <1>4 DEF StoreInvIn, Store, record_device, LeaseIffMemberIn, OneStandingIn

\* A new network: its subnet is free, its owner takes host 1.
LEMMA CreateNetworkInv ==
    ASSUME NEW s, StoreInvIn(s), NEW n \in Network, NEW d \in Device,
           NEW pw \in Password, CanCreateNetwork(s, n, d)
    PROVE  StoreInvIn(store_create_network(s, n, d, pw))
<1> DEFINE t == store_create_network(s, n, d, pw)
           k == insert_subnet(s)
<1>1. /\ k \in 1..SubnetSlots
      /\ \A m \in Network : s.subnet[m] # k
    BY SubnetIsFree, StoreAssumption DEF CanCreateNetwork
<1>2. /\ s \in Store
      /\ s.owner[n] = NoDevice /\ d \in s.devices
      /\ HostSlots \in Nat /\ HostSlots >= 1
      /\ s.members[n] = {} /\ s.invited[n] = {} /\ s.requested[n] = {}
      /\ \A e \in Device : s.host[n][e] = 0
    BY StoreAssumption DEF CanCreateNetwork, find_network, StoreInvIn,
        RowsBelongIn, LeaseIffMemberIn, Store
<1> HIDE DEF k
<1>3. t \in Store
    <2>1. [s.host EXCEPT ![n][d] = 1] \in [Network -> [Device -> 0..HostSlots]]
        BY <1>2 DEF Store
    <2>2. [s.subnet EXCEPT ![n] = k] \in [Network -> 0..SubnetSlots]
        BY <1>1, <1>2, StoreAssumption DEF Store
    <2>4. [s.members EXCEPT ![n] = {d}] \in [Network -> SUBSET Device]
        BY Zenon, <1>2 DEF Store
    <2> QED BY Zenon, <1>2, <2>1, <2>2, <2>4 DEF Store, store_create_network, k
<1>4. RowsBelongIn(t)
    BY SMTT(30), <1>1, <1>2, StoreAssumption DEF RowsBelongIn, StoreInvIn, Store,
        store_create_network, find_network, k
<1>5. LeaseIffMemberIn(t)
    BY <1>2 DEF LeaseIffMemberIn, StoreInvIn, Store, store_create_network
<1>6. UniqueAddressesIn(t)
    BY <1>1, <1>2 DEF UniqueAddressesIn, StoreInvIn, Store, store_create_network, k
<1>7. OneStandingIn(t)
    BY <1>2 DEF OneStandingIn, StoreInvIn, Store, store_create_network
<1> QED BY Zenon, <1>3, <1>4, <1>5, <1>6, <1>7 DEF StoreInvIn

\* Deleting a network leaves nothing of it and touches no other.
LEMMA DeleteNetworkInv ==
    ASSUME NEW s, StoreInvIn(s), NEW n \in Network
    PROVE  StoreInvIn(delete_network(s, n))
<1> DEFINE t == delete_network(s, n)
<1>1. s \in Store
    BY Zenon DEF StoreInvIn
<1>2. t = [devices |-> s.devices,
           owner |-> [s.owner EXCEPT ![n] = NoDevice],
           members |-> [s.members EXCEPT ![n] = {}],
           subnet |-> [s.subnet EXCEPT ![n] = 0],
           host |-> [s.host EXCEPT ![n] = [d \in Device |-> 0]],
           invited |-> [s.invited EXCEPT ![n] = {}],
           requested |-> [s.requested EXCEPT ![n] = {}],
           links |-> [s.links EXCEPT ![n] = [l \in Link |-> 0]],
           password |-> [s.password EXCEPT ![n] = "none"],
           policy |-> [s.policy EXCEPT ![n] = NoPolicy]]
    BY Zenon DEF delete_network
<1> HIDE DEF t
<1>3. t \in Store
    BY SMTT(30), <1>1, StoreAssumption, NoPolicyIsPolicy, <1>2 DEF Store, Password
<1>4. RowsBelongIn(t)
    BY <1>1, <1>2 DEF StoreInvIn, Store, RowsBelongIn, find_network
<1>5. LeaseIffMemberIn(t)
    BY Zenon, <1>1, <1>2 DEF StoreInvIn, Store, LeaseIffMemberIn
<1>6. UniqueAddressesIn(t)
    BY Zenon, <1>1, <1>2 DEF StoreInvIn, Store, UniqueAddressesIn
<1>7. OneStandingIn(t)
    BY Zenon, <1>1, <1>2 DEF StoreInvIn, Store, OneStandingIn
<1> QED BY Zenon, <1>3, <1>4, <1>5, <1>6, <1>7 DEF StoreInvIn, t

\* A new member takes a free host number and leaves nothing pending.
LEMMA AddMemberInv ==
    ASSUME NEW s, StoreInvIn(s), NEW n \in Network, NEW d \in Device,
           CanAddMember(s, n, d)
    PROVE  StoreInvIn(add_member(s, n, d))
<1> DEFINE t == add_member(s, n, d)
           k == insert_lease(s, n)
<1>1. /\ k \in 1..HostSlots
      /\ \A e \in Device : s.host[n][e] # k
    BY LeaseIsFree, StoreAssumption DEF CanAddMember
<1>2. /\ s \in Store
      /\ s.owner[n] # NoDevice
      /\ d \in s.devices /\ d \notin s.members[n]
    BY Zenon DEF CanAddMember, find_network, StoreInvIn
<1> HIDE DEF k
<1>3. t \in Store
    <2>1. [s.host EXCEPT ![n][d] = k] \in [Network -> [Device -> 0..HostSlots]]
        BY SMTT(30), <1>1, <1>2, StoreAssumption DEF Store
    <2>2. /\ [s.members EXCEPT ![n] = @ \cup {d}] \in [Network -> SUBSET Device]
          /\ [s.invited EXCEPT ![n] = @ \ {d}] \in [Network -> SUBSET Device]
          /\ [s.requested EXCEPT ![n] = @ \ {d}] \in [Network -> SUBSET Device]
        BY Zenon, <1>2 DEF Store
    <2> QED  BY Zenon, <1>2, <2>1, <2>2 DEF Store, add_member, k
<1>4. RowsBelongIn(t)
    BY SMTT(30), <1>2 DEF StoreInvIn, Store, RowsBelongIn, find_network, add_member
<1>5. LeaseIffMemberIn(t)
    BY <1>1, <1>2 DEF StoreInvIn, Store, LeaseIffMemberIn, add_member, k
<1>6. UniqueAddressesIn(t)
    BY <1>1, <1>2 DEF StoreInvIn, Store, UniqueAddressesIn, add_member, k
<1>7. OneStandingIn(t)
    BY <1>2 DEF StoreInvIn, Store, OneStandingIn, add_member
<1> QED BY Zenon, <1>3, <1>4, <1>5, <1>6, <1>7 DEF StoreInvIn

\* Scrubbing a policy keeps it a policy, unless the revision is exhausted.
LEMMA ScrubbedPolicyIsPolicy ==
    ASSUME NEW p \in Policy, NEW d \in Device,
           PrunedPolicy(p, d) = p \/ p.revision < MaxPolicyRevision
    PROVE  ScrubbedPolicy(p, d) \in Policy
<1> DEFINE q == PrunedPolicy(p, d)
<1>1. q \in Policy /\ q.revision = p.revision
    BY Zenon DEF PrunedPolicy, Policy, Role, GatewayState
<1> HIDE DEF q
<1>2. CASE q = p
    BY Zenon, <1>2 DEF ScrubbedPolicy, q
<1>3. CASE q # p
    BY SMTT(30), <1>1, <1>3, StoreAssumption DEF Policy, q, ScrubbedPolicy
<1> QED BY Zenon, <1>2, <1>3

\* A member that goes takes its lease with it.
LEMMA RemoveMemberInv ==
    ASSUME NEW s, StoreInvIn(s), NEW n \in Network, NEW d \in Device,
           CanRemoveMember(s, n, d)
    PROVE  StoreInvIn(remove_member(s, n, d))
<1> DEFINE t == remove_member(s, n, d)
           p == ScrubbedPolicy(s.policy[n], d)
<1>1. /\ s \in Store
      /\ d \in s.members[n] /\ d # s.owner[n] /\ s.owner[n] # NoDevice
    BY Zenon DEF CanRemoveMember, StoreInvIn, RowsBelongIn, find_network
<1> HIDE DEF p
<1>3. t \in Store
    <2>1. [s.host EXCEPT ![n][d] = 0] \in [Network -> [Device -> 0..HostSlots]]
        BY <1>1, StoreAssumption DEF Store
    <2> QED BY Zenon, <1>1, <2>1, ScrubbedPolicyIsPolicy DEF Store, remove_member, p,
         CanRemoveMember
<1>4. RowsBelongIn(t)
    BY <1>1 DEF StoreInvIn, Store, RowsBelongIn, find_network, remove_member
<1>5. LeaseIffMemberIn(t)
    BY Zenon, <1>1 DEF StoreInvIn, Store, LeaseIffMemberIn, remove_member
<1>6. UniqueAddressesIn(t)
    BY <1>1 DEF StoreInvIn, Store, UniqueAddressesIn, remove_member
<1>7. OneStandingIn(t)
    BY Zenon, <1>1 DEF StoreInvIn, Store, OneStandingIn, remove_member
<1> QED BY Zenon, <1>3, <1>4, <1>5, <1>6, <1>7 DEF StoreInvIn

\* Two databases that differ in their pending rows and links only.
SameRows(s, t) ==
    /\ t.devices = s.devices /\ t.owner = s.owner /\ t.members = s.members
    /\ t.subnet = s.subnet /\ t.host = s.host
    /\ t.password = s.password /\ t.policy = s.policy

\* Pending rows and links belong to networks that exist, the devices are
\* recorded and are not members, and no device is both invited and waiting.
PendingBelongs(t) ==
    \A n \in Network :
        /\ t.invited[n] \cup t.requested[n] \subseteq t.devices
        /\ t.invited[n] \cap t.requested[n] = {}
        /\ t.members[n] \cap (t.invited[n] \cup t.requested[n]) = {}
        /\ ~find_network(t, n) =>
            /\ t.invited[n] = {} /\ t.requested[n] = {}
            /\ \A l \in Link : t.links[n][l] = 0

\* A write of pending rows and links that leaves them belonging keeps the
\* invariant.
LEMMA PendingInv ==
    ASSUME NEW s, StoreInvIn(s), NEW t \in Store, SameRows(s, t),
           PendingBelongs(t)
    PROVE  StoreInvIn(t)
<1>1. RowsBelongIn(t)
    BY DEF StoreInvIn, RowsBelongIn, find_network, SameRows, PendingBelongs
<1>3. UniqueAddressesIn(t)
    BY DEF StoreInvIn, UniqueAddressesIn, SameRows
<1>4. OneStandingIn(t)
    BY Zenon DEF StoreInvIn, OneStandingIn, PendingBelongs, Store
<1> QED BY Zenon, <1>1, <1>3, <1>4 DEF StoreInvIn, LeaseIffMemberIn, SameRows

\* The invariant says that the pending rows belong.
LEMMA PendingOfNetwork ==
    ASSUME NEW s, StoreInvIn(s)
    PROVE  s \in Store /\ PendingBelongs(s)
BY DEF StoreInvIn, Store, RowsBelongIn, OneStandingIn, PendingBelongs

\* An invitation is given only to a recorded device with no other standing.
LEMMA AddInvitationInv ==
    ASSUME NEW s, StoreInvIn(s), NEW n \in Network, NEW d \in Device,
           CanAddInvitation(s, n, d)
    PROVE  StoreInvIn(add_invitation(s, n, d))
<1> DEFINE t == add_invitation(s, n, d)
<1>1. t \in Store /\ SameRows(s, t)
    BY ZenonT(60) DEF StoreInvIn, Store, SameRows, add_invitation
<1>2. /\ t.invited = [s.invited EXCEPT ![n] = @ \cup {d}]
      /\ t.requested = s.requested /\ t.links = s.links
    BY Zenon DEF StoreInvIn, Store, add_invitation
<1> HIDE DEF t
<1>3. PendingBelongs(t)
    BY <1>1, <1>2, PendingOfNetwork
       DEF CanAddInvitation, PendingBelongs, SameRows, find_network, Store
<1> QED BY Zenon, <1>1, <1>3, PendingInv DEF t

\* An invitation can always be withdrawn.
LEMMA RemoveInvitationInv ==
    ASSUME NEW s, StoreInvIn(s), NEW n \in Network, NEW d \in Device
    PROVE  StoreInvIn(remove_invitation(s, n, d))
<1> DEFINE t == remove_invitation(s, n, d)
<1>1. t \in Store /\ SameRows(s, t)
    BY Zenon DEF StoreInvIn, Store, SameRows, remove_invitation
<1>2. /\ t.invited = [s.invited EXCEPT ![n] = @ \ {d}]
      /\ t.requested = s.requested /\ t.links = s.links
    BY Zenon DEF StoreInvIn, Store, remove_invitation
<1> HIDE DEF t
<1>3. PendingBelongs(t)
    BY <1>1, <1>2, PendingOfNetwork
       DEF PendingBelongs, SameRows, find_network, Store
<1> QED BY Zenon, <1>1, <1>3, PendingInv DEF t

\* A join request is taken only from a recorded device with no other standing.
LEMMA AddJoinRequestInv ==
    ASSUME NEW s, StoreInvIn(s), NEW n \in Network, NEW d \in Device,
           CanAddJoinRequest(s, n, d)
    PROVE  StoreInvIn(add_join_request(s, n, d))
<1> DEFINE t == add_join_request(s, n, d)
<1>1. t \in Store /\ SameRows(s, t)
    BY ZenonT(60) DEF StoreInvIn, Store, SameRows, add_join_request
<1>2. /\ t.requested = [s.requested EXCEPT ![n] = @ \cup {d}]
      /\ t.invited = s.invited /\ t.links = s.links
    BY Zenon DEF StoreInvIn, Store, add_join_request
<1> HIDE DEF t
<1>3. PendingBelongs(t)
    BY <1>1, <1>2, PendingOfNetwork
       DEF CanAddJoinRequest, PendingBelongs, SameRows, find_network, Store
<1> QED BY Zenon, <1>1, <1>3, PendingInv DEF t

\* A join request can always be withdrawn or rejected.
LEMMA RemoveJoinRequestInv ==
    ASSUME NEW s, StoreInvIn(s), NEW n \in Network, NEW d \in Device
    PROVE  StoreInvIn(remove_join_request(s, n, d))
<1> DEFINE t == remove_join_request(s, n, d)
<1>1. t \in Store /\ SameRows(s, t)
    BY Zenon DEF StoreInvIn, Store, SameRows, remove_join_request
<1>2. /\ t.requested = [s.requested EXCEPT ![n] = @ \ {d}]
      /\ t.invited = s.invited /\ t.links = s.links
    BY Zenon DEF StoreInvIn, Store, remove_join_request
<1> HIDE DEF t
<1>3. PendingBelongs(t)
    BY <1>1, <1>2, PendingOfNetwork
       DEF PendingBelongs, SameRows, find_network, Store
<1> QED BY Zenon, <1>1, <1>3, PendingInv DEF t

\* Setting the uses of a link of a network that exists, or setting them to 0,
\* keeps the invariant: issuing and expiring a link are such writes.
LEMMA LinkUsesInv ==
    ASSUME NEW s, StoreInvIn(s), NEW n \in Network, NEW l \in Link,
           NEW uses \in 0..MaxUses, find_network(s, n) \/ uses = 0
    PROVE  StoreInvIn([s EXCEPT !.links[n][l] = uses])
<1> DEFINE t == [s EXCEPT !.links[n][l] = uses]
<1>1. t \in Store /\ SameRows(s, t)
    BY Zenon DEF StoreInvIn, Store, SameRows
<1>2. /\ t.links = [s.links EXCEPT ![n][l] = uses]
      /\ t.invited = s.invited /\ t.requested = s.requested
    BY Zenon DEF StoreInvIn, Store
<1> HIDE DEF t
<1>3. PendingBelongs(t)
    BY SMTT(30), <1>1, <1>2, PendingOfNetwork
       DEF PendingBelongs, SameRows, find_network, Store
<1> QED BY Zenon, <1>1, <1>3, PendingInv DEF t

\* Revoking leaves a network without live links.
LEMMA RevokeLinksInv ==
    ASSUME NEW s, StoreInvIn(s), NEW n \in Network
    PROVE  StoreInvIn(revoke_invite_links(s, n))
<1> DEFINE t == revoke_invite_links(s, n)
<1>1. t \in Store /\ SameRows(s, t)
    <2>1. [l \in Link |-> 0] \in [Link -> 0..MaxUses]
        BY StoreAssumption
    <2> QED BY Zenon, <2>1 DEF Store, SameRows, revoke_invite_links, StoreInvIn
<1>2. /\ t.links = [s.links EXCEPT ![n] = [l \in Link |-> 0]]
      /\ t.invited = s.invited /\ t.requested = s.requested
    BY Zenon DEF StoreInvIn, Store, revoke_invite_links
<1> HIDE DEF t
<1>3. PendingBelongs(t)
    BY SMTT(30), <1>1, <1>2, PendingOfNetwork
       DEF PendingBelongs, SameRows, find_network, Store
<1> QED BY Zenon, <1>1, <1>3, PendingInv DEF t

\* A redemption turns a pending request into an invitation and takes a use.
LEMMA RedeemInv ==
    ASSUME NEW s, StoreInvIn(s), NEW n \in Network, NEW l \in Link,
           NEW d \in Device, CanRedeemInviteLink(s, n, l, d)
    PROVE  StoreInvIn(redeem_invite_link(s, n, l, d))
<1> DEFINE t == redeem_invite_link(s, n, l, d)
           k == s.links[n][l] - 1
<1>1. k \in 0..MaxUses /\ find_network(s, n)
    BY PendingOfNetwork, StoreAssumption DEF CanRedeemInviteLink, Store, PendingBelongs
<1>2. t = [s EXCEPT !.requested[n] = @ \ {d}, !.invited[n] = @ \cup {d},
                    !.links[n][l] = k]
    BY Zenon DEF redeem_invite_link
<1> HIDE DEF t, k
<1>3. t \in Store /\ SameRows(s, t)
    <2>1. /\ [s.invited EXCEPT ![n] = @ \cup {d}] \in [Network -> SUBSET Device]
          /\ [s.requested EXCEPT ![n] = @ \ {d}] \in [Network -> SUBSET Device]
          /\ [s.links EXCEPT ![n][l] = k] \in [Network -> [Link -> 0..MaxUses]]
        BY Zenon, <1>1 DEF StoreInvIn, Store
    <2> QED  BY Zenon, <1>2, <2>1 DEF StoreInvIn, Store, SameRows
<1>4. /\ t.invited = [s.invited EXCEPT ![n] = @ \cup {d}]
      /\ t.requested = [s.requested EXCEPT ![n] = @ \ {d}]
      /\ t.links = [s.links EXCEPT ![n][l] = k]
    BY Zenon, <1>2 DEF StoreInvIn, Store
<1>5. PendingBelongs(t)
    BY SMTT(30), <1>1, <1>3, <1>4, PendingOfNetwork
       DEF CanRedeemInviteLink, PendingBelongs, SameRows, find_network, Store
<1> QED BY Zenon, <1>3, <1>5, PendingInv DEF t

\* A password and a policy are rows of a network that exists.
LEMMA SetPasswordInv ==
    ASSUME NEW s, StoreInvIn(s), NEW n \in Network, NEW pw \in Password,
           find_network(s, n)
    PROVE  StoreInvIn(set_network_password(s, n, pw))
<1> DEFINE t == set_network_password(s, n, pw)
<1>2. RowsBelongIn(t)
    BY SMTT(30) DEF StoreInvIn, Store, RowsBelongIn, find_network, set_network_password
<1>3. LeaseIffMemberIn(t) /\ UniqueAddressesIn(t) /\ OneStandingIn(t)
    BY DEF StoreInvIn, Store, LeaseIffMemberIn, UniqueAddressesIn, OneStandingIn,
           set_network_password
<1> QED BY Zenon, <1>2, <1>3 DEF StoreInvIn, Store, set_network_password

\* The compare and swap keeps the revision within its type: the last one is
\* refused.
LEMMA SavePolicyInv ==
    ASSUME NEW s, StoreInvIn(s), NEW n \in Network, NEW p \in Documents,
           NEW expected \in 0..MaxPolicyRevision, CanSavePolicy(s, n, p, expected)
    PROVE  StoreInvIn(save_network_policy(s, n, p, expected))
<1> DEFINE t == save_network_policy(s, n, p, expected)
           q == [p EXCEPT !.revision = expected + 1]
<1>1. q \in Policy
    BY SMTT(30), DocumentsAssumption, StoreAssumption DEF Policy, CanSavePolicy
<1>2. t = [s EXCEPT !.policy[n] = q] /\ find_network(s, n)
    BY Zenon DEF save_network_policy, CanSavePolicy
<1> HIDE DEF q, t
<1>3. t \in Store
    BY Zenon, <1>1, <1>2 DEF StoreInvIn, Store
<1>4. RowsBelongIn(t)
    BY SMTT(30), <1>1, <1>2 DEF StoreInvIn, Store, RowsBelongIn, find_network
<1>5. LeaseIffMemberIn(t) /\ UniqueAddressesIn(t) /\ OneStandingIn(t)
    BY SMTT(30), <1>1, <1>2 DEF StoreInvIn, Store, LeaseIffMemberIn, UniqueAddressesIn, OneStandingIn
<1> QED BY Zenon, <1>3, <1>4, <1>5 DEF StoreInvIn, t

-----------------------------------------------------------------------------
(* The store.                                                              *)

\* Every method keeps the invariant.
LEMMA StoreStep ==
    ASSUME StoreInv, [StoreNext]_db
    PROVE  StoreInv'
<1> USE DEF StoreInv
<1>1. ASSUME NEW d \in Device, RecordDevice(d)
      PROVE  StoreInv'
    BY Zenon, <1>1, RecordDeviceInv DEF RecordDevice
<1>2. ASSUME NEW n \in Network, DeleteNetwork(n)
      PROVE  StoreInv'
    BY Zenon, <1>2, DeleteNetworkInv DEF DeleteNetwork
<1>3. ASSUME NEW n \in Network, RevokeInviteLinks(n)
      PROVE  StoreInv'
    BY Zenon, <1>3, RevokeLinksInv DEF RevokeInviteLinks
<1>4. ASSUME NEW n \in Network, NEW pw \in Password, SetNetworkPassword(n, pw)
      PROVE  StoreInv'
    BY Zenon, <1>4, SetPasswordInv DEF SetNetworkPassword
<1>5. ASSUME NEW n \in Network, NEW l \in Link, ExpireInviteLink(n, l)
      PROVE  StoreInv'
    BY SMTT(30), StoreAssumption, <1>5, LinkUsesInv DEF ExpireInviteLink, expire_invite_link
<1>6. ASSUME NEW n \in Network, NEW l \in Link, NEW uses \in 1..MaxUses,
             IssueInviteLink(n, l, uses)
      PROVE  StoreInv'
    BY SMTT(30), <1>6, StoreAssumption, LinkUsesInv DEF IssueInviteLink, CanIssueInviteLink,
       issue_invite_link
<1>7. ASSUME NEW n \in Network, NEW p \in Documents,
             NEW e \in 0..MaxPolicyRevision, SaveNetworkPolicy(n, p, e)
      PROVE  StoreInv'
    BY Zenon, <1>7, SavePolicyInv DEF SaveNetworkPolicy
<1>8. ASSUME NEW n \in Network, NEW d \in Device, NEW pw \in Password,
             CreateNetwork(n, d, pw)
      PROVE  StoreInv'
    BY Zenon, <1>8, CreateNetworkInv DEF CreateNetwork
<1>9. ASSUME NEW n \in Network, NEW d \in Device, AddMember(n, d)
      PROVE  StoreInv'
    BY Zenon, <1>9, AddMemberInv DEF AddMember
<1>10. ASSUME NEW n \in Network, NEW d \in Device, RemoveMember(n, d)
       PROVE  StoreInv'
    BY Zenon, <1>10, RemoveMemberInv DEF RemoveMember
<1>11. ASSUME NEW n \in Network, NEW d \in Device,
              AddInvitation(n, d) \/ RemoveInvitation(n, d)
       PROVE  StoreInv'
    BY Zenon, <1>11, AddInvitationInv, RemoveInvitationInv DEF AddInvitation, RemoveInvitation
<1>12. ASSUME NEW n \in Network, NEW d \in Device,
              AddJoinRequest(n, d) \/ RemoveJoinRequest(n, d)
       PROVE  StoreInv'
    BY Zenon, <1>12, AddJoinRequestInv, RemoveJoinRequestInv DEF AddJoinRequest, RemoveJoinRequest
<1>13. ASSUME NEW n \in Network, NEW d \in Device, NEW l \in Link,
              RedeemInviteLink(n, l, d)
       PROVE  StoreInv'
    BY Zenon, <1>13, RedeemInv DEF RedeemInviteLink
<1>14. CASE UNCHANGED db
    BY Zenon, <1>14
<1> HIDE DEF StoreInv
<1> QED
    BY Zenon, <1>1, <1>2, <1>3, <1>4, <1>5, <1>6, <1>7, <1>8, <1>9, <1>10, <1>11, <1>12, <1>13,
       <1>14 DEF StoreNext

\* The database is always well formed, for every pool size, use limit and
\* set of policy documents.
THEOREM StoreCorrect == StoreSpec => []StoreInv
<1>1. StoreInit => StoreInv
    BY Zenon, EmptyStoreInv DEF StoreInit, StoreInv
<1>2. StoreInv /\ [StoreNext]_db => StoreInv'
    BY Zenon, StoreStep
<1> QED  BY <1>1, <1>2, PTL DEF StoreSpec

\* Type correctness of the database.
THEOREM StoreTypeCorrect == StoreSpec => []StoreTypeOK
<1>1. StoreInv => StoreTypeOK
    BY Zenon DEF StoreInv, StoreInvIn, StoreTypeOK
<1> QED  BY <1>1, StoreCorrect, PTL

\* No row outlives the rows it refers to, and member, invited and waiting exclude each other.
THEOREM RowsAlwaysBelong == StoreSpec => []RowsBelong
<1>1. StoreInv => RowsBelong
    BY Zenon DEF StoreInv, StoreInvIn, RowsBelong
<1> QED  BY <1>1, StoreCorrect, PTL

\* A device holds a lease exactly while it is a member, and no two leases share an address.
THEOREM AddressesAreUnique == StoreSpec => []UniqueAddresses
<1>1. StoreInv => UniqueAddresses
    BY Zenon DEF StoreInv, StoreInvIn, UniqueAddresses
<1> QED  BY <1>1, StoreCorrect, PTL

-----------------------------------------------------------------------------
(* What a step may never do.                                               *)

\* A step that writes neither addresses nor members moves no lease.
LEMMA LeasesUntouched ==
    ASSUME db'.host = db.host, db'.subnet = db.subnet
    PROVE  LeasesStay
BY DEF LeasesStay

\* No method moves the address of a device that stays a member.
LEMMA LeasesStayStep ==
    ASSUME StoreInv, StoreNext
    PROVE  LeasesStay
<1>1. db \in Store
    BY Zenon DEF StoreInv, StoreInvIn
<1>2. ASSUME NEW d \in Device, RecordDevice(d)
      PROVE  LeasesStay
    BY Zenon, <1>1, <1>2, LeasesUntouched DEF RecordDevice, record_device, Store
<1>3. ASSUME NEW n \in Network, DeleteNetwork(n)
      PROVE  LeasesStay
    BY Zenon, <1>1, <1>3 DEF DeleteNetwork, delete_network, find_network, Store, LeasesStay
<1>4. ASSUME NEW n \in Network, RevokeInviteLinks(n)
      PROVE  LeasesStay
    BY Zenon, <1>1, <1>4, LeasesUntouched DEF RevokeInviteLinks, revoke_invite_links, Store
<1>5. ASSUME NEW n \in Network, NEW pw \in Password, SetNetworkPassword(n, pw)
      PROVE  LeasesStay
    BY Zenon, <1>1, <1>5, LeasesUntouched DEF SetNetworkPassword, set_network_password, Store
<1>6. ASSUME NEW n \in Network, NEW l \in Link, NEW uses,
             db' = [db EXCEPT !.links[n][l] = uses]
      PROVE  LeasesStay
    BY Zenon, <1>1, <1>6, LeasesUntouched DEF Store
<1>7. ASSUME NEW n \in Network, NEW p \in Documents,
             NEW e \in 0..MaxPolicyRevision, SaveNetworkPolicy(n, p, e)
      PROVE  LeasesStay
    BY Zenon, <1>1, <1>7, LeasesUntouched DEF SaveNetworkPolicy, save_network_policy, Store
<1>8. ASSUME NEW n \in Network, NEW d \in Device, NEW pw \in Password,
             CreateNetwork(n, d, pw)
      PROVE  LeasesStay
    <2>2. \A m \in Network \ {n} :
            db'.host[m] = db.host[m] /\ db'.subnet[m] = db.subnet[m]
        BY Zenon, <1>1, <1>8 DEF CreateNetwork, store_create_network, Store
    <2> QED BY Zenon, <2>2, <1>8 DEF LeasesStay, CreateNetwork, CanCreateNetwork, StoreInv,
         StoreInvIn, RowsBelongIn
<1>9. ASSUME NEW n \in Network, NEW d \in Device, AddMember(n, d)
      PROVE  LeasesStay
    BY <1>1, <1>9 DEF AddMember, CanAddMember, add_member, Store, LeasesStay
<1>10. ASSUME NEW n \in Network, NEW d \in Device, RemoveMember(n, d)
       PROVE  LeasesStay
    BY <1>1, <1>10 DEF RemoveMember, remove_member, Store, LeasesStay
<1>11. ASSUME NEW n \in Network, NEW d \in Device,
              AddInvitation(n, d) \/ RemoveInvitation(n, d)
       PROVE  LeasesStay
    BY Zenon, <1>1, <1>11, LeasesUntouched DEF AddInvitation, RemoveInvitation, add_invitation,
       remove_invitation, Store
<1>12. ASSUME NEW n \in Network, NEW d \in Device,
              AddJoinRequest(n, d) \/ RemoveJoinRequest(n, d)
       PROVE  LeasesStay
    BY Zenon, <1>1, <1>12, LeasesUntouched DEF AddJoinRequest, RemoveJoinRequest, add_join_request,
       remove_join_request, Store
<1>13. ASSUME NEW n \in Network, NEW d \in Device, NEW l \in Link,
              RedeemInviteLink(n, l, d)
       PROVE  LeasesStay
    BY Zenon, <1>1, <1>13, LeasesUntouched DEF RedeemInviteLink, redeem_invite_link, Store
<1> QED
    BY Zenon, <1>2, <1>3, <1>4, <1>5, <1>6, <1>7, <1>8, <1>9, <1>10, <1>11, <1>12, <1>13 DEF
       StoreNext, ExpireInviteLink, expire_invite_link, IssueInviteLink, issue_invite_link

\* A member's virtual IPv4 address never changes.
THEOREM LeasesAreStable == StoreSpec => LeaseStable
<1>1. StoreInv /\ [StoreNext]_db => [LeasesStay]_db
    BY Zenon, LeasesStayStep
<1> QED  BY <1>1, StoreCorrect, PTL DEF StoreSpec, LeaseStable
=============================================================================
