----------------------------- MODULE RelayStore -----------------------------
(***************************************************************************)
(* The relay's SQLite database (src/src/storage/relay_store.cpp): devices, *)
(* networks, memberships, virtual IPv4 subnets and leases, invitations,    *)
(* join requests, invitation links, network passwords and access policies. *)
(*                                                                         *)
(* The database is one record, db.  Every public method of RelayStore      *)
(* holds the store's mutex and runs one SQLite transaction, so each is an  *)
(* operator from a database to the database its transaction commits; the   *)
(* Can... operators are the conditions under which it commits.  A method   *)
(* that returns false or throws rolls back and changes nothing.            *)
(*                                                                         *)
(* StoreSpec lets any caller call any method in any order.  The network    *)
(* service (module NetworkService) calls them in the orders it needs.      *)
(***************************************************************************)
EXTENDS Integers, FiniteSets

CONSTANTS
    Device,             \* device identities
    Network,            \* network identifiers
    Link,               \* digests of invitation-link secrets
    NoDevice,           \* stands for "no such row"
    SubnetSlots,        \* /24 subnets in the overlay pool (16384 in the code)
    HostSlots,          \* usable host numbers in a subnet (254 in the code)
    MaxUses,            \* largest use count of a link (100 in the code)
    MaxLinks,           \* live links per network (64 in the code)
    MaxPolicyRevision,  \* largest policy revision (2^64 - 1 in the code)
    Documents           \* policy documents a caller may submit

ASSUME StoreAssumption ==
    /\ NoDevice \notin Device
    /\ SubnetSlots \in Nat
    /\ HostSlots \in Nat
    /\ MaxUses \in Nat
    /\ MaxLinks \in Nat
    /\ MaxPolicyRevision \in Nat

-----------------------------------------------------------------------------
(* The rows.                                                               *)

Role == {"member", "administrator", "restricted"}
GatewayState == {"none", "pending", "approved"}
Password == {"none", "direct", "approval"}

\* A policy document.  A rule is the set of the devices it names, a routed
\* subnet the gateway it names; groups and subnet addresses are left out.
Policy == [managed : BOOLEAN, revision : 0..MaxPolicyRevision,
           topology : {"mesh", "hub_spoke"}, hubs : SUBSET Device,
           rules : SUBSET (SUBSET Device),
           role : [Device -> Role], gateway : [Device -> GatewayState],
           routes : SUBSET Device]

ASSUME DocumentsAssumption == Documents \subseteq Policy

VARIABLE db

NoPolicy == [managed |-> FALSE, revision |-> 0,
             topology |-> "mesh", hubs |-> {}, rules |-> {},
             role |-> [d \in Device |-> "member"],
             gateway |-> [d \in Device |-> "none"],
             routes |-> {}]

\* Subnet 0 and host 0 mean that there is no row.  links holds the uses a
\* link has left; an expired or spent link is 0, like one never issued.
Store == [devices : SUBSET Device,
          owner : [Network -> Device \cup {NoDevice}],
          members : [Network -> SUBSET Device],
          subnet : [Network -> 0..SubnetSlots],
          host : [Network -> [Device -> 0..HostSlots]],
          invited : [Network -> SUBSET Device],
          requested : [Network -> SUBSET Device],
          links : [Network -> [Link -> 0..MaxUses]],
          password : [Network -> Password],
          policy : [Network -> Policy]]

EmptyStore == [devices |-> {},
               owner |-> [n \in Network |-> NoDevice],
               members |-> [n \in Network |-> {}],
               subnet |-> [n \in Network |-> 0],
               host |-> [n \in Network |-> [d \in Device |-> 0]],
               invited |-> [n \in Network |-> {}],
               requested |-> [n \in Network |-> {}],
               links |-> [n \in Network |-> [l \in Link |-> 0]],
               password |-> [n \in Network |-> "none"],
               policy |-> [n \in Network |-> NoPolicy]]

find_network(s, n) == s.owner[n] # NoDevice

list_networks_for_device(s, d) == {n \in Network : d \in s.members[n]}

-----------------------------------------------------------------------------
(* Address allocation: the lowest number that no row holds.                *)

\* The ordered scan of insert_subnet and insert_lease; slots + 1 stands for
\* the length_error of a full pool.
LowestFree(used, slots) ==
    CHOOSE k \in 1..(slots + 1) :
        /\ k \notin used
        /\ \A j \in 1..(k - 1) : j \in used

\* Mutation of insert_subnet: the subnet after the networks', as if none was
\* ever deleted.
insert_subnet_by_count(s) == Cardinality({m \in Network : find_network(s, m)}) + 1

insert_subnet(s) == LowestFree({s.subnet[m] : m \in Network}, SubnetSlots)

insert_lease(s, n) == LowestFree({s.host[n][d] : d \in Device}, HostSlots)

-----------------------------------------------------------------------------
(* The methods.                                                            *)

record_device(s, d) == [s EXCEPT !.devices = @ \cup {d}]

CanCreateNetwork(s, n, d) ==
    /\ ~find_network(s, n)
    /\ d \in s.devices
    /\ insert_subnet(s) <= SubnetSlots
    /\ HostSlots >= 1

store_create_network(s, n, d, pw) ==
    [s EXCEPT !.owner[n] = d,
              !.subnet[n] = insert_subnet(s),
              !.members[n] = {d},
              !.host[n][d] = 1,
              !.password[n] = pw]

\* Mutation of delete_network: join requests do not cascade.
delete_network_leaves_requests(s, n) ==
    [s EXCEPT !.owner[n] = NoDevice,
              !.subnet[n] = 0,
              !.members[n] = {},
              !.host[n] = [d \in Device |-> 0],
              !.invited[n] = {},
              !.links[n] = [l \in Link |-> 0],
              !.password[n] = "none",
              !.policy[n] = NoPolicy]

\* Every row of the network goes with it (ON DELETE CASCADE).
delete_network(s, n) ==
    [devices |-> s.devices,
     owner |-> [s.owner EXCEPT ![n] = NoDevice],
     members |-> [s.members EXCEPT ![n] = {}],
     subnet |-> [s.subnet EXCEPT ![n] = 0],
     host |-> [s.host EXCEPT ![n] = [d \in Device |-> 0]],
     invited |-> [s.invited EXCEPT ![n] = {}],
     requested |-> [s.requested EXCEPT ![n] = {}],
     links |-> [s.links EXCEPT ![n] = [l \in Link |-> 0]],
     password |-> [s.password EXCEPT ![n] = "none"],
     policy |-> [s.policy EXCEPT ![n] = NoPolicy]]

\* Mutation of CanAddMember: a member is added again.
CanAddMember_again(s, n, d) ==
    /\ find_network(s, n)
    /\ d \in s.devices
    /\ insert_lease(s, n) <= HostSlots

CanAddMember(s, n, d) ==
    /\ find_network(s, n)
    /\ d \in s.devices \ s.members[n]
    /\ insert_lease(s, n) <= HostSlots

\* The trigger membership_clears_pending_access drops what was pending.
add_member(s, n, d) ==
    [s EXCEPT !.members[n] = @ \cup {d},
              !.host[n][d] = insert_lease(s, n),
              !.invited[n] = @ \ {d},
              !.requested[n] = @ \ {d}]

\* What remove_member prunes from the policy; a restriction is kept.
PrunedPolicy(p, d) ==
    [p EXCEPT !.hubs = @ \ {d},
              !.rules = {r \in @ : d \notin r},
              !.routes = @ \ {d},
              !.gateway[d] = "none",
              !.role[d] = IF @ = "restricted" THEN @ ELSE "member"]

\* Mutation of ScrubbedPolicy: the policy keeps naming a device that left.
ScrubbedPolicy_never(p, d) == p

ScrubbedPolicy(p, d) ==
    IF PrunedPolicy(p, d) = p
    THEN p
    ELSE [PrunedPolicy(p, d) EXCEPT !.revision = @ + 1]

\* A pruned policy at the last revision is an overflow_error.
CanRemoveMember(s, n, d) ==
    /\ d \in s.members[n] \ {s.owner[n]}
    /\ \/ PrunedPolicy(s.policy[n], d) = s.policy[n]
       \/ s.policy[n].revision < MaxPolicyRevision

\* The lease goes with the membership row (ON DELETE CASCADE).
remove_member(s, n, d) ==
    [s EXCEPT !.members[n] = @ \ {d},
              !.host[n][d] = 0,
              !.policy[n] = ScrubbedPolicy(@, d)]

CanAddInvitation(s, n, d) ==
    /\ find_network(s, n)
    /\ d \in s.devices \ (s.members[n] \cup s.requested[n] \cup s.invited[n])

add_invitation(s, n, d) == [s EXCEPT !.invited[n] = @ \cup {d}]

remove_invitation(s, n, d) == [s EXCEPT !.invited[n] = @ \ {d}]

CanAddJoinRequest(s, n, d) ==
    /\ find_network(s, n)
    /\ d \in s.devices \ (s.members[n] \cup s.requested[n] \cup s.invited[n])

add_join_request(s, n, d) == [s EXCEPT !.requested[n] = @ \cup {d}]

remove_join_request(s, n, d) == [s EXCEPT !.requested[n] = @ \ {d}]

\* A new link has a random secret, so no live link has its digest.
CanIssueInviteLink(s, n, l) ==
    /\ find_network(s, n)
    /\ \A m \in Network : s.links[m][l] = 0
    /\ Cardinality({k \in Link : s.links[n][k] > 0}) < MaxLinks

issue_invite_link(s, n, l, uses) == [s EXCEPT !.links[n][l] = uses]

\* The clock passes the link's expires_ms.
expire_invite_link(s, n, l) == [s EXCEPT !.links[n][l] = 0]

\* The INSERT OR IGNORE of the grant ignores a row that is already there;
\* the trigger invitation_requires_nonmember aborts it for a member.
CanRedeemInviteLink(s, n, l, d) ==
    /\ s.links[n][l] > 0
    /\ d \in s.devices \ s.members[n]

redeem_invite_link(s, n, l, d) ==
    [s EXCEPT !.requested[n] = @ \ {d},
              !.invited[n] = @ \cup {d},
              !.links[n][l] = @ - 1]

revoke_invite_links(s, n) == [s EXCEPT !.links[n] = [l \in Link |-> 0]]

set_network_password(s, n, pw) == [s EXCEPT !.password[n] = pw]

\* encode_network_policy refuses a document that is not well formed.
WellFormedPolicy(p) ==
    /\ p.managed \/ [p EXCEPT !.revision = 0] = NoPolicy
    /\ \A d \in p.routes : p.gateway[d] = "approved"

\* Compare and swap on the revision.
CanSavePolicy(s, n, p, expected) ==
    /\ find_network(s, n)
    /\ WellFormedPolicy(p)
    /\ expected < MaxPolicyRevision
    /\ s.policy[n].revision = expected

save_network_policy(s, n, p, expected) ==
    [s EXCEPT !.policy[n] = [p EXCEPT !.revision = expected + 1]]

-----------------------------------------------------------------------------
(* The store under an arbitrary caller.                                    *)

StoreInit == db = EmptyStore

RecordDevice(d) == db' = record_device(db, d)

CreateNetwork(n, d, pw) ==
    /\ CanCreateNetwork(db, n, d)
    /\ db' = store_create_network(db, n, d, pw)

DeleteNetwork(n) ==
    /\ find_network(db, n)
    /\ db' = delete_network(db, n)

AddMember(n, d) ==
    /\ CanAddMember(db, n, d)
    /\ db' = add_member(db, n, d)

RemoveMember(n, d) ==
    /\ CanRemoveMember(db, n, d)
    /\ db' = remove_member(db, n, d)

AddInvitation(n, d) ==
    /\ CanAddInvitation(db, n, d)
    /\ db' = add_invitation(db, n, d)

RemoveInvitation(n, d) == db' = remove_invitation(db, n, d)

AddJoinRequest(n, d) ==
    /\ CanAddJoinRequest(db, n, d)
    /\ db' = add_join_request(db, n, d)

RemoveJoinRequest(n, d) == db' = remove_join_request(db, n, d)

IssueInviteLink(n, l, uses) ==
    /\ CanIssueInviteLink(db, n, l)
    /\ db' = issue_invite_link(db, n, l, uses)

RedeemInviteLink(n, l, d) ==
    /\ CanRedeemInviteLink(db, n, l, d)
    /\ db' = redeem_invite_link(db, n, l, d)

RevokeInviteLinks(n) == db' = revoke_invite_links(db, n)

ExpireInviteLink(n, l) == db' = expire_invite_link(db, n, l)

SetNetworkPassword(n, pw) ==
    /\ find_network(db, n)
    /\ db' = set_network_password(db, n, pw)

SaveNetworkPolicy(n, p, expected) ==
    /\ CanSavePolicy(db, n, p, expected)
    /\ db' = save_network_policy(db, n, p, expected)

StoreNext ==
    \/ \E d \in Device : RecordDevice(d)
    \/ \E n \in Network :
        \/ DeleteNetwork(n)
        \/ RevokeInviteLinks(n)
        \/ \E pw \in Password : SetNetworkPassword(n, pw)
        \/ \E l \in Link : ExpireInviteLink(n, l)
        \/ \E l \in Link, uses \in 1..MaxUses : IssueInviteLink(n, l, uses)
        \/ \E p \in Documents, e \in 0..MaxPolicyRevision :
                SaveNetworkPolicy(n, p, e)
        \/ \E d \in Device :
            \/ \E pw \in Password : CreateNetwork(n, d, pw)
            \/ AddMember(n, d)
            \/ RemoveMember(n, d)
            \/ AddInvitation(n, d)
            \/ RemoveInvitation(n, d)
            \/ AddJoinRequest(n, d)
            \/ RemoveJoinRequest(n, d)
            \/ \E l \in Link : RedeemInviteLink(n, l, d)

StoreSpec == StoreInit /\ [][StoreNext]_db

-----------------------------------------------------------------------------
(* What every caller may rely on.                                          *)

\* Type invariant of the database.
StoreTypeOK == db \in Store

\* Rows belong to rows: an absent network has no row left in any table, and
\* an existing one has its owner as a member, a subnet, and only recorded
\* devices in its tables (foreign keys, owner trigger, cascades).
RowsBelongIn(s) ==
    \A n \in Network :
        IF find_network(s, n)
        THEN /\ s.owner[n] \in s.members[n]
             /\ s.subnet[n] # 0
             /\ s.members[n] \cup s.invited[n] \cup s.requested[n]
                    \subseteq s.devices
        ELSE /\ s.subnet[n] = 0
             /\ s.members[n] = {} /\ s.invited[n] = {} /\ s.requested[n] = {}
             /\ \A l \in Link : s.links[n][l] = 0
             /\ s.password[n] = "none"
             /\ s.policy[n] = NoPolicy

\* A device stands in at most one of the three relations to a network:
\* member, invited, waiting for approval (the four exclusion triggers).
OneStandingIn(s) ==
    \A n \in Network :
        /\ s.members[n] \cap s.invited[n] = {}
        /\ s.members[n] \cap s.requested[n] = {}
        /\ s.invited[n] \cap s.requested[n] = {}

\* What a row says of another one is true, and no two rows of a device contradict
\* each other: no order of invitations, requests, joins and deletions leaves an
\* orphaned row or a member that is still invited.
RowsBelong == RowsBelongIn(db) /\ OneStandingIn(db)

\* A device has a lease in a network exactly while it is a member, which is
\* what the constructor checks of a database before it opens it ("relay
\* virtual IPv4 assignments are incomplete").
LeaseIffMemberIn(s) ==
    \A n \in Network, d \in Device : d \in s.members[n] <=> s.host[n][d] # 0

\* No two leases share a subnet or, within a network, a host number.
UniqueAddressesIn(s) ==
    /\ \A m, n \in Network :
        s.subnet[m] # 0 /\ s.subnet[m] = s.subnet[n] => m = n
    /\ \A n \in Network : \A d, e \in Device :
        s.host[n][d] # 0 /\ s.host[n][d] = s.host[n][e] => d = e

\* Every member has a virtual IPv4 address of its own and nobody else has one: first-fit
\* never hands out a subnet or a host number that a row still holds, whatever was freed
\* and reused before, and no method adds or removes a member without its lease.
UniqueAddresses == LeaseIffMemberIn(db) /\ UniqueAddressesIn(db)

\* The conjunction, which is inductive.
StoreInvIn(s) ==
    /\ s \in Store
    /\ RowsBelongIn(s)
    /\ LeaseIffMemberIn(s)
    /\ UniqueAddressesIn(s)
    /\ OneStandingIn(s)
StoreInv == StoreInvIn(db)

\* A lease never moves: as long as a device stays a member its virtual IPv4
\* address, subnet included, is the one it was given.
LeasesStay ==
    \A n \in Network, d \in Device :
        d \in db.members[n] /\ d \in db'.members[n] /\ db'.owner[n] = db.owner[n]
            => /\ db'.host[n][d] = db.host[n][d]
               /\ db'.subnet[n] = db.subnet[n]
LeaseStable == [][LeasesStay]_db
=============================================================================
