--------------------------- MODULE NetworkService ---------------------------
(***************************************************************************)
(* The relay's network service (src/src/relay/network_service.cpp) and the *)
(* part of the control channel that admits requests to it                  *)
(* (src/src/relay/network_control_channel.cpp).                            *)
(*                                                                         *)
(* The service keeps the database of RelayStore and AccountStore, which    *)
(* survives a crash, and per-network key epochs and peer-state revisions,  *)
(* the key of each connected device, and the devices that negotiated       *)
(* managed networks, which do not.  Each handler runs under the service's  *)
(* mutex and is one action.  What happens outside that mutex is a step of  *)
(* its own: the control channel checks that a device is not revoked before *)
(* the handler takes the mutex (admit), and a handler that commits several *)
(* transactions can be cut short by a crash between two of them.           *)
(***************************************************************************)
EXTENDS AccountStore

CONSTANTS
    MaxNetworks,        \* networks a device may be in (1024 in the code)
    MaxGateways,        \* gateways of a policy (16 in the code)
    MaxCounter,         \* bound on key epochs and revisions
    MaxSessions         \* bound on the sessions the relay ever accepts

ASSUME ServiceAssumption ==
    /\ MaxNetworks \in Nat
    /\ MaxGateways \in Nat
    /\ MaxCounter \in Nat
    /\ MaxSessions \in Nat

VARIABLES
    acct,       \* the account tables
    epoch,      \* key_epochs_; 0 where the map has no entry
    revision,   \* revisions_
    active,     \* active_keys_: the session whose key is published, or 0
    capable,    \* management_capable_
    admitted,   \* devices with a request past the channel's revocation check
    greeting,   \* the session a device is authenticating, or 0
    minted      \* sessions accepted so far; session identifiers are fresh

memory == <<epoch, revision, active, capable, admitted, greeting>>
svars == <<db, acct, epoch, revision, active, capable, admitted, greeting, minted>>

ServiceInit ==
    /\ StoreInit
    /\ acct = NoAccounts
    /\ epoch = [n \in Network |-> 0]
    /\ revision = [n \in Network |-> 0]
    /\ active = [d \in Device |-> 0]
    /\ capable = {}
    /\ admitted = {}
    /\ greeting = [d \in Device |-> 0]
    /\ minted = 0

-----------------------------------------------------------------------------
(* Helpers.                                                                *)

device_allowed(d) == ~device_revoked(acct, d)

\* The epoch peers see: 1 for a network whose epoch never advanced.
key_epoch_for(n) == IF epoch[n] = 0 THEN 1 ELSE epoch[n]

advance_key_epoch(ns) ==
    /\ \A n \in ns : epoch[n] < MaxCounter
    /\ epoch' = [n \in Network |-> IF n \in ns THEN epoch[n] + 1 ELSE epoch[n]]

advance_revision(ns) ==
    /\ \A n \in ns : revision[n] < MaxCounter
    /\ revision' = [n \in Network |->
                        IF n \in ns THEN revision[n] + 1 ELSE revision[n]]

network_limit_reached(d) ==
    Cardinality(list_networks_for_device(db, d)) >= MaxNetworks

\* The owner, or a capable administrator of a managed network.
can_manage_network(n, d) ==
    /\ find_network(db, n)
    /\ device_allowed(d)
    /\ \/ db.owner[n] = d
       \/ /\ db.policy[n].managed
          /\ d \in capable
          /\ db.host[n][d] # 0
          /\ db.policy[n].role[d] = "administrator"

OwnedBy(d) == {n \in Network : db.owner[n] = d}
ManagedNetworksOf(d) == {n \in list_networks_for_device(db, d) : db.policy[n].managed}

-----------------------------------------------------------------------------
(* Sessions.                                                               *)

\* note_authenticated, first critical section: set_management_capable(actor,
\* false), whose peer changes the channel discards.
note_authenticated(d) ==
    /\ greeting[d] = 0
    /\ minted < MaxSessions
    /\ minted' = minted + 1
    /\ greeting' = [greeting EXCEPT ![d] = minted + 1]
    /\ capable' = capable \ {d}
    /\ advance_revision(ManagedNetworksOf(d))
    /\ UNCHANGED <<db, acct, epoch, active, admitted>>

\* Mutation of publish_device_key: the revocation check is dropped, as if the
\* check at the start of the handshake were enough.
publish_device_key_unchecked(d) ==
    /\ greeting[d] # 0
    /\ db' = record_device(db, d)
    /\ active' = [active EXCEPT ![d] = greeting[d]]
    /\ greeting' = [greeting EXCEPT ![d] = 0]
    /\ advance_key_epoch(OwnedBy(d))
    /\ advance_revision(list_networks_for_device(db, d))
    /\ UNCHANGED <<acct, capable, admitted, minted>>

\* note_authenticated, second critical section.
publish_device_key(d) ==
    /\ greeting[d] # 0
    /\ device_allowed(d)
    /\ db' = record_device(db, d)
    /\ active' = [active EXCEPT ![d] = greeting[d]]
    /\ greeting' = [greeting EXCEPT ![d] = 0]
    /\ advance_key_epoch(OwnedBy(d))
    /\ advance_revision(list_networks_for_device(db, d))
    /\ UNCHANGED <<acct, capable, admitted, minted>>

\* The same for a revoked device: "device enrollment revoked" is thrown.
publish_refused(d) ==
    /\ greeting[d] # 0
    /\ ~device_allowed(d)
    /\ greeting' = [greeting EXCEPT ![d] = 0]
    /\ db' = record_device(db, d)
    /\ UNCHANGED <<acct, epoch, revision, active, capable, admitted, minted>>

\* Mutation of remove_device_key: the owner's departure keeps the epoch.
remove_device_key_same_epoch(d, s) ==
    /\ active[d] = s
    /\ active' = [active EXCEPT ![d] = 0]
    /\ capable' = capable \ {d}
    /\ advance_revision(list_networks_for_device(db, d))
    /\ UNCHANGED <<db, acct, epoch, admitted, greeting, minted>>

\* note_disconnected for session s: nothing unless s is the published one.
remove_device_key(d, s) ==
    /\ active[d] = s
    /\ active' = [active EXCEPT ![d] = 0]
    /\ capable' = capable \ {d}
    /\ advance_key_epoch(OwnedBy(d))
    /\ advance_revision(list_networks_for_device(db, d))
    /\ UNCHANGED <<db, acct, admitted, greeting, minted>>

\* handle_authenticated up to the call of a handler.
admit(d) ==
    /\ active[d] # 0
    /\ device_allowed(d)
    /\ d \notin admitted
    /\ admitted' = admitted \cup {d}
    /\ UNCHANGED <<db, acct, epoch, revision, active, capable, greeting, minted>>

\* A handler serves the admitted request of d.
serves(d) == d \in admitted /\ admitted' = admitted \ {d}

\* Capability negotiation selects managed networks.
set_management_capable(d) ==
    /\ serves(d)
    /\ capable' = capable \cup {d}
    /\ advance_revision(ManagedNetworksOf(d))
    /\ UNCHANGED <<db, acct, epoch, active, greeting, minted>>

-----------------------------------------------------------------------------
(* Membership.                                                             *)

\* What a handler that changed the members or the policy of ns does next.
republish(ns) == advance_key_epoch(ns) /\ advance_revision(ns)

create_network(d, n, pw) ==
    /\ serves(d)
    /\ pw # "none" => device_allowed(d)     \* network_create_protected
    /\ ~network_limit_reached(d)
    /\ CanCreateNetwork(db, n, d)
    /\ db' = store_create_network(db, n, d, pw)
    /\ republish({n})
    /\ UNCHANGED <<acct, active, capable, greeting, minted>>

\* join_network_locked, by its outcome: the actor becomes a member ...
JoinsDirectly(s, n, d, verified) ==
    /\ CanAddMember(s, n, d)
    /\ ~network_limit_reached(d)
    /\ \/ d \in s.invited[n]
       \/ verified /\ s.password[n] = "direct"

\* ... or waits for approval.
AsksToJoin(s, n, d, verified) ==
    /\ CanAddJoinRequest(s, n, d)
    /\ ~network_limit_reached(d)
    /\ s.password[n] = "none" \/ (verified /\ s.password[n] = "approval")

join_network_locked(d, n, verified) ==
    \/ /\ JoinsDirectly(db, n, d, verified)
       /\ db' = add_member(db, n, d)
       /\ republish({n})
    \/ /\ AsksToJoin(db, n, d, verified)
       /\ db' = add_join_request(db, n, d)
       /\ UNCHANGED <<epoch, revision>>

join_network(d, n) ==
    /\ serves(d)
    /\ join_network_locked(d, n, FALSE)
    /\ UNCHANGED <<acct, active, capable, greeting, minted>>

\* The right password was given.
password_join(d, n) ==
    /\ serves(d)
    /\ device_allowed(d)
    /\ db.password[n] # "none"
    /\ join_network_locked(d, n, TRUE)
    /\ UNCHANGED <<acct, active, capable, greeting, minted>>

\* Mutation of CanRedeem: a full network is found out after the link is spent.
CanRedeem_full(d, n, l) ==
    /\ device_allowed(d)
    /\ ~network_limit_reached(d)
    /\ CanRedeemInviteLink(db, n, l, d)

\* access_request(invite_redeem): one transaction redeems the link, the next
\* one joins with the invitation it bought.
CanRedeem(d, n, l) ==
    /\ device_allowed(d)
    /\ ~network_limit_reached(d)
    /\ Cardinality(db.members[n]) < HostSlots
    /\ CanRedeemInviteLink(db, n, l, d)

redeem_invite(d, n, l) ==
    LET redeemed == redeem_invite_link(db, n, l, d) IN
    /\ serves(d)
    /\ CanRedeem(d, n, l)
    /\ IF JoinsDirectly(redeemed, n, d, FALSE)
       THEN db' = add_member(redeemed, n, d) /\ republish({n})
       ELSE db' = redeemed /\ UNCHANGED <<epoch, revision>>
    /\ UNCHANGED <<acct, active, capable, greeting, minted>>

leave_network(d, n) ==
    /\ serves(d)
    /\ CanRemoveMember(db, n, d)
    /\ db' = remove_member(db, n, d)
    /\ republish({n})
    /\ UNCHANGED <<acct, active, capable, greeting, minted>>

invite_member(d, n, t) ==
    /\ serves(d)
    /\ can_manage_network(n, d)
    /\ ~network_limit_reached(t)
    /\ CanAddInvitation(db, n, t)
    /\ db' = add_invitation(db, n, t)
    /\ UNCHANGED <<acct, epoch, revision, active, capable, greeting, minted>>

approve_member(d, n, t) ==
    /\ serves(d)
    /\ can_manage_network(n, d)
    /\ t \in db.requested[n]
    /\ ~network_limit_reached(t)
    /\ CanAddMember(db, n, t)
    /\ db' = add_member(db, n, t)
    /\ republish({n})
    /\ UNCHANGED <<acct, active, capable, greeting, minted>>

\* Only the owner removes an administrator.
kick_member(d, n, t) ==
    /\ serves(d)
    /\ can_manage_network(n, d)
    /\ d # db.owner[n] => db.policy[n].role[t] # "administrator"
    /\ CanRemoveMember(db, n, t)
    /\ db' = remove_member(db, n, t)
    /\ republish({n})
    /\ UNCHANGED <<acct, active, capable, greeting, minted>>

-----------------------------------------------------------------------------
(* Access: links and passwords.                                            *)

issue_invite(d, n, l, uses) ==
    /\ serves(d)
    /\ can_manage_network(n, d)
    /\ CanIssueInviteLink(db, n, l)
    /\ db' = issue_invite_link(db, n, l, uses)
    /\ UNCHANGED <<acct, epoch, revision, active, capable, greeting, minted>>

revoke_invites(d, n) ==
    /\ serves(d)
    /\ can_manage_network(n, d)
    /\ db' = revoke_invite_links(db, n)
    /\ UNCHANGED <<acct, epoch, revision, active, capable, greeting, minted>>

invite_expires(n, l) ==
    /\ db.links[n][l] > 0
    /\ db' = expire_invite_link(db, n, l)
    /\ UNCHANGED <<acct, memory, minted>>

set_password(d, n, pw) ==
    /\ serves(d)
    /\ can_manage_network(n, d)
    /\ db' = set_network_password(db, n, pw)
    /\ UNCHANGED <<acct, epoch, revision, active, capable, greeting, minted>>

-----------------------------------------------------------------------------
(* Policies: manage_network.                                               *)

\* The checks on the document that the two changing actions share.  request
\* tells a gateway request from a replacement.
AcceptablePolicy(d, n, p, request) ==
    LET old == db.policy[n]
        member(x) == db.host[n][x] # 0
    IN  /\ p.topology = "hub_spoke" => p.hubs # {}
        /\ request \/ \A x \in p.hubs \cup UNION p.rules : member(x)
        /\ \A x \in Device : p.gateway[x] # "none" =>
            /\ member(x)
            /\ p.role[x] # "restricted"
            /\ \/ old.gateway[x] # "none"
               \/ request /\ x = d /\ p.gateway[x] = "pending"
        /\ \A x \in Device : p.role[x] # "member" =>
            /\ member(x) \/ (p.role[x] = "restricted" /\ x \in db.devices)
            /\ x # db.owner[n]
        /\ d # db.owner[n] /\ ~request => p.managed /\ p.role = old.role
        /\ \A x \in p.routes : member(x)

\* base is the revision the caller read the policy at.
save_policy(d, n, p, base, request) ==
    /\ AcceptablePolicy(d, n, p, request)
    /\ CanSavePolicy(db, n, p, base)
    /\ db' = save_network_policy(db, n, p, base)
    /\ republish({n})
    /\ UNCHANGED <<acct, active, capable, greeting, minted>>

CanSubmitPolicy(d, n) ==
    /\ find_network(db, n)
    /\ device_allowed(d)
    /\ db.host[n][d] # 0
    /\ d \in capable

replace_policy(d, n, p, base) ==
    /\ serves(d)
    /\ CanSubmitPolicy(d, n)
    /\ can_manage_network(n, d)
    /\ save_policy(d, n, p, base, FALSE)

request_gateway(d, n, base) ==
    LET old == db.policy[n] IN
    /\ serves(d)
    /\ CanSubmitPolicy(d, n)
    /\ old.managed
    /\ old.role[d] # "restricted"
    /\ old.gateway[d] = "none"
    /\ Cardinality({x \in Device : old.gateway[x] # "none"}) < MaxGateways
    /\ save_policy(d, n, [old EXCEPT !.gateway[d] = "pending"], base, TRUE)

-----------------------------------------------------------------------------
(* Accounts: the remaining actions of access_request.                      *)

account_create(d, a) ==
    /\ serves(d)
    /\ device_allowed(d)
    /\ CanCreateAccount(acct, a, d)
    /\ acct' = create_account(acct, a, d)
    /\ UNCHANGED <<db, epoch, revision, active, capable, greeting, minted>>

enrollment_issue(d, a) ==
    /\ serves(d)
    /\ account_for_device(acct, d) = a
    /\ acct.founder[a] = d
    /\ acct' = issue_enrollment(acct, a)
    /\ UNCHANGED <<db, epoch, revision, active, capable, greeting, minted>>

enrollment_expires(a) ==
    /\ a \in acct.code
    /\ acct' = expire_enrollment(acct, a)
    /\ UNCHANGED <<db, memory, minted>>

device_enroll(d, a) ==
    /\ serves(d)
    /\ device_allowed(d)
    /\ CanEnrollDevice(acct, a, d)
    /\ acct' = enroll_device(acct, a, d)
    /\ UNCHANGED <<db, epoch, revision, active, capable, greeting, minted>>

CanRevokeDevice(d, t) ==
    LET a == account_for_device(acct, d) IN
    /\ a # NoAccount
    /\ acct.founder[a] = d
    /\ account_for_device(acct, t) = a
    /\ t # d
    /\ OwnedBy(t) = {}

\* remove_member of t for every network of ns, one transaction each.
RemovedFrom(ns, t) ==
    [db EXCEPT
        !.members = [n \in Network |-> IF n \in ns THEN @[n] \ {t} ELSE @[n]],
        !.host = [n \in Network |-> IF n \in ns THEN [@[n] EXCEPT ![t] = 0] ELSE @[n]],
        !.policy = [n \in Network |-> IF n \in ns THEN ScrubbedPolicy(@[n], t) ELSE @[n]]]

device_revoke(d, t) ==
    LET ns == list_networks_for_device(db, t) IN
    /\ serves(d)
    /\ CanRevokeDevice(d, t)
    /\ \A n \in ns : CanRemoveMember(db, n, t)
    /\ acct' = revoke_account_device(acct, acct.account[d], t)
    /\ db' = RemovedFrom(ns, t)
    /\ republish(ns)
    /\ active' = [active EXCEPT ![t] = 0]
    /\ UNCHANGED <<capable, greeting, minted>>

-----------------------------------------------------------------------------
(* Crashes.                                                                *)

\* What the relay process keeps in memory after it starts again.
forget ==
    /\ epoch' = [n \in Network |-> 0]
    /\ revision' = [n \in Network |-> 0]
    /\ active' = [d \in Device |-> 0]
    /\ capable' = {}
    /\ admitted' = {}
    /\ greeting' = [d \in Device |-> 0]
    /\ UNCHANGED minted

restart == forget /\ UNCHANGED <<db, acct>>

\* The relay dies after device_revoke committed the revocation and the
\* removals from the networks of done.
crash_in_revoke(d, t, done) ==
    /\ d \in admitted
    /\ CanRevokeDevice(d, t)
    /\ done \subseteq list_networks_for_device(db, t)
    /\ \A n \in done : CanRemoveMember(db, n, t)
    /\ acct' = revoke_account_device(acct, acct.account[d], t)
    /\ db' = RemovedFrom(done, t)
    /\ forget

\* The relay dies between redeeming a link and joining.
crash_in_redeem(d, n, l) ==
    /\ d \in admitted
    /\ CanRedeem(d, n, l)
    /\ db' = redeem_invite_link(db, n, l, d)
    /\ UNCHANGED acct
    /\ forget

-----------------------------------------------------------------------------
SessionStep(d) ==
    \/ note_authenticated(d)
    \/ publish_device_key(d)
    \/ publish_refused(d)
    \/ \E s \in 1..minted : remove_device_key(d, s)
    \/ admit(d)
    \/ set_management_capable(d)

MembershipStep(d, n) ==
    \/ create_network(d, n, "none")
    \/ join_network(d, n)
    \/ leave_network(d, n)
    \/ \E t \in Device : invite_member(d, n, t)
    \/ \E t \in Device : approve_member(d, n, t)
    \/ \E t \in Device : kick_member(d, n, t)

AccessStep(d, n) ==
    \/ \E pw \in Password \ {"none"} : create_network(d, n, pw)
    \/ password_join(d, n)
    \/ \E pw \in Password : set_password(d, n, pw)
    \/ \E l \in Link : redeem_invite(d, n, l)
    \/ \E l \in Link : crash_in_redeem(d, n, l)
    \/ \E l \in Link, uses \in 1..MaxUses : issue_invite(d, n, l, uses)
    \/ revoke_invites(d, n)

PolicyStep(d, n) ==
    \/ \E base \in 0..MaxPolicyRevision : request_gateway(d, n, base)
    \/ \E p \in Documents, base \in 0..MaxPolicyRevision :
            replace_policy(d, n, p, base)

AccountStep(d) ==
    \/ \E a \in Account : account_create(d, a)
    \/ \E a \in Account : enrollment_issue(d, a)
    \/ \E a \in Account : device_enroll(d, a)
    \/ \E t \in Device : device_revoke(d, t)
    \/ \E t \in Device, done \in SUBSET Network : crash_in_revoke(d, t, done)

Expiry ==
    \/ \E n \in Network, l \in Link : invite_expires(n, l)
    \/ \E a \in Account : enrollment_expires(a)

ServiceNext ==
    \/ \E d \in Device : SessionStep(d)
    \/ \E d \in Device, n \in Network : MembershipStep(d, n)
    \/ \E d \in Device, n \in Network : AccessStep(d, n)
    \/ \E d \in Device, n \in Network : PolicyStep(d, n)
    \/ \E d \in Device : AccountStep(d)
    \/ Expiry
    \/ restart

ServiceSpec == ServiceInit /\ [][ServiceNext]_svars

-----------------------------------------------------------------------------
(* What the service promises.                                              *)

\* A stored policy grants nothing to a device that is not a member, through
\* every order of policy updates, departures and revocations: its hubs, rules,
\* gateways, routes and administrators are members, so that a device that
\* comes back later finds no privilege waiting for it.  Routes go through
\* approved gateways, no gateway is restricted, and the owner keeps the plain
\* role, which can_manage_network relies on.
PolicyNamesMembers ==
    \A n \in Network : find_network(db, n) =>
        LET p == db.policy[n]
            gateways == {d \in Device : p.gateway[d] # "none"}
            administrators == {d \in Device : p.role[d] = "administrator"}
        IN  /\ p.hubs \cup (UNION p.rules) \cup p.routes \cup gateways
                    \cup administrators \subseteq db.members[n]
            /\ \A d \in p.routes : p.gateway[d] = "approved"
            /\ \A d \in gateways : p.role[d] # "restricted"
            /\ p.role[db.owner[n]] = "member"

\* The step serves the request of d (and is not a crash).
Served(d) == d \in admitted /\ admitted' = admitted \ {d}

\* A revoked device has no published key: neither its own handshake, caught
\* between its two critical sections by the revocation, nor a late one can
\* put the key back.
RevokedHasNoKey == \A d \in acct.revoked : active[d] = 0

\* A use of a link, the last one included, is lost in three ways.  A redemption
\* takes one use of one link and makes its bearer a member at once; only a
\* crash between the two transactions leaves it with the invitation instead.
\* A manager of the network revokes all its links.  Or the link expires, which
\* no request does.  The two checks before redeem_invite_link are what keeps a
\* use from being lost to a full network or a device at its limit.
UseIsAccountedFor(n, l) ==
    db'.links[n][l] < db.links[n][l] =>
        \/ /\ db'.links = [db.links EXCEPT ![n][l] = @ - 1]
           /\ \E d \in admitted :
                \/ Served(d) /\ d \in db'.members[n] \ db.members[n]
                \/ forget /\ d \in db'.invited[n] \ db.members[n]
        \/ /\ \E d \in admitted : Served(d) /\ can_manage_network(n, d)
           /\ db'.links[n] = [k \in Link |-> 0]
        \/ admitted' = admitted /\ db'.links[n][l] = 0

RedemptionJoins == [][\A n \in Network, l \in Link : UseIsAccountedFor(n, l)]_svars

\* While the owner is connected, a change of the members, of the policy or of
\* the owner's session moves the key epoch its peers see, so the key that was
\* current before is not current after.  The default epoch 1 of a network
\* without an entry never hides an advance from a connected owner.
OnlineOwnerMovesEpoch ==
    [][\A n \in Network :
            LET o == db.owner[n] IN
            /\ find_network(db, n) /\ active[o] # 0
            /\ \/ db'.members[n] # db.members[n]
               \/ db'.policy[n] # db.policy[n]
               \/ active'[o] # active[o]
            => key_epoch_for(n)' > key_epoch_for(n) \/ forget]_svars

-----------------------------------------------------------------------------
(* What the documentation says and the code does not do.                   *)

\* docs/user-accounts.md: "Revocation persists, removes the device's
\* memberships".  Read: a revoked device is a member of no network.
RevokedIsNoMember ==
    \A n \in Network : db.members[n] \cap acct.revoked = {}
=============================================================================
