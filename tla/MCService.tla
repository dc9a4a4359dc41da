----------------------------- MODULE MCService -----------------------------
(***************************************************************************)
(* Instances of the database and of the network service.  The product of   *)
(* everything the service does is out of reach, so a behaviour is given    *)
(* one slice of it at the start: one family of requests with the sessions, *)
(* memberships and restarts that interact with it.  Two slices call the    *)
(* methods of the database directly, in any order.                         *)
(***************************************************************************)
EXTENDS NetworkService, TLC

CONSTANTS d1, d2, d3, n1, n2, l1, l2, a1, Slices

VARIABLE slice

-----------------------------------------------------------------------------
(* Policies.                                                               *)

\* The documents promote a device, restrict it, or admit it as a gateway with
\* or without a route; some make it the hub, some name it in a rule.
Doc(d, role, gateway) ==
    [NoPolicy EXCEPT !.managed = TRUE, !.role[d] = role, !.gateway[d] = gateway]
HubDoc(d, role, gateway) ==
    [Doc(d, role, gateway) EXCEPT !.topology = "hub_spoke", !.hubs = {d}]

MCDocuments ==
    {HubDoc(d, r, g) : d \in Device, r \in {"administrator", "restricted"},
                       g \in {"none", "pending"}}
    \cup {[Doc(d, r, "approved") EXCEPT !.routes = {d}, !.rules = {{d}}] :
            d \in Device, r \in Role}

\* One document: some device is an administrator.  The store reads nothing of
\* a document but its revision and the devices it names.
OneDocument == {Doc(d, "administrator", "none") : d \in Device}

-----------------------------------------------------------------------------
(* The slices.                                                             *)

\* The database alone: two networks without links and policies, or one
\* network with them.
AddressesNext ==
    /\ StoreNext
    /\ \A n \in Network : db'.policy[n] = NoPolicy /\ \A l \in Link : db'.links[n][l] = 0

RowsNext ==
    /\ StoreNext
    /\ \A n \in Network \ {n1} : ~find_network(db', n)

Roaming == \E d \in Device : SessionStep(d) \/ MembershipStep(d, n1)

PolicyNext == Roaming \/ restart \/ \E d \in Device : PolicyStep(d, n1)

\* The same for two devices, with counters that run out.
EpochNext == PolicyNext /\ Cardinality(db'.devices) <= 2

\* Two members are enough for accounts and links.
FewMembers == \A n \in Network : Cardinality(db'.members[n]) <= 2

AccountNext ==
    \/ Roaming \/ restart
    \/ \E d \in Device : AccountStep(d)
    \/ \E a \in Account : enrollment_expires(a)

AccessNext ==
    \/ Roaming \/ restart
    \/ \E d \in Device : AccessStep(d, n1)
    \/ \E l \in Link : invite_expires(n1, l)

SliceInit == ServiceInit /\ slice \in Slices

SliceNext ==
    /\ UNCHANGED slice
    /\ \/ slice = "addresses" /\ AddressesNext /\ UNCHANGED <<acct, memory, minted>>
       \/ slice = "rows" /\ RowsNext /\ UNCHANGED <<acct, memory, minted>>
       \/ slice = "policy" /\ PolicyNext
       \/ slice = "epoch" /\ EpochNext
       \/ slice = "account" /\ AccountNext /\ capable' = {}
       \/ slice = "access" /\ AccessNext /\ FewMembers /\ capable' = {}

SliceSpec == SliceInit /\ [][SliceNext]_<<svars, slice>>

\* The counters do not guard a step before they reach MaxCounter, which is
\* out of reach in the runs that use this view, and their properties do not
\* read them.
WithoutCounters == <<slice, db, acct, active, capable, admitted, greeting, minted>>

DeviceSymmetry == Permutations(Device)
=============================================================================
