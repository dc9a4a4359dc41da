---------------------------- MODULE AccountStore ----------------------------
(***************************************************************************)
(* The account tables of the relay database                                *)
(* (src/src/storage/relay_store.cpp): accounts, the devices enrolled in    *)
(* them, and the one outstanding enrollment code of each account.  As in   *)
(* module RelayStore a method is an operator from the tables to what its   *)
(* transaction commits.                                                    *)
(***************************************************************************)
EXTENDS RelayStore

CONSTANTS
    Account,            \* account identifiers
    NoAccount,          \* stands for "no such row"
    MaxAccountDevices   \* enrolled devices per account (64 in the code)

ASSUME AccountAssumption ==
    /\ NoAccount \notin Account
    /\ MaxAccountDevices \in Nat

\* account: the account_devices row of a device; revoked: its revoked flag;
\* founder: the accounts row; code: accounts with an unexpired enrollment code.
Accounts == [account : [Device -> Account \cup {NoAccount}],
             revoked : SUBSET Device,
             founder : [Account -> Device \cup {NoDevice}],
             code : SUBSET Account]

NoAccounts == [account |-> [d \in Device |-> NoAccount],
               revoked |-> {},
               founder |-> [a \in Account |-> NoDevice],
               code |-> {}]

device_revoked(t, d) == d \in t.revoked

\* The account of an enrolled device that is not revoked.
account_for_device(t, d) ==
    IF device_revoked(t, d) THEN NoAccount ELSE t.account[d]

account_devices(t, a) == {d \in Device : t.account[d] = a}

\* A device that is still listed, revoked or not, cannot found an account.
CanCreateAccount(t, a, d) ==
    /\ t.founder[a] = NoDevice
    /\ t.account[d] = NoAccount

create_account(t, a, d) ==
    [t EXCEPT !.founder[a] = d, !.account[d] = a]

issue_enrollment(t, a) == [t EXCEPT !.code = @ \cup {a}]

\* The clock passes the code's expires_ms.
expire_enrollment(t, a) == [t EXCEPT !.code = @ \ {a}]

CanEnrollDevice(t, a, d) ==
    /\ a \in t.code
    /\ \/ t.account[d] = NoAccount
       \/ t.account[d] = a /\ d \in t.revoked
    /\ Cardinality(account_devices(t, a)) < MaxAccountDevices

enroll_device(t, a, d) ==
    [t EXCEPT !.account[d] = a, !.revoked = @ \ {d}, !.code = @ \ {a}]

\* The UPDATE matches no row of a founder.
revoke_account_device(t, a, d) ==
    IF t.account[d] = a /\ \A b \in Account : t.founder[b] # d
    THEN [t EXCEPT !.revoked = @ \cup {d}]
    ELSE t
=============================================================================
