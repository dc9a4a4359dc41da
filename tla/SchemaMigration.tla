-------------------------- MODULE SchemaMigration --------------------------
(***************************************************************************)
(* The opening of a relay's database: migrate, validate_schema and the     *)
(* checks of the constructor of RelayStore::Impl                           *)
(* (src/src/storage/relay_store.cpp).  A database of any earlier version   *)
(* is brought to the current one by a transaction per version.  The        *)
(* version is read once, before the first of them, so a process that       *)
(* starts while another migrates works from a stale one; a process can     *)
(* crash between any two transactions.                                     *)
(*                                                                         *)
(* The tables of a version are one object here, and of the rows only the   *)
(* memberships are kept, with the address migrate_to_v3 gives each: what   *)
(* the other versions add starts empty.                                    *)
(***************************************************************************)
EXTENDS Integers, FiniteSets

CONSTANTS
    Process,        \* relays that open the database
    Subscriber,     \* the devices that may be members
    Old             \* members a database may have when it is first opened

ASSUME MigrationAssumption == Old \subseteq Subscriber /\ IsFiniteSet(Subscriber)

Current == 8        \* current_schema_version
Unassigned == 0

VARIABLES
    user_version,
    objects,        \* the versions whose tables, indexes and triggers exist
    rows,           \* memberships
    address,        \* virtual_ipv4_leases
    opener          \* per process: where it is and the version it works from

mvars == <<user_version, objects, rows, address, opener>>

Closed == [at |-> "closed", version |-> 0]
Leased == {s \in Subscriber : address[s] # Unassigned}

\* The lowest address nobody has in given (insert_lease).
insert_lease_into(given) == CHOOSE i \in 1 .. Cardinality(Subscriber) :
    /\ \A s \in Subscriber : given[s] # i
    /\ \A j \in 1 .. i - 1 : \E s \in Subscriber : given[s] = j

\* A database as an earlier build left it.
MigrationInit ==
    /\ user_version \in 0 .. 3
    /\ objects = 1 .. user_version
    /\ rows \in (IF user_version = 0 THEN {{}} ELSE SUBSET Old)
    /\ \E order \in [Subscriber -> 0 .. Cardinality(Subscriber)] :
          /\ address = order
          /\ IF user_version < 3 THEN \A s \in Subscriber : order[s] = Unassigned
             ELSE /\ \A s \in Subscriber : order[s] = Unassigned <=> s \notin rows
                  /\ \A s, t \in rows : s # t => order[s] # order[t]
    /\ opener = [p \in Process |-> Closed]

Step(p, at, version) == opener' = [opener EXCEPT ![p] = [at |-> at, version |-> version]]

\* The opening fails: the constructor closes the database and throws.
refuse(p) == Step(p, "closed", 0) /\ UNCHANGED <<user_version, objects, rows, address>>

\* migrate reads the version.
migrate_begin(p) ==
    /\ opener[p].at = "closed"
    /\ Step(p, "migrate", user_version)
    /\ UNCHANGED <<user_version, objects, rows, address>>

\* validate_schema_v1 and validate_schema_v2: what version v was to create is there.
validate_schema_v(v) == 1 .. v \subseteq objects

\* What the transaction to version v needs: versions 1 and 2 are validated before they are
\* built on, and CREATE TABLE fails where the table exists.
CanCreate(v) == v \notin objects /\ (v \in {2, 3} => validate_schema_v(v - 1))

create_tables(v) == objects' = objects \cup {v} /\ user_version' = v

\* migrate_to_v1, migrate_to_v2 and the blocks for versions 4 to 8: a transaction creates
\* the tables and sets user_version.
migrate_to(p, v) ==
    /\ opener[p] = [at |-> "migrate", version |-> v - 1] /\ v # 3
    /\ IF CanCreate(v)
       THEN create_tables(v) /\ Step(p, "migrate", v) /\ UNCHANGED <<rows, address>>
       ELSE refuse(p)

\* Addresses for the members, one after the other in their order.
Assigned == CHOOSE given \in [Subscriber -> 0 .. Cardinality(Subscriber)] :
    /\ \A s \in Subscriber : given[s] = Unassigned <=> s \notin rows
    /\ {given[s] : s \in rows} = 1 .. Cardinality(rows)

\* Mutation of migrate_to_v3: CREATE TABLE IF NOT EXISTS, and the rows are replaced.
migrate_to_v3_again(p) ==
    /\ opener[p] = [at |-> "migrate", version |-> 2]
    /\ create_tables(3) /\ address' = Assigned
    /\ Step(p, "migrate", 3) /\ UNCHANGED rows

\* migrate_to_v3 creates the tables of the addresses and fills them.
migrate_to_v3(p) ==
    /\ opener[p] = [at |-> "migrate", version |-> 2]
    /\ IF CanCreate(3)
       THEN create_tables(3) /\ address' = Assigned /\ Step(p, "migrate", 3) /\ UNCHANGED rows
       ELSE refuse(p)

\* A transaction that finds the database locked for longer than the busy timeout fails.
busy(p) ==
    /\ opener[p].at = "migrate" /\ \E q \in Process \ {p} : opener[q].at # "closed"
    /\ refuse(p)

\* validate_schema and the check that every member has an address; then the store is open.
validate_schema(p) ==
    /\ opener[p] = [at |-> "migrate", version |-> Current]
    /\ IF validate_schema_v(Current) /\ rows \subseteq Leased
       THEN Step(p, "open", Current) /\ UNCHANGED <<user_version, objects, rows, address>>
       ELSE refuse(p)

\* A relay at work: add_member, with the lowest free address, and remove_member with its lease.
\* RelayStore has the rest of them, the policy that is scrubbed and the subnet that is full.
insert_member(p, s) ==
    /\ opener[p].at = "open" /\ s \notin rows
    /\ rows' = rows \cup {s}
    /\ address' = [address EXCEPT ![s] = insert_lease_into(address)]
    /\ UNCHANGED <<user_version, objects, opener>>

delete_member(p, s) ==
    /\ opener[p].at = "open" /\ s \in rows
    /\ rows' = rows \ {s}
    /\ address' = [address EXCEPT ![s] = Unassigned]
    /\ UNCHANGED <<user_version, objects, opener>>

\* A process ends, at any point: an open transaction has no effect.
crash_or_close(p) ==
    /\ opener[p].at # "closed"
    /\ refuse(p)

MigrationNext == \E p \in Process :
    \/ migrate_begin(p) \/ \E v \in 1 .. Current : migrate_to(p, v)
    \/ migrate_to_v3(p) \/ busy(p) \/ validate_schema(p) \/ crash_or_close(p)
    \/ \E s \in Subscriber : insert_member(p, s) \/ delete_member(p, s)

MigrationSpec == MigrationInit /\ [][MigrationNext]_mvars

-----------------------------------------------------------------------------
(* Properties.                                                             *)

\* The tables of a version exist exactly up to user_version, so that an opening can go on
\* from there, and every member of a database with addresses has one, of its own.
Whole ==
    /\ objects = 1 .. user_version
    /\ 3 \in objects => Leased = rows
    /\ \A s, t \in Leased : s # t => address[s] # address[t]

\* Whichever processes migrate, at whatever moment one crashes and however stale the version
\* one works from: every step leaves a whole database, and no member loses or changes its
\* address.
MigratedWhole ==
    [][Whole' /\ \A s \in Leased : s \in rows' => address'[s] = address[s]]_mvars
=============================================================================
