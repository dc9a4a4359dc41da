------------------------------ MODULE AuditLog ------------------------------
(***************************************************************************)
(* The audit log of a relay: audit_locked of                               *)
(* src/src/relay/network_service.cpp, which thins out refusals, and        *)
(* append_audit_locked and audit_events of                                 *)
(* src/src/storage/relay_store.cpp, which keep a bounded log.  Two clocks  *)
(* are read: the monotonic one for the refusals and the wall clock, which  *)
(* can be set back, for the time of an event.  Rows outlive a restart, the *)
(* table of refusals does not.                                             *)
(***************************************************************************)
EXTENDS Integers, FiniteSets, FiniteSetsExt

CONSTANTS
    Actor, Group,         \* devices, networks
    PerNetwork, Total,    \* 256 and 10000 rows are kept
    Shown,                \* 64 rows are shown
    Age,                  \* 30 days
    Spacing, Forget,      \* 1 s and 1 min: of refusals of one device
    MaxDenials,           \* 256 devices in the table of refusals
    MaxEvents, MaxUptime, MaxWall

ASSUME AuditAssumption ==
    /\ {PerNetwork, Total, Shown, Spacing, MaxDenials} \subseteq Nat \ {0}
    /\ {Age, Forget, MaxEvents, MaxUptime, MaxWall} \subseteq Nat

Never == -1

VARIABLES
    uptime, wall,       \* time_source_ and now_ms
    audit_denials,      \* audit_denials_: per device, when its last refusal was written
    sequence,           \* of the last row
    network_audit,      \* the rows
    history             \* every row ever written

avars == <<uptime, wall, audit_denials, sequence, network_audit, history>>

AuditInit ==
    /\ uptime = 0 /\ wall \in 0 .. MaxWall
    /\ audit_denials = [a \in Actor |-> Never]
    /\ sequence = 0 /\ network_audit = {} /\ history = {}

\* The k rows written last.
Latest(some, k) ==
    {e \in some : Cardinality({f \in some : f.sequence > e.sequence}) < k}

\* Mutation of append_audit_locked: the limit of a network is counted over all of them.
append_audit_locked_overall(e) ==
    LET all == network_audit \cup {e}
        own == {f \in all : f.network = e.network}
        of_network == (all \ own) \cup (own \cap Latest(all, PerNetwork))
        young == {f \in of_network : f.time >= Max({0, e.time - Age})}
    IN network_audit' = Latest(young, Total)

\* append_audit_locked: the row is inserted; then rows of its network beyond PerNetwork, rows
\* older than Age at the time of this one and rows beyond Total are deleted, in this order.
append_audit_locked(e) ==
    LET all == network_audit \cup {e}
        own == {f \in all : f.network = e.network}
        of_network == (all \ own) \cup Latest(own, PerNetwork)
        young == {f \in of_network : f.time >= Max({0, e.time - Age})}
    IN network_audit' = Latest(young, Total)

\* The refusals audit_locked still remembers.
Remembered == {a \in Actor : audit_denials[a] # Never /\ uptime - audit_denials[a] < Forget}

\* Whether a refusal of a is passed over: one was written within Spacing, or the table is full.
thinned_out(a) ==
    \/ a \in Remembered /\ uptime - audit_denials[a] < Spacing
    \/ a \notin Remembered /\ Cardinality(Remembered) >= MaxDenials

\* audit_locked, called at the end of every administrative operation.  A row that cannot be
\* written undoes nothing: the failure is counted.
audit_locked(a, n, success) ==
    /\ sequence < MaxEvents
    /\ audit_denials' = IF success THEN audit_denials
                        ELSE [d \in Actor |-> IF d = a /\ ~thinned_out(a) THEN uptime
                                              ELSE IF d \in Remembered THEN audit_denials[d] ELSE Never]
    /\ \E written \in BOOLEAN :
          LET e == [sequence |-> sequence + 1, time |-> wall, network |-> n] IN
          IF written /\ (success \/ ~thinned_out(a))
          THEN /\ append_audit_locked(e)
               /\ sequence' = e.sequence /\ history' = history \cup {e}
          ELSE UNCHANGED <<sequence, network_audit, history>>
    /\ UNCHANGED <<uptime, wall>>

\* audit_events, which manage calls with the default limit: what an owner or administrator
\* of n is shown.
audit_events(n) ==
    Latest({e \in network_audit : e.network = n /\ e.time >= Max({0, wall - Age})}, Shown)

\* Time passes, by either clock.
uptime_passes ==
    /\ uptime < MaxUptime /\ uptime' = uptime + 1
    /\ UNCHANGED <<wall, audit_denials, sequence, network_audit, history>>

wall_clock_set ==
    /\ wall' \in 0 .. MaxWall
    /\ UNCHANGED <<uptime, audit_denials, sequence, network_audit, history>>

\* The relay is started again.
relay_restart ==
    /\ audit_denials' = [a \in Actor |-> Never] /\ uptime' = 0
    /\ UNCHANGED <<wall, sequence, network_audit, history>>

AuditNext ==
    \/ uptime_passes \/ wall_clock_set \/ relay_restart
    \/ \E a \in Actor, n \in Group, success \in BOOLEAN : audit_locked(a, n, success)

AuditSpec == AuditInit /\ [][AuditNext]_avars

-----------------------------------------------------------------------------
(* Properties.                                                             *)

\* Why a row e may be gone: PerNetwork later rows of its network, Total later rows, or one
\* written when e was older than Age.
MayBeGone(e) ==
    LET later == {f \in history : f.sequence > e.sequence} IN
    \/ Cardinality({f \in later : f.network = e.network}) >= PerNetwork
    \/ Cardinality(later) >= Total
    \/ \E f \in later : f.time - Age > e.time

\* What was audited stays in the log until its network, the log or its age outgrows it,
\* whatever other networks do and however the clock is set; of what is in the log and of age
\* an owner is shown the Shown rows written last, and no row is passed over for one that is
\* too old to be shown; and no more rows are kept than the log may have.
AuditIsKept ==
    /\ \A e \in history : ~MayBeGone(e) => e \in network_audit
    /\ \A n \in Group : \A e \in history :
          LET OfAge(f) == f.network = n /\ f.time >= wall - Age
              newer == {f \in history : f.sequence > e.sequence /\ OfAge(f)}
          IN OfAge(e) /\ ~MayBeGone(e) /\ Cardinality(newer) < Shown => e \in audit_events(n)
    /\ Cardinality(network_audit) <= Total
    /\ \A n \in Group :
          /\ Cardinality({e \in network_audit : e.network = n}) <= PerNetwork
          /\ Cardinality(audit_events(n)) <= Shown
=============================================================================
