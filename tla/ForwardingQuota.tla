--------------------------- MODULE ForwardingQuota ---------------------------
(***************************************************************************)
(* The token buckets of the relay, src/src/relay/forwarding_quota.cpp:     *)
(* every packet is charged to its device, to its network and to the        *)
(* authority, every control request to its device.                         *)
(*                                                                         *)
(* Time is counted in ticks.  The callers read the clock before they have  *)
(* the mutex, so a call may come with a time that is up to Skew ticks old, *)
(* and older than that of a call before it.  The code counts tokens in     *)
(* floating point; here a rate is a number of tokens per tick.             *)
(***************************************************************************)
EXTENDS Integers, FiniteSets

CONSTANTS
    Device, Network,
    Authority,      \* the key of aggregate_
    Rate,           \* limits_: tokens per tick, by key and resource
    Burst,          \* burst: a full bucket holds this many ticks of tokens
    Expire,         \* a bucket unused for longer is forgotten: 5 minutes
    PruneEvery,     \* ticks between two prunings: 30 seconds
    MaxEntries,     \* the bound of devices_ and of networks_: 4096
    MaxRecipients,  \* the bound of a fan-out: 4096
    MaxBytes,       \* the largest 64-bit number
    Skew,           \* bound on the age of the time of a call
    Sizes,          \* the sizes of packets
    MaxClock        \* bound on the clock

Key == Device \cup Network \cup {Authority}
Resource == {"bytes", "deliveries", "controls"}

ASSUME QuotaAssumption ==
    /\ Authority \notin Device \cup Network
    /\ Device \cap Network = {}
    /\ IsFiniteSet(Device) /\ IsFiniteSet(Network)
    /\ Rate \in [Key -> [Resource -> Nat]]
    /\ Burst \in Nat /\ Expire \in Nat /\ Burst <= Expire
    /\ PruneEvery \in Nat
    /\ MaxEntries \in Nat /\ MaxRecipients \in Nat /\ MaxBytes \in Nat
    /\ Skew \in Nat /\ Skew <= Expire - Burst
    /\ Sizes \subseteq Nat
    /\ MaxClock \in Nat

VARIABLES
    clock,
    present,        \* the keys of devices_ and networks_; Authority once initialized
    bucket,         \* the buckets of the keys in present
    next_prune,     \* next_prune_
    granted,        \* whether the last call admitted
    debt            \* history: what was admitted and time has not paid for yet

qvars == <<clock, present, bucket, next_prune, granted, debt>>

-----------------------------------------------------------------------------
Full(k) == [r \in Resource |-> Burst * Rate[k][r]]
NoBucket(k) == [updated |-> 0, level |-> Full(k)]

\* A bucket that is known already, at the time now.
refill(k, b, now) ==
    IF now <= b.updated THEN b
    ELSE [updated |-> now,
          level |-> [r \in Resource |->
                       LET sum == b.level[r] + (now - b.updated) * Rate[k][r]
                       IN  IF sum > Full(k)[r] THEN Full(k)[r] ELSE sum]]

\* Mutation of expired: a bucket is forgotten before it can be full again.
expired_early(k, now) == now > bucket[k].updated

\* The bucket of k was not used for so long that it is full again.
expired(k, now) == now > bucket[k].updated /\ now - bucket[k].updated > Expire

\* The keys that prune leaves.
prune(now) ==
    IF now < next_prune THEN present
    ELSE {k \in present : k = Authority \/ ~expired(k, now)}

\* The bucket of k in a call at the time now, when prune has left kept.
Current(kept, k, now) ==
    IF k \in kept THEN refill(k, bucket[k], now) ELSE [updated |-> now, level |-> Full(k)]

Affords(b, cost) == \A r \in Resource : cost[r] <= b.level[r]

\* Mutation of charged: each bucket that can afford it is charged.
charged_alone(b, cost, all) ==
    IF Affords(b, cost) THEN [b EXCEPT !.level = [r \in Resource |-> @[r] - cost[r]]] ELSE b

\* A bucket is charged if all of them afford it.
charged(b, cost, all) ==
    IF all THEN [b EXCEPT !.level = [r \in Resource |-> @[r] - cost[r]]] ELSE b

\* A call that got this far, when prune has left kept, creates or refills the
\* buckets of keys, and charges all of them or none.
charge(kept, keys, cost, now) ==
    \E current \in {[k \in keys |-> Current(kept, k, now)]} :
    \E all \in {\A k \in keys : Affords(current[k], cost)} :
        /\ present' = kept \cup keys
        /\ bucket' = [k \in Key |-> IF k \in keys THEN charged(current[k], cost, all)
                                    ELSE IF k \in kept THEN bucket[k] ELSE NoBucket(k)]
        /\ granted' = all
        /\ debt' = [k \in Key |-> [r \in Resource |->
                      IF all /\ k \in keys THEN debt[k][r] + cost[r] ELSE debt[k][r]]]

\* A call that is refused before it looks at a bucket.
refuse(kept) ==
    /\ present' = kept
    /\ bucket' = [k \in Key |-> IF k \in kept THEN bucket[k] ELSE NoBucket(k)]
    /\ granted' = FALSE
    /\ debt' = debt

HasRoom(k, entries) == k \in entries \/ Cardinality(entries) < MaxEntries

Pruned(now) == next_prune' = IF now < next_prune THEN next_prune ELSE now + PruneEvery

\* The times that calls may come with.
Now == {t \in 0..clock : clock - t <= Skew}

-----------------------------------------------------------------------------
QuotaInit ==
    /\ clock = 0
    /\ present = {}
    /\ bucket = [k \in Key |-> NoBucket(k)]
    /\ next_prune = 0
    /\ granted = FALSE
    /\ debt = [k \in Key |-> [r \in Resource |-> 0]]

\* What a packet costs, and what a control request costs.
PacketCost(size, recipients) ==
    [r \in Resource |-> CASE r = "bytes" -> size * recipients
                          [] r = "deliveries" -> recipients
                          [] r = "controls" -> 0]
ControlCost == [r \in Resource |-> IF r = "controls" THEN 1 ELSE 0]

\* A packet of size bytes for recipients devices.
admit(d, n, size, recipients, now) ==
    /\ \E kept \in {prune(now)} :
          IF /\ size # 0
             /\ recipients # 0 /\ recipients <= MaxRecipients
             /\ size * recipients <= MaxBytes
             /\ HasRoom(d, kept \cap Device)
             /\ HasRoom(n, kept \cap Network)
          THEN charge(kept, {d, n, Authority}, PacketCost(size, recipients), now)
          ELSE refuse(kept)
    /\ Pruned(now)
    /\ UNCHANGED clock

\* A control request.
control(d, now) ==
    /\ \E kept \in {prune(now)} :
          IF HasRoom(d, kept \cap Device) THEN charge(kept, {d}, ControlCost, now)
          ELSE refuse(kept)
    /\ Pruned(now)
    /\ UNCHANGED clock

\* Time passes and pays for what was admitted.
tick ==
    /\ clock < MaxClock
    /\ clock' = clock + 1
    /\ debt' = [k \in Key |-> [r \in Resource |->
                  IF debt[k][r] > Rate[k][r] THEN debt[k][r] - Rate[k][r] ELSE 0]]
    /\ UNCHANGED <<present, bucket, next_prune, granted>>

QuotaNext ==
    \/ \E d \in Device, n \in Network, size \in Sizes, recipients \in 0..(MaxRecipients + 1), now \in Now :
           admit(d, n, size, recipients, now)
    \/ \E d \in Device, now \in Now : control(d, now)
    \/ tick

QuotaSpec == QuotaInit /\ [][QuotaNext]_qvars

-----------------------------------------------------------------------------
(* Properties.                                                             *)

\* Types: a bucket holds no less than nothing and no more than a burst, and
\* neither map grows past its bound.
QuotaTypeOK ==
    /\ clock \in 0..MaxClock
    /\ present \subseteq Key
    /\ bucket \in [Key -> [updated : Nat, level : [Resource -> Nat]]]
    /\ \A k \in Key, r \in Resource : bucket[k].level[r] <= Full(k)[r]
    /\ next_prune \in Nat
    /\ granted \in BOOLEAN
    /\ debt \in [Key -> [Resource -> Nat]]
    /\ Cardinality(present \cap Device) <= MaxEntries
    /\ Cardinality(present \cap Network) <= MaxEntries

\* In every period, what is admitted for a device, a network or the authority
\* is at most a burst more than the rate allows for that period and the age of
\* a clock reading: forgetting buckets and calls out of order give nobody a
\* second burst.  debt is the fill of a meter that drains at the rate.
SustainedRate ==
    \A k \in Key, r \in Resource : debt[k][r] <= (Burst + Skew) * Rate[k][r]

\* A call that does not admit takes no token from any bucket.
RefusalIsFree ==
    [][~granted' => \A k \in present', r \in Resource :
            IF k \in present THEN bucket'[k].level[r] >= bucket[k].level[r]
                             ELSE bucket'[k].level[r] = Full(k)[r]]_qvars

=============================================================================
