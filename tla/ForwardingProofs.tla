-------------------------- MODULE ForwardingProofs --------------------------
(***************************************************************************)
(* What the relay forwards: the quotas of ForwardingQuota for any devices, *)
(* networks, rates and limits, and the fan-out of PacketRouting for any    *)
(* members, nonce prefixes and windows, and the buffer of                  *)
(* FrameStreamDecoder (StreamDecoder) for every largest payload and        *)
(* everything a peer may send.                                             *)
(*                                                                         *)
(* What makes SustainedRate inductive is what each bucket says about the   *)
(* debt of its key: the debt, the tokens in the bucket and those that it   *)
(* would be refilled with now are together no more than a burst and the    *)
(* skew, unless there is no debt; a key without a bucket has none.         *)
(* FannedOutOnce rests on the replay state of a sender: what was fanned    *)
(* out is either seen in its window or too old for it.                     *)
(***************************************************************************)
EXTENDS ForwardingQuota, PacketRouting, StreamDecoder, FiniteSetTheorems, TLAPS

-----------------------------------------------------------------------------
(* ForwardingQuota: the quotas of devices and networks.                    *)

\* A bucket, the debt of its key and the clock fit together.
Covered(k, r, b, owed, c) ==
    owed = 0 \/ owed + b.level[r] + (c - b.updated) * Rate[k][r] <= (Burst + Skew) * Rate[k][r]

\* The inductive part of SustainedRate: debts are covered by buckets.
DebtsCovered ==
    \A k \in Key : IF k \in present
                   THEN /\ bucket[k].updated <= clock
                        /\ \A r \in Resource : Covered(k, r, bucket[k], debt[k][r], clock)
                   ELSE \A r \in Resource : debt[k][r] = 0

QuotaInv == QuotaTypeOK /\ DebtsCovered

Bucket == [updated : Nat, level : [Resource -> Nat]]

\* A bucket of k that holds no more than a burst.
BucketOK(k, b) == b \in Bucket /\ \A r \in Resource : b.level[r] <= Full(k)[r]

-----------------------------------------------------------------------------
(* Arithmetic.                                                             *)

\* A product grows by one factor at a tick.
LEMMA TickProduct == \A c, u, x \in Int : ((c + 1) - u) * x = (c - u) * x + x
  OBVIOUS

\* A product splits at a time between.
LEMMA SplitProduct == \A c, t, u, x \in Int : (c - u) * x = (c - t) * x + (t - u) * x
  OBVIOUS

\* A product of sums.
LEMMA SumProduct == \A a, b, x \in Int : (a + b) * x = a * x + b * x
  OBVIOUS

\* Multiplication by a natural number keeps the order.
LEMMA MonotoneProduct == \A a, b \in Int, x \in Nat : a <= b => a * x <= b * x
  OBVIOUS

\* A product of natural numbers is one.
LEMMA NatProduct == \A a, x \in Nat : a * x \in Nat
  OBVIOUS

-----------------------------------------------------------------------------
(* One bucket.                                                             *)

\* A full bucket is a function to the natural numbers.
LEMMA FullType == ASSUME NEW k \in Key PROVE Full(k) \in [Resource -> Nat]
  BY QuotaAssumption, NatProduct DEF Full

\* A new bucket and the one that stands for none are full.
LEMMA NewBucketOK ==
  ASSUME NEW k \in Key, NEW now \in Nat
  PROVE  BucketOK(k, [updated |-> now, level |-> Full(k)]) /\ BucketOK(k, NoBucket(k))
  BY SMTT(30), FullType DEF BucketOK, Bucket, NoBucket

\* refill leaves a bucket within its bounds, takes nothing out of it, and
\* brings it to the later of the two times.
LEMMA RefillOK ==
  ASSUME NEW k \in Key, NEW b, BucketOK(k, b), NEW now \in Nat
  PROVE  /\ BucketOK(k, refill(k, b, now))
         /\ now <= refill(k, b, now).updated
         /\ refill(k, b, now).updated = b.updated \/ refill(k, b, now).updated = now
         /\ \A r \in Resource : b.level[r] <= refill(k, b, now).level[r]
  <1> USE DEF BucketOK, Bucket
  <1>2. CASE now <= b.updated  BY <1>2 DEF refill
  <1>3. CASE ~(now <= b.updated)
    <2> DEFINE lev == [r \in Resource |->
                         LET sum == b.level[r] + (now - b.updated) * Rate[k][r]
                         IN  IF sum > Full(k)[r] THEN Full(k)[r] ELSE sum]
    <2>1. refill(k, b, now) = [updated |-> now, level |-> lev] BY Zenon, <1>3 DEF refill
    <2>2. \A r \in Resource : /\ lev[r] \in Nat /\ lev[r] <= Full(k)[r] /\ b.level[r] <= lev[r]
      <3> TAKE r \in Resource
      <3>2. (now - b.updated) * Rate[k][r] \in Nat BY SMTT(30), NatProduct, <1>3, QuotaAssumption
      <3> HIDE DEF BucketOK, Bucket
      <3> DEFINE x == (now - b.updated) * Rate[k][r]
      <3>4. lev[r] = IF b.level[r] + x > Full(k)[r] THEN Full(k)[r] ELSE b.level[r] + x
        BY Zenon
      <3>5. x \in Nat BY Zenon, <3>2
      <3> HIDE DEF x, lev
      <3> QED BY SMTT(30), <3>4, <3>5, FullType DEF BucketOK, Bucket
    <2>3. lev \in [Resource -> Nat] BY Zenon, <2>2
    <2> HIDE DEF lev
    <2> QED  BY SMTT(30), <2>1, <2>2, <2>3, <1>3
  <1> QED BY Zenon, <1>2, <1>3

\* A refilled bucket covers the debt that the bucket covered.
LEMMA RefillCovers ==
  ASSUME NEW k \in Key, NEW b, BucketOK(k, b), NEW now \in Nat, NEW c \in Nat,
         NEW r \in Resource, NEW owed \in Nat, Covered(k, r, b, owed, c)
  PROVE  Covered(k, r, refill(k, b, now), owed, c)
  <1>1. CASE now <= b.updated BY Zenon, <1>1 DEF refill
  <1>2. CASE ~(now <= b.updated)
    <2>2. b.level[r] \in Nat /\ b.updated \in Nat BY Zenon DEF BucketOK, Bucket
    <2>3. Rate[k][r] \in Nat BY Zenon, QuotaAssumption
    <2> DEFINE x == (now - b.updated) * Rate[k][r]
               y == (c - now) * Rate[k][r]
               m == (Burst + Skew) * Rate[k][r]
    <2>4. x \in Int /\ y \in Int /\ m \in Int  BY <2>2, <2>3, QuotaAssumption
    <2>6. refill(k, b, now).level[r] <= b.level[r] + x /\ refill(k, b, now).level[r] \in Int
      <3>1. refill(k, b, now).level[r] = IF b.level[r] + x > Full(k)[r] THEN Full(k)[r] ELSE b.level[r] + x
        BY Zenon, <1>2 DEF refill
      <3> HIDE DEF x
      <3> QED BY SMTT(30), <3>1, <2>2, <2>4, FullType
    <2>8. owed = 0 \/ owed + b.level[r] + (y + x) <= m BY SMTT(30), <2>2, <2>3, SplitProduct DEF
         Covered
    <2>9. Covered(k, r, refill(k, b, now), owed, c)
            <=> (owed = 0 \/ owed + refill(k, b, now).level[r] + y <= m)
      BY Zenon, <1>2 DEF Covered, refill
    <2> HIDE DEF x, y, m
    <2> QED  BY <2>2, <2>4, <2>6, <2>8, <2>9
  <1> QED BY Zenon, <1>1, <1>2

\* A bucket that was just refilled can be charged: what it gives is covered.
LEMMA ChargeCovers ==
  ASSUME NEW k \in Key, NEW b, BucketOK(k, b), NEW c \in Nat,
         c - b.updated <= Skew,
         NEW r \in Resource, NEW owed \in Nat, Covered(k, r, b, owed, c),
         NEW cost \in Nat, NEW e, e.updated = b.updated, e.level[r] = b.level[r] - cost
  PROVE  Covered(k, r, e, owed + cost, c)
  <1>1. Rate[k][r] \in Nat /\ Burst \in Nat /\ Skew \in Nat BY Zenon, QuotaAssumption
  <1> DEFINE x == (c - b.updated) * Rate[k][r]
             y == Burst * Rate[k][r]
             z == Skew * Rate[k][r]
  <1> HIDE DEF x, y, z
  <1> QED BY SMTT(30), <1>1, MonotoneProduct, SumProduct DEF Covered, BucketOK, Bucket, Full

\* A bucket that prune forgets covers no debt.
LEMMA ExpiredCovers ==
  ASSUME NEW k \in Key, NEW b, BucketOK(k, b), NEW now \in Nat, NEW c \in Nat, now <= c,
         now - b.updated > Expire,
         NEW r \in Resource, NEW owed \in Nat, Covered(k, r, b, owed, c)
  PROVE  owed = 0
  <1>1. Rate[k][r] \in Nat /\ Burst \in Nat /\ Skew \in Nat /\ Burst + Skew <= Expire /\ Expire \in Nat
    BY QuotaAssumption
  <1>2. b.level[r] \in Nat /\ b.updated \in Nat BY Zenon DEF BucketOK, Bucket
  <1> DEFINE x == (c - b.updated) * Rate[k][r]
             m == (Burst + Skew) * Rate[k][r]
  <1>3. m <= x
    <2>1. Burst + Skew <= c - b.updated /\ Burst + Skew \in Int /\ c - b.updated \in Int
      BY <1>1, <1>2
    <2> QED BY Zenon, <1>1, <2>1, MonotoneProduct
  <1>4. owed = 0 \/ owed + b.level[r] + x <= m BY Zenon DEF Covered
  <1>5. x \in Int /\ m \in Int  BY <1>1, <1>2
  <1> HIDE DEF x, m
  <1> QED  BY <1>2, <1>3, <1>4, <1>5

\* Time pays for debts as fast as it refills buckets.
LEMMA TickCovers ==
  ASSUME NEW k \in Key, NEW b, BucketOK(k, b), NEW c \in Nat,
         NEW r \in Resource, NEW owed \in Nat, Covered(k, r, b, owed, c)
  PROVE  Covered(k, r, b, IF owed > Rate[k][r] THEN owed - Rate[k][r] ELSE 0, c + 1)
  <1>1. Rate[k][r] \in Nat /\ Burst \in Nat /\ Skew \in Nat BY Zenon, QuotaAssumption
  <1>2. b.level[r] \in Nat /\ b.updated \in Nat BY Zenon DEF BucketOK, Bucket
  <1> DEFINE x == (c - b.updated) * Rate[k][r]
             m == (Burst + Skew) * Rate[k][r]
             d == Rate[k][r]
  <1>3. ((c + 1) - b.updated) * Rate[k][r] = x + d
    <2>1. c \in Int /\ b.updated \in Int /\ d \in Int  BY <1>1, <1>2
    <2>2. ((c + 1) - b.updated) * d = (c - b.updated) * d + d
      <3> HIDE DEF d
      <3> QED  BY <2>1, TickProduct, Zenon
    <2> QED  BY <2>2, Zenon
  <1>4. owed = 0 \/ owed + b.level[r] + x <= m BY Zenon DEF Covered
  <1>5. x \in Int /\ m \in Int  BY <1>1, <1>2
  <1>6. d \in Nat BY Zenon, <1>1
  <1>7. CASE owed > d
    <2> DEFINE o == owed - d
    <2>1. (IF owed > Rate[k][r] THEN owed - Rate[k][r] ELSE 0) = o BY Zenon, <1>7
    <2>2. o + b.level[r] + (x + d) <= m
      <3> HIDE DEF x, m, d
      <3> QED  BY SMTT(30), <1>2, <1>4, <1>5, <1>6, <1>7
    <2> HIDE DEF o
    <2>3. o + b.level[r] + ((c + 1) - b.updated) * Rate[k][r] <= m
      <3> HIDE DEF x, m, d
      <3> QED BY Zenon, <1>3, <2>2
    <2> QED BY Zenon, <2>1, <2>3 DEF Covered
  <1>8. CASE ~(owed > d)
    BY Zenon, <1>8 DEF Covered
  <1> QED BY Zenon, <1>7, <1>8

-----------------------------------------------------------------------------
(* Calls.                                                                  *)

\* The times of calls.
LEMMA NowType == ASSUME QuotaTypeOK, NEW now \in Now
                 PROVE  now \in Nat /\ now <= clock /\ clock - now <= Skew /\ clock \in Nat
  BY SMTT(30), QuotaAssumption DEF QuotaTypeOK, Now

\* Every bucket of a good state is within its bounds.
LEMMA BucketsOK == ASSUME QuotaTypeOK, NEW k \in Key
                   PROVE  BucketOK(k, bucket[k])
  BY SMTT(30) DEF QuotaTypeOK, BucketOK, Bucket

\* What prune leaves is a part of what was there, and what it does not leave
\* owes nothing.
LEMMA PruneOK ==
  ASSUME QuotaInv, NEW now \in Now
  PROVE  /\ prune(now) \subseteq present
         /\ \A k \in Key \ prune(now), r \in Resource : debt[k][r] = 0
  BY SMTT(30), BucketsOK, NowType, ExpiredCovers DEF prune, QuotaInv, DebtsCovered, QuotaTypeOK,
     expired

\* The bucket that a call looks at is within its bounds, as new as the call,
\* and covers the debt of its key.
LEMMA CurrentOK ==
  ASSUME QuotaInv, NEW now \in Now, NEW k \in Key
  PROVE  LET b == Current(prune(now), k, now)
         IN  /\ BucketOK(k, b)
             /\ b.updated <= clock
             /\ clock - b.updated <= Skew
             /\ \A r \in Resource : Covered(k, r, b, debt[k][r], clock)
             /\ k \in prune(now) => \A r \in Resource : bucket[k].level[r] <= b.level[r]
             /\ k \notin prune(now) => b.level = Full(k)
  <1>1. now \in Nat /\ now <= clock /\ clock - now <= Skew /\ clock \in Nat /\ Skew \in Nat
    BY Zenon, NowType, QuotaAssumption DEF QuotaInv
  <1>2. BucketOK(k, bucket[k]) BY Zenon, BucketsOK DEF QuotaInv
  <1>3. CASE k \in prune(now)
    <2> DEFINE b == refill(k, bucket[k], now)
    <2>1. Current(prune(now), k, now) = b BY Zenon, <1>3 DEF Current
    <2>2. k \in present BY Zenon, <1>3, PruneOK
    <2>4. /\ BucketOK(k, b)
          /\ now <= b.updated
          /\ b.updated = bucket[k].updated \/ b.updated = now
          /\ \A r \in Resource : bucket[k].level[r] <= b.level[r]
      BY Zenon, <1>1, <1>2, RefillOK
    <2>5. \A r \in Resource : Covered(k, r, b, debt[k][r], clock)
      <3> TAKE r \in Resource
      <3>2. Covered(k, r, bucket[k], debt[k][r], clock) BY Zenon, <2>2 DEF QuotaInv, DebtsCovered
      <3> HIDE DEF b
      <3> QED BY Zenon, <1>1, <1>2, <3>2, RefillCovers DEF b, QuotaInv, QuotaTypeOK
    <2> HIDE DEF b
    <2> QED BY SMTT(30), <1>3, <2>1, <2>4, <2>5, <1>1, <2>2 DEF QuotaInv, DebtsCovered, BucketOK,
         Bucket
  <1>4. CASE k \notin prune(now)
    <2> DEFINE b == [updated |-> now, level |-> Full(k)]
    <2>1. Current(prune(now), k, now) = b BY Zenon, <1>4 DEF Current
    <2>2. BucketOK(k, b) BY Zenon, <1>1, NewBucketOK
    <2>4. b.updated = now /\ b.level = Full(k) BY Zenon
    <2> HIDE DEF b
    <2> QED BY Zenon, <1>1, <1>4, <2>1, <2>2, <2>4, PruneOK DEF Covered
  <1> QED BY Zenon, <1>3, <1>4

\* A call that reaches the buckets keeps the invariant, and takes tokens only
\* if it admits.
LEMMA ChargeInv ==
  ASSUME QuotaInv, NEW now \in Now, NEW keys \in SUBSET Key,
         NEW cost \in [Resource -> Nat],
         charge(prune(now), keys, cost, now),
         clock' = clock, next_prune' \in Nat,
         Cardinality(present' \cap Device) <= MaxEntries,
         Cardinality(present' \cap Network) <= MaxEntries
  PROVE  /\ QuotaInv'
         /\ ~granted' => \A k \in present', r \in Resource :
                IF k \in present THEN bucket'[k].level[r] >= bucket[k].level[r]
                                 ELSE bucket'[k].level[r] = Full(k)[r]
  <1> DEFINE kept == prune(now)
             cur(k) == Current(kept, k, now)
             ok == \A k \in keys : Affords(cur(k), cost)
  <1>1. /\ present' = kept \cup keys
        /\ bucket' = [k \in Key |-> IF k \in keys THEN charged(cur(k), cost, ok)
                                    ELSE IF k \in kept THEN bucket[k] ELSE NoBucket(k)]
        /\ granted' = ok
        /\ debt' = [k \in Key |-> [r \in Resource |->
                      IF ok /\ k \in keys THEN debt[k][r] + cost[r] ELSE debt[k][r]]]
    <2> DEFINE f == [k \in keys |-> cur(k)]
    <2>1. PICK all \in {\A k \in keys : Affords(f[k], cost)} :
            /\ present' = kept \cup keys
            /\ bucket' = [k \in Key |-> IF k \in keys THEN charged(f[k], cost, all)
                                        ELSE IF k \in kept THEN bucket[k] ELSE NoBucket(k)]
            /\ granted' = all
            /\ debt' = [k \in Key |-> [r \in Resource |->
                          IF all /\ k \in keys THEN debt[k][r] + cost[r] ELSE debt[k][r]]]
      <3> DEFINE P(g, all) ==
              /\ present' = kept \cup keys
              /\ bucket' = [k \in Key |-> IF k \in keys THEN charged(g[k], cost, all)
                                          ELSE IF k \in kept THEN bucket[k] ELSE NoBucket(k)]
              /\ granted' = all
              /\ debt' = [k \in Key |-> [r \in Resource |->
                            IF all /\ k \in keys THEN debt[k][r] + cost[r] ELSE debt[k][r]]]
      <3>1. \E current \in {f} : \E all \in {\A k \in keys : Affords(current[k], cost)} : P(current, all)
        BY Zenon DEF charge
      <3>2. \E all \in {\A k \in keys : Affords(f[k], cost)} : P(f, all)
        <4> HIDE DEF P, f
        <4>1. PICK g \in {f} : \E all \in {\A k \in keys : Affords(g[k], cost)} : P(g, all)  BY <3>1, Zenon
        <4> QED BY Zenon, <4>1
      <3> QED  BY <3>2, Zenon
    <2>2. \A k \in keys : f[k] = cur(k) BY Zenon
    <2> HIDE DEF f, cur, kept
    <2>3. all = ok BY Zenon, <2>1, <2>2
    <2> HIDE DEF ok
    <2> QED  BY Zenon, <2>1, <2>2, <2>3
  <1>2. kept \subseteq present /\ present \subseteq Key /\ ok \in BOOLEAN
    BY Zenon, PruneOK DEF QuotaInv, QuotaTypeOK
  <1>3. \A k \in Key, r \in Resource : debt[k][r] \in Nat BY Zenon DEF QuotaInv, QuotaTypeOK
  <1>4. clock \in 0..MaxClock /\ clock \in Nat BY Zenon, NowType DEF QuotaInv, QuotaTypeOK
  <1>5. \A k \in Key : /\ BucketOK(k, cur(k))
                       /\ cur(k).updated <= clock
                       /\ clock - cur(k).updated <= Skew
                       /\ \A r \in Resource : Covered(k, r, cur(k), debt[k][r], clock)
                       /\ k \in kept => \A r \in Resource : bucket[k].level[r] <= cur(k).level[r]
                       /\ k \notin kept => cur(k).level = Full(k)
    BY Zenon, CurrentOK
  <1>6. \A k \in Key \ kept, r \in Resource : debt[k][r] = 0 BY Zenon, PruneOK
  <1> HIDE DEF kept, cur, ok
  <1>7. ASSUME NEW k \in keys, ok
        PROVE  LET e == charged(cur(k), cost, ok)
               IN  /\ BucketOK(k, e) /\ e.updated = cur(k).updated
                   /\ \A r \in Resource : e.level[r] = cur(k).level[r] - cost[r]
    <2> DEFINE lev == [r \in Resource |-> cur(k).level[r] - cost[r]]
    <2> HIDE DEF lev
    <2> QED BY SMTT(30), <1>7, FullType, <1>5 DEF BucketOK, Bucket, charged, ok, Affords
  <1>8. ASSUME NEW k \in Key PROVE BucketOK(k, bucket'[k])
    BY Zenon, <1>1, <1>7, <1>5, BucketsOK, NewBucketOK DEF charged, QuotaInv
  <1>9. debt' \in [Key -> [Resource -> Nat]]  BY SMTT(30), <1>1, <1>3
  <1>10. QuotaTypeOK'
    BY Zenon, <1>1, <1>8, <1>2, <1>4, <1>9 DEF BucketOK, QuotaTypeOK, Bucket, Full
  <1>11. ASSUME NEW k \in Key, k \in present'
         PROVE  bucket'[k].updated <= clock' /\ \A r \in Resource : Covered(k, r, bucket'[k], debt'[k][r], clock')
    <2>1. CASE k \in keys /\ ok
      <3> DEFINE e == charged(cur(k), cost, ok)
      <3>1. bucket'[k] = e BY Zenon, <1>1, <2>1
      <3>2. e.updated = cur(k).updated /\ \A r \in Resource : e.level[r] = cur(k).level[r] - cost[r]
        BY Zenon, <1>7, <2>1
      <3> HIDE DEF e
      <3>3. ASSUME NEW r \in Resource PROVE Covered(k, r, e, debt[k][r] + cost[r], clock)
        BY Zenon, <1>3, <1>4, <1>5, <3>2, ChargeCovers
      <3> QED BY Zenon, <1>5, <3>1, <3>2, <3>3, <1>1, <2>1
    <2>2. CASE k \in keys /\ ~ok
      BY Zenon, <1>1, <2>2, <1>5 DEF charged
    <2>3. CASE k \notin keys
      BY Zenon, <1>1, <1>2, <1>11, <2>3 DEF QuotaInv, DebtsCovered
    <2> QED BY Zenon, <2>1, <2>2, <2>3
  <1>12. ASSUME NEW k \in Key, k \notin present', NEW r \in Resource PROVE debt'[k][r] = 0
    BY Zenon, <1>1, <1>6, <1>12
  <1>14. ASSUME ~granted', NEW k \in present', NEW r \in Resource
         PROVE  IF k \in present THEN bucket'[k].level[r] >= bucket[k].level[r]
                                 ELSE bucket'[k].level[r] = Full(k)[r]
    BY SMTT(30), <1>1, <1>2, <1>14, BucketsOK, FullType, <1>5 DEF QuotaInv, BucketOK, Bucket,
       charged
  <1> QED BY Zenon, <1>10, <1>14, <1>11, <1>12 DEF QuotaInv, DebtsCovered, Covered

\* A call that is refused at once keeps the invariant and takes no token.
LEMMA RefuseInv ==
  ASSUME QuotaInv, NEW now \in Now, refuse(prune(now)),
         clock' = clock, next_prune' \in Nat,
         Cardinality(present' \cap Device) <= MaxEntries,
         Cardinality(present' \cap Network) <= MaxEntries
  PROVE  /\ QuotaInv'
         /\ \A k \in present', r \in Resource :
                IF k \in present THEN bucket'[k].level[r] >= bucket[k].level[r]
                                 ELSE bucket'[k].level[r] = Full(k)[r]
  <1> DEFINE kept == prune(now)
  <1>1. /\ present' = kept
        /\ bucket' = [k \in Key |-> IF k \in kept THEN bucket[k] ELSE NoBucket(k)]
        /\ granted' = FALSE
        /\ debt' = debt
    BY Zenon DEF refuse
  <1>2. kept \subseteq present /\ present \subseteq Key BY Zenon, PruneOK DEF QuotaInv, QuotaTypeOK
  <1>3. \A k \in Key \ kept, r \in Resource : debt[k][r] = 0 BY Zenon, PruneOK
  <1> HIDE DEF kept
  <1>4. ASSUME NEW k \in Key PROVE BucketOK(k, bucket'[k])
    BY Zenon, <1>1, BucketsOK, NewBucketOK DEF QuotaInv
  <1>6. DebtsCovered'
    BY Zenon, <1>1, <1>2, <1>3 DEF QuotaInv, DebtsCovered, Covered
  <1>7. ASSUME NEW k \in present', NEW r \in Resource
        PROVE  IF k \in present THEN bucket'[k].level[r] >= bucket[k].level[r]
                                ELSE bucket'[k].level[r] = Full(k)[r]
    BY SMTT(30), <1>1, <1>2 DEF QuotaInv, QuotaTypeOK
  <1> QED BY Zenon, <1>6, <1>7, <1>1, <1>4, <1>2 DEF QuotaInv, BucketOK, QuotaTypeOK, Bucket, Full

\* An entry for which there is room keeps a map within its bound.
LEMMA RoomKeepsBound ==
  ASSUME NEW entries, IsFiniteSet(entries), Cardinality(entries) <= MaxEntries,
         NEW k, HasRoom(k, entries)
  PROVE  Cardinality(entries \cup {k}) <= MaxEntries
  <1>2. CASE k \in entries
    BY Zenon, <1>2
  <1>3. CASE k \notin entries
    <2>1. Cardinality(entries \cup {k}) = Cardinality(entries) + 1 BY Zenon, <1>3, FS_AddElement
    <2> QED BY SMTT(30), <2>1, FS_CardinalityType, QuotaAssumption, <1>3 DEF HasRoom
  <1> QED BY Zenon, <1>2, <1>3

\* prune keeps both maps finite and within their bounds.
LEMMA PruneKeepsBounds ==
  ASSUME QuotaInv, NEW now \in Now, NEW S \in {Device, Network}
  PROVE  IsFiniteSet(prune(now) \cap S) /\ Cardinality(prune(now) \cap S) <= MaxEntries
  <1>5. Cardinality(present \cap S) <= MaxEntries  BY Zenon DEF QuotaInv, QuotaTypeOK
  <1> QED BY SMTT(30), <1>5, FS_CardinalityType, QuotaAssumption, FS_Subset, PruneOK

\* The action of RefusalIsFree.
Free == ~granted' => \A k \in present', r \in Resource :
            IF k \in present THEN bucket'[k].level[r] >= bucket[k].level[r]
                             ELSE bucket'[k].level[r] = Full(k)[r]

\* A packet keeps the invariant, and takes tokens only if it is admitted.
LEMMA AdmitInv ==
  ASSUME QuotaInv, NEW d \in Device, NEW n \in Network, NEW size \in Sizes,
         NEW recipients \in 0..(MaxRecipients + 1), NEW now \in Now,
         admit(d, n, size, recipients, now)
  PROVE  QuotaInv' /\ Free
  <1> DEFINE kept == prune(now)
             cost == PacketCost(size, recipients)
             reaches == /\ HasRoom(d, kept \cap Device)
                        /\ HasRoom(n, kept \cap Network)
                        /\ charge(kept, {d, n, Authority}, cost, now)
  <1>1. next_prune' \in Nat /\ clock' = clock
    BY NowType, QuotaAssumption DEF admit, Pruned, QuotaInv, QuotaTypeOK
  <1>3. CASE reaches
    <2>1. cost \in [Resource -> Nat]
      BY SMTT(30), QuotaAssumption, NatProduct DEF PacketCost, Resource
    <2>3. present' = kept \cup {d, n, Authority} BY Zenon, <1>3 DEF charge
    <2>4. present' \cap Device = (kept \cap Device) \cup {d} BY Zenon, <2>3, QuotaAssumption
    <2>5. present' \cap Network = (kept \cap Network) \cup {n} BY Zenon, <2>3, QuotaAssumption
    <2> HIDE DEF cost
    <2> QED BY Zenon, <1>1, <1>3, <2>1, ChargeInv, <2>4, PruneKeepsBounds, RoomKeepsBound, <2>5 DEF
         Free, Key
  <1>4. CASE refuse(kept)
    BY Zenon, <1>4, <1>1, PruneKeepsBounds, RefuseInv DEF refuse, Free
  <1> QED BY Zenon, <1>3, <1>4 DEF admit

\* A control request keeps the invariant, and takes a token only if it is
\* admitted.
LEMMA ControlInv ==
  ASSUME QuotaInv, NEW d \in Device, NEW now \in Now, control(d, now)
  PROVE  QuotaInv' /\ Free
  <1> DEFINE kept == prune(now)
  <1>1. next_prune' \in Nat /\ clock' = clock
    BY SMTT(30), NowType, QuotaAssumption DEF control, Pruned, QuotaInv, QuotaTypeOK
  <1>3. CASE HasRoom(d, kept \cap Device) /\ charge(kept, {d}, ControlCost, now)
    <2>1. ControlCost \in [Resource -> Nat] BY Zenon DEF ControlCost
    <2>3. present' = kept \cup {d} BY Zenon, <1>3 DEF charge
    <2>4. present' \cap Device = (kept \cap Device) \cup {d} BY Zenon, <2>3
    <2>5. present' \cap Network = kept \cap Network BY Zenon, <2>3, QuotaAssumption
    <2> QED BY Zenon, <1>1, <1>3, <2>1, ChargeInv, <2>5, PruneKeepsBounds, <2>4, RoomKeepsBound DEF
         Free, Key
  <1>4. CASE refuse(kept)
    BY Zenon, <1>4, <1>1, PruneKeepsBounds, RefuseInv DEF refuse, Free
  <1> QED BY Zenon, <1>3, <1>4 DEF control

\* A tick keeps the invariant: debts shrink as fast as buckets could grow.
LEMMA TickInv ==
  ASSUME QuotaInv, tick
  PROVE  QuotaInv'
  <1>1. /\ clock' = clock + 1 /\ clock < MaxClock /\ clock \in Nat
        /\ present' = present /\ bucket' = bucket /\ next_prune' = next_prune /\ granted' = granted
        /\ debt' = [k \in Key |-> [r \in Resource |->
                      IF debt[k][r] > Rate[k][r] THEN debt[k][r] - Rate[k][r] ELSE 0]]
    BY QuotaAssumption DEF tick, QuotaInv, QuotaTypeOK
  <1>2. \A k \in Key, r \in Resource : debt[k][r] \in Nat /\ Rate[k][r] \in Nat
    BY SMTT(30), QuotaAssumption DEF QuotaInv, QuotaTypeOK
  <1>5. QuotaTypeOK' BY SMTT(30), <1>1, <1>2, QuotaAssumption DEF QuotaInv, QuotaTypeOK, Full
  <1>6. ASSUME NEW k \in Key, k \in present
        PROVE  bucket[k].updated <= clock' /\ \A r \in Resource : Covered(k, r, bucket[k], debt'[k][r], clock')
    <2>1. BucketOK(k, bucket[k]) BY Zenon, BucketsOK DEF QuotaInv
    <2>4. ASSUME NEW r \in Resource PROVE Covered(k, r, bucket[k], debt'[k][r], clock')
      BY Zenon, <1>6, <1>1, <1>2, <2>1, TickCovers DEF QuotaInv, DebtsCovered
    <2> QED BY SMTT(30), <1>1, <2>4, <2>1, <1>6 DEF BucketOK, Bucket, QuotaInv, DebtsCovered
  <1>7. ASSUME NEW k \in Key, k \notin present, NEW r \in Resource PROVE debt'[k][r] = 0
    BY SMTT(30), <1>7, <1>1, <1>2 DEF QuotaInv, DebtsCovered
  <1> QED BY Zenon, <1>5, <1>1, <1>6, <1>7 DEF QuotaInv, DebtsCovered, Covered

\* A step that changes no bucket is free.
LEMMA UnchangedFree ==
  ASSUME QuotaInv, UNCHANGED <<present, bucket>>
  PROVE  Free
  BY SMTT(30) DEF QuotaInv, QuotaTypeOK, Free

\* The state that configure leaves is good.
LEMMA QuotaInitInv == QuotaInit => QuotaInv
  <1> SUFFICES ASSUME QuotaInit PROVE QuotaInv BY Zenon
  <1>4. Cardinality(present \cap Device) <= MaxEntries /\ Cardinality(present \cap Network) <= MaxEntries
    BY SMTT(30), FS_EmptySet, QuotaAssumption DEF QuotaInit
  <1>5. QuotaTypeOK
    <2>3. clock \in 0..MaxClock /\ next_prune \in Nat  BY QuotaAssumption DEF QuotaInit
    <2> QED BY Zenon, <1>4, <2>3, NewBucketOK DEF QuotaTypeOK, BucketOK, Bucket, QuotaInit
  <1> QED BY Zenon, <1>5 DEF QuotaInv, QuotaInit, DebtsCovered

\* Every step keeps the invariant.
LEMMA QuotaStep == QuotaInv /\ [QuotaNext]_qvars => QuotaInv' /\ (Free \/ UNCHANGED qvars)
  <1> SUFFICES ASSUME QuotaInv, [QuotaNext]_qvars PROVE QuotaInv' /\ (Free \/ UNCHANGED qvars) BY
       Zenon
  <1>1. ASSUME NEW d \in Device, NEW n \in Network, NEW size \in Sizes,
               NEW recipients \in 0..(MaxRecipients + 1), NEW now \in Now,
               admit(d, n, size, recipients, now)
        PROVE  QuotaInv' /\ Free
    BY Zenon, <1>1, AdmitInv
  <1>2. ASSUME NEW d \in Device, NEW now \in Now, control(d, now) PROVE QuotaInv' /\ Free
    BY Zenon, <1>2, ControlInv
  <1>3. CASE tick
    BY Zenon, <1>3, TickInv, UnchangedFree DEF tick
  <1>4. CASE UNCHANGED qvars
    BY Zenon, <1>4 DEF qvars, QuotaInv, QuotaTypeOK, DebtsCovered, Covered, Full
  <1> QED BY Zenon, <1>1, <1>2, <1>3, <1>4 DEF QuotaNext

\* The strengthened invariant gives the bound on debts.
LEMMA InvGivesRate == QuotaInv => SustainedRate
  <1> SUFFICES ASSUME QuotaInv, NEW k \in Key, NEW r \in Resource
               PROVE  debt[k][r] <= (Burst + Skew) * Rate[k][r]
    BY Zenon DEF SustainedRate
  <1>1. Rate[k][r] \in Nat /\ Burst + Skew \in Nat  BY SMTT(30), QuotaAssumption
  <1> DEFINE m == (Burst + Skew) * Rate[k][r]
  <1>2. m \in Nat BY Zenon, <1>1, NatProduct
  <1>3. debt[k][r] \in Nat /\ clock \in Nat  BY QuotaAssumption DEF QuotaInv, QuotaTypeOK
  <1>4. CASE k \in present
    <2>1. bucket[k].level[r] \in Nat /\ bucket[k].updated \in Nat BY Zenon DEF QuotaInv, QuotaTypeOK
    <2> DEFINE x == (clock - bucket[k].updated) * Rate[k][r]
    <2>4. x \in Nat BY SMTT(30), <1>1, NatProduct, <1>3, <2>1, <1>4 DEF QuotaInv, DebtsCovered
    <2>5. debt[k][r] = 0 \/ debt[k][r] + bucket[k].level[r] + x <= m
      BY Zenon, <1>4 DEF QuotaInv, DebtsCovered, Covered
    <2> HIDE DEF x, m
    <2> QED BY SMTT(30), <1>2, <1>3, <2>1, <2>4, <2>5 DEF m
  <1>5. CASE k \notin present
    BY SMTT(30), <1>5, <1>2 DEF QuotaInv, DebtsCovered
  <1> QED BY Zenon, <1>4, <1>5

\* The buckets stay between nothing and a burst, and the maps within their
\* bounds, whatever devices send and however often the clock is read late.
THEOREM QuotaTyped == QuotaSpec => []QuotaTypeOK
  <1>1. QuotaInit => QuotaInv BY Zenon, QuotaInitInv
  <1>2. QuotaInv /\ [QuotaNext]_qvars => QuotaInv' BY Zenon, QuotaStep
  <1>3. QuotaInv => QuotaTypeOK BY Zenon DEF QuotaInv
  <1> QED  BY <1>1, <1>2, <1>3, PTL DEF QuotaSpec

\* For every period, admit and control let through at most a burst more than
\* the rate allows, for each device, each network and the authority.
THEOREM RateSustained == QuotaSpec => []SustainedRate
  <1>1. QuotaInit => QuotaInv BY Zenon, QuotaInitInv
  <1>2. QuotaInv /\ [QuotaNext]_qvars => QuotaInv' BY Zenon, QuotaStep
  <1>3. QuotaInv => SustainedRate BY Zenon, InvGivesRate
  <1> QED  BY <1>1, <1>2, <1>3, PTL DEF QuotaSpec

\* A call of admit or control that refuses takes no token from any bucket.
THEOREM RefusalsAreFree == QuotaSpec => RefusalIsFree
  <1>1. QuotaInit => QuotaInv BY Zenon, QuotaInitInv
  <1>2. QuotaInv /\ [QuotaNext]_qvars => QuotaInv' BY Zenon, QuotaStep
  <1>3. QuotaInv /\ [QuotaNext]_qvars => [Free]_qvars BY Zenon, QuotaStep
  <1>5. QuotaSpec => [][Free]_qvars  BY <1>1, <1>2, <1>3, PTL DEF QuotaSpec
  <1> QED BY Zenon, <1>5 DEF RefusalIsFree, Free

-----------------------------------------------------------------------------
(* PacketRouting: fan-out of group packets.                                *)

BucketType == [initialized : BOOLEAN, tokens : Nat, updated : Nat]
ReplayType == [epoch : Nat, session : Nat, prefix : NoncePrefixes \cup {0}, highest : Nat,
               seen : SUBSET (0 .. ReplayWindow - 1)]
CopiesType == [network : Nat, session : [Members -> Nat], since : [Members -> Nat]]

RoutingTypeOK ==
    /\ time \in Nat /\ key_epoch \in Nat /\ sessions \in Nat
    /\ active_keys_ \in [Members -> 0 .. sessions]
    /\ replay \in [Members -> ReplayType]
    /\ sender_fanout_ \in [Members -> BucketType] /\ network_fanout_ \in BucketType
    /\ fanned \in SUBSET (Members \X Nat \X (Nat \ {0}) \X (Nat \ {0}))
    /\ repeated \in BOOLEAN
    /\ copies \in CopiesType

\* What was fanned out under the present session and epoch of a member is marked in the
\* member's window or lies below it.
Marked(w, n) == n <= w.highest /\ (w.highest - n < ReplayWindow => w.highest - n \in w.seen)

WindowInv ==
    /\ ~repeated
    /\ \A f \in fanned : f[2] <= key_epoch /\ f[3] <= sessions
    /\ \A f \in fanned : f[2] = key_epoch /\ f[3] = active_keys_[f[1]] =>
          /\ replay[f[1]].epoch = f[2] /\ replay[f[1]].session = f[3]
          /\ Marked(replay[f[1]], f[4])

\* The tokens a bucket holds and the copies it paid for are within what it started with and
\* earned until its last update.
Paid(b, paid, capacity, rate, since) ==
    IF b.initialized
    THEN /\ since <= b.updated /\ b.updated <= time
         /\ paid + b.tokens <= capacity + rate * (b.updated - since)
    ELSE since <= time /\ paid = 0

BucketInv ==
    /\ Paid(network_fanout_, copies.network, NetworkCapacity, NetworkRate, 0)
    /\ \A d \in Members :
          Paid(sender_fanout_[d], copies.session[d], SenderCapacity, SenderRate, copies.since[d])

-----------------------------------------------------------------------------

LEMMA EarnedMore ==
    ASSUME NEW r \in Nat, NEW s \in Nat, NEW u \in Nat, NEW t \in Nat, s <= u, u <= t
    PROVE  /\ r * (t - s) = r * (u - s) + (t - u) * r
           /\ (t - u) * r \in Nat /\ r * (u - s) \in Nat /\ r * (t - s) \in Nat
<1>1. PICK a \in Nat : u = s + a
  BY SMTT(30)
<1>2. PICK b \in Nat : t = u + b
  BY SMTT(30)
<1> QED BY SMTT(30), <1>1, <1>2

LEMMA ReplenishPays ==
    ASSUME NEW b \in BucketType, NEW paid \in Nat, NEW capacity \in Nat, NEW rate \in Nat,
           NEW since \in Nat, time \in Nat, Paid(b, paid, capacity, rate, since)
    PROVE  /\ replenish(b, capacity, rate) \in BucketType
           /\ replenish(b, capacity, rate).initialized
           /\ Paid(replenish(b, capacity, rate), paid, capacity, rate, since)
<1> DEFINE r == replenish(b, capacity, rate)
<1>1. CASE ~b.initialized
  <2> HIDE DEF r
  <2> QED BY SMTT(30), EarnedMore, <1>1 DEF r, BucketType, Paid, replenish
<1>2. CASE b.initialized
  <2> DEFINE t == Least(capacity, b.tokens + (time - b.updated) * rate)
  <2>0. b.initialized \in BOOLEAN /\ b.tokens \in Nat /\ b.updated \in Nat
    BY Zenon DEF BucketType
  <2>1. r = [b EXCEPT !.tokens = t, !.updated = time]
    BY Zenon, <1>2 DEF replenish
  <2>2. since <= b.updated /\ b.updated <= time /\ paid + b.tokens <= capacity + rate * (b.updated - since)
    BY Zenon, <1>2 DEF Paid
  <2>3. /\ rate * (time - since) = rate * (b.updated - since) + (time - b.updated) * rate
        /\ (time - b.updated) * rate \in Nat /\ rate * (b.updated - since) \in Nat
        /\ rate * (time - since) \in Nat
    BY Zenon, <2>0, <2>2, EarnedMore
  <2>4. t \in Nat /\ t <= b.tokens + (time - b.updated) * rate
    BY SMTT(30), <2>0, <2>3 DEF Least
  <2> HIDE DEF r, t
  <2>5. r.initialized /\ r.tokens = t /\ r.updated = time
    BY Zenon, <1>2, <2>1 DEF BucketType
  <2>7. paid + t <= capacity + rate * (time - since)
    <3> DEFINE x == rate * (b.updated - since)
               y == (time - b.updated) * rate
               z == rate * (time - since)
    <3> HIDE DEF x, y, z
    <3> QED BY SMTT(30), <2>0, <2>4, <2>2, <2>3 DEF z
  <2>8. Paid(r, paid, capacity, rate, since)
    BY SMTT(30), <2>0, <2>2, <2>5, <2>7 DEF Paid
  <2> QED BY Zenon, <2>5, <2>8, <1>2, <2>1, <2>4 DEF r, BucketType
<1> QED BY Zenon, <1>1, <1>2

\* Taking k tokens of a bucket that holds them pays for k copies.
LEMMA SpendPays ==
    ASSUME NEW b \in BucketType, NEW paid \in Nat, NEW capacity \in Nat, NEW rate \in Nat,
           NEW since \in Nat, time \in Nat, NEW k \in Nat, k <= b.tokens, b.initialized,
           Paid(b, paid, capacity, rate, since)
    PROVE  /\ [b EXCEPT !.tokens = @ - k] \in BucketType
           /\ Paid([b EXCEPT !.tokens = @ - k], paid + k, capacity, rate, since)
<1> DEFINE c == [b EXCEPT !.tokens = @ - k]
<1> HIDE DEF c
<1> QED BY SMTT(30) DEF c, Paid, BucketType

-----------------------------------------------------------------------------
(* The window.                                                             *)

LEMMA WindowTyped ==
    ASSUME RoutingTypeOK, NEW d \in Members
    PROVE  window(d) \in ReplayType
<1>1. replay[d] \in ReplayType /\ key_epoch \in Nat /\ active_keys_[d] \in Nat
  BY SMTT(30) DEF RoutingTypeOK
<1> QED BY Zenon, <1>1, RoutingAssumption DEF window, ReplayType, NoReplay

\* What passes the window is not marked in it.
LEMMA PassedIsNew ==
    ASSUME NEW w \in ReplayType, NEW prefix, NEW number \in Nat \ {0}, passes(w, prefix, number)
    PROVE  ~Marked(w, number)
BY DEF ReplayType, passes, Marked

\* The window after a packet keeps what it has marked, and marks the packet.
LEMMA AdvanceMarks ==
    ASSUME NEW w \in ReplayType, NEW prefix \in NoncePrefixes, NEW number \in Nat \ {0},
           passes(w, prefix, number)
    PROVE  /\ advance(w, prefix, number) \in ReplayType
           /\ advance(w, prefix, number).epoch = w.epoch
           /\ advance(w, prefix, number).session = w.session
           /\ Marked(advance(w, prefix, number), number)
           /\ \A n \in Nat : Marked(w, n) => Marked(advance(w, prefix, number), n)
<1> DEFINE a == advance(w, prefix, number)
           shifted == {0} \cup {i \in 0 .. ReplayWindow - 1 : i - (number - w.highest) \in w.seen}
<1>0. w.highest \in Nat /\ w.seen \subseteq 0 .. ReplayWindow - 1 /\ ReplayWindow \in Nat \ {0}
  BY Zenon, RoutingAssumption DEF ReplayType
<1>1. CASE number > w.highest
  <2>1. a = [w EXCEPT !.prefix = prefix, !.highest = number, !.seen = shifted]
    BY Zenon, <1>1 DEF advance
  <2>2. shifted \subseteq 0 .. ReplayWindow - 1
    BY <1>0
  <2>3. \A n \in Nat : n <= w.highest /\ number - n < ReplayWindow /\ w.highest - n \in w.seen
                          => number - n \in shifted
    <3> SUFFICES ASSUME NEW n \in Nat, n <= w.highest, number - n < ReplayWindow,
                        w.highest - n \in w.seen
                 PROVE  number - n \in shifted
      BY Zenon
    <3> QED BY SMTT(30), <1>0, <1>1
  <2>4. 0 \in shifted
    BY Zenon
  <2> HIDE DEF a, shifted
  <2>5. a \in ReplayType /\ a.epoch = w.epoch /\ a.session = w.session /\ a.highest = number /\ a.seen = shifted
    BY Zenon, <2>1, <2>2 DEF ReplayType
  <2> QED BY SMTT(30), <2>5, <1>0, <1>1, <2>3, <2>4 DEF a, Marked
<1>2. CASE ~(number > w.highest)
  <2> HIDE DEF a
  <2> QED BY SMTT(30), <1>0, <1>2 DEF Marked, a, ReplayType, passes, advance
<1> QED BY Zenon, <1>0, <1>1, <1>2

-----------------------------------------------------------------------------
(* The invariants.                                                         *)

LEMMA ReachedIsFinite ==
    ASSUME NEW d \in Members
    PROVE  Cardinality(Reached(d, TRUE)) \in Nat
BY Zenon, RoutingAssumption, FS_Subset, FS_CardinalityType DEF Reached

LEMMA MayAdvanceIsUp ==
    ASSUME RoutingTypeOK, MayAdvance
    PROVE  key_epoch' \in Nat /\ key_epoch' >= key_epoch
BY DEF RoutingTypeOK, MayAdvance

RoutingInv == RoutingTypeOK /\ WindowInv /\ BucketInv

LEMMA RoutingStart == RoutingInit => RoutingInv
<1> SUFFICES ASSUME RoutingInit PROVE RoutingInv
  BY Zenon
<1>1. NewBucket \in BucketType /\ NewBucket.initialized = FALSE
  BY Zenon DEF NewBucket, BucketType
<1>3. copies \in CopiesType /\ copies.network = 0 /\ \A d \in Members : copies.session[d] = 0 /\ copies.since[d] = 0
  BY Zenon DEF RoutingInit, CopiesType
<1>4. RoutingTypeOK
  <2>3. fanned = {} /\ repeated \in BOOLEAN
    BY Zenon DEF RoutingInit
  <2> QED BY SMTT(30), <1>3, <2>3, <1>1, RoutingAssumption DEF RoutingTypeOK, RoutingInit,
       NoReplay, ReplayType
<1> QED BY SMTT(30), <1>4, <1>1, <1>3 DEF RoutingInv, RoutingInit, WindowInv, BucketInv, Paid

\* A fan-out, in the terms of its result.
LEMMA FanoutKeeps ==
    ASSUME RoutingInv, NEW d \in Members, NEW e \in Nat, NEW p \in NoncePrefixes,
           NEW n \in Nat \ {0}, route_fanout(d, e, p, n)
    PROVE  RoutingInv'
<1> DEFINE w == window(d)
           to == Reached(d, TRUE)
           reaches == passes(w, p, n) /\ to # {}
           mine == replenish(sender_fanout_[d], SenderCapacity, SenderRate)
           ours == replenish(network_fanout_, NetworkCapacity, NetworkRate)
           id == <<d, key_epoch, active_keys_[d], n>>
<1>0. NetworkRate \in Nat /\ SenderRate \in Nat /\ NetworkCapacity \in Nat /\ SenderCapacity \in Nat
      /\ ReplayWindow \in Nat
  BY Zenon, RoutingAssumption
<1>t. RoutingTypeOK /\ WindowInv /\ BucketInv
  BY Zenon DEF RoutingInv
<1>1. PICK goes \in BOOLEAN :
        /\ goes => reaches /\ mine.tokens >= 1 /\ ours.tokens >= Cardinality(to)
        /\ replay' = [replay EXCEPT ![d] = IF goes THEN advance(w, p, n) ELSE w]
        /\ sender_fanout_' = [sender_fanout_ EXCEPT ![d] =
              IF ~reaches THEN @ ELSE IF goes THEN [mine EXCEPT !.tokens = @ - 1] ELSE mine]
        /\ network_fanout_' =
              IF ~reaches THEN network_fanout_
              ELSE IF goes THEN [ours EXCEPT !.tokens = @ - Cardinality(to)] ELSE ours
        /\ fanned' = IF goes THEN fanned \cup {id} ELSE fanned
        /\ repeated' = (repeated \/ (goes /\ id \in fanned))
        /\ copies' = IF goes THEN [copies EXCEPT !.network = @ + Cardinality(to), !.session[d] = @ + 1]
                     ELSE copies
  BY Zenon DEF route_fanout
<1>2. active_keys_[d] # 0
      /\ UNCHANGED <<time, policy, managers, key_epoch, active_keys_, sessions>>
  BY Zenon DEF route_fanout
<1>3. /\ time \in Nat /\ key_epoch \in Nat /\ sessions \in Nat
      /\ active_keys_ \in [Members -> 0 .. sessions] /\ active_keys_[d] \in Nat \ {0}
      /\ replay \in [Members -> ReplayType] /\ replay[d] \in ReplayType
      /\ sender_fanout_ \in [Members -> BucketType] /\ network_fanout_ \in BucketType
      /\ sender_fanout_[d] \in BucketType
      /\ copies \in CopiesType /\ copies.network \in Nat /\ copies.session \in [Members -> Nat]
      /\ copies.since \in [Members -> Nat] /\ copies.session[d] \in Nat /\ copies.since[d] \in Nat
      /\ fanned \in SUBSET (Members \X Nat \X (Nat \ {0}) \X (Nat \ {0}))
  BY <1>t, <1>2 DEF RoutingTypeOK, CopiesType
<1>4. Cardinality(to) \in Nat
  BY Zenon, ReachedIsFinite
<1>5. w \in ReplayType
  BY Zenon, <1>t, WindowTyped
<1>6. /\ mine \in BucketType /\ mine.initialized
      /\ Paid(mine, copies.session[d], SenderCapacity, SenderRate, copies.since[d])
  BY Zenon, <1>0, <1>3, <1>t, ReplenishPays DEF BucketInv
<1>7. /\ ours \in BucketType /\ ours.initialized
      /\ Paid(ours, copies.network, NetworkCapacity, NetworkRate, 0)
  BY Zenon, <1>0, <1>3, <1>t, ReplenishPays DEF BucketInv
<1>8. id \in Members \X Nat \X (Nat \ {0}) \X (Nat \ {0}) /\ id[1] = d /\ id[2] = key_epoch
      /\ id[3] = active_keys_[d] /\ id[4] = n
  BY Zenon, <1>3
<1>9. /\ w.epoch = key_epoch /\ w.session = active_keys_[d]
      /\ \A f \in fanned : f[1] = d /\ f[2] = key_epoch /\ f[3] = active_keys_[d] => Marked(w, f[4])
  BY Zenon, <1>3, <1>t DEF window, NoReplay, ReplayType, WindowInv
<1> HIDE DEF w, to, mine, ours, id
<1>10. CASE goes
  <2>1. passes(w, p, n) /\ mine.tokens >= 1 /\ ours.tokens >= Cardinality(to) /\ to # {}
    BY Zenon, <1>1, <1>10
  <2> DEFINE a == advance(w, p, n)
  <2>2. /\ a \in ReplayType /\ a.epoch = w.epoch /\ a.session = w.session /\ Marked(a, n)
        /\ \A m \in Nat : Marked(w, m) => Marked(a, m)
    BY Zenon, <1>5, <2>1, AdvanceMarks
  <2> HIDE DEF a
  <2> DEFINE m1 == [mine EXCEPT !.tokens = @ - 1]
             o1 == [ours EXCEPT !.tokens = @ - Cardinality(to)]
  <2>4. m1 \in BucketType /\ Paid(m1, copies.session[d] + 1, SenderCapacity, SenderRate, copies.since[d])
    BY Zenon, <2>1, <1>6, <1>0, <1>3, SpendPays DEF BucketType
  <2>5. o1 \in BucketType /\ Paid(o1, copies.network + Cardinality(to), NetworkCapacity, NetworkRate, 0)
    BY Zenon, <2>1, <1>4, <1>7, <1>0, <1>3, SpendPays DEF BucketType
  <2> HIDE DEF m1, o1
  <2>6. /\ replay' = [replay EXCEPT ![d] = a] /\ sender_fanout_' = [sender_fanout_ EXCEPT ![d] = m1]
        /\ network_fanout_' = o1 /\ fanned' = fanned \cup {id}
        /\ repeated' = (repeated \/ id \in fanned)
        /\ copies' = [copies EXCEPT !.network = @ + Cardinality(to), !.session[d] = @ + 1]
    BY Zenon, <1>1, <1>10, <2>1 DEF a, m1, o1
  <2>7. id \notin fanned
    BY Zenon, <1>8, <1>9, <1>5, <2>1, PassedIsNew
  <2>8. /\ copies' \in CopiesType /\ copies'.network = copies.network + Cardinality(to)
        /\ copies'.since = copies.since /\ copies'.session[d] = copies.session[d] + 1
        /\ \A x \in Members \ {d} : copies'.session[x] = copies.session[x]
    <3> DEFINE s == [copies.session EXCEPT ![d] = copies.session[d] + 1]
               k == copies.network + Cardinality(to)
    <3>1. /\ s \in [Members -> Nat] /\ s[d] = copies.session[d] + 1
          /\ \A x \in Members \ {d} : s[x] = copies.session[x]
      BY SMTT(30), <1>3
    <3>2. k \in Nat
      BY SMTT(30), <1>3, <1>4
    <3> HIDE DEF s, k
    <3> QED BY Zenon, <3>1, <1>3, <3>2, <2>6 DEF k, CopiesType
  <2>9. RoutingTypeOK'
    BY SMTT(30), <1>t, <1>2, <1>3, <1>8, <2>2, <2>4, <2>5, <2>6, <2>8 DEF RoutingTypeOK
  <2>10. WindowInv'
    <3>2. \A f \in fanned' : f[2] <= key_epoch /\ f[3] <= sessions
      BY SMTT(30), <1>t, <1>3, <1>8, <2>6 DEF WindowInv
    <3>3. ASSUME NEW f \in fanned', f[2] = key_epoch, f[3] = active_keys_[f[1]]
          PROVE  /\ replay'[f[1]].epoch = f[2] /\ replay'[f[1]].session = f[3]
                 /\ Marked(replay'[f[1]], f[4])
      <4>1. f \in Members \X Nat \X (Nat \ {0}) \X (Nat \ {0})
        BY Zenon, <1>3, <1>8, <2>6
      <4>2. CASE f[1] = d
        BY Zenon, <2>6, <1>3, <4>1, <4>2, <3>3, <1>8, <1>9, <2>2
      <4>3. CASE f[1] # d
        BY Zenon, <4>1, <4>3, <2>6, <1>3, <1>8, <3>3, <1>t DEF WindowInv
      <4> QED BY Zenon, <4>2, <4>3
    <3> QED BY Zenon, <3>2, <3>3, <1>2, <1>t, <2>6, <2>7 DEF WindowInv
  <2>11. BucketInv'
    <3>2. ASSUME NEW x \in Members
          PROVE  Paid(sender_fanout_[x], copies.session[x], SenderCapacity, SenderRate, copies.since[x])'
      <4>1. CASE x = d
        BY <4>1, <1>2, <1>3, <2>4, <2>6, <2>8 DEF Paid
      <4>2. CASE x # d
        BY SMTT(30), <4>2, <1>t, <1>2, <1>3, <2>6, <2>8 DEF Paid, BucketInv
      <4> QED BY Zenon, <4>1, <4>2
    <3> QED BY Zenon, <3>2, <1>2, <2>5, <2>6, <2>8 DEF BucketInv, Paid
  <2> QED BY Zenon, <2>9, <2>10, <2>11 DEF RoutingInv
<1>11. CASE ~goes
  <2>1. /\ replay' = [replay EXCEPT ![d] = w]
        /\ fanned' = fanned /\ repeated' = repeated /\ copies' = copies
    BY Zenon, <1>1, <1>11, <1>t DEF RoutingTypeOK
  <2>2. /\ sender_fanout_' \in [Members -> BucketType] /\ network_fanout_' \in BucketType
        /\ sender_fanout_'[d] \in {sender_fanout_[d], mine} /\ network_fanout_' \in {network_fanout_, ours}
        /\ \A x \in Members \ {d} : sender_fanout_'[x] = sender_fanout_[x]
    BY Zenon, <1>1, <1>11, <1>3, <1>6, <1>7
  <2>4. WindowInv'
    <3>1. ASSUME NEW f \in fanned, f[2] = key_epoch, f[3] = active_keys_[f[1]]
          PROVE  /\ replay'[f[1]].epoch = f[2] /\ replay'[f[1]].session = f[3]
                 /\ Marked(replay'[f[1]], f[4])
      BY Zenon, <1>3, <2>1, <3>1, <1>9, <1>t DEF WindowInv
    <3> QED BY Zenon, <3>1, <2>1, <1>2, <1>t DEF WindowInv
  <2>5. BucketInv'
    BY Zenon, <1>t, <1>2, <1>7, <2>1, <2>2, <1>6 DEF Paid, BucketInv
  <2> QED BY Zenon, <2>4, <2>5, <1>t, <1>2, <1>3, <1>5, <2>1, <2>2 DEF RoutingInv, RoutingTypeOK
<1> QED BY Zenon, <1>10, <1>11

LEMMA RoutingStep == RoutingInv /\ [RoutingNext]_rtvars => RoutingInv'
<1> SUFFICES ASSUME RoutingInv, [RoutingNext]_rtvars PROVE RoutingInv'
  BY Zenon
<1>t. RoutingTypeOK /\ WindowInv /\ BucketInv
  BY Zenon DEF RoutingInv
<1>0. MaxNumber \in Nat /\ MaxTime \in Nat /\ ReplayWindow \in Nat
  BY Zenon, RoutingAssumption
<1>1. CASE tick_time
  <2>1. RoutingTypeOK'
    BY <1>1, <1>t DEF tick_time, RoutingTypeOK
  <2>3. BucketInv'
    BY SMTT(30), <1>1, <1>t DEF tick_time, BucketInv, Paid, RoutingTypeOK, BucketType, CopiesType
  <2> QED BY Zenon, <2>1, <2>3, <1>1, <1>t DEF RoutingInv, tick_time, WindowInv
<1>2. ASSUME NEW d \in Members, open_session(d) PROVE RoutingInv'
  <2>0. key_epoch' \in Nat /\ key_epoch' >= key_epoch
    BY Zenon, <1>2, <1>t, MayAdvanceIsUp DEF open_session
  <2>1. RoutingTypeOK'
    BY SMTT(30), <1>2, <1>t, <2>0 DEF open_session, RoutingTypeOK
  <2>2. WindowInv'
    BY SMTT(30), <1>t, <1>2, <2>0 DEF RoutingTypeOK, WindowInv, open_session
  <2> QED BY Zenon, <2>1, <2>2, <1>2, <1>t DEF RoutingInv, open_session, BucketInv, Paid
<1>3. ASSUME NEW d \in Members, close_session(d) PROVE RoutingInv'
  <2>0. key_epoch' \in Nat /\ key_epoch' >= key_epoch
    BY Zenon, <1>3, <1>t, MayAdvanceIsUp DEF close_session
  <2>1. NewBucket \in BucketType /\ NewBucket.initialized = FALSE /\ NoReplay \in ReplayType
    BY Zenon, <1>0 DEF NewBucket, BucketType, NoReplay, ReplayType
  <2>2. /\ copies' \in CopiesType /\ copies'.network = copies.network
        /\ copies'.session = [copies.session EXCEPT ![d] = 0]
        /\ copies'.since = [copies.since EXCEPT ![d] = time]
        /\ copies.session \in [Members -> Nat] /\ copies.since \in [Members -> Nat]
    BY Zenon, <1>3, <1>t DEF close_session, RoutingTypeOK, CopiesType
  <2>3. RoutingTypeOK'
    BY SMTT(30), <1>3, <1>t, <2>0, <2>1, <2>2 DEF close_session, RoutingTypeOK
  <2>4. WindowInv'
    BY SMTT(30), <1>t, <1>3, <2>0 DEF RoutingTypeOK, WindowInv, close_session
  <2>5. BucketInv'
    BY SMTT(30), <1>3, <1>t, <2>2, <2>1 DEF close_session, BucketInv, Paid, RoutingTypeOK
  <2> QED BY Zenon, <2>3, <2>4, <2>5 DEF RoutingInv
<1>4. ASSUME NEW d \in Members, set_management_capable(d) PROVE RoutingInv'
  BY Zenon, <1>4, <1>t DEF set_management_capable, RoutingInv, RoutingTypeOK, WindowInv, BucketInv,
     Paid
<1>5. ASSUME NEW d \in Members, NEW e \in 1 .. key_epoch, NEW p \in NoncePrefixes, NEW n \in 1 .. MaxNumber,
             route_fanout(d, e, p, n)
      PROVE  RoutingInv'
  BY SMTT(30), <1>0, <1>t, <1>5, FanoutKeeps DEF RoutingTypeOK
<1>6. CASE UNCHANGED rtvars
  BY Zenon, <1>6, <1>t DEF rtvars, RoutingInv, RoutingTypeOK, WindowInv, BucketInv, Paid
<1> QED BY Zenon, <1>1, <1>2, <1>3, <1>4, <1>5, <1>6 DEF RoutingNext

\* For every membership, policy, capacity, rate and window: a packet of a session and an
\* epoch is fanned out at most once, however it is repeated and reordered and whatever is
\* refused between.
THEOREM FannedOutOnceHolds == RoutingSpec => []FannedOutOnce
<1>1. RoutingInv => FannedOutOnce
  BY Zenon DEF RoutingInv, WindowInv, FannedOutOnce
<1> QED BY <1>1, RoutingStart, RoutingStep, PTL DEF RoutingSpec

LEMMA PaidBounds ==
    ASSUME NEW b \in BucketType, NEW paid \in Nat, NEW capacity \in Nat, NEW rate \in Nat,
           NEW since \in Nat, time \in Nat, Paid(b, paid, capacity, rate, since)
    PROVE  paid <= capacity + rate * (time - since)
<1>1. CASE b.initialized
  <2> DEFINE x == rate * (b.updated - since)
             y == (time - b.updated) * rate
             z == rate * (time - since)
  <2> HIDE DEF x, y, z
  <2> QED BY SMTT(30), EarnedMore, <1>1 DEF z, Paid, BucketType
<1>2. CASE ~b.initialized
  BY SMTT(30), <1>2, EarnedMore DEF Paid
<1> QED BY Zenon, <1>1, <1>2

\* For every capacity and rate: the copies a network receives, and the fan-outs of a
\* connection, stay within what the bucket holds and earns.
THEOREM FanoutRateHolds == RoutingSpec => []FanoutRate
<1>1. RoutingInv => FanoutRate
  <2> SUFFICES ASSUME RoutingInv PROVE FanoutRate
    BY Zenon
  <2>0. NetworkRate \in Nat /\ SenderRate \in Nat /\ NetworkCapacity \in Nat /\ SenderCapacity \in Nat
    BY Zenon, RoutingAssumption
  <2>1. /\ time \in Nat /\ network_fanout_ \in BucketType /\ sender_fanout_ \in [Members -> BucketType]
        /\ copies.network \in Nat /\ copies.session \in [Members -> Nat] /\ copies.since \in [Members -> Nat]
    BY Zenon DEF RoutingInv, RoutingTypeOK, CopiesType
  <2>2. BucketInv
    BY Zenon DEF RoutingInv
  <2>4. ASSUME NEW d \in Members
        PROVE  copies.session[d] <= SenderCapacity + SenderRate * (time - copies.since[d])
    BY Zenon, <2>0, <2>1, <2>2, PaidBounds DEF BucketInv
  <2>5. time - 0 = time
    BY SMTT(30), <2>1
  <2> QED BY Zenon, <2>4, <2>5, <2>0, <2>1, <2>2, PaidBounds DEF FanoutRate, BucketInv
<1> QED BY <1>1, RoutingStart, RoutingStep, PTL DEF RoutingSpec

-----------------------------------------------------------------------------
(* StreamDecoder: the buffer of a frame stream.                            *)

\* The unread part of the buffer holds less than the largest frame whenever bytes are about
\* to be added: decode_frame only asks for more of a frame whose size it has accepted.
DecoderInv ==
    /\ wire \in Seq(Nat) /\ bytes \in Seq(Nat) /\ buffer_ \in Seq(Nat)
    /\ read_offset_ \in Nat /\ read_offset_ <= Len(buffer_)
    /\ pc \in {"idle", "insert", "decode", "compact", "broken"}
    /\ pc \in {"idle", "insert", "compact"} => Len(buffer_) - read_offset_ < MaxFrame
    /\ pc = "decode" => Len(buffer_) - read_offset_ <= MaxFrame

\* Both ends of a cut of a sequence, as push makes them with its iterators.
LEMMA SubSeqFacts ==
    ASSUME NEW S, NEW s \in Seq(S), NEW n \in Nat, n <= Len(s)
    PROVE  /\ SubSeq(s, n + 1, Len(s)) \in Seq(S) /\ Len(SubSeq(s, n + 1, Len(s))) = Len(s) - n
           /\ SubSeq(s, 1, n) \in Seq(S) /\ Len(SubSeq(s, 1, n)) = n
BY SMTT(30)

\* What insert does to the length of the buffer.
LEMMA ConcatFacts ==
    ASSUME NEW S, NEW s \in Seq(S), NEW t \in Seq(S)
    PROVE  s \o t \in Seq(S) /\ Len(s \o t) = Len(s) + Len(t)
BY SMTT(30)

\* decode_frame asks for more only of less than a largest frame, and consumes what it has.
LEMMA DecodeBounds ==
    ASSUME NEW b \in Seq(Nat)
    PROVE  /\ decode_frame(b).status = "need_more_data" => Len(b) < MaxFrame
           /\ decode_frame(b).status = "complete" => /\ decode_frame(b).consumed \in Nat
                                                     /\ decode_frame(b).consumed <= Len(b)
BY SMTT(30), DecoderAssumption DEF decode_frame, MaxFrame, HeaderSize

\* The part of the buffer decode_frame is given.
LEMMA UnreadFacts ==
    ASSUME DecoderInv
    PROVE  Unread \in Seq(Nat) /\ Len(Unread) = Len(buffer_) - read_offset_
BY SubSeqFacts DEF DecoderInv, Unread

\* The invariant holds initially and every step of push preserves it.
THEOREM DecoderInvHolds == DecoderSpec => []DecoderInv
<1>1. DecoderInit => DecoderInv
  BY SMTT(30), DecoderAssumption DEF DecoderInit, DecoderInv, MaxFrame, HeaderSize
<1>2. DecoderInv /\ [DecoderNext]_dvars => DecoderInv'
  <2> SUFFICES ASSUME DecoderInv, [DecoderNext]_dvars PROVE DecoderInv'
    BY Zenon
  <2>u. Unread \in Seq(Nat) /\ Len(Unread) = Len(buffer_) - read_offset_
    BY Zenon, UnreadFacts
  <2>m. MaxFrame \in Nat
    BY SMTT(30), DecoderAssumption DEF MaxFrame, HeaderSize
  <2>1. CASE push
    <3>1. PICK n \in 1 .. Len(wire) : bytes' = SubSeq(wire, 1, n) /\ wire' = SubSeq(wire, n + 1, Len(wire))
      BY Zenon, <2>1 DEF push
    <3>2. bytes' \in Seq(Nat) /\ wire' \in Seq(Nat)
      BY SMTT(30), <3>1, SubSeqFacts DEF DecoderInv
    <3> QED BY Zenon, <2>1, <3>2 DEF push, DecoderInv
  <2>2. CASE push_insert
    <3> DEFINE available == MaxFrame - Len(Unread)
               n == IF available <= Len(bytes) THEN available ELSE Len(bytes)
    <3>1. pc = "insert" /\ available > 0 /\ available \in Nat
      BY SMTT(30), <2>2, <2>u, <2>m DEF push_insert, DecoderInv
    <3>2. n \in Nat /\ n <= Len(bytes) /\ n <= available
      BY <3>1 DEF DecoderInv
    <3>3. /\ SubSeq(bytes, n + 1, Len(bytes)) \in Seq(Nat) /\ SubSeq(bytes, 1, n) \in Seq(Nat)
          /\ Len(SubSeq(bytes, 1, n)) = n
      BY Zenon, <3>2, SubSeqFacts DEF DecoderInv
    <3>4. /\ pc' = IF bytes = <<>> THEN "idle" ELSE IF available = 0 THEN "oversized" ELSE "decode"
          /\ buffer_' = buffer_ \o SubSeq(bytes, 1, n)
          /\ bytes' = SubSeq(bytes, n + 1, Len(bytes))
          /\ wire' = wire /\ read_offset_' = read_offset_
      BY Zenon, <2>2 DEF push_insert
    <3>5. buffer_' \in Seq(Nat) /\ Len(buffer_') = Len(buffer_) + n /\ bytes' \in Seq(Nat)
      <4> DEFINE piece == SubSeq(bytes, 1, n)
      <4> HIDE DEF piece, n
      <4> QED BY Zenon, ConcatFacts, <3>3, <3>4 DEF DecoderInv
    <3>6. CASE bytes = <<>>
      <4> HIDE DEF n, available
      <4> QED BY SMTT(30), <3>1, <3>4, <3>5, <3>6, <2>m, <3>2 DEF DecoderInv
    <3>7. CASE bytes # <<>>
      <4>1. pc' = "decode"
        BY <3>1, <3>4, <3>7
      <4>2. Len(buffer_) + n - read_offset_ <= MaxFrame
        BY SMTT(30), <3>1, <3>2, <2>u, <2>m DEF DecoderInv
      <4> HIDE DEF n, available
      <4> QED BY SMTT(30), <3>2, <3>4, <3>5, <4>1, <4>2, <2>m DEF DecoderInv
    <3> QED BY Zenon, <3>6, <3>7
  <2>3. CASE push_decode
    <3>1. /\ decode_frame(Unread).status = "need_more_data" => Len(Unread) < MaxFrame
          /\ decode_frame(Unread).status = "complete" =>
               decode_frame(Unread).consumed \in Nat /\ decode_frame(Unread).consumed <= Len(Unread)
      BY Zenon, <2>u, DecodeBounds
    <3>2. pc = "decode" /\ UNCHANGED <<wire, bytes, buffer_>>
      BY Zenon, <2>3 DEF push_decode
    <3>3. CASE /\ read_offset_ = Len(buffer_) \/ decode_frame(Unread).status = "need_more_data"
               /\ pc' = "compact" /\ read_offset_' = read_offset_
      <4>1. CASE read_offset_ = Len(buffer_)
        BY SMTT(30), <4>1, DecoderAssumption, <3>2, <3>3 DEF DecoderInv, MaxFrame, HeaderSize
      <4>2. CASE decode_frame(Unread).status = "need_more_data"
        BY Zenon, <3>1, <4>2, <2>u, <3>2, <3>3 DEF DecoderInv
      <4> QED BY Zenon, <3>3, <4>1, <4>2
    <3>4. CASE /\ decode_frame(Unread).status = "complete" /\ pc' = pc
               /\ read_offset_' = read_offset_ + decode_frame(Unread).consumed
      <4> DEFINE c == decode_frame(Unread).consumed
      <4>1. c \in Nat /\ c <= Len(buffer_) - read_offset_
        BY Zenon, <3>1, <3>4, <2>u
      <4>2. read_offset_' = read_offset_ + c
        BY Zenon, <3>4
      <4> HIDE DEF c
      <4> QED BY SMTT(30), <3>2, <3>4, <4>1, <4>2, <2>m DEF DecoderInv
    <3>5. CASE pc' = "broken" /\ read_offset_' = read_offset_
      BY Zenon, <3>2, <3>5 DEF DecoderInv
    <3> QED BY Zenon, <2>3, <3>3, <3>4, <3>5 DEF push_decode
  <2>4. CASE push_compact
    <3>1. pc = "compact" /\ pc' = "insert" /\ UNCHANGED <<wire, bytes>>
      BY Zenon, <2>4 DEF push_compact
    <3>2. CASE buffer_' = Unread /\ read_offset_' = 0
      BY <3>1, <3>2, <2>u DEF DecoderInv
    <3>3. CASE UNCHANGED <<buffer_, read_offset_>>
      BY Zenon, <3>1, <3>3 DEF DecoderInv
    <3> QED BY Zenon, <2>4, <3>2, <3>3 DEF push_compact
  <2>5. CASE UNCHANGED dvars
    BY Zenon, <2>5 DEF dvars, DecoderInv
  <2> QED BY Zenon, <2>1, <2>2, <2>3, <2>4, <2>5 DEF DecoderNext
<1> QED BY <1>1, <1>2, PTL DEF DecoderSpec

\* The throw for a frame larger than any wire size is never reached.
THEOREM NeverOversizedHolds == DecoderSpec => []NeverOversized
<1>1. DecoderInv => NeverOversized
  BY Zenon DEF DecoderInv, NeverOversized
<1> QED BY <1>1, DecoderInvHolds, PTL
=============================================================================
