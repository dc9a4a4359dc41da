------------------------------ MODULE MCClient ------------------------------
(***************************************************************************)
(* Instances of the parts of a client that talk to the relay.  A behaviour *)
(* is of one part: "calls" and "life" are the connection (RelayClient)     *)
(* with threads that make requests on it over one round, and through       *)
(* rounds without requests; "lease" is the policy lease and "pool" the     *)
(* choice of a relay.                                                      *)
(***************************************************************************)
EXTENDS RelayClient, PolicyLease, RelayPool

CONSTANT Parts

VARIABLE part

\* Over one round of the worker: no delay, no second look at the pool.
Calls ==
    \/ /\ ClientNext
       /\ pc' \notin {"delay", "rescan"} /\ (Pooled => selected' \in {None, Min(Relays)})
       /\ pc = "idle" /\ pc' # "idle" => ~stop_requested
    \/ pc = "idle" /\ UNCHANGED clvars

Life == ClientNext /\ \A k \in Callers : caller'[k].pos = "idle"

MCInit ==
    /\ ClientInit /\ LeaseInit /\ PoolInit /\ part \in Parts
    /\ part = "pool" \/ (expires = 2 /\ nodes = [i \in Ids |-> Node(CHOOSE k \in Keys : TRUE)])

MCNext ==
    /\ UNCHANGED part
    /\ \/ part = "calls" /\ Calls /\ UNCHANGED <<lvars, pvars>>
       \/ part = "life" /\ Life /\ UNCHANGED <<lvars, pvars>>
       \/ part = "lease" /\ LeaseNext /\ UNCHANGED <<clvars, pvars>>
       \/ part = "pool" /\ PoolNext /\ UNCHANGED <<clvars, lvars>>

MCSpec == MCInit /\ [][MCNext]_<<clvars, lvars, pvars, part>>
=============================================================================
