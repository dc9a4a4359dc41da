----------------------------- MODULE MCProgress -----------------------------
(***************************************************************************)
(* Instances for the promises of a client that need fairness.  A behaviour *)
(* is one of the connection of a client (RelayClient, without requests),   *)
(* of the distribution of network keys (KeyDistribution) or of the service *)
(* that runs a client (ClientService).                                     *)
(***************************************************************************)
EXTENDS RelayClient, KeyDistribution, ClientService

CONSTANT o

VARIABLE part

\* A service that was stopped while it waited for a server.
RunOver ==
    /\ windows = FALSE
    /\ conf = [valid |-> TRUE, selected |-> FALSE, stamp |-> 0] /\ token_file = [ok |-> TRUE, stamp |-> 0]
    /\ at = "returned" /\ config = Loaded
    /\ original = 0 /\ token_stamp = 0 /\ credential_error = FALSE
    /\ stopping = TRUE /\ pipe = FALSE /\ adapter = FALSE
    /\ reported = "stopped" /\ control = FALSE

MCInit ==
    /\ ClientInit /\ KeyInit /\ part \in {"connection", "keys", "service"}
    /\ part # "keys" => members = Device
    /\ IF part = "service" THEN RunInit ELSE RunOver

MCNext ==
    /\ UNCHANGED part
    /\ \/ part = "connection" /\ ClientNext /\ UNCHANGED <<kvars, svcvars>>
       \/ part = "keys" /\ KeyNext /\ UNCHANGED <<clvars, svcvars>>
       \/ part = "service" /\ RunNext /\ UNCHANGED <<clvars, kvars>>

\* In the parts a behaviour is not about, the fair actions are not enabled.
MCSpec == MCInit /\ [][MCNext]_<<clvars, kvars, svcvars, part>> /\ ClientFairness /\ Fairness /\ RunFairness
=============================================================================
