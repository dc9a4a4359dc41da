---------------------------- MODULE MCForwarding ----------------------------
(***************************************************************************)
(* Instances of what forwards the bytes of others: the quota, the fan-out  *)
(* of packets in the relay, the decoder of frames and the encodings of     *)
(* messages.  These parts share no state, so a behaviour is about one of   *)
(* them and leaves the others in one initial state.                        *)
(***************************************************************************)
EXTENDS MCForwardingQuota, PacketRouting, FrameDelivery, MCWire

CONSTANTS m1, m2

VARIABLE part

-----------------------------------------------------------------------------
(* Fan-outs.  m1 sends.                                                    *)

Rule(allow, first, second) == [allow |-> allow, first |-> first, second |-> second]

\* Everybody reaches everybody; or m1 is the hub and the rules let it reach the group g of
\* m2, but m2 is restricted or not; or a later rule denies it.
OpenNetwork ==
    [managed |-> FALSE, hub_spoke |-> FALSE, hubs |-> {}, rules |-> <<>>,
     role |-> [d \in Members |-> "member"], group |-> [d \in Members |-> "members"]]
HubNetwork ==
    [OpenNetwork EXCEPT !.managed = TRUE, !.hub_spoke = TRUE, !.hubs = {m1},
                        !.rules = <<Rule(TRUE, m1, "g")>>, !.group[m2] = "g"]
MCPolicies ==
    {OpenNetwork, HubNetwork, [HubNetwork EXCEPT !.role[m2] = "restricted"],
     [HubNetwork EXCEPT !.rules = Append(@, Rule(FALSE, "", "g"))]}

OnlyOneSends == \A d \in Members : d # m1 => copies'.session[d] = 0

\* Numbers, prefixes, sessions and epochs come in any order; m2 stays once it is there.
ReplayStep ==
    /\ RoutingNext /\ OnlyOneSends
    /\ time' = 0
    /\ active_keys_'[m2] \in {0, 1} /\ active_keys_[m2] <= active_keys_'[m2] /\ active_keys_'[m1] # 1
    /\ policy.managed \/ m2 \notin managers'

\* Time passes; a fan-out is refused or takes the next number.
BucketStep ==
    /\ RoutingNext /\ OnlyOneSends
    /\ ~policy.managed /\ m2 \notin managers' /\ key_epoch' = 1
    /\ copies' = copies \/ copies'.since # copies.since
          \/ (replay'[m1].prefix = 1 /\ replay'[m1].highest > replay[m1].highest)

-----------------------------------------------------------------------------
(* Frames: up to three, of every size; a malformed one is the last or is  *)
(* followed by one frame.                                                  *)

Written(type, body) == [type |-> type, size |-> Len(body), payload |-> body]

MCFrames ==
    {Written(1, <<>>), Written(2, <<1, 2>>), Written(1, <<3, 1, 2>>),
     Written(9, <<1>>), Written(1, <<0, 0, 0, 0>>)}

MCSendings ==
    {s \in UNION {[1 .. k -> MCFrames] : k \in 0 .. 3} :
        \A i \in DOMAIN s : ~WellFormedFrame(s[i]) => i >= Len(s) - 1}

-----------------------------------------------------------------------------
MCInit ==
    /\ part \in {"quota", "replay", "bucket", "decoder", "wire"}
    /\ QuotaInit /\ RoutingInit /\ DecoderInit /\ WireInit
    /\ part # "replay" => policy = OpenNetwork
    /\ part # "decoder" => sent = <<>>
    /\ part # "wire" => format = "list_request"

MCNext ==
    /\ UNCHANGED part
    /\ \/ part = "quota" /\ QuotaNext /\ UNCHANGED <<rtvars, dvars, wvars>>
       \/ part = "replay" /\ ReplayStep /\ UNCHANGED <<qvars, dvars, wvars>>
       \/ part = "bucket" /\ BucketStep /\ UNCHANGED <<qvars, dvars, wvars>>
       \/ part = "decoder" /\ DecoderNext /\ UNCHANGED <<qvars, rtvars, wvars>>
       \/ part = "wire" /\ WireNext /\ UNCHANGED <<qvars, rtvars, dvars>>

MCSpec == MCInit /\ [][MCNext]_<<part, qvars, rtvars, dvars, wvars>>
=============================================================================
