------------------------------- MODULE MCWire -------------------------------
(***************************************************************************)
(* Messages for WireFormats: of every format a few that together have each *)
(* optional part present and absent, empty and filled lists, and the       *)
(* values its checks single out.                                           *)
(***************************************************************************)
EXTENDS WireFormats

MCEnvelope(o, r) ==
    [network_id |-> 1, epoch |-> 2, owner_device_id |-> o, recipient_device_id |-> r,
     owner_encryption_public_key |-> 3, recipient_encryption_public_key |-> 4, nonce |-> 5,
     ciphertext |-> 0, tag |-> 6, signature |-> 7]
MCSummary(id, role) ==
    [network_id |-> id, owner_device_id |-> 2, role |-> role, created_at_ms |-> 33,
     member_count |-> 1, name |-> <<3, 4>>]
MCEvent(k) == [kind |-> k, network_id |-> 1, device_id |-> 2]
MCRule(d, g, a) == [first_device |-> d, first_group |-> <<>>, second_device |-> 0, second_group |-> g, allow |-> a]
MCOpen ==
    [revision |-> 40, managed |-> FALSE, topology |-> 0, hubs |-> <<>>, rules |-> <<>>, groups |-> <<>>,
     members |-> <<>>, gateways |-> <<>>, routes |-> <<>>]
MCManaged ==
    [MCOpen EXCEPT !.managed = TRUE, !.topology = 1, !.hubs = <<[device |-> 1]>>,
                   !.rules = <<MCRule(2, <<3>>, TRUE), MCRule(0, <<>>, FALSE)>>, !.groups = <<[group |-> <<3>>]>>,
                   !.members = <<[device |-> 2, role |-> 2, group |-> <<3>>], [device |-> 1, role |-> 0, group |-> <<1>>]>>,
                   !.gateways = <<[device |-> 2, approved |-> TRUE], [device |-> 3, approved |-> FALSE]>>,
                   !.routes = <<[gateway |-> 2, address |-> 512, prefix |-> 4, group |-> <<>>],
                                [gateway |-> 2, address |-> 576, prefix |-> 4, group |-> <<3>>]>>]
MCKey == [identity_public_key |-> 1, encryption_public_key |-> 0, client_nonce |-> 2, server_nonce |-> 3, signature |-> 4]
MCState(owner, peers, policy) ==
    [network_id |-> 1, revision |-> 2, subnet_address |-> 72, prefix_length |-> PrefixLength, own_address |-> 73,
     peers |-> peers, owner_device_id |-> owner, key_epoch |-> owner, policy |-> policy]
MCPeers == <<[device_id |-> 3, ipv4_address |-> 74, signed_key |-> <<>>],
             [device_id |-> 4, ipv4_address |-> 78, signed_key |-> <<MCKey>>]>>
MCAudit(k) ==
    [sequence |-> 1, timestamp_ms |-> 34, network_id |-> 0, actor |-> 3, target |-> 0, kind |-> k, result |-> 4,
     policy_revision |-> 2]
MCPacket ==
    [network_id |-> 1, destination_ipv4 |-> 80, key_epoch |-> 1, sequence |-> 35, nonce_prefix |-> 0,
     nonce_counter |-> 35, ciphertext |-> <<0, 1>>, tag |-> 2]
MCCandidate(a) == [ipv4 |-> a, port |-> 33, kind |-> 1, priority |-> 1]
MCPath(present, rtt) ==
    [kind |-> 3, lifecycle |-> 2, reason |-> 2, error |-> 0, present |-> present, rtt_us |-> rtt, sent_bytes |-> 1,
     received_bytes |-> 2, sent_packets |-> 3, received_packets |-> 0, dropped_packets |-> 0, lost |-> 0,
     retransmitted |-> 0, retransmittable |-> 0, reconnects |-> 1]
MCGame(id) ==
    [network_id |-> id, address |-> 65, subnet |-> 64, prefix_length |-> 7, online_peers |-> 1, discovery_sent |-> 0,
     discovery_received |-> 0, rate_limited |-> 0, duplicates |-> 1, invalid |-> 2, reflections |-> 0]

MCMessages(f) ==
    CASE f = "client_hello" -> {[public_key |-> 1, encryption_public_key |-> 2, client_nonce |-> 3]}
      [] f = "server_challenge" -> {[server_nonce |-> 4]}
      [] f = "client_proof" -> {[signature |-> 5, token_proof |-> 6]}
      [] f = "auth_result" -> {[accepted |-> FALSE, session_id |-> 0], [accepted |-> TRUE, session_id |-> 7]}
      [] f = "create_request" -> {[name |-> <<2>>], [name |-> <<1, 2, 3>>]}
      [] f = "list_request" -> {<<>>}
      [] f = "selection" -> {[network_id |-> 1]}
      [] f = "member" -> {[network_id |-> 1, device_id |-> 2]}
      [] f = "operation_result" ->
            {[operation |-> o, code |-> c, network_id |-> n] : o \in {1, 2, 3}, c \in {0, 1, 11}, n \in {0, 1}}
      [] f = "list_result" -> {[networks |-> <<>>], [networks |-> <<MCSummary(1, 0), MCSummary(3, 1)>>]}
      [] f = "event" -> {MCEvent(1), MCEvent(5)}
      [] f = "peer_state" -> {MCState(0, <<>>, <<>>), MCState(3, MCPeers, <<>>), MCState(3, MCPeers, <<MCManaged>>)}
      [] f = "revocation" -> {[network_id |-> 1, revision |-> 0]}
      [] f = "key_envelope" -> {MCEnvelope(1, 2)}
      [] f = "key_publish" -> {[envelopes |-> <<MCEnvelope(1, 2)>>], [envelopes |-> <<MCEnvelope(1, 2), MCEnvelope(1, 3)>>]}
      [] f = "policy" -> {MCOpen, MCManaged}
      [] f = "audit_event" -> {MCAudit(1), MCAudit(15)}
      [] f = "management_request" -> {[action |-> 2, network_id |-> 1, policy |-> MCManaged]}
      [] f = "management_result" ->
            {[action |-> 1, network_id |-> 1, code |-> 0, policy |-> MCOpen, pending_requests |-> <<[device |-> 4]>>,
              audit_events |-> <<MCAudit(3), MCAudit(2)>>, audit_write_failures |-> 0]}
      [] f = "access_request" ->
            {[action |-> a, network_id |-> 1, device_id |-> 0, text |-> <<>>, secret |-> <<2, 3>>,
              lifetime_seconds |-> 60, max_uses |-> 1, require_approval |-> r] : <<a, r>> \in {<<5, TRUE>>, <<6, TRUE>>, <<6, FALSE>>}}
      [] f = "access_result" ->
            {[action |-> 2, code |-> 0, account_id |-> 1, network_id |-> 0, text |-> <<2>>, secret |-> <<>>,
              devices |-> <<[device_id |-> 1, label |-> <<>>, revoked |-> TRUE],
                            [device_id |-> 2, label |-> <<3>>, revoked |-> FALSE]>>]}
      [] f = "offer" -> {[minimum_version |-> 1, maximum_version |-> 2, features |-> 7]}
      [] f = "selected" -> {[kind |-> 1, wire_version |-> 1, features |-> 3], [kind |-> 2, wire_version |-> 1, features |-> 0]}
      [] f = "packet" -> {MCPacket, [MCPacket EXCEPT !.destination_ipv4 = Broadcast]}
      [] f = "forwarded" -> {[sender_device_id |-> 9] @@ MCPacket}
      [] f = "candidates" ->
            {[network_id |-> 1, sender |-> 2, recipient |-> 3, sender_session |-> 4, recipient_session |-> 5,
              key_epoch |-> 1, generation |-> 1, response_to_generation |-> 0, lifetime_ms |-> 30,
              candidates |-> <<MCCandidate(40), MCCandidate(41)>>]}
      [] f = "local_message" -> {[command |-> 1, flags |-> 0, payload |-> <<>>], [command |-> 17, flags |-> 3, payload |-> <<0, 1>>]}
      [] f = "local_activity" -> {[device_id |-> 0, requests |-> <<>>], [device_id |-> 1, requests |-> <<MCEvent(2), MCEvent(1)>>]}
      [] f = "local_diagnostics" ->
            {[connected |-> r # <<>>, authenticated |-> r # <<>>, tcp_fallback |-> FALSE,
              configuration |-> IF r = <<>> THEN 2 ELSE 0, active_networks |-> Len(r), rtt_us |-> r, sent_bytes |-> 1,
              received_bytes |-> 2, reconnects |-> 0, last_error |-> <<3>>] : r \in {<<>>, <<None - 1>>, <<None>>}}
      [] f = "path_diagnostics" ->
            {[truncated |-> TRUE, relay |-> MCPath(1, 5),
              peers |-> <<[network_id |-> 1, device_id |-> 2, virtual_ipv4 |-> 66, path |-> MCPath(9, 0)]>>]}
      [] f = "game_diagnostics" ->
            {[flags |-> 2, mtu |-> 140, rejected_packets |-> 1, networks |-> <<MCGame(1), MCGame(2)>>]}
=============================================================================
