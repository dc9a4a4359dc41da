---------------------------- MODULE WireFormats ----------------------------
(***************************************************************************)
(* The payloads of frames, of datagrams and of the local control pipe:     *)
(* src/src/protocol/{network_messages,packet_messages,network_policy,      *)
(* network_management,user_access,audit_event,capabilities,local_control}, *)
(* src/src/auth/handshake, src/src/p2p/candidates and the reader and       *)
(* writer they use.                                                        *)
(*                                                                         *)
(* A payload is a sequence of bytes 0..Base-1.  A field keeps its place,   *)
(* its kind and its checks; widths are scaled down: an identifier, key,    *)
(* nonce or tag is one byte (0 is the zero array), an integer of more than *)
(* one byte is two, whose order no property tells apart (the local pipe    *)
(* has the other one).  A name or text is a sequence of characters of      *)
(* which 0 is one that is not allowed.  Encoders and decoders are          *)
(* transcribed separately, each from its own function.                     *)
(*                                                                         *)
(* A behaviour encodes a message and then damages the payload, as a peer   *)
(* of another version or a faulty one would: the relay and the clients     *)
(* decode whatever bytes arrive.                                           *)
(***************************************************************************)
EXTENDS Integers, Sequences, FiniteSets, SequencesExt, FiniteSetsExt, TLC

CONSTANTS
    Base,           \* values of a byte
    MaxList,        \* most entries of a list (1024, 253, 64, 32, 16 or 8 in the code)
    MaxText,        \* most characters of a text (512, 256, 128 or 32)
    Damages,        \* bytes a damaged byte may become
    MaxDamage,      \* damages of one payload
    Messages(_)     \* the messages of a format that are tried

VARIABLES format, message, payload, damage

wvars == <<format, message, payload, damage>>

-----------------------------------------------------------------------------
(* Kinds of fields.                                                        *)

number(n, w) == [kind |-> "int", name |-> n, width |-> w]
u8(n) == number(n, 1)
u16(n) == number(n, 2)
u32(n) == number(n, 2)
u64(n) == number(n, 2)
arr(n) == number(n, 1)
\* A byte with one legal value: a version or a magic.
const(v) == [kind |-> "const", value |-> v]
\* A byte 0 or 1.
flag(n) == [kind |-> "flag", name |-> n]
\* A size and that many characters; texts are checked for length by the reader.
text(n, w) == [kind |-> "text", name |-> n, width |-> w]
\* A count and that many entries.
list(n, w, item) == [kind |-> "list", name |-> n, width |-> w, item |-> item]
\* The count alone, and the entries without it.
count(n, w) == [kind |-> "count", name |-> n, width |-> w]
counted(n, item) == [kind |-> "counted", name |-> n, item |-> item]
\* One entry in place.
record(n, item) == [kind |-> "record", name |-> n, item |-> item]
\* A byte 0 or 1 and the entry if it is 1.
opt(n, item) == [kind |-> "opt", name |-> n, item |-> item]
\* Present when bytes are left.
rest(n, item) == [kind |-> "rest", name |-> n, item |-> item]
\* Present when field k is at least v.
from(k, v, field) == [kind |-> "from", name |-> k, least |-> v, field |-> field]
\* A size and the bytes of one entry, decoded on their own.
blob(n, item) == [kind |-> "blob", name |-> n, item |-> item]
\* An integer whose largest value stands for "none".
maybe(n) == [kind |-> "maybe", name |-> n]

None == Base * Base - 1

\* append_integer and BinaryWriter::put: most significant byte first.
put(v, w) == IF w = 1 THEN <<v>> ELSE <<v \div Base, v % Base>>
get(bytes, w) == IF w = 1 THEN bytes[1] ELSE bytes[1] * Base + bytes[2]

RECURSIVE write(_, _)
\* What a writer appends for the fields of a layout.
write(layout, m) ==
    FlattenSeq([i \in DOMAIN layout |->
        LET f == layout[i] IN
        CASE f.kind = "int" -> put(m[f.name], f.width)
          [] f.kind = "const" -> <<f.value>>
          [] f.kind = "flag" -> <<IF m[f.name] THEN 1 ELSE 0>>
          [] f.kind = "text" -> put(Len(m[f.name]), f.width) \o m[f.name]
          [] f.kind = "count" -> put(Len(m[f.name]), f.width)
          [] f.kind = "record" -> write(f.item, m[f.name])
          [] f.kind = "list" -> put(Len(m[f.name]), f.width) \o
                                FlattenSeq([j \in DOMAIN m[f.name] |-> write(f.item, m[f.name][j])])
          [] f.kind = "opt" -> <<Len(m[f.name])>> \o
                               FlattenSeq([j \in DOMAIN m[f.name] |-> write(f.item, m[f.name][j])])
          [] f.kind \in {"rest", "counted"} -> FlattenSeq([j \in DOMAIN m[f.name] |-> write(f.item, m[f.name][j])])
          [] f.kind = "from" -> IF m[f.name] >= f.least THEN write(<<f.field>>, m) ELSE <<>>
          [] f.kind = "blob" -> LET bytes == write(f.item, m[f.name]) IN put(Len(bytes), 2) \o bytes
          [] f.kind = "maybe" -> put(IF m[f.name] = <<>> THEN None ELSE m[f.name][1], 2)])

\* What a reader has: the fields so far and the bytes left; not ok after a throw.
Failed == [ok |-> FALSE, m |-> <<>>, left |-> <<>>]
Read(m, left) == [ok |-> TRUE, m |-> m, left |-> left]
Got(m, n, v, left) == Read((n :> v) @@ m, left)

RECURSIVE read(_, _, _), entries(_, _, _)

\* n entries of a list, one after the other.
entries(item, n, left) ==
    IF n = 0 THEN Read(<<>>, left)
    ELSE LET one == read(item, <<>>, left) IN
         IF ~one.ok THEN Failed
         ELSE LET more == entries(item, n - 1, one.left) IN
              IF ~more.ok THEN Failed ELSE Read(<<one.m>> \o more.m, more.left)

\* One field; a reader that is asked for more bytes than are left throws.
field(f, m, left) ==
    LET need == CASE f.kind \in {"int", "text", "list", "count"} -> f.width
                  [] f.kind \in {"const", "flag", "opt"} -> 1
                  [] f.kind \in {"maybe", "blob"} -> 2
                  [] OTHER -> 0
        after == SubSeq(left, need + 1, Len(left))
        size == IF need = 0 THEN 0 ELSE get(left, need)
        Entries(n) == LET e == entries(f.item, n, after) IN
                          IF ~e.ok THEN Failed ELSE Got(m, f.name, e.m, e.left)
    IN IF need > Len(left) THEN Failed
       ELSE CASE f.kind = "int" -> Got(m, f.name, size, after)
              [] f.kind = "const" -> IF size = f.value THEN Read(m, after) ELSE Failed
              [] f.kind = "flag" -> IF size <= 1 THEN Got(m, f.name, size = 1, after) ELSE Failed
              [] f.kind = "text" -> IF size <= Len(after)
                                    THEN Got(m, f.name, SubSeq(after, 1, size),
                                             SubSeq(after, size + 1, Len(after))) ELSE Failed
              [] f.kind = "count" -> IF size <= MaxList THEN Got(m, f.name, size, after) ELSE Failed
              [] f.kind = "counted" -> Entries(m[f.name])
              [] f.kind = "record" -> LET r == read(f.item, <<>>, left) IN
                                      IF ~r.ok THEN Failed ELSE Got(m, f.name, r.m, r.left)
              [] f.kind = "list" -> IF size <= MaxList THEN Entries(size) ELSE Failed
              [] f.kind = "opt" -> IF size <= 1 THEN Entries(size) ELSE Failed
              [] f.kind = "rest" -> Entries(IF left = <<>> THEN 0 ELSE 1)
              [] f.kind = "from" -> IF m[f.name] >= f.least THEN read(<<f.field>>, m, left)
                                    ELSE Got(m, f.field.name, FALSE, left)
              [] f.kind = "blob" -> LET r == read(f.item, <<>>, SubSeq(after, 1, size)) IN
                                    IF size <= Len(after) /\ r.ok /\ r.left = <<>>
                                    THEN Got(m, f.name, r.m, SubSeq(after, size + 1, Len(after)))
                                    ELSE Failed
              [] f.kind = "maybe" -> Got(m, f.name, IF size = None THEN <<>> ELSE <<size>>, after)

\* The fields of a layout, in order.
read(layout, m, left) ==
    IF layout = <<>> THEN Read(m, left)
    ELSE LET r == field(Head(layout), m, left) IN
         IF ~r.ok THEN Failed ELSE read(Tail(layout), r.m, r.left)

\* Mutation of read_all: what follows the last field is ignored.
read_all_lax(layout, bytes) == LET r == read(layout, <<>>, bytes) IN IF r.ok THEN {r.m} ELSE {}

\* A decoder reads its fields and requires that nothing is left (require_finished, finish,
\* or a check of the exact size beforehand).  The message, or nothing when it throws.
read_all(layout, bytes) ==
    LET r == read(layout, <<>>, bytes) IN IF r.ok /\ r.left = <<>> THEN {r.m} ELSE {}

-----------------------------------------------------------------------------
(* The handshake: handshake.cpp.                                           *)

encode_client_hello == <<arr("public_key"), arr("encryption_public_key"), arr("client_nonce")>>
decode_client_hello == <<arr("public_key"), arr("encryption_public_key"), arr("client_nonce")>>

encode_server_challenge == <<arr("server_nonce")>>
decode_server_challenge == <<arr("server_nonce")>>

encode_client_proof == <<arr("signature"), arr("token_proof")>>
decode_client_proof == <<arr("signature"), arr("token_proof")>>

encode_auth_result == <<flag("accepted"), arr("session_id")>>
decode_auth_result == <<flag("accepted"), arr("session_id")>>

(* Networks: network_messages.cpp.                                         *)

encode_network_create_request == <<text("name", 2)>>
decode_network_create_request == <<text("name", 2)>>

encode_network_list_request == <<>>
decode_network_list_request == <<>>

encode_network_selection_request == <<arr("network_id")>>
decode_network_selection_request == <<arr("network_id")>>

encode_network_member_request == <<arr("network_id"), arr("device_id")>>
decode_network_member_request == <<arr("network_id"), arr("device_id")>>

encode_network_operation_result == <<u8("operation"), u16("code"), arr("network_id")>>
decode_network_operation_result == <<u8("operation"), u16("code"), arr("network_id")>>

append_summary ==
    <<arr("network_id"), arr("owner_device_id"), u8("role"), u64("created_at_ms"),
      u32("member_count"), text("name", 2)>>
read_summary ==
    <<arr("network_id"), arr("owner_device_id"), u8("role"), u64("created_at_ms"),
      u32("member_count"), text("name", 2)>>
encode_network_list_result == <<list("networks", 2, append_summary)>>
decode_network_list_result == <<list("networks", 2, read_summary)>>

encode_network_event == <<u8("kind"), arr("network_id"), arr("device_id")>>
decode_network_event == <<u8("kind"), arr("network_id"), arr("device_id")>>

encode_network_peer_revocation == <<arr("network_id"), u64("revision")>>
decode_network_peer_revocation == <<arr("network_id"), u64("revision")>>

encode_network_key_envelope ==
    <<arr("network_id"), u64("epoch"), arr("owner_device_id"), arr("recipient_device_id"),
      arr("owner_encryption_public_key"), arr("recipient_encryption_public_key"),
      arr("nonce"), arr("ciphertext"), arr("tag"), arr("signature")>>
decode_network_key_envelope ==
    <<arr("network_id"), u64("epoch"), arr("owner_device_id"), arr("recipient_device_id"),
      arr("owner_encryption_public_key"), arr("recipient_encryption_public_key"),
      arr("nonce"), arr("ciphertext"), arr("tag"), arr("signature")>>
encode_network_key_publish_request == <<list("envelopes", 2, encode_network_key_envelope)>>
decode_network_key_publish_request == <<list("envelopes", 2, decode_network_key_envelope)>>

(* The policy: network_policy.cpp, the extension of a peer state and the   *)
(* body of a management message.                                           *)

encode_subject(n) == <<arr(n \o "_device"), text(n \o "_group", 1)>>
decode_subject(n) == <<arr(n \o "_device"), text(n \o "_group", 1)>>

encode_network_policy ==
    <<const(1), u64("revision"), flag("managed"), u8("topology"), list("hubs", 1, <<arr("device")>>),
      list("rules", 1, encode_subject("first") \o encode_subject("second") \o <<flag("allow")>>),
      list("groups", 1, <<text("group", 1)>>),
      list("members", 2, <<arr("device"), u8("role"), text("group", 1)>>),
      list("gateways", 1, <<arr("device"), flag("approved")>>),
      list("routes", 1, <<arr("gateway"), u32("address"), u8("prefix"), text("group", 1)>>)>>
decode_network_policy ==
    <<const(1), u64("revision"), flag("managed"), u8("topology"), list("hubs", 1, <<arr("device")>>),
      list("rules", 1, decode_subject("first") \o decode_subject("second") \o <<flag("allow")>>),
      list("groups", 1, <<text("group", 1)>>),
      list("members", 2, <<arr("device"), u8("role"), text("group", 1)>>),
      list("gateways", 1, <<arr("device"), flag("approved")>>),
      list("routes", 1, <<arr("gateway"), u32("address"), u8("prefix"), text("group", 1)>>)>>

encode_signed_key ==
    <<arr("identity_public_key"), arr("encryption_public_key"), arr("client_nonce"),
      arr("server_nonce"), arr("signature")>>
decode_signed_key ==
    <<arr("identity_public_key"), arr("encryption_public_key"), arr("client_nonce"),
      arr("server_nonce"), arr("signature")>>
encode_network_peer_state ==
    <<arr("network_id"), u64("revision"), u32("subnet_address"), u8("prefix_length"), u32("own_address"),
      list("peers", 2, <<arr("device_id"), u32("ipv4_address"), opt("signed_key", encode_signed_key)>>),
      arr("owner_device_id"), u64("key_epoch"), rest("policy", encode_network_policy)>>
decode_network_peer_state ==
    <<arr("network_id"), u64("revision"), u32("subnet_address"), u8("prefix_length"), u32("own_address"),
      list("peers", 2, <<arr("device_id"), u32("ipv4_address"), opt("signed_key", decode_signed_key)>>),
      arr("owner_device_id"), u64("key_epoch"), rest("policy", decode_network_policy)>>

(* Management, accounts and the audit log.                                 *)

encode_audit_event ==
    <<u64("sequence"), u64("timestamp_ms"), arr("network_id"), arr("actor"), arr("target"),
      u8("kind"), u16("result"), u64("policy_revision")>>
decode_audit_event ==
    <<u64("sequence"), u64("timestamp_ms"), arr("network_id"), arr("actor"), arr("target"),
      u8("kind"), u16("result"), u64("policy_revision")>>

encode_management_request ==
    <<const(1), u8("action"), arr("network_id"), blob("policy", encode_network_policy)>>
decode_management_request ==
    <<const(1), u8("action"), arr("network_id"), blob("policy", decode_network_policy)>>
encode_management_result ==
    <<const(1), u8("action"), arr("network_id"), u16("code"), blob("policy", encode_network_policy),
      list("pending_requests", 2, <<arr("device")>>), list("audit_events", 1, encode_audit_event),
      u64("audit_write_failures")>>
decode_management_result ==
    <<const(1), u8("action"), arr("network_id"), u16("code"), blob("policy", decode_network_policy),
      list("pending_requests", 2, <<arr("device")>>), list("audit_events", 1, decode_audit_event),
      u64("audit_write_failures")>>

password_set == 6
\* The approval flag follows only for the actions from password_set on.
encode_access_request ==
    <<const(1), u8("action"), arr("network_id"), arr("device_id"), text("text", 2), text("secret", 2),
      u32("lifetime_seconds"), u16("max_uses"), from("action", password_set, flag("require_approval"))>>
decode_access_request ==
    <<const(1), u8("action"), arr("network_id"), arr("device_id"), text("text", 2), text("secret", 2),
      u32("lifetime_seconds"), u16("max_uses"), from("action", password_set, flag("require_approval"))>>
encode_access_result ==
    <<const(1), u8("action"), u16("code"), arr("account_id"), arr("network_id"), text("text", 2),
      text("secret", 2), list("devices", 1, <<arr("device_id"), text("label", 2), flag("revoked")>>)>>
decode_access_result ==
    <<const(1), u8("action"), u16("code"), arr("account_id"), arr("network_id"), text("text", 2),
      text("secret", 2), list("devices", 1, <<arr("device_id"), text("label", 2), flag("revoked")>>)>>

(* Capabilities, packets, peer candidates.                                 *)

encode_capability_offer ==
    <<const(4), const(1), const(0), u16("minimum_version"), u16("maximum_version"), u64("features")>>
decode_capability_offer ==
    <<const(4), const(1), const(0), u16("minimum_version"), u16("maximum_version"), u64("features")>>
\* kind is 2 for a legacy peer and 1 otherwise.
encode_capability_selection ==
    <<const(4), const(1), u8("kind"), u16("wire_version"), u64("features")>>
decode_capability_selection ==
    <<const(4), const(1), u8("kind"), u16("wire_version"), u64("features")>>

\* The last four bytes of the nonce are the counter; the size of the ciphertext ends the header.
encode_encrypted_network_packet ==
    <<arr("network_id"), u32("destination_ipv4"), u64("key_epoch"), u32("sequence"),
      arr("nonce_prefix"), u32("nonce_counter"), text("ciphertext", 2), arr("tag")>>
decode_encrypted_network_packet ==
    <<arr("network_id"), u32("destination_ipv4"), u64("key_epoch"), u32("sequence"),
      arr("nonce_prefix"), u32("nonce_counter"), text("ciphertext", 2), arr("tag")>>
encode_forwarded_network_packet == <<arr("sender_device_id")>> \o encode_encrypted_network_packet
decode_forwarded_network_packet == <<arr("sender_device_id")>> \o decode_encrypted_network_packet

encode_candidates ==
    <<const(2), arr("network_id"), arr("sender"), arr("recipient"), arr("sender_session"),
      arr("recipient_session"), u64("key_epoch"), u64("generation"), u64("response_to_generation"),
      u32("lifetime_ms"), list("candidates", 1, <<u32("ipv4"), u16("port"), u8("kind"), u32("priority")>>)>>
decode_candidates ==
    <<const(2), arr("network_id"), arr("sender"), arr("recipient"), arr("sender_session"),
      arr("recipient_session"), u64("key_epoch"), u64("generation"), u64("response_to_generation"),
      u32("lifetime_ms"), list("candidates", 1, <<u32("ipv4"), u16("port"), u8("kind"), u32("priority")>>)>>

(* The local control pipe.                                                 *)

\* flags: 1 response, 2 error.
encode_local_message == <<const(3), const(1), u8("command"), u8("flags"), const(0), text("payload", 2)>>
decode_local_message == <<const(3), const(1), u8("command"), u8("flags"), const(0), text("payload", 2)>>
encode_local_activity == <<arr("device_id"), list("requests", 1, encode_network_event)>>
decode_local_activity == <<arr("device_id"), list("requests", 1, decode_network_event)>>
encode_local_diagnostics ==
    <<flag("connected"), flag("authenticated"), flag("tcp_fallback"), u8("configuration"),
      u32("active_networks"), maybe("rtt_us"), u64("sent_bytes"), u64("received_bytes"),
      u32("reconnects"), text("last_error", 2)>>
decode_local_diagnostics ==
    <<flag("connected"), flag("authenticated"), flag("tcp_fallback"), u8("configuration"),
      u32("active_networks"), maybe("rtt_us"), u64("sent_bytes"), u64("received_bytes"),
      u32("reconnects"), text("last_error", 2)>>

\* present has a bit for each of the optional values rtt_us (1), lost (2), retransmitted (4)
\* and retransmittable (8); an absent value is written as 0.
write_path ==
    <<u8("kind"), u8("lifecycle"), u8("reason"), u8("error"), u8("present"), u32("rtt_us"),
      u64("sent_bytes"), u64("received_bytes"), u64("sent_packets"), u64("received_packets"),
      u64("dropped_packets"), u64("lost"), u64("retransmitted"), u64("retransmittable"), u32("reconnects")>>
read_path ==
    <<u8("kind"), u8("lifecycle"), u8("reason"), u8("error"), u8("present"), u32("rtt_us"),
      u64("sent_bytes"), u64("received_bytes"), u64("sent_packets"), u64("received_packets"),
      u64("dropped_packets"), u64("lost"), u64("retransmitted"), u64("retransmittable"), u32("reconnects")>>
encode_path_diagnostics ==
    <<const(5), const(1), flag("truncated"), count("peers", 2), record("relay", write_path),
      counted("peers", <<arr("network_id"), arr("device_id"), u32("virtual_ipv4"),
                         record("path", write_path)>>)>>
decode_path_diagnostics ==
    <<const(5), const(1), flag("truncated"), count("peers", 2), record("relay", read_path),
      counted("peers", <<arr("network_id"), arr("device_id"), u32("virtual_ipv4"),
                         record("path", read_path)>>)>>

\* flags: 1 adapter failed, 2 truncated.
encode_game_diagnostics ==
    <<const(6), const(1), u8("flags"), u16("mtu"), u64("rejected_packets"),
      list("networks", 2, <<arr("network_id"), u32("address"), u32("subnet"), u8("prefix_length"),
          u32("online_peers"), u64("discovery_sent"), u64("discovery_received"), u64("rate_limited"),
          u64("duplicates"), u64("invalid"), u64("reflections")>>)>>
decode_game_diagnostics ==
    <<const(6), const(1), u8("flags"), u16("mtu"), u64("rejected_packets"),
      list("networks", 2, <<arr("network_id"), u32("address"), u32("subnet"), u8("prefix_length"),
          u32("online_peers"), u64("discovery_sent"), u64("discovery_received"), u64("rate_limited"),
          u64("duplicates"), u64("invalid"), u64("reflections")>>)>>

-----------------------------------------------------------------------------
(* What an encoder requires of a message, and a decoder of what it read.   *)

Distinct(s, n) == \A i, j \in DOMAIN s : s[i][n] = s[j][n] => i = j
Text(t) == Len(t) <= MaxText /\ 0 \notin Range(t)
int64_max == (Base * Base) \div 2 - 1
Codes == 0 .. 11
pending_approval == 1
Operations == 1 .. 9
create == 1
list_networks == 2
join == 3

valid_network_name(name) == name # <<>> /\ Text(name)

validate_result(r) ==
    /\ r.operation \in Operations /\ r.code \in Codes
    /\ r.code = pending_approval => r.operation = join
    /\ IF r.operation = list_networks \/ (r.operation = create /\ r.code # 0)
       THEN r.network_id = 0 ELSE r.network_id # 0

validate_summary(s) ==
    /\ s.network_id # 0 /\ s.owner_device_id # 0 /\ s.role \in 0 .. 1
    /\ s.created_at_ms <= int64_max /\ s.member_count > 0 /\ valid_network_name(s.name)

valid_event(e) == e.kind \in 1 .. 5 /\ e.network_id # 0 /\ e.device_id # 0

valid_envelope(e) ==
    /\ 0 \notin {e.network_id, e.epoch, e.owner_device_id, e.recipient_device_id,
                 e.owner_encryption_public_key, e.recipient_encryption_public_key}
    /\ e.owner_device_id # e.recipient_device_id

\* The pool of subnets (100.64.0.0/10 of /24 networks in the code).
PoolFirst == 64
PoolEnd == 128
SubnetSize == 8
PrefixLength == 24
valid_peer_state(s) ==
    LET InSubnet(a) == s.subnet_address < a /\ a < s.subnet_address + SubnetSize - 1 IN
    /\ s.network_id # 0 /\ s.prefix_length = PrefixLength
    /\ (s.owner_device_id = 0) <=> (s.key_epoch = 0)
    /\ PoolFirst <= s.subnet_address /\ s.subnet_address < PoolEnd /\ s.subnet_address % SubnetSize = 0
    /\ InSubnet(s.own_address)
    /\ \A i \in DOMAIN s.peers : /\ s.peers[i].device_id # 0 /\ InSubnet(s.peers[i].ipv4_address)
                                 /\ s.peers[i].ipv4_address # s.own_address
    /\ Distinct(s.peers, "device_id") /\ Distinct(s.peers, "ipv4_address")

\* Addresses of AddressBits bits; the routable block stands for the three private ones.
AddressBits == 10
block(address, prefix) == address \div 2 ^ (AddressBits - prefix)
subnets_overlap(a, ap, b, bp) == LET p == Min({ap, bp}) IN block(a, p) = block(b, p)
PrivatePrefix == 2
Private == 512
private_routed_subnet(a, p) ==
    /\ PrivatePrefix <= p /\ p <= AddressBits - 2
    /\ a % 2 ^ (AddressBits - p) = 0 /\ block(a, PrivatePrefix) = block(Private, PrivatePrefix)

\* "members", the group every policy knows.
members_group == <<1>>
\* A character of a group's name is a letter, a digit, _ or -.
valid_policy(p) ==
    LET groups == {p.groups[i].group : i \in DOMAIN p.groups} \union {members_group}
        Known(g) == g = <<>> \/ g \in groups
        Subject(r, n) == (r[n \o "_device"] = 0 \/ r[n \o "_group"] = <<>>) /\ Known(r[n \o "_group"])
        IsApproved(d) == \E i \in DOMAIN p.gateways : p.gateways[i].device = d /\ p.gateways[i].approved
    IN /\ p.topology \in 0 .. 1
       /\ ~p.managed => /\ p.topology = 0
                        /\ \A l \in {"hubs", "rules", "groups", "members", "gateways", "routes"} : p[l] = <<>>
       /\ \A i \in DOMAIN p.hubs : p.hubs[i].device # 0
       /\ \A i \in DOMAIN p.rules : Subject(p.rules[i], "first") /\ Subject(p.rules[i], "second")
       /\ \A i \in DOMAIN p.groups : /\ Text(p.groups[i].group)
                                     /\ p.groups[i].group \notin {<<>>, members_group}
       /\ \A i \in DOMAIN p.members : /\ p.members[i].device # 0 /\ p.members[i].role \in 0 .. 2
                                      /\ p.members[i].group \in groups
       /\ \A i \in DOMAIN p.gateways : p.gateways[i].device # 0
       /\ Distinct(p.hubs, "device") /\ Distinct(p.groups, "group")
       /\ Distinct(p.members, "device") /\ Distinct(p.gateways, "device")
       /\ \A i \in DOMAIN p.routes :
             LET r == p.routes[i] IN
             /\ private_routed_subnet(r.address, r.prefix) /\ Known(r.group) /\ IsApproved(r.gateway)
             /\ \A j \in 1 .. i - 1 :
                   ~subnets_overlap(r.address, r.prefix, p.routes[j].address, p.routes[j].prefix)

valid_audit_event(e) ==
    /\ e.actor # 0 /\ e.kind \in 1 .. 15 /\ e.result \in Codes
    /\ e.timestamp_ms <= int64_max /\ e.policy_revision <= int64_max

valid_management(q) == q.action \in 1 .. 3 /\ q.network_id # 0 /\ valid_policy(q.policy)

valid_access(x) == x.action \in 1 .. 11 /\ Text(x.text) /\ Text(x.secret)

\* 224.0.0.0 and 240.0.0.0; of the addresses from the latter only the limited broadcast is used.
ClassD == (Base * Base * 14) \div 16
ClassE == (Base * Base * 15) \div 16
Broadcast == Base * Base - 1
MinPacket == 1
valid_packet(p) ==
    /\ 0 \notin {p.network_id, p.destination_ipv4, p.key_epoch, p.sequence}
    /\ p.destination_ipv4 < ClassE \/ p.destination_ipv4 = Broadcast
    /\ Len(p.ciphertext) \in MinPacket .. MaxText
    /\ p.nonce_counter = p.sequence

MinLifetime == 2
MaxLifetime == 30
\* The first byte of the link-local addresses.
LinkLocal == 7
usable_endpoint(ipv4, port) ==
    port # 0 /\ Base <= ipv4 /\ ipv4 < ClassD /\ ipv4 \div Base # LinkLocal
valid_candidates(v) ==
    /\ 0 \notin {v.network_id, v.sender, v.recipient, v.sender_session, v.recipient_session,
                 v.key_epoch, v.generation}
    /\ v.sender # v.recipient /\ v.lifetime_ms \in MinLifetime .. MaxLifetime
    /\ v.candidates # <<>>
    /\ \A i \in DOMAIN v.candidates :
          LET c == v.candidates[i] IN
          /\ usable_endpoint(c.ipv4, c.port) /\ c.priority # 0 /\ c.kind \in 1 .. 2
          /\ \A j \in 1 .. i - 1 : <<c.ipv4, c.port>> # <<v.candidates[j].ipv4, v.candidates[j].port>>

valid_diagnostics(d) ==
    /\ Len(d.last_error) <= MaxText /\ d.configuration \in 0 .. 2
    /\ d.configuration # 0 => ~(d.connected \/ d.authenticated \/ d.tcp_fallback) /\ d.active_networks = 0

Bit(n, k) == (n \div 2 ^ k) % 2 = 1
valid_path(p) ==
    /\ p.kind \in 0 .. 3 /\ p.lifecycle \in 0 .. 3 /\ p.reason \in 0 .. 8 /\ p.error \in 0 .. 8
    /\ p.present < 16
    /\ ~Bit(p.present, 0) => p.rtt_us = 0
    /\ ~Bit(p.present, 1) => p.lost = 0
    /\ ~Bit(p.present, 2) => p.retransmitted = 0
    /\ ~Bit(p.present, 3) => p.retransmittable = 0

MinMtu == 57
MaxMtu == 900
valid_game(g) ==
    /\ g.flags <= 3 /\ g.mtu \in MinMtu .. MaxMtu
    /\ Distinct(g.networks, "network_id")
    /\ \A i \in DOMAIN g.networks :
          LET n == g.networks[i] IN
          /\ n.network_id # 0 /\ 1 <= n.prefix_length /\ n.prefix_length <= AddressBits - 2
          /\ n.subnet % 2 ^ (AddressBits - n.prefix_length) = 0
          /\ block(n.address, n.prefix_length) = block(n.subnet, n.prefix_length)
          /\ n.subnet < n.address /\ n.address < ClassD
          /\ n.address < n.subnet + 2 ^ (AddressBits - n.prefix_length) - 1

-----------------------------------------------------------------------------
(* The formats: encoder, decoder and check of each.                        *)

Format(enc, dec) == [encode |-> enc, decode |-> dec]

Formats ==
    [client_hello |-> Format(encode_client_hello, decode_client_hello),
     server_challenge |-> Format(encode_server_challenge, decode_server_challenge),
     client_proof |-> Format(encode_client_proof, decode_client_proof),
     auth_result |-> Format(encode_auth_result, decode_auth_result),
     create_request |-> Format(encode_network_create_request, decode_network_create_request),
     list_request |-> Format(encode_network_list_request, decode_network_list_request),
     selection |-> Format(encode_network_selection_request, decode_network_selection_request),
     member |-> Format(encode_network_member_request, decode_network_member_request),
     operation_result |-> Format(encode_network_operation_result, decode_network_operation_result),
     list_result |-> Format(encode_network_list_result, decode_network_list_result),
     event |-> Format(encode_network_event, decode_network_event),
     peer_state |-> Format(encode_network_peer_state, decode_network_peer_state),
     revocation |-> Format(encode_network_peer_revocation, decode_network_peer_revocation),
     key_envelope |-> Format(encode_network_key_envelope, decode_network_key_envelope),
     key_publish |-> Format(encode_network_key_publish_request, decode_network_key_publish_request),
     policy |-> Format(encode_network_policy, decode_network_policy),
     audit_event |-> Format(encode_audit_event, decode_audit_event),
     management_request |-> Format(encode_management_request, decode_management_request),
     management_result |-> Format(encode_management_result, decode_management_result),
     access_request |-> Format(encode_access_request, decode_access_request),
     access_result |-> Format(encode_access_result, decode_access_result),
     offer |-> Format(encode_capability_offer, decode_capability_offer),
     selected |-> Format(encode_capability_selection, decode_capability_selection),
     packet |-> Format(encode_encrypted_network_packet, decode_encrypted_network_packet),
     forwarded |-> Format(encode_forwarded_network_packet, decode_forwarded_network_packet),
     candidates |-> Format(encode_candidates, decode_candidates),
     local_message |-> Format(encode_local_message, decode_local_message),
     local_activity |-> Format(encode_local_activity, decode_local_activity),
     local_diagnostics |-> Format(encode_local_diagnostics, decode_local_diagnostics),
     path_diagnostics |-> Format(encode_path_diagnostics, decode_path_diagnostics),
     game_diagnostics |-> Format(encode_game_diagnostics, decode_game_diagnostics)]

ForAll(s, Ok(_)) == \A i \in DOMAIN s : Ok(s[i])

\* What a message of format f must satisfy.
valid(f, m) ==
    CASE f \in {"client_hello", "server_challenge", "client_proof"} -> TRUE
      [] f = "auth_result" -> m.accepted <=> m.session_id # 0
      [] f = "create_request" -> valid_network_name(m.name)
      [] f = "list_request" -> TRUE
      [] f = "selection" -> m.network_id # 0
      [] f = "member" -> m.network_id # 0 /\ m.device_id # 0
      [] f = "operation_result" -> validate_result(m)
      [] f = "list_result" -> ForAll(m.networks, validate_summary) /\ Distinct(m.networks, "network_id")
      [] f = "event" -> valid_event(m)
      [] f = "peer_state" -> valid_peer_state(m) /\ ForAll(m.policy, valid_policy)
      [] f = "revocation" -> m.network_id # 0
      [] f = "key_envelope" -> valid_envelope(m)
      [] f = "key_publish" -> m.envelopes # <<>> /\ ForAll(m.envelopes, valid_envelope)
      [] f = "policy" -> valid_policy(m)
      [] f = "audit_event" -> valid_audit_event(m)
      [] f = "management_request" -> valid_management(m)
      [] f = "management_result" -> /\ valid_management(m) /\ m.code \in Codes
                                    /\ ForAll(m.audit_events, valid_audit_event)
      [] f = "access_request" -> valid_access(m)
      [] f = "access_result" -> /\ valid_access(m) /\ m.code \in Codes
                                /\ \A i \in DOMAIN m.devices : Text(m.devices[i].label)
      [] f = "offer" -> m.minimum_version # 0 /\ m.minimum_version <= m.maximum_version
      [] f = "selected" -> /\ m.kind \in 1 .. 2 /\ m.wire_version # 0
                           /\ m.kind = 2 => m.features = 0
      [] f = "packet" -> valid_packet(m)
      [] f = "forwarded" -> m.sender_device_id # 0 /\ valid_packet(m)
      [] f = "candidates" -> valid_candidates(m)
      [] f = "local_message" -> /\ m.command \in 1 .. 17 /\ m.flags \in {0, 1, 3}
                                /\ Len(m.payload) <= MaxText
      [] f = "local_activity" -> ForAll(m.requests, valid_event)
      [] f = "local_diagnostics" -> valid_diagnostics(m)
      [] f = "path_diagnostics" -> valid_path(m.relay) /\ \A i \in DOMAIN m.peers : valid_path(m.peers[i].path)
      [] f = "game_diagnostics" -> valid_game(m)

encode(f, m) == write(Formats[f].encode, m)

\* A decoder gives a message or throws.
decode(f, bytes) == {m \in read_all(Formats[f].decode, bytes) : valid(f, m)}

-----------------------------------------------------------------------------
(* Behaviours.                                                             *)

WireInit ==
    /\ format \in DOMAIN Formats
    /\ message \in Messages(format)
    /\ valid(format, message)
    /\ payload = encode(format, message) /\ damage = 0

\* One byte is changed, lost or added.
damage_payload ==
    /\ damage < MaxDamage /\ damage' = damage + 1
    /\ \/ \E i \in DOMAIN payload, b \in Damages : payload' = [payload EXCEPT ![i] = b]
       \/ \E i \in DOMAIN payload : payload' = RemoveAt(payload, i)
       \/ \E i \in 1 .. Len(payload) + 1, b \in Damages : payload' = InsertAt(payload, i, b)
    /\ UNCHANGED <<format, message>>

WireNext == damage_payload

WireSpec == WireInit /\ [][WireNext]_wvars

-----------------------------------------------------------------------------
(* Properties.                                                             *)

\* What of message m its format carries: a round-trip time of the largest value is read as
\* none, and an approval asked for with an action that has no such flag is not written.
Carried(f, m) ==
    CASE f = "local_diagnostics" /\ m.rtt_us = <<None>> -> [m EXCEPT !.rtt_us = <<>>]
      [] f = "access_request" /\ m.action < password_set -> [m EXCEPT !.require_approval = FALSE]
      [] OTHER -> m

\* What one side encodes the other decodes to the same message, optional parts and
\* extensions included, but for the two values that Carried names, which encoder and checks
\* accept and the bytes cannot tell from an absent one; and a decoder accepts no bytes its
\* encoder does not produce, so what is decoded has one encoding.  Signatures, authenticated
\* headers and the size checks of the relay are computed on the encoding of a decoded
\* message: a second spelling would be verified as the first.
OneEncoding ==
    /\ damage = 0 => decode(format, payload) = {Carried(format, message)}
    /\ \A m \in decode(format, payload) : encode(format, m) = payload
=============================================================================
