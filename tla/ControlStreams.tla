--------------------------- MODULE ControlStreams ---------------------------
(***************************************************************************)
(* The connections of the relay: the server half of                        *)
(* src/src/transport/quic.cpp and the listener of tls.cpp.  A device       *)
(* authenticates over QUIC or over TLS TCP, its control stream is entered  *)
(* into active_control_streams_, its session is published by the network   *)
(* service, and all of it is undone when the connection ends.              *)
(*                                                                         *)
(* The callbacks of one connection never overlap (MsQuic serializes them;  *)
(* a TCP connection has a thread of its own), but the threads of different *)
(* connections interleave wherever one of them gives up a mutex.  at[c]    *)
(* says how far the thread of connection c is:                             *)
(*   new         not accepted yet                                          *)
(*   handshake   TLS handshake of a TCP connection                         *)
(*   open        waits for a hello                                         *)
(*   challenged  waits for a proof                                         *)
(*   rejected    proof rejected or health asked for, the answer not sent   *)
(*   proved      proof accepted and answered                               *)
(*   registered  stream registered, session not published                  *)
(*   published   session published, peers not told                         *)
(*   ready       waits for a frame, authenticated                          *)
(*   answered    request handled and answered, its events not sent         *)
(*   failed      a handler threw: the connection is shut down              *)
(*   ended       control stream closed (QUIC), run returned (TCP)          *)
(*   closing     stream unregistered, session not removed                  *)
(*   removed     session removed, peers not told                           *)
(*   gone        context and ticket of admission given back                *)
(*   reaped      the thread of a TCP connection was joined                 *)
(*                                                                         *)
(* A connection has one session, so it stands for its session too.  What   *)
(* is queued on a connection is counted by kind of frame: a small control  *)
(* frame (an answer of the handshake, a result, a notice), a large one (a  *)
(* list, the peer state of a network, which grows with its members) or a   *)
(* packet.  TlsChannel has the queue itself.                               *)
(***************************************************************************)
EXTENDS SendBudget, FiniteSets

CONSTANTS
    Device, Quic, Tcp,  \* connections, by transport
    DeviceOf,           \* the device that authenticates on a connection
    NoConn,             \* no connection
    MaxConnections,     \* options_.max_connections
    MaxHandshakes,      \* options_.max_tls_handshakes
    Limits,             \* options_.send_queue
    FrameSize           \* the encoded size of a frame, by kind

Conn == Quic \cup Tcp
ControlKind == {"small", "large"}
Kind == ControlKind \cup {"data"}

ASSUME StreamsAssumption ==
    /\ Quic \cap Tcp = {} /\ NoConn \notin Conn
    /\ DeviceOf \in [Conn -> Device]
    /\ MaxConnections \in Nat /\ MaxHandshakes \in Nat
    /\ ValidLimits(Limits) /\ FrameSize \in [Kind -> Nat \ {0}]

VARIABLES
    at,         \* see above
    shut,       \* connections that somebody asked to shut down or stop
    authed,     \* connections whose handshake accepted the proof
    streams,    \* active_control_streams_
    active,     \* active_keys_: the connection whose session is published
    out,        \* per connection, how many frames of each kind are queued
    phase       \* how far stop is: running, joining, stopped

svars == <<at, shut, authed, streams, active, out, phase>>

Positions == {"new", "handshake", "open", "challenged", "rejected", "proved", "registered", "published", "ready",
              "answered", "failed", "ended", "closing", "removed", "gone", "reaped"}

NothingQueued == [kind \in Kind |-> 0]

StreamsInit ==
    /\ at = [c \in Conn |-> "new"]
    /\ shut = {}
    /\ authed = {}
    /\ streams = {}
    /\ active = [d \in Device |-> NoConn]
    /\ out = [c \in Conn |-> NothingQueued]
    /\ phase = "running"

To(c, position) == at' = [at EXCEPT ![c] = position]

\* A handler throws.
Fail(c) == To(c, "failed") /\ shut' = shut \cup {c}

-----------------------------------------------------------------------------
(* Sending.                                                                *)

\* What the control frames and the packets queued on c hold of its budget.
ControlFrames(c) == out[c]["small"] + out[c]["large"]
ControlBytes(c) == out[c]["small"] * FrameSize["small"] + out[c]["large"] * FrameSize["large"]
DataBytes(c) == out[c]["data"] * FrameSize["data"]

\* Whether the budget of c has room for a frame.
HasRoom(c, kind) ==
    CanReserve(Limits, [bytes |-> ControlBytes(c) + DataBytes(c), frames |-> ControlFrames(c) + out[c]["data"]],
               FrameSize[kind], kind \in ControlKind)

\* A stopped TCP channel takes no frame; a QUIC stream whose connection is
\* being shut down still takes it and cancels it later.
Delivers(c, kind) == HasRoom(c, kind) /\ (c \in Tcp => c \notin shut)

send(c, kind) == Delivers(c, kind) /\ out' = [out EXCEPT ![c][kind] = @ + 1]

\* The events of a handler: the devices that get one, and its kind.  The bound is one event
\* for a device; a change in several networks sends a device one for each, one after another.
Batches == UNION {[recipients -> ControlKind] : recipients \in SUBSET Device}

\* Where they go: a stream that cannot take its event is given up.
route_control_events(events) ==
    LET to == {c \in streams : DeviceOf[c] \in DOMAIN events}
        Fits(c) == Delivers(c, events[DeviceOf[c]])
    IN  /\ out' = [c \in Conn |-> IF c \in to /\ Fits(c)
                                  THEN [out[c] EXCEPT ![events[DeviceOf[c]]] = @ + 1] ELSE out[c]]
        /\ shut' = shut \cup {c \in to : ~Fits(c)}

\* SEND_COMPLETE, DATAGRAM_SEND_STATE_CHANGED, or the loop of a TCP channel
\* has written a frame.  The answer to a rejected proof is the last one.
complete_send(c, kind) ==
    /\ out[c][kind] > 0
    /\ out' = [out EXCEPT ![c][kind] = @ - 1]
    /\ shut' = IF at[c] = "rejected" /\ ControlFrames(c) = 1 THEN shut \cup {c} ELSE shut
    /\ UNCHANGED <<at, authed, streams, active, phase>>

-----------------------------------------------------------------------------
(* Admission.                                                              *)

\* Connections that hold a ticket of admissions_.
Admitted == {c \in Conn : at[c] \notin {"new", "gone", "reaped"}}

\* TCP connections that accept_loop has a session for.
Sessions == {c \in Tcp : at[c] \notin {"new", "reaped"}}

Handshaking == {c \in Tcp : at[c] = "handshake"}

on_listener_event(c) ==
    /\ c \in Quic /\ at[c] = "new"
    /\ phase # "stopped"
    /\ Cardinality(Admitted) < MaxConnections
    /\ To(c, "open")
    /\ UNCHANGED <<shut, authed, streams, active, out, phase>>

CanAccept ==
    /\ Cardinality(Admitted) < MaxConnections
    /\ Cardinality(Handshaking) < MaxHandshakes
    /\ Cardinality(Sessions) < MaxConnections

accept_loop(c) ==
    /\ c \in Tcp /\ at[c] = "new"
    /\ phase = "running"
    /\ CanAccept
    /\ To(c, "handshake")
    /\ UNCHANGED <<shut, authed, streams, active, out, phase>>

\* Mutation of handshake: it has no timeout and does not see a stop.
handshake_patient(c) ==
    /\ at[c] = "handshake"
    /\ To(c, "open") /\ c \notin shut
    /\ UNCHANGED <<shut, authed, streams, active, out, phase>>

\* The TLS handshake succeeds, or fails and the connection is over.
handshake(c) ==
    /\ at[c] = "handshake"
    /\ (To(c, "open") /\ c \notin shut) \/ To(c, "gone")
    /\ UNCHANGED <<shut, authed, streams, active, out, phase>>

\* accept_loop, or stop, joins the thread of a finished session.
reap(c) ==
    /\ c \in Tcp /\ at[c] = "gone"
    /\ To(c, "reaped")
    /\ UNCHANGED <<shut, authed, streams, active, out, phase>>

-----------------------------------------------------------------------------
(* Authentication.                                                         *)

\* handle_auth_frame, and what handle_tcp_frame does before the proof: the answer of the
\* handshake is queued, and the thread is at the given position.
answer(c, position) ==
    /\ send(c, "small")
    /\ To(c, position)
    /\ UNCHANGED shut

\* A hello is answered with a challenge.
handle_hello(c) ==
    /\ at[c] = "open"
    /\ answer(c, "challenged")
    /\ UNCHANGED <<authed, streams, active, phase>>

\* A proof is accepted or rejected, and answered; the answer may fail.
handle_proof(c, accepted) ==
    /\ at[c] = "challenged"
    /\ authed' = IF accepted THEN authed \cup {c} ELSE authed
    /\ \/ answer(c, IF accepted THEN "proved" ELSE "rejected")
       \/ Fail(c) /\ UNCHANGED out
    /\ UNCHANGED <<streams, active, phase>>

\* A TCP connection asks for the health of the relay instead of authenticating: the signed
\* answer is the last frame it gets.
health_request(c) ==
    /\ c \in Tcp /\ at[c] \in {"open", "challenged"}
    /\ answer(c, "rejected")
    /\ UNCHANGED <<authed, streams, active, phase>>

\* A frame that is not expected, one that cannot be answered, or the deadline.
handle_fails(c) ==
    /\ at[c] \in {"open", "challenged", "rejected", "ready"}
    /\ Fail(c)
    /\ UNCHANGED <<authed, streams, active, out, phase>>

Same(c) == {o \in streams : DeviceOf[o] = DeviceOf[c]}

\* QUIC takes the place of TCP, and nothing else takes a place.
Registers(c) == IF c \in Quic THEN Same(c) \subseteq Tcp ELSE Same(c) = {}

\* register_control_stream and register_tcp.
register(c) ==
    /\ at[c] = "proved"
    /\ IF Registers(c)
       THEN /\ streams' = (streams \ Same(c)) \cup {c}
            /\ shut' = shut \cup (Same(c) \cap Tcp)
            /\ To(c, "registered")
       ELSE Fail(c) /\ UNCHANGED streams
    /\ UNCHANGED <<authed, active, out, phase>>

\* note_authenticated publishes the session, unless the device is revoked.
note_authenticated(c) ==
    /\ at[c] = "registered"
    /\ \/ /\ active' = [active EXCEPT ![DeviceOf[c]] = c]
          /\ To(c, "published")
          /\ UNCHANGED shut
       \/ Fail(c) /\ UNCHANGED active
    /\ UNCHANGED <<authed, streams, out, phase>>

route(c, events) ==
    /\ at[c] \in {"published", "answered"}
    /\ route_control_events(events)
    /\ To(c, "ready")
    /\ UNCHANGED <<authed, streams, active, phase>>

-----------------------------------------------------------------------------
(* Requests and packets of an authenticated connection.                    *)

\* A request is handled and answered.
handle_control_frame(c, kind) ==
    /\ at[c] = "ready"
    /\ send(c, kind)
    /\ To(c, "answered")
    /\ UNCHANGED <<shut, authed, streams, active, phase>>

\* A packet for another connection: it is dropped if the budget has no room.
route_encrypted_packet(c, to) ==
    /\ at[c] = "ready"
    /\ to \in streams /\ DeviceOf[to] # DeviceOf[c]
    /\ send(to, "data")
    /\ UNCHANGED <<at, shut, authed, streams, active, phase>>

-----------------------------------------------------------------------------
(* The end of a connection.                                                *)

Idle == {"open", "challenged", "rejected", "ready", "failed"}

\* Mutation of stream_closed: the stream stays registered.
stream_closed_registered(c) ==
    /\ c \in Quic /\ at[c] \in Idle
    /\ To(c, "ended")
    /\ shut' = shut \cup {c}
    /\ out' = [out EXCEPT ![c] = NothingQueued]
    /\ UNCHANGED <<authed, streams, active, phase>>

\* The control stream of a QUIC connection is closed: it is unregistered, and
\* what it still had to send is cancelled.
stream_closed(c) ==
    /\ c \in Quic /\ at[c] \in Idle
    /\ To(c, "ended")
    /\ streams' = streams \ {c}
    /\ shut' = shut \cup {c}
    /\ out' = [out EXCEPT ![c] = NothingQueued]
    /\ UNCHANGED <<authed, active, phase>>

\* run of a TCP connection returns and clears its queue: stopped, expired,
\* rejected or disconnected.
run_ends(c) ==
    /\ c \in Tcp /\ at[c] \in Idle
    /\ To(c, "ended")
    /\ shut' = shut \cup {c}
    /\ out' = [out EXCEPT ![c] = NothingQueued]
    /\ UNCHANGED <<authed, streams, active, phase>>

\* close_tcp and SHUTDOWN_COMPLETE of a connection unregister it first.
unregister(c) ==
    /\ at[c] = "ended"
    /\ streams' = streams \ {c}
    /\ To(c, IF c \in authed THEN "closing" ELSE "gone")
    /\ UNCHANGED <<shut, authed, active, out, phase>>

\* Mutation of note_disconnected: whatever session is published is removed.
note_disconnected_any(c) ==
    /\ at[c] = "closing"
    /\ active' = [active EXCEPT ![DeviceOf[c]] = NoConn]
    /\ To(c, "removed")
    /\ UNCHANGED <<shut, authed, streams, out, phase>>

\* remove_device_key: only if the published session is this one.
note_disconnected(c) ==
    /\ at[c] = "closing"
    /\ active' = IF active[DeviceOf[c]] = c THEN [active EXCEPT ![DeviceOf[c]] = NoConn] ELSE active
    /\ To(c, "removed")
    /\ UNCHANGED <<shut, authed, streams, out, phase>>

\* The peers are told and the context is deleted.
release_connection(c, events) ==
    /\ at[c] = "removed"
    /\ route_control_events(events)
    /\ To(c, "gone")
    /\ UNCHANGED <<authed, streams, active, phase>>

-----------------------------------------------------------------------------
(* stop of the server.                                                     *)

Open == {c \in Conn : at[c] \notin {"new", "gone", "reaped"}}

stop_tls_listener ==
    /\ phase = "running"
    /\ phase' = "joining"
    /\ shut' = shut \cup (Open \cap Tcp)
    /\ UNCHANGED <<at, authed, streams, active, out>>

\* When the threads of the TCP connections are joined, the QUIC listener is
\* closed and the registration shut down.
stop_quic ==
    /\ phase = "joining" /\ Sessions = {}
    /\ phase' = "stopped"
    /\ shut' = shut \cup (Open \cap Quic)
    /\ UNCHANGED <<at, authed, streams, active, out>>

-----------------------------------------------------------------------------
Closes(c) ==
    \/ stream_closed(c) \/ run_ends(c)
    \/ unregister(c) \/ note_disconnected(c)
    \/ \E events \in Batches : release_connection(c, events)

Proceeds(c) ==
    \/ handshake(c) \/ reap(c)
    \/ register(c) \/ note_authenticated(c)
    \/ \E events \in Batches : route(c, events)

StreamsNext ==
    \/ stop_tls_listener \/ stop_quic
    \/ \E c \in Conn :
        \/ on_listener_event(c) \/ accept_loop(c)
        \/ handle_hello(c)
        \/ \E accepted \in BOOLEAN : handle_proof(c, accepted)
        \/ health_request(c)
        \/ \E kind \in ControlKind : handle_control_frame(c, kind)
        \/ handle_fails(c)
        \/ \E to \in Conn : route_encrypted_packet(c, to)
        \/ \E kind \in Kind : complete_send(c, kind)
        \/ Proceeds(c)
        \/ Closes(c)

StreamsSpec == StreamsInit /\ [][StreamsNext]_svars

\* The threads go on, and a connection that was shut down is closed: MsQuic
\* handles the shutdown before it waits for frames again, and the loop of a
\* TCP connection looks at stopping_ between two reads.
StreamsFairness ==
    /\ WF_svars(stop_quic)
    /\ \A c \in Conn : WF_svars(Proceeds(c)) /\ SF_svars(c \in shut /\ Closes(c))

FairStreamsSpec == StreamsSpec /\ StreamsFairness

-----------------------------------------------------------------------------
(* Properties.                                                             *)

\* A device has one registered stream, and it is a stream that is still there.
StreamsAreOpen ==
    /\ \A c, o \in streams : DeviceOf[c] = DeviceOf[o] => c = o
    /\ \A c \in streams : at[c] \in {"registered", "published", "ready", "answered", "failed"}
                                      \cup (IF c \in Tcp THEN {"ended"} ELSE {})

\* No session stays published when its connection is gone.
NoGhostSession ==
    \A d \in Device : active[d] # NoConn => at[active[d]] \notin {"removed", "gone", "reaped"}

\* What route_* finds in the registry may be sent on, the QUIC stream and context it points
\* to are not closed, and no session outlives its connection, however the threads of an
\* old and a new connection of a device interleave.
RegisteredIsOpen == StreamsAreOpen /\ NoGhostSession

\* No thread is in the middle of something and no connection is to be closed.
Quiet ==
    \A c \in Conn : /\ at[c] \in {"new", "open", "challenged", "ready", "gone", "reaped"}
                    /\ c \in shut => at[c] \in {"gone", "reaped"}

\* The device d has been accepted over one transport only.
OneTransport(d) ==
    \A c \in Quic, o \in Tcp :
        DeviceOf[c] = d /\ DeviceOf[o] = d => at[c] = "new" \/ at[o] = "new"

\* In a quiet relay the published sessions are those of registered streams,
\* and a device whose stream is registered is published: others see it online
\* with the key of its present session.  The second part leaves out devices
\* that change from one transport to the other.
QuietIsPublished ==
    Quiet =>
        /\ \A d \in Device : active[d] # NoConn => active[d] \in streams
        /\ \A c \in streams : OneTransport(DeviceOf[c]) => active[DeviceOf[c]] = c

\* The second part for every device.  A TCP connection that is between register and
\* note_authenticated when a QUIC connection takes its place violates it.
ReauthenticationPublishes ==
    Quiet => \A c \in streams : active[DeviceOf[c]] = c

\* An event closes the stream of a device only if the control frames queued on it hold as
\* many frames as are kept for control, or if with them the event needs more bytes than are
\* kept: packets that pile up never close a stream for an event that fits in what is kept for
\* control.  An event that is larger than that by itself, the peer state of a large managed
\* network, has no such protection, and packets alone can make it close the stream.
DataNeverCloses ==
    [][\A c \in shut' \ shut, o \in Conn, events \in Batches :
          route(o, events) \/ release_connection(o, events) =>
              \/ ControlFrames(c) >= Limits.reserved_control_frames
              \/ ControlBytes(c) + FrameSize[events[DeviceOf[c]]] > Limits.reserved_control_bytes]_svars

\* A connection that is shut down gives its admission back in the end: whatever comes and
\* goes, there is a later moment at which no connection that was shut down holds one.  When
\* the server is stopped no stream and no session is left in the end.
ShutIsReleased ==
    /\ []<>(\A c \in shut : at[c] \in {"gone", "reaped"})
    /\ phase = "joining" ~> (streams = {} /\ \A d \in Device : active[d] = NoConn)

=============================================================================
