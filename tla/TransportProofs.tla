-------------------------- MODULE TransportProofs ---------------------------
(***************************************************************************)
(* What the transport promises, for any devices, connections, limits and   *)
(* sizes: the registry of the relay's control streams (ControlStreams) and *)
(* the event queue of a client (EventQueue).                               *)
(*                                                                         *)
(* The event queue needs a bound on what packets can take: whatever is     *)
(* queued, being handled and reserved stays within the limits, and packets *)
(* leave room for the events, of which two fit.                            *)
(***************************************************************************)
EXTENDS ControlStreams, EventQueue, FiniteSetTheorems, TLAPS

-----------------------------------------------------------------------------
(* ControlStreams: the registry of the control streams.                    *)

Types ==
    /\ at \in [Conn -> Positions]
    /\ shut \subseteq Conn /\ authed \subseteq Conn /\ streams \subseteq Conn
    /\ active \in [Device -> Conn \cup {NoConn}]

\* Where the thread of a connection is while its stream should be registered,
\* and while its session may be published.
Connected == {"registered", "published", "ready", "answered"}
Published == {"published", "ready", "answered", "failed", "ended", "closing"}

\* Whoever is past the proof, or has yet to remove the session, has authenticated.
AuthedFirst ==
    \A c \in Conn : at[c] \in Connected \cup {"proved", "closing", "removed"} => c \in authed

\* A published session is that of an authenticated connection of the device
\* which has yet to remove it.
PublishedIsOpen ==
    \A d \in Device : active[d] # NoConn =>
        DeviceOf[active[d]] = d /\ active[d] \in authed /\ at[active[d]] \in Published

\* A connection whose stream was taken out of the registry is shut down.
EvictedIsShut == \A c \in Conn : at[c] \in Connected => c \in streams \cup shut

\* Nobody takes the place of a device that uses one transport, and its stream,
\* once its session was published, still has it published.
OneTransportStays ==
    \A c \in Conn : OneTransport(DeviceOf[c]) =>
        /\ at[c] \in Connected => c \in streams
        /\ c \in streams /\ at[c] \in Connected \ {"registered"} => active[DeviceOf[c]] = c

StreamsInv ==
    /\ Types /\ AuthedFirst /\ StreamsAreOpen
    /\ PublishedIsOpen /\ EvictedIsShut /\ OneTransportStays

\* Nothing is registered or published before the first connection.
LEMMA StreamsInitInv == StreamsInit => StreamsInv
  BY StreamsAssumption DEF StreamsInit, StreamsInv, Types, AuthedFirst, StreamsAreOpen,
     PublishedIsOpen, EvictedIsShut, OneTransportStays, Connected, Positions

\* Steps that leave the registry and the published sessions alone, and move a
\* connection to a position where it need not be registered or where it was
\* registered before.
LEMMA MoveInv ==
  ASSUME StreamsInv, NEW c \in Conn, NEW position \in Positions \ {"new"},
         at' = [at EXCEPT ![c] = position],
         shut \subseteq shut', shut' \subseteq Conn,
         authed \subseteq authed', authed' \subseteq Conn,
         UNCHANGED <<streams, active>>,
         position \in Connected \cup {"proved", "closing", "removed"} => c \in authed',
         \/ position \in Connected \ {"registered"} /\ at[c] \in Connected \ {"registered"}
         \/ position = "failed"
         \/ /\ position \notin Connected
            /\ at[c] \notin Published \cup {"registered"}
  PROVE  StreamsInv'
  BY SMTT(30) DEF StreamsInv, Types, AuthedFirst, StreamsAreOpen, Connected, Published,
     PublishedIsOpen, EvictedIsShut, OneTransport, Conn, OneTransportStays

\* Steps that only shut connections down.
LEMMA ShutInv ==
  ASSUME StreamsInv, UNCHANGED <<at, authed, streams, active>>,
         shut \subseteq shut', shut' \subseteq Conn
  PROVE  StreamsInv'
  BY DEF StreamsInv, Types, AuthedFirst, StreamsAreOpen,
     PublishedIsOpen, EvictedIsShut, OneTransportStays, OneTransport

\* Routing events only adds to the connections that are shut down.
LEMMA RoutedShut ==
  ASSUME StreamsInv, NEW events, route_control_events(events)
  PROVE  shut \subseteq shut' /\ shut' \subseteq Conn
  BY Zenon DEF StreamsInv, Types, route_control_events

\* A stream is entered only when the device has none, or its TCP streams are taken out.
LEMMA RegisterInv == ASSUME StreamsInv, NEW c \in Conn, register(c) PROVE StreamsInv'
  BY SMTT(30), StreamsAssumption DEF StreamsInv, Types, register, Registers, Same, To, Fail,
     Positions, Connected, Published, AuthedFirst, StreamsAreOpen, PublishedIsOpen, EvictedIsShut,
     OneTransportStays, OneTransport, Conn

\* The session is published while its stream is registered.
LEMMA NoteAuthenticatedInv == ASSUME StreamsInv, NEW c \in Conn, note_authenticated(c) PROVE StreamsInv'
  BY SMTT(30), StreamsAssumption DEF StreamsInv, Types, note_authenticated, To, Fail, Positions,
     Connected, Published, AuthedFirst, StreamsAreOpen, PublishedIsOpen, EvictedIsShut,
     OneTransportStays, OneTransport, Conn

\* A closed QUIC stream is not registered.
LEMMA StreamClosedInv == ASSUME StreamsInv, NEW c \in Conn, stream_closed(c) PROVE StreamsInv'
  BY SMTT(30), StreamsAssumption DEF StreamsInv, Types, stream_closed, Idle, To, Fail, Positions,
     Connected, Published, AuthedFirst, StreamsAreOpen, PublishedIsOpen, EvictedIsShut,
     OneTransportStays, OneTransport, Conn

\* A TCP channel that has ended may still be registered.
LEMMA RunEndsInv == ASSUME StreamsInv, NEW c \in Conn, run_ends(c) PROVE StreamsInv'
  BY SMTT(30), StreamsAssumption DEF StreamsInv, Types, run_ends, Idle, To, Fail, Positions,
     Connected, Published, AuthedFirst, StreamsAreOpen, PublishedIsOpen, EvictedIsShut,
     OneTransportStays, OneTransport, Conn

\* An authenticated connection goes on to remove its session.
LEMMA UnregisterInv == ASSUME StreamsInv, NEW c \in Conn, unregister(c) PROVE StreamsInv'
  BY SMTT(30), StreamsAssumption DEF StreamsInv, Types, unregister, To, Fail, Positions, Connected,
     Published, AuthedFirst, StreamsAreOpen, PublishedIsOpen, EvictedIsShut, OneTransportStays,
     OneTransport, Conn

\* The session of a connection is removed, and no other.
LEMMA NoteDisconnectedInv == ASSUME StreamsInv, NEW c \in Conn, note_disconnected(c) PROVE StreamsInv'
  <1>4. PublishedIsOpen'
    BY StreamsAssumption DEF StreamsInv, Types, AuthedFirst, PublishedIsOpen, note_disconnected, To, Fail, Positions, Connected, Published
  <1> QED
    BY SMTT(30), <1>4, StreamsAssumption DEF StreamsInv, Types, note_disconnected, To, Fail,
       Positions, Connected, Published, AuthedFirst, StreamsAreOpen, EvictedIsShut,
       OneTransportStays, OneTransport, Conn

\* Every step keeps the invariant.
LEMMA StreamsStep == StreamsInv /\ [StreamsNext]_svars => StreamsInv'
  <1> SUFFICES ASSUME StreamsInv, [StreamsNext]_svars PROVE StreamsInv'
    BY Zenon
  <1> USE DEF To, Positions, Connected, Published
  <1>1. CASE UNCHANGED svars
    BY Zenon, <1>1, ShutInv DEF svars, StreamsInv, Types
  <1>2. CASE stop_tls_listener \/ stop_quic
    BY Zenon, <1>2, ShutInv DEF stop_tls_listener, stop_quic, Open, StreamsInv, Types
  <1>3. ASSUME NEW c \in Conn,
               on_listener_event(c) \/ accept_loop(c) \/ handshake(c) \/ reap(c)
        PROVE  StreamsInv'
    BY Zenon, <1>3, MoveInv DEF on_listener_event, accept_loop, handshake, reap, StreamsInv, Types
  <1>4. ASSUME NEW c \in Conn, handle_hello(c) \/ health_request(c) PROVE StreamsInv'
    BY Zenon, <1>4, MoveInv DEF handle_hello, health_request, answer, StreamsInv, Types
  <1>5. ASSUME NEW c \in Conn, NEW accepted \in BOOLEAN, handle_proof(c, accepted)
        PROVE  StreamsInv'
    <2>1. authed \subseteq authed' /\ authed' \subseteq Conn /\ (accepted => c \in authed')
      BY Zenon, <1>5 DEF handle_proof, StreamsInv, Types
    <2>2. CASE Fail(c)
      BY Zenon, <1>5, <2>1, <2>2, MoveInv DEF handle_proof, Fail, StreamsInv, Types
    <2>3. CASE To(c, IF accepted THEN "proved" ELSE "rejected") /\ UNCHANGED shut
      BY Zenon, <1>5, <2>1, <2>3, MoveInv DEF handle_proof, StreamsInv, Types
    <2> QED
      BY Zenon, <1>5, <2>2, <2>3 DEF handle_proof, answer
  <1>6. ASSUME NEW c \in Conn, NEW kind, handle_control_frame(c, kind) PROVE StreamsInv'
    BY Zenon, <1>6, MoveInv DEF handle_control_frame, StreamsInv, Types, AuthedFirst
  <1>7. ASSUME NEW c \in Conn, handle_fails(c) PROVE StreamsInv'
    BY Zenon, <1>7, MoveInv DEF handle_fails, Fail, StreamsInv, Types
  <1>8. ASSUME NEW c \in Conn, NEW to \in Conn, route_encrypted_packet(c, to) PROVE StreamsInv'
    BY Zenon, <1>8, ShutInv DEF route_encrypted_packet, StreamsInv, Types
  <1>9. ASSUME NEW c \in Conn, NEW kind, complete_send(c, kind) PROVE StreamsInv'
    BY Zenon, <1>9, ShutInv DEF complete_send, StreamsInv, Types
  <1>10. ASSUME NEW c \in Conn, NEW events, route(c, events) PROVE StreamsInv'
    BY Zenon, <1>10, RoutedShut, MoveInv DEF route, StreamsInv, Types, AuthedFirst
  <1>11. ASSUME NEW c \in Conn, NEW events, release_connection(c, events)
         PROVE  StreamsInv'
    BY Zenon, <1>11, RoutedShut, MoveInv DEF release_connection, StreamsInv, Types
  <1>12. ASSUME NEW c \in Conn,
                \/ register(c) \/ note_authenticated(c) \/ stream_closed(c) \/ run_ends(c)
                \/ unregister(c) \/ note_disconnected(c)
         PROVE  StreamsInv'
    BY Zenon, <1>12, RegisterInv, NoteAuthenticatedInv, StreamClosedInv, RunEndsInv, UnregisterInv,
       NoteDisconnectedInv
  <1> QED
    BY Zenon, <1>1, <1>2, <1>3, <1>4, <1>5, <1>6, <1>7, <1>8, <1>9, <1>10, <1>11, <1>12 DEF
       StreamsNext, Proceeds, Closes

\* The invariant holds in every reachable state of the relay.
THEOREM StreamsCorrect == StreamsSpec => []StreamsInv
  BY StreamsInitInv, StreamsStep, PTL DEF StreamsSpec

\* What route_* finds in the registry may be sent on, a device has one stream at most, and
\* no session outlives its connection in the network service.
THEOREM RegisteredAreOpen == StreamsSpec => []RegisteredIsOpen
  <1>2. StreamsInv => RegisteredIsOpen
    BY Zenon DEF RegisteredIsOpen, StreamsInv, PublishedIsOpen, NoGhostSession, Published
  <1> QED
    BY <1>2, StreamsCorrect, PTL

\* A quiet relay publishes no session without a registered stream, whatever
\* transports a device uses, and it publishes every device whose stream is
\* registered and that has used one transport: reconnections lose no session.
THEOREM QuietRelayAgrees == StreamsSpec => []QuietIsPublished
  <1>3. StreamsInv => QuietIsPublished
    BY SMTT(30) DEF QuietIsPublished, StreamsInv, Types, StreamsAreOpen, OneTransportStays, Quiet,
       Connected, PublishedIsOpen, EvictedIsShut, Published
  <1> QED
    BY <1>3, StreamsCorrect, PTL

-----------------------------------------------------------------------------
(* What is queued on a connection.                                         *)

\* The data queued on a connection leaves room for the frames and bytes that are kept
\* for control frames.
DataOK(c) ==
    /\ DataBytes(c) <= Limits.bytes - Limits.reserved_control_bytes
    /\ out[c]["data"] <= Limits.frames - Limits.reserved_control_frames

OutOK == out \in [Conn -> [Kind -> Nat]] /\ \A c \in Conn : DataOK(c)

\* The limits are numbers, and part of them is left to data.
LEMMA LimitsAreNumbers ==
  /\ Limits.bytes \in Nat /\ Limits.frames \in Nat
  /\ Limits.reserved_control_bytes \in Nat /\ Limits.reserved_control_frames \in Nat
  /\ Limits.reserved_control_bytes < Limits.bytes
  /\ Limits.reserved_control_frames < Limits.frames
  BY StreamsAssumption DEF ValidLimits

\* Products of numbers: they are numbers, one more frame adds its size, and fewer frames
\* have no more bytes.
LEMMA Product == ASSUME NEW n \in Nat, NEW k \in Nat PROVE n * k \in Nat
  BY SMTT(30)

LEMMA OneMore == ASSUME NEW n \in Nat, NEW k \in Nat PROVE (n + 1) * k = n * k + k
  BY SMTT(30)

LEMMA OneLess == ASSUME NEW n \in Nat, NEW k \in Nat, n > 0 PROVE (n - 1) * k <= n * k
  BY SMTT(30)

\* The sizes and the counts of the frames of a connection are numbers.
LEMMA QueuedAreNumbers ==
  ASSUME out \in [Conn -> [Kind -> Nat]], NEW c \in Conn
  PROVE  /\ \A kind \in Kind : FrameSize[kind] \in Nat \ {0} /\ out[c][kind] \in Nat
         /\ ControlFrames(c) \in Nat /\ ControlBytes(c) \in Nat /\ DataBytes(c) \in Nat
  <1>1. \A kind \in Kind : FrameSize[kind] \in Nat \ {0} /\ out[c][kind] \in Nat
    BY Zenon, StreamsAssumption
  <1>2. "small" \in Kind /\ "large" \in Kind /\ "data" \in Kind
    BY Zenon DEF Kind, ControlKind
  <1>3. \A kind \in Kind : out[c][kind] * FrameSize[kind] \in Nat
    BY <1>1, Product
  <1>4. ControlFrames(c) \in Nat
    BY <1>1, <1>2 DEF ControlFrames
  <1>5. ControlBytes(c) \in Nat
    <2>1. \A m, n \in Nat : m + n \in Nat
      BY SMT
    <2> QED BY Zenon, <1>2, <1>3, <2>1 DEF ControlBytes
  <1>6. DataBytes(c) \in Nat
    BY Zenon, <1>2, <1>3 DEF DataBytes
  <1> QED BY Zenon, <1>1, <1>4, <1>5, <1>6

\* What it means that the budget has room, in numbers.
LEMMA RoomInNumbers ==
  ASSUME NEW b \in Nat, NEW f \in Nat, NEW size \in Nat \ {0}
  PROVE  /\ CanReserve(Limits, [bytes |-> b, frames |-> f], size, TRUE) <=>
                b + size <= Limits.bytes /\ f < Limits.frames
         /\ CanReserve(Limits, [bytes |-> b, frames |-> f], size, FALSE) <=>
                /\ b + size <= Limits.bytes - Limits.reserved_control_bytes
                /\ f < Limits.frames - Limits.reserved_control_frames
  BY SMTT(30), LimitsAreNumbers DEF CanReserve, byte_limit, frame_limit

\* When a control frame finds no room behind the data that may be queued, the control
\* frames already there are as many as are kept for them, or with it they need more bytes.
LEMMA NoRoomForControl ==
  ASSUME OutOK, NEW c \in Conn, NEW kind \in ControlKind, ~HasRoom(c, kind)
  PROVE  \/ ControlFrames(c) >= Limits.reserved_control_frames
         \/ ControlBytes(c) + FrameSize[kind] > Limits.reserved_control_bytes
  <1>1. kind \in Kind /\ "data" \in Kind
    BY Zenon DEF Kind
  <1>2. PICK b \in Nat, f \in Nat : b = ControlBytes(c) + DataBytes(c) /\ f = ControlFrames(c) + out[c]["data"]
    BY <1>1, QueuedAreNumbers DEF OutOK
  <1>3. FrameSize[kind] \in Nat \ {0}
    BY Zenon, <1>1, QueuedAreNumbers DEF OutOK
  <1>4. ~CanReserve(Limits, [bytes |-> b, frames |-> f], FrameSize[kind], TRUE)
    BY Zenon, <1>2 DEF HasRoom
  <1>5. ~(b + FrameSize[kind] <= Limits.bytes /\ f < Limits.frames)
    BY Zenon, <1>3, <1>4, RoomInNumbers
  <1> QED BY SMTT(30), <1>1, <1>2, <1>3, <1>5, LimitsAreNumbers, QueuedAreNumbers DEF OutOK, DataOK

\* A packet is queued only within what is left to data.
LEMMA RoomForData ==
  ASSUME OutOK, NEW c \in Conn, HasRoom(c, "data")
  PROVE  /\ DataBytes(c) + FrameSize["data"] <= Limits.bytes - Limits.reserved_control_bytes
         /\ out[c]["data"] + 1 <= Limits.frames - Limits.reserved_control_frames
  <1>1. "data" \in Kind /\ "data" \notin ControlKind
    BY DEF Kind, ControlKind
  <1>2. PICK b \in Nat, f \in Nat : b = ControlBytes(c) + DataBytes(c) /\ f = ControlFrames(c) + out[c]["data"]
    BY <1>1, QueuedAreNumbers DEF OutOK
  <1>3. FrameSize["data"] \in Nat \ {0}
    BY Zenon, <1>1, QueuedAreNumbers DEF OutOK
  <1>4. CanReserve(Limits, [bytes |-> b, frames |-> f], FrameSize["data"], FALSE)
    <2>1. ("data" \in ControlKind) = FALSE
      BY SMTT(30), <1>1
    <2> QED BY Zenon, <1>2, <2>1 DEF HasRoom
  <1>5. /\ b + FrameSize["data"] <= Limits.bytes - Limits.reserved_control_bytes
        /\ f < Limits.frames - Limits.reserved_control_frames
    BY Zenon, <1>3, <1>4, RoomInNumbers
  <1> QED BY SMTT(30), <1>1, <1>2, <1>3, <1>5, LimitsAreNumbers, QueuedAreNumbers DEF OutOK

\* A connection whose counts stay numbers and whose data is not more keeps its data within
\* its part of the budget.
LEMMA LessData ==
  ASSUME OutOK, NEW c \in Conn, out'[c] \in [Kind -> Nat],
         \/ out'[c]["data"] = out[c]["data"]
         \/ out'[c]["data"] = 0
         \/ out[c]["data"] > 0 /\ out'[c]["data"] = out[c]["data"] - 1
  PROVE  DataOK(c)'
  <1>1. "data" \in Kind
    BY Zenon DEF Kind
  <1>2. out[c]["data"] \in Nat /\ FrameSize["data"] \in Nat /\ DataBytes(c) \in Nat
    BY <1>1, QueuedAreNumbers DEF OutOK
  <1>3. DataBytes(c)' <= DataBytes(c) /\ DataBytes(c)' \in Int
    <2>1. CASE out'[c]["data"] = out[c]["data"]
      BY <2>1, <1>2 DEF DataBytes
    <2>2. CASE out'[c]["data"] = 0
      <3>1. 0 * FrameSize["data"] = 0
        BY <1>2
      <3> QED BY <2>2, <3>1, <1>2 DEF DataBytes
    <2>3. CASE out[c]["data"] > 0 /\ out'[c]["data"] = out[c]["data"] - 1
      <3>1. (out[c]["data"] - 1) * FrameSize["data"] <= out[c]["data"] * FrameSize["data"]
        BY <1>2, <2>3, OneLess
      <3> QED BY <2>3, <3>1, <1>2 DEF DataBytes
    <2> QED BY Zenon, <2>1, <2>2, <2>3
  <1>4. out'[c]["data"] <= out[c]["data"] /\ out'[c]["data"] \in Nat
    BY <1>1, <1>2
  <1>5. DataOK(c)
    BY Zenon DEF OutOK
  <1> QED BY SMTT(30), <1>2, <1>3, <1>4, <1>5, LimitsAreNumbers DEF DataOK

\* Every step keeps the data of every connection within its part of the budget.
LEMMA OutStep == ASSUME OutOK, [StreamsNext]_svars PROVE OutOK'
  <1>0. \A kind \in ControlKind : kind \in Kind /\ kind # "data"
    BY DEF Kind, ControlKind
  <1>1. CASE UNCHANGED out
    BY Zenon, <1>1 DEF OutOK, DataOK, DataBytes
  <1>2. ASSUME out' \in [Conn -> [Kind -> Nat]], \A c \in Conn : out'[c]["data"] = out[c]["data"]
        PROVE  OutOK'
    BY Zenon, <1>2, LessData DEF OutOK
  <1>3. ASSUME NEW c \in Conn, NEW kind \in ControlKind, send(c, kind) PROVE OutOK'
    <2>1. out' \in [Conn -> [Kind -> Nat]] /\ \A o \in Conn : out'[o]["data"] = out[o]["data"]
      BY SMTT(30), <1>0, <1>3 DEF OutOK, send
    <2> QED BY Zenon, <2>1, <1>2
  <1>4. ASSUME NEW events \in Batches, route_control_events(events) PROVE OutOK'
    <2>1. \A c \in Conn : out'[c] = out[c] \/ \E kind \in ControlKind : out'[c] = [out[c] EXCEPT ![kind] = @ + 1]
      <3>1. \A device \in DOMAIN events : events[device] \in ControlKind
        BY Zenon DEF Batches
      <3> QED BY Zenon, <1>4, <3>1 DEF route_control_events
    <2>2. ASSUME NEW c \in Conn PROVE out'[c] \in [Kind -> Nat] /\ out'[c]["data"] = out[c]["data"]
      <3>1. out[c] \in [Kind -> Nat]
        BY Zenon DEF OutOK
      <3>2. CASE out'[c] = out[c]
        BY Zenon, <3>1, <3>2
      <3>3. ASSUME NEW kind \in ControlKind, out'[c] = [out[c] EXCEPT ![kind] = @ + 1]
            PROVE  out'[c] \in [Kind -> Nat] /\ out'[c]["data"] = out[c]["data"]
        <4>1. kind \in Kind /\ kind # "data" /\ "data" \in Kind
          BY Zenon, <1>0 DEF Kind
        <4> QED BY <3>1, <3>3, <4>1
      <3> QED BY Zenon, <2>1, <3>2, <3>3
    <2>3. out' \in [Conn -> [Kind -> Nat]]
      BY Zenon, <2>2, <1>4 DEF route_control_events
    <2> QED BY Zenon, <2>2, <2>3, <1>2
  <1>5. ASSUME NEW c \in Conn, NEW kind \in Kind, complete_send(c, kind) PROVE OutOK'
    <2>1. out' \in [Conn -> [Kind -> Nat]]
      BY SMTT(30), <1>5 DEF OutOK, complete_send
    <2>2. \A o \in Conn : \/ out'[o]["data"] = out[o]["data"]
                          \/ out[o]["data"] > 0 /\ out'[o]["data"] = out[o]["data"] - 1
      BY SMTT(30), <1>5 DEF OutOK, complete_send
    <2> QED BY Zenon, <2>1, <2>2, LessData DEF OutOK
  <1>6. ASSUME NEW c \in Conn, NEW to \in Conn, route_encrypted_packet(c, to) PROVE OutOK'
    <2>0. "data" \in Kind
      BY Zenon DEF Kind
    <2>1. HasRoom(to, "data") /\ out' = [out EXCEPT ![to]["data"] = @ + 1]
      BY Zenon, <1>6 DEF route_encrypted_packet, send, Delivers
    <2>2. /\ DataBytes(to) + FrameSize["data"] <= Limits.bytes - Limits.reserved_control_bytes
          /\ out[to]["data"] + 1 <= Limits.frames - Limits.reserved_control_frames
      BY Zenon, <2>1, RoomForData
    <2>3. out' \in [Conn -> [Kind -> Nat]]
      BY SMTT(30), <2>0, <2>1 DEF OutOK
    <2>4. out'[to]["data"] = out[to]["data"] + 1 /\ \A o \in Conn \ {to} : out'[o] = out[o]
      BY SMTT(30), <2>0, <2>1 DEF OutOK
    <2>5. DataOK(to)'
      <3>1. DataBytes(to)' = DataBytes(to) + FrameSize["data"]
        <4>1. out[to]["data"] \in Nat /\ FrameSize["data"] \in Nat
          BY <2>0, QueuedAreNumbers DEF OutOK
        <4>2. (out[to]["data"] + 1) * FrameSize["data"] = out[to]["data"] * FrameSize["data"] + FrameSize["data"]
          BY Zenon, <4>1, OneMore
        <4> QED BY Zenon, <2>4, <4>2 DEF DataBytes
      <3> QED BY Zenon, <3>1, <2>2, <2>4 DEF DataOK
    <2>6. \A o \in Conn \ {to} : DataOK(o)'
      BY Zenon, <2>4 DEF OutOK, DataOK, DataBytes
    <2> QED BY Zenon, <2>3, <2>5, <2>6 DEF OutOK
  <1>7. ASSUME NEW c \in Conn, out' = [out EXCEPT ![c] = NothingQueued] PROVE OutOK'
    <2>1. NothingQueued \in [Kind -> Nat] /\ NothingQueued["data"] = 0
      BY DEF NothingQueued, Kind
    <2>2. /\ out' \in [Conn -> [Kind -> Nat]]
          /\ \A o \in Conn : out'[o]["data"] = out[o]["data"] \/ out'[o]["data"] = 0
      BY <1>7, <2>1 DEF OutOK
    <2> QED BY Zenon, <2>2, LessData DEF OutOK
  <1>8. \/ UNCHANGED out
        \/ \E events \in Batches : route_control_events(events)
        \/ \E c \in Conn : \E kind \in Kind : complete_send(c, kind)
        \/ \E c \in Conn : \E to \in Conn : route_encrypted_packet(c, to)
        \/ \E c \in Conn : out' = [out EXCEPT ![c] = NothingQueued]
        \/ \E c \in Conn : \E kind \in ControlKind : send(c, kind)
    <2>1. "small" \in ControlKind
      BY Zenon DEF ControlKind
    <2> QED BY Zenon, <2>1 DEF StreamsNext, Proceeds, Closes, svars, stop_tls_listener, stop_quic, on_listener_event,
         accept_loop, handle_fails, handshake, reap, register, note_authenticated, route, stream_closed, run_ends,
         unregister, note_disconnected, release_connection, handle_hello, health_request, handle_control_frame,
         handle_proof, answer
  <1> QED BY Zenon, <1>1, <1>3, <1>4, <1>5, <1>6, <1>7, <1>8

\* Whatever piles up on a connection, and however the threads of the connections interleave,
\* an event gives up the stream of a device only if the control frames queued on it are as
\* many as are kept for control or leave less of the bytes that are kept than the event needs.
THEOREM DataClosesNothing == StreamsSpec => DataNeverCloses
  <1> DEFINE UsedUp(c, kind) ==
         \/ ControlFrames(c) >= Limits.reserved_control_frames
         \/ ControlBytes(c) + FrameSize[kind] > Limits.reserved_control_bytes
  <1>1. StreamsInit => OutOK
    <2> SUFFICES ASSUME StreamsInit PROVE OutOK
      OBVIOUS
    <2>1. "data" \in Kind
      BY Zenon DEF Kind
    <2>2. out \in [Conn -> [Kind -> Nat]] /\ \A c \in Conn : out[c]["data"] = 0
      BY <2>1 DEF StreamsInit, NothingQueued
    <2>3. 0 * FrameSize["data"] = 0
      BY <2>1, StreamsAssumption
    <2> QED BY <2>2, <2>3, LimitsAreNumbers DEF OutOK, DataOK, DataBytes
  <1>2. ASSUME StreamsInv, OutOK, NEW c \in shut' \ shut, NEW events \in Batches, route_control_events(events)
        PROVE  UsedUp(c, events[DeviceOf[c]])
    <2>1. c \in Conn /\ DeviceOf[c] \in DOMAIN events /\ ~Delivers(c, events[DeviceOf[c]])
      BY Zenon, <1>2 DEF route_control_events, StreamsInv, Types
    <2>2. events[DeviceOf[c]] \in ControlKind
      BY Zenon, <2>1 DEF Batches
    <2>3. ~HasRoom(c, events[DeviceOf[c]])
      BY Zenon, <1>2, <2>1 DEF Delivers
    <2> QED BY Zenon, <1>2, <2>1, <2>2, <2>3, NoRoomForControl
  <1>3. StreamsInv /\ OutOK /\ [StreamsNext]_svars =>
          [\A c \in shut' \ shut, o \in Conn, events \in Batches :
              route(o, events) \/ release_connection(o, events) => UsedUp(c, events[DeviceOf[c]])]_svars
    BY Zenon, <1>2 DEF route, release_connection
  <1>4. OutOK /\ [StreamsNext]_svars => OutOK'
    BY Zenon, OutStep
  <1> QED BY <1>1, <1>3, <1>4, StreamsCorrect, PTL DEF StreamsSpec, DataNeverCloses

-----------------------------------------------------------------------------
(* The event queue of a client.                                            *)

\* The bytes that are left to packets, and what may be in the queue.
PacketBytes == EventLimits.bytes - EventLimits.reserved_control_bytes
Entries == {Entry("event", EventSize)} \cup {Entry("packet", size) : size \in {x \in PacketSizes : x <= PacketBytes}}

\* What the entry whose handler runs holds of the budget.
Held == IF handled = <<>> THEN 0 ELSE handled[1].size

\* s sums up the sizes of the entries of the queue.
SumOf(queue, s) ==
    /\ s \in [0..Len(queue) -> Int] /\ s[0] = 0
    /\ \A i \in 1..Len(queue) : s[i] = s[i - 1] + queue[i].size

QueueTypeOK ==
    /\ entries_ \in Seq(Entries)
    /\ handled = <<>> \/ \E e \in Entries : handled = <<e>>
    /\ used \in [bytes : Int, frames : Int]
    /\ refused \in BOOLEAN /\ ended \in BOOLEAN

\* The budget counts what is queued and what the handler that runs holds.
Counted ==
    /\ used.frames = Len(entries_) + Len(handled)
    /\ \E s : SumOf(entries_, s) /\ used.bytes = s[Len(entries_)] + Held

\* What the events hold of it.
EventBytes == Events * EventSize

\* Packets leave free what is kept for events.
Within(bytes, frames, eventBytes, events) ==
    /\ bytes <= EventLimits.bytes /\ frames <= EventLimits.frames
    /\ bytes - eventBytes <= EventLimits.bytes - EventLimits.reserved_control_bytes
    /\ frames - events <= EventLimits.frames - EventLimits.reserved_control_frames

Kept == Within(used.bytes, used.frames, EventBytes, Events)

QueueInv == QueueTypeOK /\ Counted /\ Kept /\ ~refused

\* The limits are numbers, and there is room for two entries.
LEMMA EventLimitsAreNumbers ==
  /\ EventLimits.bytes \in Nat /\ EventLimits.frames \in Nat /\ EventSize \in Nat
  /\ EventLimits.reserved_control_bytes \in Nat /\ EventLimits.reserved_control_frames \in Nat
  /\ EventLimits.reserved_control_bytes < EventLimits.bytes
  /\ EventLimits.reserved_control_frames < EventLimits.frames
  /\ EventSize > 0 /\ EventSize <= EventLimits.reserved_control_bytes
  /\ 2 * EventSize <= EventLimits.bytes /\ 2 <= EventLimits.frames
  BY QueueAssumption DEF ValidLimits

\* An entry is an event of the size of events, or a packet that is no smaller.
LEMMA EntryFields ==
  ASSUME NEW e \in Entries
  PROVE  /\ e.kind \in {"event", "packet"} /\ e.size \in Nat /\ e.size >= EventSize
         /\ IF e.kind = "event" THEN e.size = EventSize ELSE e.size <= PacketBytes
  BY QueueAssumption DEF Entries, Entry

\* The number of events in a queue is a number ...
LEMMA EventsInType ==
  ASSUME NEW queue \in Seq(Entries)
  PROVE  EventsIn(queue) \in Nat /\ IsFiniteSet({i \in DOMAIN queue : queue[i].kind = "event"})
  <1>2. IsFiniteSet({i \in DOMAIN queue : queue[i].kind = "event"})
    BY SMTT(30), FS_Subset, FS_Interval
  <1> QED BY Zenon, <1>2, FS_CardinalityType DEF EventsIn

\* ... it is zero in an empty queue, ...
LEMMA EventsInEmpty == EventsIn(<<>>) = 0
  BY SMTT(30), FS_EmptySet DEF EventsIn

\* ... an entry that is queued adds to it if it is an event, ...
LEMMA EventsInAppend ==
  ASSUME NEW queue \in Seq(Entries), NEW e \in Entries
  PROVE  EventsIn(Append(queue, e)) = EventsIn(queue) + (IF e.kind = "event" THEN 1 ELSE 0)
  <1> DEFINE S == {i \in DOMAIN queue : queue[i].kind = "event"}
             T == {i \in DOMAIN Append(queue, e) : Append(queue, e)[i].kind = "event"}
  <1>0. Len(queue) + 1 \notin S
    OBVIOUS
  <1>2. CASE e.kind = "event"
    <2>1. T = S \cup {Len(queue) + 1}
      BY <1>2
    <2> QED BY Zenon, <1>2, <2>1, FS_AddElement, <1>0, EventsInType, FS_CardinalityType DEF EventsIn
  <1>3. CASE e.kind # "event"
    <2>1. T = S
      BY <1>3
    <2>2. EventsIn(Append(queue, e)) = EventsIn(queue)
      BY <2>1, Zenon DEF EventsIn
    <2>3. EventsIn(queue) \in Nat
      BY EventsInType, Zenon
    <2> QED BY <1>3, <2>2, <2>3
  <1> QED BY Zenon, <1>2, <1>3

\* ... and the oldest entry takes its part of it with it.
LEMMA EventsInTail ==
  ASSUME NEW queue \in Seq(Entries), queue # <<>>
  PROVE  EventsIn(Tail(queue)) = EventsIn(queue) - (IF Head(queue).kind = "event" THEN 1 ELSE 0)
  <1> DEFINE S == {i \in DOMAIN queue : queue[i].kind = "event"}
             T == {i \in DOMAIN Tail(queue) : Tail(queue)[i].kind = "event"}
             R == S \ {1}
             f == [i \in T |-> i + 1]
  <1>1. IsFiniteSet(S) /\ IsFiniteSet(T) /\ IsFiniteSet(R)
    <2>1. Tail(queue) \in Seq(Entries)
      OBVIOUS
    <2> QED BY Zenon, FS_Subset, <2>1, EventsInType
  <1>2. f \in Bijection(T, R)
    <2>1. \A i \in T : i \in Nat /\ i + 1 \in R
      OBVIOUS
    <2>2. \A j \in R : j - 1 \in T /\ (j - 1) + 1 = j
      OBVIOUS
    <2>4. \A a, b \in T : f[a] = f[b] => a = b
      BY <2>1
    <2> QED BY Zenon, <2>4, <2>1, <2>2 DEF Bijection, Injection, Surjection, IsInjective
  <1>3. Cardinality(T) = Cardinality(R)
    BY ZenonT(60), <1>1, <1>2, FS_Bijection DEF ExistsBijection
  <1>4. 1 \in DOMAIN queue /\ Head(queue) = queue[1]
    OBVIOUS
  <1>5. Cardinality(R) = Cardinality(S) - (IF 1 \in S THEN 1 ELSE 0)
    <2> HIDE DEF S
    <2> QED BY SMTT(30), <1>1, FS_RemoveElement, FS_CardinalityType
  <1> QED BY Zenon, <1>3, <1>4, <1>5 DEF EventsIn

\* The sum of a queue goes on with the entry that is queued, and without the oldest one.
LEMMA SumAppend ==
  ASSUME NEW queue \in Seq(Entries), NEW e \in Entries, NEW s, SumOf(queue, s)
  PROVE  \E t : SumOf(Append(queue, e), t) /\ t[Len(queue) + 1] = s[Len(queue)] + e.size
  <1> DEFINE n == Len(queue)
             t == [i \in 0..n + 1 |-> IF i = n + 1 THEN s[n] + e.size ELSE s[i]]
  <1>1. n \in Nat /\ Len(Append(queue, e)) = n + 1 /\ Append(queue, e)[n + 1] = e
    OBVIOUS
  <1>4. t \in [0..n + 1 -> Int]
    BY SMTT(30), <1>1, EntryFields DEF SumOf
  <1>5. ASSUME NEW i \in 1..n + 1 PROVE t[i] = t[i - 1] + Append(queue, e)[i].size
    BY SMTT(30), <1>1 DEF SumOf
  <1>6. t[0] = 0 /\ t[n + 1] = s[n] + e.size
    BY <1>1 DEF SumOf
  <1> HIDE DEF t
  <1> QED BY Zenon, <1>1, <1>4, <1>5, <1>6 DEF SumOf

LEMMA SumTail ==
  ASSUME NEW queue \in Seq(Entries), queue # <<>>, NEW s, SumOf(queue, s)
  PROVE  \E t : SumOf(Tail(queue), t) /\ t[Len(queue) - 1] = s[Len(queue)] - Head(queue).size
  <1> DEFINE n == Len(queue)
             t == [i \in 0..n - 1 |-> s[i + 1] - s[1]]
  <1>1. n \in Nat \ {0} /\ Len(Tail(queue)) = n - 1 /\ Head(queue) = queue[1]
    OBVIOUS
  <1>3. s[1] = Head(queue).size /\ s[1] \in Int
    BY <1>1, EntryFields DEF SumOf
  <1>4. t \in [0..n - 1 -> Int]
    BY SMTT(30), <1>1, <1>3 DEF SumOf
  <1>5. ASSUME NEW i \in 1..n - 1 PROVE t[i] = t[i - 1] + Tail(queue)[i].size
    <2>1. i + 1 \in 1..n /\ i \in 1..n /\ (i + 1) - 1 = i /\ i - 1 \in 0..n - 1
      BY <1>1
    <2>2. s[i + 1] = s[i] + queue[i + 1].size
      BY Zenon, <2>1 DEF SumOf
    <2>3. queue[i + 1] \in Entries /\ s[i] \in Int
      BY <2>1 DEF SumOf
    <2> QED BY SMTT(30), <1>3, <2>1, <2>2, <2>3, EntryFields
  <1>6. t[0] = 0 /\ t[n - 1] = s[n] - Head(queue).size
    BY <1>1, <1>3 DEF SumOf
  <1> HIDE DEF t
  <1> QED BY Zenon, <1>1, <1>4, <1>5, <1>6 DEF SumOf

\* A queue without entries.
LEMMA SumEmpty == \E s : SumOf(<<>>, s) /\ s[0] = 0
  <1>1. SumOf(<<>>, [i \in 0..0 |-> 0])
    BY DEF SumOf
  <1> QED BY Zenon, <1>1 DEF SumOf

\* What is in the handler.
LEMMA HeldFields ==
  ASSUME QueueTypeOK
  PROVE  /\ Held \in Nat /\ Len(handled) \in {0, 1} /\ EventsIn(handled) \in {0, 1}
         /\ handled = <<>> => Held = 0 /\ Len(handled) = 0 /\ EventsIn(handled) = 0
         /\ handled # <<>> => /\ Len(handled) = 1 /\ Held = handled[1].size /\ handled[1] \in Entries
                              /\ EventsIn(handled) = (IF handled[1].kind = "event" THEN 1 ELSE 0)
  <1>1. CASE handled = <<>>
    BY Zenon, <1>1, EventsInEmpty DEF Held
  <1>2. ASSUME NEW e \in Entries, handled = <<e>> 
        PROVE  /\ Held \in Nat /\ Len(handled) \in {0, 1} /\ EventsIn(handled) \in {0, 1}
               /\ handled # <<>> /\ Len(handled) = 1 /\ Held = handled[1].size /\ handled[1] \in Entries
               /\ EventsIn(handled) = (IF handled[1].kind = "event" THEN 1 ELSE 0)
    <2>1. handled = Append(<<>>, e) /\ <<>> \in Seq(Entries)
      BY <1>2
    <2>2. EventsIn(handled) = (IF e.kind = "event" THEN 1 ELSE 0)
      <3>1. EventsIn(Append(<<>>, e)) = EventsIn(<<>>) + (IF e.kind = "event" THEN 1 ELSE 0)
        BY <2>1, EventsInAppend, Zenon
      <3> QED BY SMTT(30), <2>1, <3>1, EventsInEmpty
    <2> QED BY Zenon, <1>2, <2>2, EntryFields DEF Held
  <1> QED BY Zenon, <1>1, <1>2 DEF QueueTypeOK

\* A packet or an event that is released leaves the rest within the limits, ...
LEMMA WithinLess ==
  ASSUME NEW b \in Int, NEW f \in Int, NEW eb \in Int, NEW ev \in Int, Within(b, f, eb, ev),
         NEW size \in Nat
  PROVE  /\ Within(b - size, f - 1, eb, ev)
         /\ Within(b - EventSize, f - 1, eb - EventSize, ev - 1)
  <1>1. PICK lb, lf, rb, rf \in Nat :
            /\ lb = EventLimits.bytes /\ rb = EventLimits.reserved_control_bytes
            /\ lf = EventLimits.frames /\ rf = EventLimits.reserved_control_frames
    BY Zenon, EventLimitsAreNumbers
  <1> QED BY SMTT(30), <1>1, EventLimitsAreNumbers DEF Within

\* ... and so does a packet that is queued within the part left to packets.
LEMMA WithinPacket ==
  ASSUME NEW b \in Int, NEW f \in Int, NEW eb \in Nat, NEW ev \in Nat, NEW size \in Nat,
         CanReserve(EventLimits, [bytes |-> b, frames |-> f], size, FALSE)
  PROVE  Within(b + size, f + 1, eb, ev)
  <1>1. PICK lb, lf, rb, rf \in Nat :
            /\ lb = EventLimits.bytes /\ rb = EventLimits.reserved_control_bytes
            /\ lf = EventLimits.frames /\ rf = EventLimits.reserved_control_frames
    BY Zenon, EventLimitsAreNumbers
  <1> QED BY SMTT(30), <1>1 DEF Within, CanReserve, byte_limit, frame_limit

\* Every step of the queue but an event keeps the invariant.
LEMMA QueueStep ==
  ASSUME QueueInv,
         \/ \E size \in PacketSizes : handle_forwarded_packet(size)
         \/ dispatch_network_events \/ handler_returns \/ destroy_queue \/ UNCHANGED evars
  PROVE  QueueInv'
  <1>0. /\ entries_ \in Seq(Entries) /\ used.bytes \in Int /\ used.frames \in Int
        /\ EventsIn(entries_) \in Nat /\ EventsIn(handled) \in {0, 1} /\ Held \in Nat
        /\ Len(handled) \in {0, 1} /\ Len(entries_) \in Nat
    <2>1. QueueTypeOK /\ entries_ \in Seq(Entries) /\ used \in [bytes : Int, frames : Int]
      BY Zenon DEF QueueInv, QueueTypeOK
    <2>4. used.bytes \in Int /\ used.frames \in Int /\ Len(entries_) \in Nat
      BY <2>1
    <2> QED BY Zenon, <2>1, <2>4, EventsInType, HeldFields
  <1>b. Within(used.bytes, used.frames, EventBytes, Events)
    BY Zenon DEF QueueInv, Kept
  <1>c. used.bytes \in Int /\ used.frames \in Int /\ Len(entries_) \in Nat
    BY Zenon, <1>0
  <1>1. ASSUME NEW size \in PacketSizes, handle_forwarded_packet(size) PROVE QueueInv'
    <2>1. CASE UNCHANGED <<entries_, used>>
      BY Zenon, <1>1, <2>1 DEF QueueInv, QueueTypeOK, Counted, Kept, EventBytes, Held, Events,
         handle_forwarded_packet
    <2>2. CASE /\ CanReserve(EventLimits, used, size, FALSE)
               /\ entries_' = Append(entries_, Entry("packet", size))
               /\ used' = reserve(used, size)
      <3> DEFINE e == Entry("packet", size)
      <3>1. e \in Entries /\ e.size = size /\ e.kind # "event" /\ size \in Nat
        BY Zenon, <2>2, QueueAssumption DEF CanReserve, byte_limit, PacketBytes, Entries, Entry
      <3> HIDE DEF e
      <3>2. UNCHANGED <<handled, refused, ended>> /\ Held' = Held
        BY Zenon, <1>1 DEF handle_forwarded_packet, Held
      <3>5. used'.bytes = used.bytes + size /\ used'.frames = used.frames + 1
        BY Zenon, <1>c, <2>2 DEF reserve
      <3>6. entries_' \in Seq(Entries) /\ Len(entries_') = Len(entries_) + 1
        BY SMTT(30), <1>0, <2>2, <3>1 DEF e
      <3>7. PICK s : SumOf(entries_, s) /\ used.bytes = s[Len(entries_)] + Held
        BY Zenon DEF QueueInv, Counted
      <3>8. PICK t : SumOf(entries_', t) /\ t[Len(entries_) + 1] = s[Len(entries_)] + size
        BY <1>0, <2>2, <3>1, <3>7, SumAppend, Zenon DEF e
      <3>9. s[Len(entries_)] \in Int
        BY SMTT(30), <1>0, <3>7 DEF SumOf
      <3>11. Counted'
        <4>2. used'.bytes = t[Len(entries_')] + Held'
          BY <1>0, <3>1, <3>2, <3>5, <3>6, <3>7, <3>8, <3>9
        <4> QED BY SMTT(30), <4>2, <3>8, <1>0, <3>2, <3>5, <3>6 DEF Counted, QueueInv
      <3>12. Kept'
        <4>1. Events' = Events /\ Events \in Nat
          BY SMTT(30), <1>0, <2>2, <3>1, <3>2, EventsInAppend DEF Events, e
        <4>2. EventBytes' = EventBytes /\ EventBytes \in Nat
          BY <4>1, EventLimitsAreNumbers DEF EventBytes
        <4>3. Within(used.bytes + size, used.frames + 1, EventBytes, Events)
          BY Zenon, <2>2, <3>1, <1>c, <4>1, <4>2, WithinPacket DEF QueueInv, QueueTypeOK
        <4> QED BY Zenon, <3>5, <4>1, <4>2, <4>3 DEF Kept
      <3> QED BY SMTT(30), <3>11, <3>12, <3>2, <3>6, <1>c, <2>2, <3>1 DEF QueueInv, QueueTypeOK,
           reserve
    <2> QED BY Zenon, <1>1, <2>1, <2>2 DEF handle_forwarded_packet
  <1>2. CASE dispatch_network_events
    <2>1. /\ handled = <<>> /\ entries_ # <<>> /\ handled' = <<Head(entries_)>>
          /\ entries_' = Tail(entries_) /\ UNCHANGED <<used, refused, ended>>
      BY Zenon, <1>2 DEF dispatch_network_events
    <2>2. Head(entries_) \in Entries /\ entries_' \in Seq(Entries) /\ Len(entries_') = Len(entries_) - 1
      BY <1>0, <2>1
    <2>4. /\ Held' = Head(entries_).size /\ Len(handled') = 1
          /\ EventsIn(handled') = (IF Head(entries_).kind = "event" THEN 1 ELSE 0)
      <3>1. <<Head(entries_)>> = Append(<<>>, Head(entries_)) /\ <<>> \in Seq(Entries)
        OBVIOUS
      <3>2. EventsIn(<<Head(entries_)>>) = EventsIn(<<>>) + (IF Head(entries_).kind = "event" THEN 1 ELSE 0)
        BY <2>2, <3>1, EventsInAppend, Zenon
      <3> QED BY <2>1, <3>2, EventsInEmpty DEF Held
    <2>7. Held = 0 /\ Len(handled) = 0
      BY Zenon, <2>1, HeldFields DEF QueueInv
    <2>8. PICK s : SumOf(entries_, s) /\ used.bytes = s[Len(entries_)] + Held
      BY Zenon DEF QueueInv, Counted
    <2>9. PICK t : SumOf(entries_', t) /\ t[Len(entries_) - 1] = s[Len(entries_)] - Head(entries_).size
      BY <1>0, <2>1, <2>8, SumTail, Zenon
    <2>10. s[Len(entries_)] \in Int /\ Head(entries_).size \in Int
      BY SMTT(30), <1>0, <2>2, <2>8, EntryFields DEF SumOf
    <2>11. Counted'
      BY SMTT(30), <1>0, <2>1, <2>2, <2>4, <2>7, <2>8, <2>9, <2>10 DEF QueueInv, Counted
    <2>12. Kept'
      BY SMTT(30), <2>1, <1>0, <2>4, HeldFields, EventsInTail DEF QueueInv, Kept, EventBytes, Events
    <2> QED BY Zenon, <2>1, <2>11, <2>12, <2>2 DEF QueueInv, QueueTypeOK
  <1>3. CASE handler_returns
    <2>1. /\ handled # <<>> /\ handled' = <<>> /\ used' = release(used, handled[1].size)
          /\ UNCHANGED <<entries_, refused, ended>>
      BY Zenon, <1>3 DEF handler_returns
    <2>2. /\ Held = handled[1].size /\ Len(handled) = 1 /\ handled[1] \in Entries
          /\ EventsIn(handled) = (IF handled[1].kind = "event" THEN 1 ELSE 0)
      BY Zenon, <2>1, HeldFields DEF QueueInv
    <2>3. used'.bytes = used.bytes - Held /\ used'.frames = used.frames - 1
      BY Zenon, <1>0, <2>1, <2>2 DEF release
    <2>4. Held' = 0 /\ Len(handled') = 0 /\ EventsIn(handled') = 0
      BY Zenon, <2>1, EventsInEmpty DEF Held
    <2>5. Events' = Events - (IF handled[1].kind = "event" THEN 1 ELSE 0) /\ Events \in Nat
      BY SMTT(30), <1>0, <2>1, <2>2, <2>4 DEF Events
    <2>7. Counted'
      <3>1. PICK s : SumOf(entries_, s) /\ used.bytes = s[Len(entries_)] + Held
        BY Zenon DEF QueueInv, Counted
      <3>2. s[Len(entries_)] \in Int
        BY SMTT(30), <1>0, <3>1 DEF SumOf
      <3>4. used'.frames = Len(entries_') + Len(handled')
        <4> QED BY SMTT(30), <1>c, <2>3, <2>4, <2>1, <2>2 DEF QueueInv, Counted
      <3> QED BY SMTT(30), <2>1, <3>1, <3>4, <1>0, <2>3, <2>4, <3>2 DEF Counted
    <2>8. Kept'
      <3>1. CASE handled[1].kind = "event"
        <4>2. EventBytes' = EventBytes - EventSize /\ EventBytes \in Nat
          BY EventLimitsAreNumbers, <2>5, <3>1 DEF EventBytes
        <4>3. Events' = Events - 1 /\ Events \in Nat
          BY Zenon, <2>5, <3>1
        <4>4. Within(used.bytes - EventSize, used.frames - 1, EventBytes - EventSize, Events - 1)
          <5>2. EventBytes \in Int /\ Events \in Int
            BY <4>2, <4>3
          <5> QED BY Zenon, <1>b, <1>c, <5>2, WithinLess, EventLimitsAreNumbers
        <4> QED BY Zenon, <2>3, <4>2, <4>3, <4>4, <2>2, <3>1, EntryFields DEF Kept
      <3>2. CASE handled[1].kind # "event"
        <4>1. Events' = Events /\ EventBytes' = EventBytes /\ EventBytes \in Nat
          BY SMTT(30), EventLimitsAreNumbers, <2>5, <3>2 DEF EventBytes
        <4>2. Held \in Nat /\ Events \in Nat
          BY Zenon, <1>0, <2>5
        <4>3. Within(used.bytes - Held, used.frames - 1, EventBytes, Events)
          BY SMTT(30), <1>b, <1>c, <4>1, <4>2, WithinLess
        <4> QED BY Zenon, <2>3, <4>1, <4>3 DEF Kept
      <3> QED BY Zenon, <3>1, <3>2
    <2> QED BY SMTT(30), <2>1, <2>7, <2>8, <1>0, <2>2 DEF QueueInv, QueueTypeOK, release
  <1>4. CASE destroy_queue
    <2>1. /\ entries_' = <<>> /\ UNCHANGED <<handled, refused>> /\ ended' = TRUE
          /\ used' = IF handled = <<>> THEN NoUsage ELSE reserve(NoUsage, handled[1].size)
      BY Zenon, <1>4 DEF destroy_queue
    <2>2. /\ used'.bytes = Held /\ used'.frames = Len(handled) /\ used' \in [bytes : Int, frames : Int]
      BY SMTT(30), <1>0, <2>1, HeldFields DEF NoUsage, reserve, Held, QueueInv
    <2>4. Held' = Held /\ EventsIn(handled') = EventsIn(handled) /\ EventsIn(entries_') = 0
      BY Zenon, <2>1, EventsInEmpty DEF Held
    <2>5. Counted'
      <3>1. PICK s : SumOf(<<>>, s) /\ s[0] = 0
        BY Zenon, SumEmpty
      <3> QED BY SMTT(30), <2>1, <3>1, <1>0, <2>2, <2>4 DEF Counted
    <2>6. Kept'
      <3>1. Events' = EventsIn(handled)
        BY <1>0, <2>4 DEF Events
      <3>2. CASE handled = <<>>
        <4>1. Held = 0 /\ Len(handled) = 0 /\ EventsIn(handled) = 0
          BY Zenon, <3>2, HeldFields DEF QueueInv
        <4> QED BY SMTT(30), <2>2, <3>1, <4>1, EventLimitsAreNumbers DEF Kept, Within, EventBytes
      <3>3. CASE handled # <<>>
        <4>1. /\ Len(handled) = 1 /\ Held = handled[1].size /\ handled[1] \in Entries
              /\ EventsIn(handled) = (IF handled[1].kind = "event" THEN 1 ELSE 0)
          BY Zenon, <3>3, HeldFields DEF QueueInv
        <4>2. IF handled[1].kind = "event" THEN Held = EventSize ELSE Held <= PacketBytes
          BY Zenon, <4>1, EntryFields
        <4>3. EventBytes' = (IF handled[1].kind = "event" THEN EventSize ELSE 0)
          BY SMTT(30), <3>1, <4>1, EventLimitsAreNumbers DEF EventBytes
        <4>4. used'.bytes = Held /\ used'.frames = 1 /\ Held \in Nat
          BY Zenon, <1>0, <2>2, <4>1
        <4>5. CASE handled[1].kind = "event"
          BY SMTT(30), <3>1, <4>1, <4>2, <4>3, <4>4, <4>5, EventLimitsAreNumbers DEF Kept, Within
        <4>6. CASE handled[1].kind # "event"
          BY <3>1, <4>1, <4>2, <4>3, <4>4, <4>6, EventLimitsAreNumbers DEF Kept, Within, PacketBytes
        <4> QED BY Zenon, <4>5, <4>6
      <3> QED BY Zenon, <3>2, <3>3
    <2> QED BY SMTT(30), <2>1, <2>5, <2>6, <2>2 DEF QueueInv, QueueTypeOK
  <1>5. CASE UNCHANGED evars
    BY Zenon, <1>5 DEF evars, QueueInv, QueueTypeOK, Counted, Kept, EventBytes, Held, Events
  <1> QED BY Zenon, <1>1, <1>2, <1>3, <1>4, <1>5

\* When an event has no room there are as many events already as are kept for them.
LEMMA NoRoomForEvent ==
  ASSUME NEW b \in Int, NEW f \in Int, NEW n \in Nat, Within(b, f, n * EventSize, n),
         ~CanReserve(EventLimits, [bytes |-> b, frames |-> f], EventSize, TRUE)
  PROVE  \/ (n + 1) * EventSize > EventLimits.reserved_control_bytes
         \/ n + 1 > EventLimits.reserved_control_frames
  <1>1. PICK lb, lf, rb, rf \in Nat :
            /\ lb = EventLimits.bytes /\ rb = EventLimits.reserved_control_bytes
            /\ lf = EventLimits.frames /\ rf = EventLimits.reserved_control_frames
    BY Zenon, EventLimitsAreNumbers
  <1>2. EventSize \in Nat /\ EventSize # 0 /\ EventSize <= rb /\ rb < lb
    BY SMTT(30), <1>1, EventLimitsAreNumbers
  <1>4. PICK eb \in Nat : eb = n * EventSize /\ (n + 1) * EventSize = eb + EventSize
    BY <1>2
  <1> QED BY SMTT(30), <1>1, <1>4, <1>2 DEF CanReserve, byte_limit, frame_limit, Within

\* An event that has room, or takes the place of the oldest entry, leaves all within the limits.
LEMMA WithinEvent ==
  ASSUME NEW b \in Int, NEW f \in Int, NEW eb \in Int, NEW ev \in Int, Within(b, f, eb, ev),
         b <= EventLimits.bytes - EventSize, f < EventLimits.frames
  PROVE  Within(b + EventSize, f + 1, eb + EventSize, ev + 1)
  <1>1. PICK lb, lf, rb, rf \in Nat :
            /\ lb = EventLimits.bytes /\ rb = EventLimits.reserved_control_bytes
            /\ lf = EventLimits.frames /\ rf = EventLimits.reserved_control_frames
    BY Zenon, EventLimitsAreNumbers
  <1> QED BY SMTT(30), <1>1, EventLimitsAreNumbers DEF Within

\* When CanReserve holds for an event.
LEMMA ReserveEvent ==
  ASSUME NEW b \in Int, NEW f \in Int
  PROVE  CanReserve(EventLimits, [bytes |-> b, frames |-> f], EventSize, TRUE) <=>
             b <= EventLimits.bytes - EventSize /\ f < EventLimits.frames
  BY SMTT(30), EventLimitsAreNumbers DEF CanReserve, byte_limit, frame_limit

\* An event of queue q, whose entries with what the handler holds use the budget u, is queued.
LEMMA QueuedInv ==
  ASSUME QueueInv, NEW q \in Seq(Entries), NEW b \in Int, NEW f \in Int, NEW s, SumOf(q, s),
         f = Len(q) + Len(handled), b = s[Len(q)] + Held,
         Within(b, f, (EventsIn(q) + EventsIn(handled)) * EventSize, EventsIn(q) + EventsIn(handled)),
         b <= EventLimits.bytes - EventSize, f < EventLimits.frames,
         entries_' = Append(q, Entry("event", EventSize)),
         used' = [bytes |-> b + EventSize, frames |-> f + 1],
         UNCHANGED <<handled, refused, ended>>
  PROVE  QueueInv'
  <1> DEFINE e == Entry("event", EventSize)
  <1>1. e \in Entries /\ e.size = EventSize /\ e.kind = "event" /\ EventSize \in Nat
    BY Zenon, EventLimitsAreNumbers DEF Entries, Entry
  <1> HIDE DEF e
  <1>2. entries_' \in Seq(Entries) /\ Len(entries_') = Len(q) + 1 /\ Len(q) \in Nat
    BY <1>1 DEF e
  <1>4. Held' = Held /\ Held \in Nat /\ EventsIn(handled) \in Nat /\ Len(handled) \in Nat
    BY SMTT(30), HeldFields DEF QueueInv, Held
  <1>5. EventsIn(entries_') = EventsIn(q) + 1 /\ EventsIn(q) \in Nat
    BY Zenon, <1>1, EventsInAppend, EventsInType DEF e
  <1>6. Counted'
    <2>1. PICK t : SumOf(Append(q, e), t) /\ t[Len(q) + 1] = s[Len(q)] + e.size
      BY <1>1, SumAppend, Zenon
    <2>2. used'.bytes = b + EventSize /\ used'.frames = f + 1
      BY Zenon
    <2>3. s[Len(q)] \in Int
      <3>1. Len(q) \in 0..Len(q) /\ s \in [0..Len(q) -> Int]
        BY <1>2 DEF SumOf
      <3> QED BY Zenon, <3>1
    <2>4. used'.bytes = t[Len(entries_')] + Held'
      <3>1. t[Len(entries_')] = s[Len(q)] + EventSize
        BY Zenon, <1>1, <1>2, <2>1
      <3>2. EventSize \in Nat
        BY Zenon, <1>1
      <3> QED BY SMTT(30), <1>4, <2>2, <2>3, <3>1, <3>2
    <2> QED BY SMTT(30), <2>1, <2>4, <1>2, <1>4, <2>2 DEF Counted, e
  <1>7. Kept'
    <2>1. PICK n \in Nat : n = EventsIn(q) + EventsIn(handled)
      BY <1>4, <1>5
    <2>2. Events' = n + 1 /\ n * EventSize \in Nat /\ (n + 1) * EventSize = n * EventSize + EventSize
      <3>1. Events' = n + 1
        BY SMTT(30), <1>4, <1>5, <2>1 DEF Events
      <3> QED BY SMTT(30), <3>1, <1>1
    <2>3. Within(b + EventSize, f + 1, n * EventSize + EventSize, n + 1)
      BY SMTT(30), <2>1, <2>2, WithinEvent
    <2> QED BY Zenon, <2>2, <2>3 DEF Kept, EventBytes
  <1> QED BY SMTT(30), <1>6, <1>7, <1>1, <1>2 DEF QueueInv, QueueTypeOK

\* An event is queued, the invariant stays, and the oldest entry goes only if the events that
\* are there already fill their part.
LEMMA EventStep ==
  ASSUME QueueInv, network_event
  PROVE  /\ QueueInv'
         /\ Len(entries_') <= Len(entries_) =>
               \/ (Events + 1) * EventSize > EventLimits.reserved_control_bytes
               \/ Events + 1 > EventLimits.reserved_control_frames
  <1>0. /\ entries_ \in Seq(Entries) /\ used = [bytes |-> used.bytes, frames |-> used.frames]
        /\ used.bytes \in Int /\ used.frames \in Int /\ Len(entries_) \in Nat
    BY DEF QueueInv, QueueTypeOK
  <1>1. Held \in Nat /\ EventsIn(handled) \in Nat /\ Len(handled) \in Nat /\ EventsIn(entries_) \in Nat
    <2>3. EventsIn(entries_) \in Nat
      BY <1>0, EventsInType, Zenon
    <2> QED BY SMTT(30), <2>3, HeldFields DEF QueueInv
  <1>2. used.frames = Len(entries_) + Len(handled)
    BY Zenon DEF QueueInv, Counted
  <1>3. PICK s : SumOf(entries_, s) /\ used.bytes = s[Len(entries_)] + Held
    BY Zenon DEF QueueInv, Counted
  <1>4. Events \in Nat /\ Events = EventsIn(entries_) + EventsIn(handled)
    BY <1>1 DEF Events
  <1>5. Within(used.bytes, used.frames, Events * EventSize, Events)
    BY Zenon DEF QueueInv, Kept, EventBytes
  <1>6. UNCHANGED <<handled, ended>>
    BY Zenon DEF network_event
  <1>7. EventSize \in Nat
    BY Zenon, EventLimitsAreNumbers
  <1>8. CASE CanReserve(EventLimits, used, EventSize, TRUE)
    <2>1. /\ entries_' = Append(entries_, Entry("event", EventSize))
          /\ used' = [bytes |-> used.bytes + EventSize, frames |-> used.frames + 1] /\ UNCHANGED refused
      BY Zenon, <1>8 DEF network_event, reserve
    <2>3. QueueInv'
      BY Zenon, <1>0, <1>2, <1>3, <1>4, <1>5, <1>6, <2>1, QueuedInv, <1>8, ReserveEvent
    <2> QED BY SMTT(30), <1>0, <2>3, <2>1
  <1>9. CASE ~CanReserve(EventLimits, used, EventSize, TRUE) /\ entries_ # <<>>
    <2> DEFINE h == Head(entries_)
               q == Tail(entries_)
               b == used.bytes - h.size
               f == used.frames - 1
    <2>1. h \in Entries /\ q \in Seq(Entries) /\ Len(q) = Len(entries_) - 1
      BY <1>0, <1>9
    <2>2. h.size \in Nat /\ h.size >= EventSize /\ (h.kind = "event" => h.size = EventSize)
      BY Zenon, <2>1, EntryFields
    <2>3. b \in Int /\ f \in Int
      BY SMTT(30), <1>0, <2>2
    <2>4. PICK t : SumOf(q, t) /\ t[Len(entries_) - 1] = s[Len(entries_)] - h.size
      BY <1>0, <1>3, <1>9, SumTail, Zenon
    <2>5. s[Len(entries_)] \in Int
      BY SMTT(30), <1>0, <1>3 DEF SumOf
    <2>6. EventsIn(q) = EventsIn(entries_) - (IF h.kind = "event" THEN 1 ELSE 0)
      BY <1>0, <1>9, EventsInTail, Zenon
    <2>7. release(used, h.size) = [bytes |-> b, frames |-> f]
      BY Zenon DEF release
    <2> HIDE DEF h, q
    <2>8. f = Len(q) + Len(handled)
      BY <1>0, <1>1, <1>2, <2>1
    <2>9. b = t[Len(q)] + Held
      <3>1. t[Len(q)] = s[Len(entries_)] - h.size
        BY Zenon, <2>1, <2>4
      <3> QED BY SMTT(30), <1>1, <1>3, <2>2, <2>5, <3>1
    <2>10. b <= EventLimits.bytes - EventSize /\ f < EventLimits.frames
      <3>1. used.bytes <= EventLimits.bytes /\ used.frames <= EventLimits.frames
        BY Zenon, <1>5 DEF Within
      <3>2. EventLimits.bytes \in Nat /\ EventLimits.frames \in Nat
        BY Zenon, EventLimitsAreNumbers
      <3> QED BY SMTT(30), <1>0, <1>7, <2>2, <3>1, <3>2
    <2>11. PICK n \in Nat : n = EventsIn(q) + EventsIn(handled)
      <3>1. EventsIn(q) \in Nat
        BY <2>1, EventsInType, Zenon
      <3> QED BY SMTT(30), <1>1, <3>1
    <2>12. Within(b, f, n * EventSize, n)
      <3>1. CASE h.kind = "event"
        <4>1. n = Events - 1
          BY <1>1, <1>4, <2>6, <2>11, <3>1
        <4>2. Events * EventSize \in Int /\ n * EventSize = Events * EventSize - EventSize
          BY SMTT(30), <1>4, <1>7, <4>1
        <4>3. Events \in Int /\ h.size = EventSize
          BY SMTT(30), <1>4, <2>2, <3>1
        <4>4. Within(used.bytes - EventSize, used.frames - 1, Events * EventSize - EventSize, Events - 1)
          BY Zenon, <1>0, <1>5, <1>7, <4>2, <4>3, WithinLess
        <4> QED BY Zenon, <4>1, <4>2, <4>3, <4>4
      <3>2. CASE h.kind # "event"
        <4>2. Events * EventSize \in Int /\ Events \in Int
          BY <1>4, <1>7
        <4>3. Within(used.bytes - h.size, used.frames - 1, Events * EventSize, Events)
          BY Zenon, <1>0, <1>5, <2>2, <4>2, WithinLess
        <4> QED BY SMTT(30), <4>3, <1>1, <1>4, <2>6, <2>11, <3>2
      <3> QED BY Zenon, <3>1, <3>2
    <2> HIDE DEF b, f
    <2>14. /\ entries_' = Append(q, Entry("event", EventSize)) /\ UNCHANGED refused
           /\ used' = [bytes |-> b + EventSize, frames |-> f + 1]
      <3>2. reserve([bytes |-> b, frames |-> f], EventSize) = [bytes |-> b + EventSize, frames |-> f + 1]
        BY Zenon DEF reserve
      <3> QED BY Zenon, <1>9, <3>2, <2>3, <2>10, ReserveEvent, <2>7 DEF network_event, q, h
    <2>15. QueueInv'
      BY Zenon, <1>6, <2>1, <2>3, <2>4, <2>8, <2>9, <2>10, <2>11, <2>12, <2>14, QueuedInv
    <2> QED BY Zenon, <1>0, <1>4, <1>5, <1>9, <2>15, NoRoomForEvent
  <1>10. CASE ~CanReserve(EventLimits, used, EventSize, TRUE) /\ entries_ = <<>>
    <2>2. used.bytes = Held /\ used.frames = Len(handled)
      BY SMTT(30), <1>0, <1>1, <1>2, <1>3, <1>10 DEF SumOf
    <2>3. Held + EventSize <= EventLimits.bytes /\ Len(handled) < EventLimits.frames
      <3>1. CASE handled = <<>>
        BY SMTT(30), <1>7, <3>1, HeldFields, EventLimitsAreNumbers DEF QueueInv
      <3>2. CASE handled # <<>>
        <4>1. Held = handled[1].size /\ handled[1] \in Entries /\ Len(handled) = 1
          BY Zenon, <3>2, HeldFields DEF QueueInv
        <4> QED BY SMTT(30), <1>1, <4>1, EventLimitsAreNumbers, EntryFields DEF PacketBytes
      <3> QED BY Zenon, <3>1, <3>2
    <2>4. used.bytes <= EventLimits.bytes - EventSize /\ used.frames < EventLimits.frames
      <3>1. EventLimits.bytes \in Nat
        BY Zenon, EventLimitsAreNumbers
      <3> QED BY SMTT(30), <1>1, <1>7, <2>2, <2>3, <3>1
    <2> QED BY Zenon, <1>0, <1>10, <2>4, ReserveEvent
  <1> QED BY Zenon, <1>8, <1>9, <1>10

\* However many packets wait and whatever the handler that runs holds, an event of the relay
\* finds its place in the queue of a client: it is never refused, and it displaces the oldest
\* entry only if the events that wait fill the part of the budget that is kept for events.
THEOREM EventsAreQueued == EventSpec => EventIsQueued
  <1>1. EventInit => QueueInv
    <2> SUFFICES ASSUME EventInit PROVE QueueInv
      BY Zenon
    <2>1. QueueTypeOK /\ ~refused
      <3>1. <<>> \in Seq(Entries) /\ NoUsage \in [bytes : Int, frames : Int]
        BY DEF NoUsage
      <3> QED BY <3>1, Zenon DEF EventInit, QueueTypeOK
    <2>2. Held = 0 /\ Events = 0 /\ used.bytes = 0 /\ used.frames = 0
      BY EventsInEmpty DEF EventInit, Held, Events, NoUsage
    <2>3. Counted
      <3>1. PICK s : SumOf(<<>>, s) /\ s[0] = 0
        BY Zenon, SumEmpty
      <3> QED BY <2>2, <3>1 DEF EventInit, Counted
    <2> QED BY SMTT(30), <2>1, <2>3, <2>2, EventLimitsAreNumbers DEF QueueInv, Kept, Within,
         EventBytes
  <1>2. QueueInv /\ [EventNext]_evars => QueueInv'
    BY Zenon, QueueStep, EventStep DEF EventNext
  <1>3. QueueInv /\ QueueInv' /\ [EventNext]_evars =>
          [/\ ~refused'
           /\ network_event /\ Len(entries_') <= Len(entries_) =>
                 \/ (Events + 1) * EventSize > EventLimits.reserved_control_bytes
                 \/ Events + 1 > EventLimits.reserved_control_frames]_evars
    BY Zenon, EventStep DEF QueueInv
  <1> QED BY <1>1, <1>2, <1>3, PTL DEF EventSpec, EventIsQueued
=============================================================================
