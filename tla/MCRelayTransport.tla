-------------------------- MODULE MCRelayTransport --------------------------
(***************************************************************************)
(* Instances of ControlStreams, TlsChannel and EventQueue for TLC.  A      *)
(* behaviour is one of the streams of a relay, of a channel or of the      *)
(* event queue of a client.                                                *)
(*                                                                         *)
(* The connections p, q and t are of one device, u is of another; a        *)
(* behaviour leaves the connections in a member of Unused unused.  Without *)
(* u there are no packets, and no more than two small frames are queued.   *)
(***************************************************************************)
EXTENDS ControlStreams, TlsChannel, EventQueue

CONSTANTS
    d, e, p, q, t, u,
    Unused,
    Parts       \* what the run is about: "streams", "channel", "events"

VARIABLES part, unused

MCDeviceOf == [c \in Quic \cup Tcp |-> IF c = u THEN e ELSE d]

\* Two small control frames fit in what is kept for control, a large one does not.
MCFrameSize == [small |-> 1, large |-> 3, data |-> 1]
MCLimits == [bytes |-> 3, frames |-> 3, reserved_control_bytes |-> 2, reserved_control_frames |-> 2]

MCChannelLimits == [bytes |-> 6, frames |-> 4, reserved_control_bytes |-> 2, reserved_control_frames |-> 2]

\* A packet is larger than an event; three or four of them fill what is left to packets.
MCEventLimits == [bytes |-> 10, frames |-> 6, reserved_control_bytes |-> 3, reserved_control_frames |-> 2]

MCInit ==
    /\ StreamsInit /\ ChannelInit /\ EventInit
    /\ part \in Parts
    /\ unused \in Unused

MCNext ==
    \/ /\ part = "streams"
       /\ StreamsNext
       /\ \A c \in unused : at'[c] = "new"
       /\ u \in unused => \A c \in Conn : out'[c]["large"] = 0 /\ out'[c]["small"] <= 2
       /\ UNCHANGED <<cvars, evars, part, unused>>
    \/ /\ part = "channel"
       /\ ChannelNext
       /\ UNCHANGED <<svars, evars, part, unused>>
    \/ /\ part = "events"
       /\ EventNext
       /\ UNCHANGED <<svars, cvars, part, unused>>

MCSpec == MCInit /\ [][MCNext]_<<svars, cvars, evars, part, unused>>

\* No fair action accepts a connection, and none is enabled in the initial
\* state of the part a behaviour is not about.
FairMCSpec == MCSpec /\ StreamsFairness /\ ChannelFairness
=============================================================================
