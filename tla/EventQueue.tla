----------------------------- MODULE EventQueue -----------------------------
(***************************************************************************)
(* The queue between the callbacks of a client's connection and the thread *)
(* that runs the handlers of its program: event_queue_, event_budget_ and  *)
(* dispatch_network_events of QuicRelayClient (quic.cpp).  Forwarded       *)
(* packets and network events share the queue and its budget; a packet     *)
(* without room is dropped, an event takes the place of the oldest entry,  *)
(* and an event without a place ends the connection.  The entry whose      *)
(* handler runs keeps its part of the budget.                              *)
(***************************************************************************)
EXTENDS SendBudget, Sequences, FiniteSets

CONSTANTS
    EventLimits,        \* of event_budget_: 4 MiB, 256 frames, 64 KiB and 8 for events
    EventSize,          \* sizeof(NetworkEvent)
    PacketSizes         \* of forwarded packets

ASSUME QueueAssumption ==
    /\ ValidLimits(EventLimits) /\ EventSize \in Nat \ {0} /\ PacketSizes \subseteq Nat
    /\ EventSize <= EventLimits.reserved_control_bytes
    /\ \A size \in PacketSizes : EventSize <= size
    /\ 2 * EventSize <= EventLimits.bytes /\ 2 <= EventLimits.frames

VARIABLES
    entries_,           \* event_queue_
    handled,            \* the entry whose handler runs, or a sequence without one
    used,               \* event_budget_
    refused,            \* an event found no place
    ended               \* event_worker_stopping_

evars == <<entries_, handled, used, refused, ended>>

EventInit == entries_ = <<>> /\ handled = <<>> /\ used = NoUsage /\ refused = FALSE /\ ended = FALSE

Entry(kind, size) == [kind |-> kind, size |-> size]

\* handle_forwarded_packet: a packet that the policy, the epoch or the addresses of the
\* network do not allow is dropped, and so is one the budget has no room for.
handle_forwarded_packet(size) ==
    /\ ~ended
    /\ \E allowed \in BOOLEAN :
          IF allowed /\ CanReserve(EventLimits, used, size, FALSE)
          THEN /\ entries_' = Append(entries_, Entry("packet", size))
               /\ used' = reserve(used, size)
          ELSE UNCHANGED <<entries_, used>>
    /\ UNCHANGED <<handled, refused, ended>>

\* Mutation of network_event: an event without room ends the connection at once.
network_event_strict ==
    /\ ~ended
    /\ IF CanReserve(EventLimits, used, EventSize, TRUE)
       THEN /\ entries_' = Append(entries_, Entry("event", EventSize))
            /\ used' = reserve(used, EventSize) /\ UNCHANGED refused
       ELSE refused' = TRUE /\ UNCHANGED <<entries_, used>>
    /\ UNCHANGED <<handled, ended>>

\* The network_event branch of handle_control_frame: without room the oldest entry goes.
network_event ==
    /\ ~ended
    /\ LET full == ~CanReserve(EventLimits, used, EventSize, TRUE) /\ entries_ # <<>>
           left == IF full THEN Tail(entries_) ELSE entries_
           room == IF full THEN release(used, Head(entries_).size) ELSE used
       IN IF CanReserve(EventLimits, room, EventSize, TRUE)
          THEN /\ entries_' = Append(left, Entry("event", EventSize))
               /\ used' = reserve(room, EventSize) /\ UNCHANGED refused
          ELSE entries_' = left /\ used' = room /\ refused' = TRUE
    /\ UNCHANGED <<handled, ended>>

\* dispatch_network_events takes the oldest entry and its part of the budget ...
dispatch_network_events ==
    /\ ~ended /\ handled = <<>> /\ entries_ # <<>>
    /\ handled' = <<Head(entries_)>> /\ entries_' = Tail(entries_)
    /\ UNCHANGED <<used, refused, ended>>

\* ... and gives it back after the handler returned or threw.
handler_returns ==
    /\ handled # <<>> /\ handled' = <<>>
    /\ used' = release(used, handled[1].size)
    /\ UNCHANGED <<entries_, refused, ended>>

\* The destructor clears the queue; the thread ends after the handler it is in.
destroy_queue ==
    /\ ~ended /\ ended' = TRUE /\ entries_' = <<>>
    /\ used' = IF handled = <<>> THEN NoUsage ELSE reserve(NoUsage, handled[1].size)
    /\ UNCHANGED <<handled, refused>>

EventNext ==
    \/ \E size \in PacketSizes : handle_forwarded_packet(size)
    \/ network_event \/ dispatch_network_events \/ handler_returns \/ destroy_queue

EventSpec == EventInit /\ [][EventNext]_evars

-----------------------------------------------------------------------------
(* Properties.                                                             *)

EventsIn(queue) == Cardinality({i \in DOMAIN queue : queue[i].kind = "event"})

Events == EventsIn(entries_) + EventsIn(handled)

\* An event is always queued, however many packets wait and whatever the handler that runs
\* holds: it never ends the connection, and it displaces an entry only when events alone
\* already fill the part of the budget that is kept for them.
EventIsQueued ==
    [][/\ ~refused'
       /\ network_event /\ Len(entries_') <= Len(entries_) =>
             \/ (Events + 1) * EventSize > EventLimits.reserved_control_bytes
             \/ Events + 1 > EventLimits.reserved_control_frames]_evars
=============================================================================
