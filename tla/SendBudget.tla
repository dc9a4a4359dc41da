----------------------------- MODULE SendBudget -----------------------------
(***************************************************************************)
(* The budget of a send queue, src/src/transport/resource_limits.cpp: a    *)
(* frame reserves its bytes and one frame before it is queued and gives    *)
(* them back when its ticket is destroyed.  Part of the budget is kept for *)
(* control frames.  The same class counts admitted connections and TLS     *)
(* handshakes.                                                             *)
(***************************************************************************)
EXTENDS Integers

\* The limits that the constructor accepts.
ValidLimits(limits) ==
    /\ limits \in [bytes : Nat, frames : Nat,
                   reserved_control_bytes : Nat, reserved_control_frames : Nat]
    /\ limits.reserved_control_bytes < limits.bytes
    /\ limits.reserved_control_frames < limits.frames

NoUsage == [bytes |-> 0, frames |-> 0]

byte_limit(limits, control) ==
    limits.bytes - (IF control THEN 0 ELSE limits.reserved_control_bytes)
frame_limit(limits, control) ==
    limits.frames - (IF control THEN 0 ELSE limits.reserved_control_frames)

\* Mutation of CanReserve: data may use what is kept for control frames.
CanReserve_all(limits, usage, size, control) ==
    /\ size # 0 /\ size <= limits.bytes
    /\ usage.bytes <= limits.bytes - size
    /\ usage.frames < limits.frames

\* Whether reserve hands out a ticket.
CanReserve(limits, usage, size, control) ==
    /\ size # 0 /\ size <= byte_limit(limits, control)
    /\ usage.bytes <= byte_limit(limits, control) - size
    /\ usage.frames < frame_limit(limits, control)

reserve(usage, size) == [bytes |-> usage.bytes + size, frames |-> usage.frames + 1]
release(usage, size) == [bytes |-> usage.bytes - size, frames |-> usage.frames - 1]

=============================================================================
