--------------------------- MODULE MCPacketBridge ---------------------------
(***************************************************************************)
(* Instances of PacketBridge for TLC.  A slice bounds one behaviour more   *)
(* tightly than the constants do, so that a run can ask for a wide replay  *)
(* window in one slice and for several epochs and sessions in another.     *)
(***************************************************************************)
EXTENDS PacketBridge

CONSTANTS
    a, b,
    Slices      \* the slices of the run

VARIABLE slice

\* A state BridgeSpec reaches once both devices have connected and their
\* bridges have been synchronized: a has session 1 and cipher 1, b has 2.
Running ==
    LET own == [d \in Device |-> IF d = a THEN 1 ELSE 2]
        others == [d \in Device |-> [e \in Device |-> IF e = d THEN 0 ELSE own[e]]]
    IN
    /\ epoch = 1
    /\ session = own
    /\ minted = 2
    /\ view = [d \in Device |->
                  [epoch |-> 1, peers |-> others[d], key |-> TRUE, asked |-> FALSE, lease |-> TRUE]]
    /\ bridge = own
    /\ ciphers = [c \in 1..MaxCiphers |->
                     IF c = 1 THEN NewCipher(a, 1, 1, others[a])
                     ELSE IF c = 2 THEN NewCipher(b, 1, 2, others[b]) ELSE Unbuilt]
    /\ built = 2
    /\ sending = [d \in Device |-> 0]
    /\ wire = {}
    /\ inbound = {}
    /\ injected = [d \in Device |-> {}]
    /\ again = {}
    /\ failures = 0

\* Two threads deliver a's packets of one key, with its numbers running out.
WindowSlice ==
    /\ BridgeNext
    /\ failures' = 0 /\ epoch' = 1 /\ minted' = 2
    /\ \A p \in wire' : ~p.routed

\* Leases lapse and synchronizations fail while packets are under way, and a
\* cipher replaces another under the same key.
RebuildSlice ==
    /\ BridgeNext
    /\ epoch' = 1 /\ minted' = 2 /\ Cardinality(inbound') <= 1
    /\ \A p \in wire' : ~p.routed /\ p.sequence <= 2

\* The epoch advances and a device reconnects while a packet, of either kind, is
\* on its way.
CurrentSlice ==
    /\ BridgeNext
    /\ failures' = 0 /\ Cardinality(inbound') <= 1
    /\ Cardinality(wire') <= 1

SliceInit == Running /\ slice \in Slices

SliceNext ==
    /\ UNCHANGED slice
    /\ \/ slice = "window" /\ WindowSlice
       \/ slice = "rebuild" /\ RebuildSlice
       \/ slice = "current" /\ CurrentSlice

SliceSpec == SliceInit /\ [][SliceNext]_<<bvars, slice>>
=============================================================================
