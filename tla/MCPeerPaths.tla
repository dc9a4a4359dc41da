----------------------------- MODULE MCPeerPaths -----------------------------
(* Instances of PeerPaths for TLC. *)
EXTENDS PeerPaths

CONSTANTS a, b

=============================================================================
