---------------------------- MODULE MCRelayHold ----------------------------
(***************************************************************************)
(* An instance of RelayPool in which one thread probes three relays of a   *)
(* catalog that does not expire.  As in the program, where four threads    *)
(* may need 2 s for each of up to 32 relays, a scan can last longer than a *)
(* sample stays fresh.                                                     *)
(***************************************************************************)
EXTENDS RelayPool

HoldInit == PoolInit /\ Listed(nodes) = Ids /\ expires = MaxNow + 1

HoldSpec == HoldInit /\ [][PoolNext]_pvars
=============================================================================
