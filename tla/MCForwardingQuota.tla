------------------------- MODULE MCForwardingQuota -------------------------
(* An instance of ForwardingQuota for TLC. *)
EXTENDS ForwardingQuota

CONSTANTS a, b, nw, all

\* The authority allows less than two devices together.
MCRate == [k \in {a, b, nw, all} |->
             [r \in {"bytes", "deliveries", "controls"} |->
                IF r = "bytes" THEN 2 ELSE IF k = all /\ r = "deliveries" THEN 2 ELSE 1]]

Symmetry == {[x \in {a, b} |-> x], [x \in {a, b} |-> IF x = a THEN b ELSE a]}

=============================================================================
