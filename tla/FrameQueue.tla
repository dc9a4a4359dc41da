----------------------------- MODULE FrameQueue -----------------------------
(***************************************************************************)
(* What a stream of frames promises its reader, whatever pieces the bytes  *)
(* arrive in: after each piece the frames that are complete by then, in    *)
(* the order they were sent, each once.  A malformed frame breaks the      *)
(* stream as soon as its header is there; the frames that became complete  *)
(* with that very piece are dropped with it.                               *)
(***************************************************************************)
EXTENDS Integers, Sequences, FiniteSets, FiniteSetsExt, SequencesExt

CONSTANTS HeaderSize, Sendings, WellFormed(_), Size(_)

VARIABLES sent, arrived, got, broken

qvars == <<sent, arrived, got, broken>>

\* The byte at which frame i starts; frame i is complete when frame i + 1 may start.
Start(i) == FoldSeq(LAMBDA x, y : x + y, 0, [j \in 1 .. i - 1 |-> Size(sent[j])])

Complete(n) == SubSeq(sent, 1, Max({i \in 0 .. Len(sent) : i = 0 \/ Start(i + 1) <= n}))
Malformed(n) == \E i \in DOMAIN sent : ~WellFormed(sent[i]) /\ Start(i) + HeaderSize <= n

QueueInit == sent \in Sendings /\ arrived = 0 /\ got = <<>> /\ broken = FALSE

\* A piece of the stream arrives.
Receive ==
    /\ ~broken
    /\ \E n \in arrived + 1 .. Start(Len(sent) + 1) : arrived' = n
    /\ broken' = Malformed(arrived')
    /\ got' = IF broken' THEN got ELSE Complete(arrived')
    /\ UNCHANGED sent

QueueSpec == QueueInit /\ [][Receive]_qvars
=============================================================================
