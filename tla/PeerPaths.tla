----------------------------- MODULE PeerPaths -----------------------------
(***************************************************************************)
(* How two members of a network find a direct path: the exchange of        *)
(* candidates, the UDP checks and the direct QUIC connection that the      *)
(* worker of src/src/session/peer_packet_path.cpp drives, the relay that   *)
(* forwards the candidates (src/src/relay/network_control_channel.cpp) and *)
(* the client that receives them (src/src/transport/quic.cpp).             *)
(*                                                                         *)
(* Every attempt of a device has a generation.  An offer names the attempt *)
(* of its sender, an answer also the attempt it answers; both ends then    *)
(* check and connect under the pair of generations.  Low is the device     *)
(* with the smaller identifier: it wins when both offer, and it is the one *)
(* that connects.  A context stands for the key epoch and the sessions of  *)
(* the two devices; candidates and attempts belong to one context.         *)
(***************************************************************************)
EXTENDS Integers, Sequences

CONSTANTS
    Low, High,      \* the devices; the identifier of Low is the smaller
    MaxInbox,       \* bound of candidate_inbox_: 64
    MaxContext,     \* bound on the contexts
    MaxTrouble      \* bound on early timeouts, lost packets, and changes

ASSUME PathsAssumption ==
    /\ Low # High
    /\ MaxInbox \in Nat \ {0}
    /\ MaxContext \in Nat \ {0}
    /\ MaxTrouble \in Nat

Device == {Low, High}
Other(d) == IF d = Low THEN High ELSE Low

VARIABLES
    context,        \* the context at the relay
    view,           \* the context of the snapshot of each client, 0 if it has none
    enabled,        \* enabled of each worker
    changed,        \* the interfaces changed, or revalidate was called
    peer,           \* the Peer of the other device, or NoPeer
    generation,     \* the last generation of each worker
    wire,           \* candidates on their way to the relay
    generations,    \* the last generation the relay forwarded of each device
    inbox,          \* candidate_inbox_ of each client
    trouble         \* what went wrong so far

pvars == <<context, view, enabled, changed, peer, generation, wire, generations, inbox, trouble>>

-----------------------------------------------------------------------------
(* Attempts.                                                               *)

\* A Peer.  remote is not empty exactly when peer # 0; punch and direct are
\* the stage.  link is the QUIC connection of direct.
NoPeer ==
    [context |-> 0, local |-> 0, peer |-> 0, response |-> 0, published |-> FALSE, waiting |-> TRUE,
     usable |-> FALSE, stage |-> "exchange", verified |-> FALSE, link |-> "none", was |-> FALSE,
     pending |-> FALSE]

Exists(p) == p.context # 0

\* Both ends name each other: the binding of one is the other's reversed.
Reversed(p, q) ==
    Exists(p) /\ p.context = q.context /\ p.local = q.peer /\ p.peer = q.local

\* The worker's state while it updates: its Peer and its generation counter.
Worker(p, g) == [p |-> p, g |-> g]

\* A new attempt, in the context c.  usable: some local candidate was found.
prepare(w, c, usable) ==
    Worker([NoPeer EXCEPT !.context = c, !.local = w.g + 1, !.usable = usable], w.g + 1)

\* A binding that the snapshot does not authorize is erased.
cleanup(w, v) == IF w.p.context # v THEN Worker(NoPeer, w.g) ELSE w

\* After a change, or when a retry is due, the attempt starts again; a peer
\* of the snapshot that has no attempt gets one.
renew(w, v, again, due, usable) ==
    IF ~Exists(w.p) \/ again \/ (w.p.pending /\ due) THEN prepare(w, v, usable) ELSE w

\* Low gets an offer while its own offer is open: it offers again, under a
\* new generation.
collide(w) ==
    IF w.p.published
    THEN Worker([w.p EXCEPT !.local = w.g + 1, !.published = FALSE], w.g + 1)
    ELSE w

\* Mutation of answers: an answer to an earlier offer counts.
answers_any(p, x) == p.waiting

\* An answer counts while the offer it answers is open.
answers(p, x) == p.waiting /\ x.response = p.local

\* Low ignores an offer while its own is open.
Ignores(d, p) == p.waiting /\ d = Low

\* The worker of d takes the candidates x.
take(d, w, x, usable) ==
    IF \/ x.generation <= w.p.peer
       \/ x.context # w.p.context
       \/ ~w.p.usable
    THEN w
    ELSE IF x.response = 0
    THEN IF Ignores(d, w.p)
         THEN collide(w)
         ELSE LET n == prepare(w, w.p.context, usable)
              IN  Worker([n.p EXCEPT !.response = x.generation, !.waiting = FALSE,
                                     !.peer = x.generation], n.g)
    ELSE IF answers(w.p, x)
    THEN Worker([w.p EXCEPT !.waiting = FALSE, !.pending = FALSE, !.peer = x.generation,
                            !.stage = "exchange", !.verified = FALSE], w.g)
    ELSE w

\* The candidates that the worker publishes for p, and whether it does now.
Candidates(p) == [context |-> p.context, generation |-> p.local, response |-> p.response]
Publishes(p) == Exists(p) /\ ~p.pending /\ p.stage # "direct" /\ p.usable /\ ~p.published

\* Mutation of pursue: nobody gives up waiting for candidates.
pursue_patient(p, turn) ==
    IF ~Exists(p) \/ p.pending \/ (p.published /\ p.peer = 0) THEN p
    ELSE IF p.stage = "direct"
    THEN [p EXCEPT !.was = (p.link = "auth"), !.pending = p.link # "auth" /\ (p.was \/ turn = "late")]
    ELSE IF ~p.usable THEN [p EXCEPT !.pending = TRUE]
    ELSE IF ~p.published \/ turn = "late" THEN [p EXCEPT !.pending = (turn = "late")]
    ELSE [p EXCEPT !.stage = IF p.verified /\ turn = "nominate" THEN "direct" ELSE "punch"]

\* What the worker then does about the attempt.  The turn is "late" when the
\* deadline of the stage has passed (8 s for an answer, the lifetime of the
\* candidates, 5 s of checks, 6 s for the connection), and "nominate" when
\* the checks choose a pair.
pursue(p, turn) ==
    IF ~Exists(p) \/ p.pending THEN p
    ELSE IF p.stage = "direct"
    THEN [p EXCEPT !.was = (p.link = "auth"), !.pending = p.link # "auth" /\ (p.was \/ turn = "late")]
    ELSE IF ~p.usable THEN [p EXCEPT !.pending = TRUE]
    ELSE IF ~p.published \/ p.peer = 0 \/ turn = "late" THEN [p EXCEPT !.pending = (turn = "late")]
    ELSE [p EXCEPT !.stage = IF p.verified /\ turn = "nominate" THEN "direct" ELSE "punch"]

-----------------------------------------------------------------------------
(* When a deadline passes.  Deadlines are much longer than the time that a *)
(* message takes, so one that passes although the attempt could still      *)
(* succeed counts as trouble.                                              *)

UnderWay == \E d \in Device : wire[d] # <<>> \/ inbox[d] # <<>>

\* A client has yet to learn of this context, or the other worker has yet to
\* publish, to retry or to be enabled.
Awaited(d) ==
    LET q == peer[Other(d)]
    IN  \/ \E x \in Device : view[x] # context
        \/ ~Exists(q)
        \/ q.pending
        \/ ~q.published

\* The checks or the connection of the attempt p of d can still succeed.
Promising(d, p) ==
    LET q == peer[Other(d)]
    IN  /\ Reversed(p, q)
        /\ ~q.pending
        /\ \/ p.stage # "direct" /\ (p.verified \/ q.stage # "direct")
           \/ p.stage = "direct" /\ (q.verified \/ q.stage = "direct") /\ p.link # "down"

Hopeless(d, p) == p.published /\ ~UnderWay /\ ~Awaited(d) /\ ~Promising(d, p)

Offers == {"no", "sent", "lost"}
Turns == {"wait", "late", "nominate"}
Cost(b) == IF b THEN 1 ELSE 0

-----------------------------------------------------------------------------
(* The worker of a device.                                                 *)

PathsInit ==
    /\ context = 1
    /\ view = [d \in Device |-> 0]
    /\ enabled = [d \in Device |-> TRUE]
    /\ changed = [d \in Device |-> FALSE]
    /\ peer = [d \in Device |-> NoPeer]
    /\ generation = [d \in Device |-> 0]
    /\ wire = [d \in Device |-> <<>>]
    /\ generations = [d \in Device |-> 0]
    /\ inbox = [d \in Device |-> <<>>]
    /\ trouble = 0

\* update without snapshot, or with direct paths disabled: attempts end.
update_idle(d) ==
    /\ view[d] = 0 \/ ~enabled[d]
    /\ Exists(peer[d])
    /\ peer' = [peer EXCEPT ![d] = NoPeer]
    /\ UNCHANGED <<context, view, enabled, changed, generation, wire, generations, inbox, trouble>>

renewed(d, due, usable) ==
    renew(cleanup(Worker(peer[d], generation[d]), view[d]), view[d], changed[d], due, usable)

\* The worker of d after the candidates xs.
take_all(d, w, xs, usable) ==
    LET after[i \in 0..Len(xs)] == IF i = 0 THEN w ELSE take(d, after[i - 1], xs[i], usable)
    IN  after[Len(xs)]

\* One pass of update.  due: the retry is due; usable: prepare finds local
\* candidates; offer: 250 ms have passed since the last offer, and
\* publish_peer_candidates succeeds or not; turn: see pursue (the checks choose
\* a pair only once one is verified).
update(d, due, usable, offer, turn) ==
    /\ view[d] # 0
    /\ enabled[d]
    /\ ~usable \/ offer = "lost" => trouble < MaxTrouble
    /\ turn = "nominate" => peer[d].verified
    /\ changed' = [changed EXCEPT ![d] = FALSE]
    /\ inbox' = [inbox EXCEPT ![d] = <<>>]
    /\ UNCHANGED <<context, view, enabled, generations>>
    /\ \E w \in {take_all(d, renewed(d, due, usable), inbox[d], usable)} :
         LET publishes == Publishes(w.p) /\ offer # "no"
             p == [w.p EXCEPT !.published = @ \/ (publishes /\ offer = "sent")]
         IN  \E next \in {pursue(p, turn)} :
               LET cost == Cost(~usable) + Cost(offer = "lost")
                           + Cost(turn = "late" /\ (publishes \/ ~Hopeless(d, p)))
                           + Cost(next.stage = "direct" /\ p.stage # "direct" /\ ~peer[Other(d)].verified)
               IN  /\ offer = "lost" => publishes
                   /\ trouble + cost <= MaxTrouble
                   /\ trouble' = trouble + cost
                   /\ peer' = [peer EXCEPT ![d] = next]
                   /\ generation' = [generation EXCEPT ![d] = w.g]
                   /\ wire' = [wire EXCEPT ![d] = IF publishes /\ offer = "sent" THEN Append(@, Candidates(p)) ELSE @]

\* The interfaces of d change, or somebody calls revalidate.
revalidate(d) ==
    /\ trouble < MaxTrouble
    /\ trouble' = trouble + 1
    /\ changed' = [changed EXCEPT ![d] = TRUE]
    /\ UNCHANGED <<context, view, enabled, peer, generation, wire, generations, inbox>>

set_direct_enabled(d) ==
    /\ enabled[d] => trouble < MaxTrouble
    /\ trouble' = trouble + Cost(enabled[d])
    /\ enabled' = [enabled EXCEPT ![d] = ~@]
    /\ UNCHANGED <<context, view, changed, peer, generation, wire, generations, inbox>>

-----------------------------------------------------------------------------
(* The relay, and what the client learns from it.                          *)

\* The epoch advances, or the devices of s reconnect.
change(s) ==
    /\ context < MaxContext
    /\ context' = context + 1
    /\ view' = [d \in Device |-> IF d \in s THEN 0 ELSE view[d]]
    /\ wire' = [d \in Device |-> IF d \in s THEN <<>> ELSE wire[d]]
    /\ inbox' = [d \in Device |-> IF d \in s THEN <<>> ELSE inbox[d]]
    /\ generations' = [d \in Device |-> IF d \in s THEN 0 ELSE generations[d]]
    /\ UNCHANGED <<enabled, changed, peer, generation, trouble>>

\* A peer state and the key arrive, or a peer state without the other device.
apply_peer_state(d) ==
    /\ view[d] # context
    /\ \E v \in {0, context} : v # view[d] /\ view' = [view EXCEPT ![d] = v]
    /\ UNCHANGED <<context, enabled, changed, peer, generation, wire, generations, inbox, trouble>>

\* The client of d keeps candidates that agree with its peer state, if it has
\* room for them.
Keeps(d, x) == view[d] = x.context /\ Len(inbox[d]) < MaxInbox

\* The relay takes the candidates of d that are next, and forwards them if
\* they are of the present context and newer than the last ones.  It refuses
\* the request of a device that sends too many.
peer_candidates(d, admitted) ==
    /\ wire[d] # <<>>
    /\ ~admitted => trouble < MaxTrouble
    /\ trouble' = trouble + Cost(~admitted)
    /\ LET x == Head(wire[d])
           forwards == admitted /\ x.context = context /\ x.generation > generations[d]
       IN  /\ generations' = [generations EXCEPT ![d] = IF forwards THEN x.generation ELSE @]
           /\ inbox' = [inbox EXCEPT ![Other(d)] = IF forwards /\ Keeps(Other(d), x) THEN Append(@, x) ELSE @]
    /\ wire' = [wire EXCEPT ![d] = Tail(@)]
    /\ UNCHANGED <<context, view, enabled, changed, peer, generation>>

-----------------------------------------------------------------------------
(* Checks and connections, between the devices.                            *)

\* The other end answers a probe of d: it checks under the reversed binding.
receive(d) ==
    /\ peer[d].stage = "punch"
    /\ peer[Other(d)].stage = "punch"
    /\ Reversed(peer[d], peer[Other(d)])
    /\ ~peer[d].verified
    /\ peer' = [peer EXCEPT ![d].verified = TRUE]
    /\ UNCHANGED <<context, view, enabled, changed, generation, wire, generations, inbox, trouble>>

\* Low connects and both ends find the reversed binding in the hello.
connect ==
    /\ \A d \in Device : peer[d].stage = "direct" /\ peer[d].link = "none"
    /\ Reversed(peer[Low], peer[High])
    /\ peer' = [d \in Device |-> [peer[d] EXCEPT !.link = "open"]]
    /\ UNCHANGED <<context, view, enabled, changed, generation, wire, generations, inbox, trouble>>

\* d verifies the signature of the other end.
authorize(d) ==
    /\ peer[d].link = "open"
    /\ peer' = [peer EXCEPT ![d].link = "auth"]
    /\ UNCHANGED <<context, view, enabled, changed, generation, wire, generations, inbox, trouble>>

\* The connection ends: the other end closed it, or the transport gave up.
shutdown(d) ==
    /\ peer[d].link \in {"open", "auth"}
    /\ LET closed == ~(peer[Other(d)].link \in {"open", "auth"} /\ Reversed(peer[d], peer[Other(d)]))
       IN  /\ ~closed => trouble < MaxTrouble
           /\ trouble' = trouble + Cost(~closed)
    /\ peer' = [peer EXCEPT ![d].link = "down"]
    /\ UNCHANGED <<context, view, enabled, changed, generation, wire, generations, inbox>>

-----------------------------------------------------------------------------
PathsNext ==
    \/ \E d \in Device :
         \/ update_idle(d)
         \/ \E due \in {FALSE, peer[d].pending}, usable \in BOOLEAN, offer \in Offers, turn \in Turns :
                update(d, due, usable, offer, turn)
         \/ revalidate(d)
         \/ set_direct_enabled(d)
         \/ apply_peer_state(d)
         \/ \E admitted \in BOOLEAN : peer_candidates(d, admitted)
         \/ receive(d)
         \/ authorize(d)
         \/ shutdown(d)
    \/ \E s \in SUBSET Device : change(s)
    \/ connect

PathsSpec == PathsInit /\ [][PathsNext]_pvars

\* The worker of d runs every 20 ms, and its timers run out.
update_fair(d) ==
    \E turn \in Turns :
        /\ turn = "late" => Hopeless(d, peer[d])
        /\ turn = "nominate" => peer[Other(d)].verified \/ peer[Other(d)].stage = "direct"
        /\ update(d, TRUE, TRUE, "sent", turn)

Fairness ==
    /\ \A d \in Device :
         /\ WF_pvars(update_fair(d))
         /\ WF_pvars(apply_peer_state(d))
         /\ WF_pvars(peer_candidates(d, TRUE))
         /\ WF_pvars(receive(d))
         /\ WF_pvars(authorize(d))
         /\ WF_pvars(shutdown(d))
    /\ WF_pvars(connect)

FairPathsSpec == PathsSpec /\ Fairness

-----------------------------------------------------------------------------
(* Properties.                                                             *)

\* When d has settled on the present attempt of the other end, and the other
\* end has settled too, the other end has settled on the present attempt of d:
\* neither a late answer nor crossing offers make them connect under
\* generations that do not belong together.
SettledIsMutual ==
    \A d \in Device :
        LET p == peer[d]
            q == peer[Other(d)]
        IN  /\ Exists(p) /\ p.context = q.context
            /\ ~p.waiting /\ ~q.waiting
            /\ p.peer = q.local
            => q.peer = p.local

\* If direct paths stay enabled, both ends have an authenticated connection in
\* the end, whatever was lost, crossed, timed out or changed before.
DirectInTheEnd ==
    <>[](\A d \in Device : enabled[d]) => <>[](\A d \in Device : peer[d].link = "auth")

=============================================================================
