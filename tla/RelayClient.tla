---------------------------- MODULE RelayClient ----------------------------
(***************************************************************************)
(* The client's side of a relay connection: QuicRelayClient::Impl of       *)
(* src/src/transport/quic.cpp, driven by RelaySession.                     *)
(*                                                                         *)
(* Four kinds of thread take steps.  The worker runs run_loop: it opens a  *)
(* QUIC attempt, waits for its end, falls back to TLS over TCP when QUIC   *)
(* never connected, and waits the back-off delay.  MsQuic's connection     *)
(* thread runs the callbacks of the attempt.  Callers run request_control  *)
(* and one thread runs RelaySession::stop.  An action is one section       *)
(* between two points at which another thread can run: what is done under  *)
(* one hold of the attempt's mutex, or one access of an atomic variable.   *)
(*                                                                         *)
(* scan_pool is any relay of the pool or none (RelayPool has its rules).   *)
(* The relay answers a connection's requests in the order they were sent.  *)
(***************************************************************************)
EXTENDS Integers, Sequences, FiniteSets, FiniteSetsExt

CONSTANTS
    Callers,       \* threads that call request_control
    Attempts,      \* names of AttemptState objects alive at one time
    Relays,        \* relays of the pool
    Pooled,        \* whether the client was given a pool
    IdSpace,       \* number of request identifiers, 2^32 in the code
    MaxWire,       \* most requests of a connection the relay has not answered
    InitialDelay, MaximumDelay,   \* of ReconnectBackoff
    MaxFails       \* the count of failed rounds stops here

None == 0

ASSUME ClientAssumption ==
    /\ None \notin Callers /\ None \notin Attempts /\ None \notin Relays
    /\ Pooled \in BOOLEAN /\ IsFiniteSet(Callers)
    /\ MaxWire \in Nat /\ IdSpace \in Nat
    /\ IdSpace > MaxWire + Cardinality(Callers) + 2
    /\ InitialDelay \in Nat \ {0} /\ MaximumDelay \in Nat /\ InitialDelay <= MaximumDelay
    /\ MaxFails \in Nat

VARIABLES
    pc,              \* where the worker is in run, run_loop or run_tcp_attempt
    token,           \* the stop token of the worker's thread was requested
    stop_requested, connected, authenticated,    \* the atomic flags
    session,         \* attempt whose session identifier session_id_ holds
    peers_,          \* attempt that filled peer_states_ and network_keys_
    active_attempt_,
    att,             \* the AttemptState objects
    current,         \* the attempt the worker works on
    selected, planned, quic_succeeded,   \* of the round of run_loop
    delay, waited,   \* current_delay_ of the back-off, and the last delay taken
    next_id,         \* next_request_id_
    caller,          \* the threads in request_control
    stopper,         \* the thread in RelaySession::stop
    round_ok, fails  \* history: the round authenticated; failed rounds since one did

worker == <<pc, current, selected, planned, quic_succeeded, delay, waited, round_ok, fails>>
flags == <<connected, authenticated, session, peers_>>
clvars == <<worker, flags, token, stop_requested, active_attempt_, att, next_id, caller, stopper>>

\* protocol::capability_request_id, the last identifier.
CapabilityId == IdSpace - 1

\* AttemptState as make_shared leaves it.  conn is the MsQuic handle: "none" before
\* ConnectionOpen and after SHUTDOWN_COMPLETE; closing says that ConnectionShutdown was
\* called, and hs is how far the control stream's ClientHandshake is.  cb is where the
\* callback thread stands inside a handler of several sections.
AttemptState ==
    [conn |-> "none", closing |-> FALSE, stream |-> FALSE, tcp |-> "none",
     authenticated |-> FALSE, ever_authenticated |-> FALSE, quic_connected |-> FALSE,
     complete |-> FALSE, shutdown_requested |-> FALSE,
     hs |-> "none", cb |-> "none", pending |-> {}, wire |-> <<>>]

PendingControl == [pos |-> "idle", on |-> None, id |-> 0, tag |-> 0, answer |-> 0]

ClientInit ==
    /\ pc = "idle" /\ token = FALSE /\ stop_requested = FALSE
    /\ connected = FALSE /\ authenticated = FALSE /\ session = None /\ peers_ = None
    /\ active_attempt_ = None /\ current = None
    /\ att = [a \in Attempts |-> AttemptState]
    /\ selected = None /\ planned = FALSE /\ quic_succeeded = FALSE
    /\ delay = InitialDelay /\ waited = 0
    /\ next_id = 2
    /\ caller = [k \in Callers |-> PendingControl]
    /\ stopper = [pos |-> "idle", on |-> None]
    /\ round_ok = FALSE /\ fails = -1

\* An AttemptState no thread holds a pointer to: its name can be given to a new one.
Unused(a) ==
    /\ a # current /\ a # active_attempt_ /\ a # stopper.on
    /\ att[a].cb = "none"
    /\ \A k \in Callers : caller[k].on # a

\* The objects when the worker drops its pointers: one that nobody holds is destroyed.
Released ==
    [a \in Attempts |-> IF \/ att[a].cb # "none" \/ a = stopper.on
                           \/ \E k \in Callers : caller[k].on = a
                        THEN att[a] ELSE AttemptState]

-----------------------------------------------------------------------------
(* Sections used by several handlers *)

\* fail_pending: every waiting request ends with a failure.
fail_pending(a) ==
    caller' = [k \in Callers |->
                 IF \E p \in att[a].pending : p[2] = k
                 THEN [caller[k] EXCEPT !.pos = "failed"] ELSE caller[k]]

\* What every handler does to the attempt of a connection that went down.
Dropped(a) == [att[a] EXCEPT !.authenticated = FALSE, !.stream = FALSE, !.pending = {}]

\* The same when the connection is gone, and with it what the relay might still send.
Closed(a) == [Dropped(a) EXCEPT !.conn = "none", !.tcp = "none", !.closing = FALSE,
                                !.hs = "over", !.wire = <<>>]

\* connected_, authenticated_, clear_session and clear_peer_states.
log_out == connected' = FALSE /\ authenticated' = FALSE /\ session' = None /\ peers_' = None

\* api_->ConnectionShutdown: asynchronous, without effect on a null handle.
ConnectionShutdown(r) == IF r.conn = "none" THEN r ELSE [r EXCEPT !.closing = TRUE]

\* clear_active
clear_active(a) == IF active_attempt_ = a THEN None ELSE active_attempt_

-----------------------------------------------------------------------------
(* run and run_loop *)

\* Mutation of run: the token's callback is not run when it is registered late.
run_no_callback ==
    \/ /\ pc = "idle" /\ stopper.pos = "idle"
       /\ pc' = "entered"
       /\ UNCHANGED <<stop_requested, flags, delay, fails>>
    \/ /\ pc = "entered" /\ pc' = "registering"
       /\ stop_requested' = FALSE
       /\ log_out
       /\ delay' = InitialDelay /\ fails' = -1
    \/ /\ pc = "registering" /\ pc' = "loop"
       /\ UNCHANGED <<flags, delay, fails, stop_requested>>

\* RelaySession::start and run up to run_loop: running_ is taken, the flags are reset, and
\* the stop callback is registered, which runs stop() at once when the token was requested
\* before.  run_loop resets the back-off.
run ==
    \/ /\ pc = "idle" /\ stopper.pos = "idle"
       /\ pc' = "entered"
       /\ UNCHANGED <<stop_requested, flags, delay, fails>>
    \/ /\ pc = "entered" /\ pc' = "registering"
       /\ stop_requested' = FALSE
       /\ log_out
       /\ delay' = InitialDelay /\ fails' = -1
    \/ /\ pc = "registering" /\ pc' = "loop"
       /\ stop_requested' = (stop_requested \/ token)
       /\ UNCHANGED <<flags, delay, fails>>

Run == run /\ UNCHANGED <<token, active_attempt_, att, current, selected, planned, quic_succeeded,
                          waited, next_id, caller, stopper, round_ok>>

\* The head of the loop: a stop ends it; a pool is scanned, and without a choice the worker
\* sleeps a second and comes back; otherwise an attempt is made.
run_loop ==
    /\ pc = "loop"
    /\ round_ok' = FALSE
    /\ \/ stop_requested /\ pc' = "finish" /\ UNCHANGED <<selected, planned>>
       \/ ~stop_requested /\ Pooled /\ pc' = "nap" /\ UNCHANGED <<selected, planned>>
       \/ /\ ~stop_requested /\ pc' = "attempt" /\ planned' = FALSE
          /\ IF Pooled THEN selected' \in Relays ELSE UNCHANGED selected
    /\ UNCHANGED <<flags, token, stop_requested, active_attempt_, att, current, quic_succeeded, delay,
                   waited, next_id, caller, stopper, fails>>

Nap == /\ pc = "nap" /\ pc' = "loop"
       /\ UNCHANGED <<flags, token, stop_requested, active_attempt_, att, current, selected, planned,
                      quic_succeeded, delay, waited, next_id, caller, stopper, round_ok, fails>>

\* start_attempt up to the publication of the attempt: ConnectionOpen fails, or the handle
\* is stored and the attempt becomes the active one.
open_attempt ==
    /\ pc = "attempt"
    /\ \E a \in Attempts, opened \in BOOLEAN :
          /\ Unused(a)
          /\ current' = a
          /\ att' = [att EXCEPT ![a] = [AttemptState EXCEPT !.conn = IF opened THEN "open" ELSE "none"]]
          /\ active_attempt_' = IF opened THEN a ELSE active_attempt_
          /\ pc' = IF opened THEN "starting" ELSE "settle"
    /\ UNCHANGED <<flags, token, stop_requested, selected, planned, quic_succeeded, delay,
                   waited, next_id, caller, stopper, round_ok, fails>>

\* The rest of start_attempt: a stop that came before the publication is seen here, under
\* the attempt's mutex; ConnectionStart may fail.
start_attempt ==
    /\ pc = "starting"
    /\ \E started \in BOOLEAN :
          IF ~stop_requested /\ started
          THEN /\ att' = [att EXCEPT ![current].conn = "started"]
               /\ pc' = "wait" /\ UNCHANGED active_attempt_
          ELSE /\ att' = [att EXCEPT ![current].conn = "none", ![current].complete = TRUE,
                                     ![current].closing = FALSE]
               /\ active_attempt_' = clear_active(current) /\ pc' = "settle"
    /\ UNCHANGED <<flags, token, stop_requested, current, selected, planned, quic_succeeded,
                   delay, waited, next_id, caller, stopper, round_ok, fails>>

\* The wait for the attempt's end: a stop that the stopping thread could not pass to the
\* connection is passed here.
await_end ==
    /\ pc = "wait"
    /\ att[current].complete \/ stop_requested
    /\ att' = IF /\ stop_requested /\ att[current].conn # "none"
                 /\ ~att[current].shutdown_requested
              THEN [att EXCEPT ![current] =
                      ConnectionShutdown([@ EXCEPT !.shutdown_requested = TRUE])]
              ELSE att
    /\ pc' = "drain"

AwaitEnd == await_end /\ UNCHANGED <<flags, token, stop_requested, active_attempt_, current, selected,
                                     planned, quic_succeeded, delay, waited, next_id, caller,
                                     stopper, round_ok, fails>>

\* The periodic look at the pool of an authenticated connection: the mutex is released for
\* the scan, and what was true before it is checked again after it.
rescan ==
    /\ \/ /\ pc = "wait" /\ Pooled /\ att[current].authenticated
          /\ ~att[current].complete /\ ~stop_requested
          /\ pc' = "rescan" /\ UNCHANGED <<att, planned>>
       \/ /\ pc = "rescan" /\ pc' = "wait"
          /\ \E candidate \in Relays \union {None} :
                IF /\ candidate \notin {None, selected}
                   /\ ~att[current].complete /\ ~att[current].shutdown_requested
                   /\ ~stop_requested
                THEN /\ planned' = TRUE
                     /\ att' = [att EXCEPT ![current] =
                                  ConnectionShutdown([@ EXCEPT !.shutdown_requested = TRUE])]
                ELSE UNCHANGED <<att, planned>>
    /\ UNCHANGED <<flags, token, stop_requested, active_attempt_, current, selected, quic_succeeded,
                   delay, waited, next_id, caller, stopper, round_ok, fails>>

\* The attempt is over: whether TCP is tried depends on whether QUIC ever connected.
settle ==
    /\ \/ pc = "drain" /\ att[current].complete
       \/ pc = "settle"
    /\ active_attempt_' = clear_active(current)
    /\ quic_succeeded' = att[current].ever_authenticated
    /\ pc' = IF ~att[current].quic_connected /\ ~stop_requested THEN "tcp" ELSE "after"
    /\ UNCHANGED <<flags, token, stop_requested, att, current, selected, planned, delay, waited,
                   next_id, caller, stopper, round_ok, fails>>

\* ReconnectBackoff::next_delay: the delay it leaves behind.
next_delay(d) == d + Min({d, MaximumDelay - d})

\* Mutation of end_round: the back-off is reset after every round.
end_round_resets ==
    /\ pc = "after"
    /\ IF stop_requested
       THEN pc' = "finish" /\ UNCHANGED <<delay, waited, fails>>
       ELSE /\ pc' = "delay"
            /\ waited' = IF planned THEN 0 ELSE InitialDelay
            /\ delay' = IF planned THEN InitialDelay ELSE next_delay(InitialDelay)
            /\ fails' = IF planned THEN -1 ELSE IF round_ok THEN 0 ELSE Min({fails + 1, MaxFails})

\* The end of a round: a round whose QUIC attempt authenticated resets the back-off (a TCP
\* attempt that authenticated did so itself); a planned change of relay waits no delay.
end_round ==
    /\ pc = "after"
    /\ LET from == IF quic_succeeded THEN InitialDelay ELSE delay IN
       IF stop_requested
       THEN pc' = "finish" /\ delay' = from /\ UNCHANGED <<waited, fails>>
       ELSE /\ pc' = "delay"
            /\ waited' = IF planned THEN 0 ELSE from
            /\ delay' = IF planned THEN from ELSE next_delay(from)
            /\ fails' = IF planned THEN -1 ELSE IF round_ok THEN 0 ELSE Min({fails + 1, MaxFails})

EndRound == end_round /\ UNCHANGED <<flags, token, stop_requested, active_attempt_, att, current,
                                     selected, planned, quic_succeeded, next_id, caller,
                                     stopper, round_ok>>

\* The back-off wait: it is timed, and a stop may cut it short.  The round's state is dropped.
Delay == /\ pc = "delay" /\ pc' = "loop" /\ current' = None /\ att' = Released
         /\ waited' = 0 /\ planned' = FALSE /\ quic_succeeded' = FALSE
         /\ UNCHANGED <<flags, token, stop_requested, active_attempt_, selected, delay, next_id, caller,
                        stopper, round_ok, fails>>

\* finish_run
finish_run ==
    /\ pc = "finish" /\ pc' = "idle" /\ current' = None /\ att' = Released
    /\ log_out
    /\ waited' = 0 /\ planned' = FALSE /\ quic_succeeded' = FALSE
    /\ UNCHANGED <<token, stop_requested, active_attempt_, selected, delay, next_id, caller, stopper,
                   round_ok, fails>>

-----------------------------------------------------------------------------
(* run_tcp_attempt *)

\* The connection: it fails (and the common end is reached with an empty attempt), a stop
\* is seen, or the channel is published and hello is queued.
tcp_connect ==
    /\ pc = "tcp"
    /\ \/ stop_requested /\ pc' = "after" /\ UNCHANGED <<att, active_attempt_, current, connected>>
       \/ \E a \in Attempts :
             /\ Unused(a)
             /\ att' = [att EXCEPT ![a] = AttemptState]
             /\ current' = a /\ pc' = "tcp_end" /\ UNCHANGED <<active_attempt_, connected>>
       \/ \E a \in Attempts :
             /\ ~stop_requested /\ Unused(a)
             /\ att' = [att EXCEPT ![a] = [AttemptState EXCEPT !.tcp = "open", !.hs = "hello"]]
             /\ current' = a /\ active_attempt_' = a /\ connected' = TRUE /\ pc' = "tcp_run"
    /\ UNCHANGED <<authenticated, session, peers_, token, stop_requested, selected, planned,
                   quic_succeeded, delay, waited, next_id, caller, stopper, round_ok, fails>>

\* The channel's loop ends: a stop, an authenticated connection whose UDP probe succeeded,
\* the deadline of an unauthenticated one, an error or the relay's close.
tcp_loop_end ==
    /\ pc = "tcp_run" /\ att[current].cb = "none"
    /\ pc' = "tcp_end"
    /\ UNCHANGED <<flags, token, stop_requested, active_attempt_, att, current, selected, planned,
                   quic_succeeded, delay, waited, next_id, caller, stopper, round_ok, fails>>

\* Mutation of tcp_teardown: the requests that wait are not failed.
tcp_teardown_keeps_pending ==
    \/ /\ pc = "tcp_end" /\ pc' = "tcp_clear"
       /\ att' = [att EXCEPT ![current] = [Closed(current) EXCEPT !.pending = att[current].pending]]
       /\ UNCHANGED <<flags, active_attempt_, delay, caller>>
    \/ /\ pc = "tcp_clear" /\ pc' = "after"
       /\ log_out
       /\ active_attempt_' = clear_active(current)
       /\ delay' = IF att[current].ever_authenticated THEN InitialDelay ELSE delay
       /\ UNCHANGED <<att, caller>>

\* The common end, first under the attempt's mutex, then without it.
tcp_teardown ==
    \/ /\ pc = "tcp_end" /\ pc' = "tcp_clear"
       /\ att' = [att EXCEPT ![current] = Closed(current)]
       /\ fail_pending(current)
       /\ UNCHANGED <<flags, active_attempt_, delay>>
    \/ /\ pc = "tcp_clear" /\ pc' = "after"
       /\ log_out
       /\ active_attempt_' = clear_active(current)
       /\ delay' = IF att[current].ever_authenticated THEN InitialDelay ELSE delay
       /\ UNCHANGED <<att, caller>>

TcpTeardown == tcp_teardown /\ UNCHANGED <<token, stop_requested, current, selected, planned,
                                           quic_succeeded, waited, next_id, stopper, round_ok,
                                           fails>>

-----------------------------------------------------------------------------
(* MsQuic's events of a QUIC attempt *)

\* The connection thread is between two handlers of attempt a.
NoCallback(a) == att[a].cb = "none" /\ att[a].conn # "none"

\* open_control_stream: the stream is opened and hello is sent, or the connection is shut
\* down because one of them fails; a stream that could not send is still there.
open_control_stream(up) ==
    {[up EXCEPT !.hs = "hello"], ConnectionShutdown(up), ConnectionShutdown([up EXCEPT !.hs = "hello"])}

\* CONNECTED
on_connected(a) ==
    /\ NoCallback(a) /\ att[a].conn = "started"
    /\ connected' = TRUE /\ authenticated' = FALSE /\ session' = None /\ peers_' = None
    /\ \E opened \in open_control_stream([att[a] EXCEPT !.quic_connected = TRUE, !.conn = "connected"]) :
          att' = [att EXCEPT ![a] = opened]
    /\ UNCHANGED <<worker, token, stop_requested, active_attempt_, next_id, caller, stopper>>

\* SHUTDOWN_INITIATED_BY_TRANSPORT and SHUTDOWN_INITIATED_BY_PEER
on_shutdown_initiated(a) ==
    /\ NoCallback(a) /\ att[a].conn \in {"started", "connected"}
    /\ log_out
    /\ att' = [att EXCEPT ![a] = [Dropped(a) EXCEPT !.conn = "down"]]
    /\ fail_pending(a)
    /\ UNCHANGED <<worker, token, stop_requested, active_attempt_, next_id, stopper>>

\* The stream's SHUTDOWN_COMPLETE, which MsQuic delivers before the connection's.
on_stream_shutdown(a) ==
    /\ NoCallback(a) /\ att[a].hs \notin {"none", "over"}
    /\ att[a].closing \/ att[a].conn = "down"
    /\ IF att[a].stream
       THEN /\ att' = [att EXCEPT ![a] = [Dropped(a) EXCEPT !.hs = "over"]]
            /\ authenticated' = FALSE /\ peers_' = None
            /\ fail_pending(a)
       ELSE /\ att' = [att EXCEPT ![a].hs = "over"]
            /\ UNCHANGED <<authenticated, peers_, caller>>
    /\ UNCHANGED <<worker, connected, session, token, stop_requested, active_attempt_, next_id, stopper>>

\* SHUTDOWN_COMPLETE in its three sections: the attempt loses its handle, then it is
\* complete (from here the worker may go on), then it stops being the active one.
on_shutdown_complete(a) ==
    \/ /\ NoCallback(a) /\ att[a].hs \in {"none", "over"}
       /\ att[a].conn = "down" \/ (att[a].conn # "open" /\ att[a].closing)
       /\ log_out
       /\ att' = [att EXCEPT ![a] = [Closed(a) EXCEPT !.cb = "ended"]]
       /\ fail_pending(a) /\ UNCHANGED active_attempt_
    \/ /\ att[a].cb = "ended"
       /\ att' = [att EXCEPT ![a].complete = TRUE, ![a].cb = "tail"]
       /\ UNCHANGED <<flags, active_attempt_, caller>>
    \/ /\ att[a].cb = "tail"
       /\ active_attempt_' = clear_active(a)
       /\ att' = [att EXCEPT ![a] = IF a = current THEN [@ EXCEPT !.cb = "none"] ELSE AttemptState]
       /\ UNCHANGED <<flags, caller>>

OnShutdownComplete(a) == on_shutdown_complete(a) /\ UNCHANGED <<worker, token, stop_requested,
                                                                next_id, stopper>>

-----------------------------------------------------------------------------
(* Frames, read by the connection thread over QUIC and by the worker over TCP *)

Receiving(a) ==
    \/ att[a].conn = "connected" /\ att[a].cb = "none"
    \/ pc = "tcp_run" /\ a = current /\ att[a].tcp = "open" /\ att[a].cb = "none"

\* How a handler ends the connection: TlsChannel::stop or ConnectionShutdown.
Hang(r) == IF r.tcp = "open" THEN [r EXCEPT !.tcp = "stopped"] ELSE ConnectionShutdown(r)

\* handle_auth_frame, the relay's hello: the proof is sent, or its failure or a frame out
\* of order ends the connection.
handle_challenge(a) ==
    /\ Receiving(a) /\ att[a].hs = "hello"
    /\ \E accepted \in BOOLEAN :
          att' = [att EXCEPT ![a] = IF accepted THEN [@ EXCEPT !.hs = "proof"] ELSE Hang(@)]
    /\ UNCHANGED <<worker, flags, token, stop_requested, active_attempt_, next_id, caller, stopper>>

\* handle_auth_frame, the relay's verdict: a refusal ends the connection; otherwise the
\* session is stored, and in a later section the attempt becomes authenticated unless a
\* stop or the connection's end came first.  The capability offer is the first request.
handle_result(a) ==
    \/ /\ Receiving(a) /\ att[a].hs = "proof"
       /\ \/ att' = [att EXCEPT ![a] = Hang(@)] /\ UNCHANGED session
          \/ att' = [att EXCEPT ![a].cb = "accept"] /\ session' = a
       /\ UNCHANGED <<authenticated, round_ok>>
    \/ /\ att[a].cb = "accept"
       /\ LET live == ~stop_requested /\ (att[a].conn # "none" \/ att[a].tcp # "none")
              r == [att[a] EXCEPT !.ever_authenticated = TRUE, !.hs = "done", !.cb = "none",
                                  !.stream = IF live THEN att[a].tcp = "none" ELSE @,
                                  !.authenticated = live \/ @]
          IN /\ \E sent \in BOOLEAN : att' = [att EXCEPT ![a] = IF sent THEN r ELSE Hang(r)]
             /\ authenticated' = (authenticated \/ live)
       /\ round_ok' = TRUE
       /\ UNCHANGED session

HandleResult(a) == handle_result(a) /\ UNCHANGED <<pc, current, selected, planned,
                       quic_succeeded, delay, waited, fails, connected, peers_, token,
                       stop_requested, active_attempt_, next_id, caller, stopper>>

\* handle_control_frame, a peer state (apply_peer_state stores it only while the client is
\* authenticated and not stopping, both read under peer_state_mutex_); a bad frame ends
\* the connection.
handle_peer_state(a) ==
    /\ Receiving(a) /\ att[a].hs = "done"
    /\ \/ /\ authenticated /\ ~stop_requested
          /\ peers_' = a /\ UNCHANGED att
       \/ att' = [att EXCEPT ![a] = Hang(@)] /\ UNCHANGED peers_
    /\ UNCHANGED <<worker, connected, authenticated, session, token, stop_requested, active_attempt_,
                   next_id, caller, stopper>>

\* Mutation of handle_response: the answer is given to the oldest waiting request.
handle_response_oldest(a) ==
    /\ Receiving(a) /\ att[a].hs = "done" /\ att[a].wire # <<>>
    /\ LET frame == Head(att[a].wire)
           rest == [att[a] EXCEPT !.wire = Tail(@)]
           found == {p \in att[a].pending : \A q \in att[a].pending : p[1] <= q[1]}
       IN IF found = {}
          THEN att' = [att EXCEPT ![a] = rest] /\ UNCHANGED caller
          ELSE /\ att' = [att EXCEPT ![a] = [rest EXCEPT !.pending = @ \ found]]
               /\ caller' = [k \in Callers |->
                               IF \E p \in found : p[2] = k
                               THEN [caller[k] EXCEPT !.pos = "answered", !.answer = frame.tag]
                               ELSE caller[k]]

\* handle_control_frame, a response: it ends the pending request of its identifier, with
\* the relay's answer or with its error; an unknown identifier is ignored; an answer of
\* another kind than the request ends the connection.
handle_response(a) ==
    /\ Receiving(a) /\ att[a].hs = "done" /\ att[a].wire # <<>>
    /\ LET frame == Head(att[a].wire)
           rest == [att[a] EXCEPT !.wire = Tail(@)]
           found == {p \in att[a].pending : p[1] = frame.id}
       IN IF found = {}
          THEN att' = [att EXCEPT ![a] = rest] /\ UNCHANGED caller
          ELSE \/ att' = [att EXCEPT ![a] = Hang(rest)] /\ UNCHANGED caller
               \/ \E end \in {"answered", "failed"} :
                     /\ att' = [att EXCEPT ![a] = [rest EXCEPT !.pending = @ \ found]]
                     /\ caller' = [k \in Callers |->
                                     IF \E p \in found : p[2] = k
                                     THEN [caller[k] EXCEPT !.pos = end, !.answer = frame.tag]
                                     ELSE caller[k]]

HandleResponse(a) == handle_response(a) /\ UNCHANGED <<worker, flags, token, stop_requested,
                                                       active_attempt_, next_id, stopper>>

-----------------------------------------------------------------------------
(* request_control *)

\* A name for the request, which no request in flight has.
Tags == 1 .. (Cardinality(Attempts) * MaxWire + Cardinality(Callers) + 1)
FreshTag == Min(Tags \ ({caller[k].tag : k \in Callers} \union
                        UNION {{att[a].wire[i].tag : i \in DOMAIN att[a].wire} : a \in Attempts}))

\* The active attempt is read.
call(k) ==
    /\ caller[k].pos = "idle" /\ active_attempt_ # None
    /\ caller' = [caller EXCEPT ![k] = [PendingControl EXCEPT !.pos = "got", !.on = active_attempt_]]
    /\ UNCHANGED <<worker, flags, token, stop_requested, active_attempt_, att, next_id, stopper>>

\* Identifiers the do-while loop steps over.
Skipped(a, i) == i = 0 \/ i = CapabilityId \/ \E p \in att[a].pending : p[1] = i
Wrap(i) == i % IdSpace

\* The do-while loop: the first identifier from next_request_id_ on that is not reserved
\* and not pending.
request_id(a) ==
    LET n == CHOOSE n \in 0 .. IdSpace - 1 :
                /\ ~Skipped(a, Wrap(next_id + n))
                /\ \A m \in 0 .. n - 1 : Skipped(a, Wrap(next_id + m))
    IN Wrap(next_id + n)

\* The identifiers do not come round to one whose answer is still under way: that takes
\* 2^32 requests.  Only refused sends use up identifiers without an answer to come.
FarFromWrapping(a, id) ==
    att[a].wire # <<>> => (id - att[a].wire[1].id) % IdSpace < IdSpace - (MaxWire + 3)

\* Under the attempt's mutex: a connection that is not authenticated, or a stop, throws; so
\* does a send that is refused (the queue is full), after the identifier was taken.
request_control(k) ==
    LET a == caller[k].on
        id == request_id(a)
        tag == FreshTag
    IN /\ caller[k].pos = "got"
       /\ IF /\ att[a].authenticated /\ (att[a].stream \/ att[a].tcp # "none")
             /\ ~stop_requested
          THEN /\ next_id' = Wrap(id + 1)
               /\ \/ /\ Len(att[a].wire) < MaxWire
                     /\ att' = [att EXCEPT ![a].pending = @ \union {<<id, k>>},
                                           ![a].wire = Append(@, [id |-> id, tag |-> tag])]
                     /\ caller' = [caller EXCEPT ![k].pos = "wait", ![k].id = id, ![k].tag = tag]
                  \/ /\ FarFromWrapping(a, id)
                     /\ caller' = [caller EXCEPT ![k] = PendingControl] /\ UNCHANGED att
          ELSE /\ caller' = [caller EXCEPT ![k] = PendingControl]
               /\ UNCHANGED <<att, next_id>>
       /\ UNCHANGED <<worker, flags, token, stop_requested, active_attempt_, stopper>>

\* wait_for times out: the pending entry is removed under the same mutex.
time_out(k) ==
    /\ caller[k].pos = "wait"
    /\ att' = [att EXCEPT ![caller[k].on].pending = {p \in @ : p[1] # caller[k].id}]
    /\ caller' = [caller EXCEPT ![k] = PendingControl]
    /\ UNCHANGED <<worker, flags, token, stop_requested, active_attempt_, next_id, stopper>>

\* request_control returns the answer or throws the failure.
Return(k) ==
    /\ caller[k].pos \in {"answered", "failed"}
    /\ caller' = [caller EXCEPT ![k] = PendingControl]
    /\ UNCHANGED <<worker, flags, token, stop_requested, active_attempt_, att, next_id, stopper>>

-----------------------------------------------------------------------------
(* RelaySession::stop, with QuicRelayClient::Impl::stop *)

\* request_stop (with its callback when it is registered), the flag, the active attempt,
\* the attempt under its mutex, clear_peer_states, the join.
stop ==
    \/ /\ stopper.pos = "idle" /\ pc # "idle"
       /\ token' = TRUE /\ stopper' = [stopper EXCEPT !.pos = "flag"]
       /\ UNCHANGED <<stop_requested, att, caller, peers_>>
    \/ /\ stopper.pos = "flag"
       /\ stop_requested' = TRUE /\ stopper' = [stopper EXCEPT !.pos = "read"]
       /\ UNCHANGED <<token, att, caller, peers_>>
    \/ /\ stopper.pos = "read"
       /\ stopper' = [pos |-> IF active_attempt_ = None THEN "clear" ELSE "mark", on |-> active_attempt_]
       /\ UNCHANGED <<token, stop_requested, att, caller, peers_>>
    \/ /\ stopper.pos = "mark"
       /\ LET a == stopper.on
              r == [att[a] EXCEPT !.authenticated = FALSE, !.pending = {},
                                  !.tcp = IF @ = "open" THEN "stopped" ELSE @]
          IN att' = [att EXCEPT ![a] =
                       IF r.conn # "none" /\ ~r.shutdown_requested
                       THEN ConnectionShutdown([r EXCEPT !.shutdown_requested = TRUE]) ELSE r]
       /\ fail_pending(stopper.on)
       /\ stopper' = [pos |-> "clear", on |-> None]
       /\ UNCHANGED <<token, stop_requested, peers_>>
    \/ /\ stopper.pos = "clear"
       /\ peers_' = None /\ stopper' = [stopper EXCEPT !.pos = "join"]
       /\ UNCHANGED <<token, stop_requested, att, caller>>
    \/ /\ stopper.pos = "join" /\ pc = "idle"
       /\ token' = FALSE /\ stopper' = [stopper EXCEPT !.pos = "idle"]
       /\ UNCHANGED <<stop_requested, att, caller, peers_>>

Stop == stop /\ UNCHANGED <<worker, connected, authenticated, session, active_attempt_, next_id>>

-----------------------------------------------------------------------------
WorkerStep ==
    \/ Run \/ run_loop \/ Nap \/ open_attempt \/ start_attempt \/ AwaitEnd \/ rescan \/ settle
    \/ EndRound \/ Delay \/ finish_run \/ tcp_connect \/ tcp_loop_end \/ TcpTeardown

\* What MsQuic owes an attempt whose connection went down or was shut down.
EndStep(a) == on_stream_shutdown(a) \/ OnShutdownComplete(a)

EventStep(a) ==
    \/ on_connected(a) \/ on_shutdown_initiated(a) \/ EndStep(a)
    \/ handle_challenge(a) \/ HandleResult(a) \/ handle_peer_state(a) \/ HandleResponse(a)

CallerStep(k) == call(k) \/ request_control(k) \/ time_out(k) \/ Return(k)

ClientNext ==
    \/ WorkerStep
    \/ \E a \in Attempts : EventStep(a)
    \/ \E k \in Callers : CallerStep(k)
    \/ Stop

ClientSpec == ClientInit /\ [][ClientNext]_clvars

\* The worker's thread goes on: it need not start another run, rescan the relays before it
\* is due, or leave a TCP loop without a stop.
WorkerGoesOn ==
    \/ (Run /\ pc # "idle") \/ run_loop \/ Nap \/ open_attempt \/ start_attempt \/ AwaitEnd
    \/ (rescan /\ pc = "rescan") \/ settle \/ EndRound \/ Delay \/ finish_run \/ tcp_connect
    \/ (tcp_loop_end /\ stop_requested) \/ TcpTeardown

\* The fairness the code's scheduling justifies: a thread that can go on does; the second
\* section of a handler follows the first; MsQuic ends a connection that was shut down or
\* that went down; a TCP loop looks at stop_requested_ and ends.
ClientFairness ==
    /\ WF_clvars(WorkerGoesOn)
    /\ \A a \in Attempts :
          /\ WF_clvars(EndStep(a))
          /\ WF_clvars(HandleResult(a) /\ att[a].cb = "accept")
    /\ WF_clvars(Stop /\ stopper.pos # "idle")
    /\ \A k \in Callers : WF_clvars(Return(k) \/ (caller[k].pos = "got" /\ request_control(k)))

FairClientSpec == ClientSpec /\ ClientFairness

-----------------------------------------------------------------------------
(* Properties *)

\* A caller that got an answer got the answer to its own request, although requests time
\* out while their answers are under way and identifiers wrap around and are used again
\* (request_control and handle_control_frame).
ResponseIsOwn == \A k \in Callers : caller[k].pos = "answered" => caller[k].answer = caller[k].tag

\* Nobody waits in vain: a request that waits is in the table of an attempt whose
\* connection can still answer it or still has a handler to run that fails it; an attempt
\* whose connection ended, was stopped or was torn down has no waiting request
\* (request_control, fail_pending and its five callers).
NobodyWaitsInVain ==
    \A k \in Callers : caller[k].pos = "wait" =>
        LET a == caller[k].on IN
        /\ <<caller[k].id, k>> \in att[a].pending
        /\ att[a].authenticated /\ ~att[a].complete
        /\ att[a].conn # "none" \/ att[a].tcp # "none"

\* The delay before a round is the initial one doubled once per round that failed since a
\* round authenticated, up to the maximum (ReconnectBackoff with run_loop's resets).
BackoffExact ==
    pc = "delay" /\ ~planned => waited = Min({MaximumDelay, InitialDelay * 2 ^ fails})

\* RelaySession::stop returns whenever it is called: before run has reset its flag, while
\* an attempt is being published, during either handshake or any wait.
StopReturns == stopper.pos # "idle" ~> stopper.pos = "idle"
=============================================================================
