----------------------------- MODULE TlsChannel -----------------------------
(***************************************************************************)
(* A TLS channel over TCP, TlsChannel::Impl of src/src/transport/tls.cpp:  *)
(* any thread may enqueue a frame or stop the channel while its own thread *)
(* runs the loop that writes the frames.  enqueue takes its ticket before  *)
(* it has the mutex of the queue, and run ends in three steps that other   *)
(* threads come between.                                                   *)
(*                                                                         *)
(* Reading, partial writes and the bytes on the wire are left out.         *)
(***************************************************************************)
EXTENDS SendBudget, Sequences, SequencesExt, FiniteSets

CONSTANTS
    Sender,         \* the threads that enqueue
    ChannelLimits,  \* the limits of budget_
    Sizes           \* the sizes of frames

ASSUME ChannelAssumption ==
    /\ ValidLimits(ChannelLimits)
    /\ IsFiniteSet(Sender)
    /\ Sizes \subseteq Nat

Frame == [size : Sizes, control : BOOLEAN]

VARIABLES
    usage,      \* budget_
    held,       \* the frame a sender has a ticket for and has not queued: <<>> or <<frame>>
    queue,      \* queue_
    writing,    \* writing of run: <<>> or <<frame>>
    worker,     \* where run is
    stopping,   \* stopping_
    finished    \* finished_

cvars == <<usage, held, queue, writing, worker, stopping, finished>>

ChannelInit ==
    /\ usage = NoUsage
    /\ held = [s \in Sender |-> <<>>]
    /\ queue = <<>>
    /\ writing = <<>>
    /\ worker = "running"
    /\ stopping = FALSE
    /\ finished = FALSE

-----------------------------------------------------------------------------
(* enqueue                                                                 *)

enqueue_reserve(s, frame) ==
    /\ held[s] = <<>>
    /\ CanReserve(ChannelLimits, usage, frame.size, frame.control)
    /\ usage' = reserve(usage, frame.size)
    /\ held' = [held EXCEPT ![s] = <<frame>>]
    /\ UNCHANGED <<queue, writing, worker, stopping, finished>>

\* What enqueue checks under the mutex of the queue.
Refused == stopping \/ finished

enqueue_push(s) ==
    /\ held[s] # <<>>
    /\ IF Refused THEN /\ usage' = release(usage, Head(held[s]).size)
                       /\ queue' = queue
       ELSE /\ queue' = queue \o held[s]
            /\ usage' = usage
    /\ held' = [held EXCEPT ![s] = <<>>]
    /\ UNCHANGED <<writing, worker, stopping, finished>>

-----------------------------------------------------------------------------
(* run                                                                     *)

run_take ==
    /\ worker = "running"
    /\ writing = <<>> /\ queue # <<>>
    /\ writing' = <<Head(queue)>>
    /\ queue' = Tail(queue)
    /\ UNCHANGED <<usage, held, worker, stopping, finished>>

run_written ==
    /\ worker = "running"
    /\ writing # <<>>
    /\ usage' = release(usage, Head(writing).size)
    /\ writing' = <<>>
    /\ UNCHANGED <<held, queue, worker, stopping, finished>>

\* The loop ends: the channel was stopped, keep_running said no, or the socket
\* failed.
run_stop ==
    /\ worker = "running"
    /\ worker' = "stopped"
    /\ stopping' = TRUE
    /\ UNCHANGED <<usage, held, queue, writing, finished>>

\* Mutation of run_finish: the frame that was being written keeps its ticket.
run_finish_writing ==
    /\ worker = "stopped"
    /\ worker' = "finished"
    /\ finished' = TRUE
    /\ UNCHANGED <<usage, held, queue, writing, stopping>>

run_finish ==
    /\ worker = "stopped"
    /\ worker' = "finished"
    /\ finished' = TRUE
    /\ writing' = <<>>
    /\ usage' = IF writing = <<>> THEN usage ELSE release(usage, Head(writing).size)
    /\ UNCHANGED <<held, queue, stopping>>

\* The bytes and frames of a sequence of frames.
Usage(frames) ==
    [bytes |-> FoldLeft(LAMBDA sum, frame : sum + frame.size, 0, frames),
     frames |-> Len(frames)]

run_clear ==
    /\ worker = "finished"
    /\ worker' = "done"
    /\ queue' = <<>>
    /\ usage' = [bytes |-> usage.bytes - Usage(queue).bytes,
                 frames |-> usage.frames - Usage(queue).frames]
    /\ UNCHANGED <<held, writing, stopping, finished>>

\* Another thread stops the channel.
stop ==
    /\ ~stopping
    /\ stopping' = TRUE
    /\ UNCHANGED <<usage, held, queue, writing, worker, finished>>

ChannelNext ==
    \/ \E s \in Sender : \E frame \in Frame : enqueue_reserve(s, frame)
    \/ \E s \in Sender : enqueue_push(s)
    \/ run_take \/ run_written \/ run_stop \/ run_finish \/ run_clear
    \/ stop

ChannelSpec == ChannelInit /\ [][ChannelNext]_cvars

\* The thread of run leaves its loop once the channel is stopped, and ends;
\* the threads that are in enqueue go on.
ChannelFairness ==
    /\ WF_cvars(run_finish \/ run_clear)
    /\ WF_cvars(stopping /\ run_stop)
    /\ \A s \in Sender : WF_cvars(enqueue_push(s))

FairChannelSpec == ChannelSpec /\ ChannelFairness

-----------------------------------------------------------------------------
(* Properties.                                                             *)

\* A channel that is stopped gives back what its frames reserved, and takes no
\* frame again.
StoppedReleases == stopping ~> [](queue = <<>> /\ writing = <<>>)

=============================================================================
