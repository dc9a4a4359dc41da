------------------------------- MODULE Logger -------------------------------
(***************************************************************************)
(* The log of a program: Logger of src/src/core/logger.cpp.  Threads put   *)
(* records in a bounded queue; a worker thread writes them to a file and   *)
(* rotates it when it is full, keeping MaxFiles files.  A record is its    *)
(* number in the order of acceptance and counts as one unit of size.       *)
(*                                                                         *)
(* What the worker writes stays in the buffer of the stream until it is    *)
(* flushed or the buffer is written out; a crash loses the buffer and the  *)
(* queue and leaves the files, between any two of the file operations of a *)
(* rotation.  An empty file and an absent one are not told apart.          *)
(***************************************************************************)
EXTENDS Integers, Sequences

CONSTANTS
    Capacity,       \* queue_capacity, 8192 records
    MaxSize,        \* max_size_bytes_
    MaxFiles,       \* max_files_
    MaxRecords, MaxDropped

ASSUME LoggerAssumption ==
    /\ {Capacity, MaxSize, MaxFiles} \subseteq Nat \ {0} /\ {MaxRecords, MaxDropped} \subseteq Nat

VARIABLES
    files,          \* records in the file (0) and in the rotated ones (1 ..)
    buffer,         \* written to the stream, not yet in the file
    size,           \* current_size_
    queue, dropped, \* queue_, dropped_records_
    worker,         \* [at, record, index]: where the worker is
    state,          \* "on", "stopping", "failed" (failure_), "off"
    flusher,        \* 0, or 1 + the number of records accepted when flush was called
    accepted,       \* records accepted so far
    deleted, lost,  \* history: records a rotation removed; records a failed flush lost
    promised        \* history: records accepted before a flush that returned, but not by
                    \* an instance that crashed before

logvars == <<files, buffer, size, queue, dropped, worker, state, flusher, accepted,
             deleted, lost, promised>>

Slots == 0 .. MaxFiles - 1
Elements(s) == {s[i] : i \in 1 .. Len(s)}
InFiles == UNION {Elements(files[i]) : i \in Slots}
AtRest == [at |-> "idle", record |-> 0, index |-> 0]
writing_ == worker.at \notin {"idle", "ended"}

LoggerInit ==
    /\ files = [i \in Slots |-> <<>>] /\ buffer = <<>> /\ size = 0
    /\ queue = <<>> /\ dropped = 0 /\ worker = AtRest /\ state = "on"
    /\ flusher = 0 /\ accepted = 0
    /\ deleted = {} /\ lost = {} /\ promised = {}

-----------------------------------------------------------------------------
(* The threads that log.                                                   *)

\* log: a full queue drops the record; the first one accepted after that brings the note
\* about the dropped ones, if there is room for both.
log ==
    /\ state = "on"
    /\ LET note == dropped # 0 /\ Len(queue) + 1 < Capacity
           more == IF note THEN <<accepted + 1, accepted + 2>> ELSE <<accepted + 1>>
       IN IF Len(queue) >= Capacity
          THEN /\ dropped < MaxDropped
               /\ dropped' = dropped + 1 /\ UNCHANGED <<queue, accepted>>
          ELSE /\ accepted + Len(more) <= MaxRecords
               /\ queue' = queue \o more
               /\ accepted' = accepted + Len(more)
               /\ dropped' = IF note THEN 0 ELSE dropped
    /\ UNCHANGED <<files, buffer, size, worker, state, flusher, deleted, lost, promised>>

\* flush puts the note about dropped records in the queue and waits.
flush ==
    /\ flusher = 0 /\ state # "off"
    /\ LET note == dropped # 0 /\ Len(queue) < Capacity /\ accepted < MaxRecords IN
       /\ queue' = IF note THEN Append(queue, accepted + 1) ELSE queue
       /\ accepted' = IF note THEN accepted + 1 ELSE accepted
       /\ dropped' = IF note THEN 0 ELSE dropped
    /\ flusher' = 1 + accepted'
    /\ UNCHANGED <<files, buffer, size, worker, state, deleted, lost, promised>>

\* Mutation of drained: the record the worker is writing is not waited for.
drained_early == queue = <<>>

\* What flush waits for, without a failure.
drained == queue = <<>> /\ ~writing_

\* flush returns, with an error if the worker failed or the stream cannot be flushed.
flush_returns ==
    /\ flusher # 0 /\ flusher' = 0
    /\ \/ state = "failed" /\ UNCHANGED <<files, buffer, promised>>
       \/ /\ state # "failed" /\ drained
          /\ \/ /\ files' = [files EXCEPT ![0] = @ \o buffer] /\ buffer' = <<>>
                /\ promised' = promised \cup (1 .. flusher - 1)
             \/ UNCHANGED <<files, buffer, promised>>
    /\ UNCHANGED <<size, queue, dropped, worker, state, accepted, deleted, lost>>

\* The destructor, after its flush.
destroy ==
    /\ state = "on" /\ flusher = 0 /\ state' = "stopping"
    /\ UNCHANGED <<files, buffer, size, queue, dropped, worker, flusher, accepted, deleted, lost, promised>>

-----------------------------------------------------------------------------
(* The worker: worker_loop, write_record and rotate.                       *)

Threads == <<queue, dropped, state, flusher, accepted, promised>>

\* The worker takes a record; a record the file has no room for makes it rotate first.
worker_pop ==
    /\ worker.at = "idle" /\ queue # <<>>
    /\ worker' = [at |-> IF size # 0 /\ size + 1 > MaxSize THEN "close" ELSE "write",
                  record |-> Head(queue), index |-> 0]
    /\ queue' = Tail(queue)
    /\ UNCHANGED <<files, buffer, size, dropped, state, flusher, accepted, deleted, lost, promised>>

\* rotate flushes and closes the stream.  It does not look at the result: a flush that
\* fails here loses the buffer.
rotate_close ==
    /\ worker.at = "close"
    /\ worker' = [worker EXCEPT !.at = "remove"]
    /\ \/ files' = [files EXCEPT ![0] = @ \o buffer] /\ UNCHANGED lost
       \/ lost' = lost \cup Elements(buffer) /\ UNCHANGED files
    /\ buffer' = <<>>
    /\ UNCHANGED <<size, deleted, Threads>>

\* remove_file: the oldest file.
rotate_remove ==
    /\ worker.at = "remove"
    /\ deleted' = deleted \cup Elements(files[MaxFiles - 1])
    /\ files' = [files EXCEPT ![MaxFiles - 1] = <<>>]
    /\ worker' = [worker EXCEPT !.at = IF MaxFiles = 1 THEN "open" ELSE "move", !.index = MaxFiles - 1]
    /\ UNCHANGED <<buffer, size, lost, Threads>>

\* Moving a file over the next older one; an absent file is skipped.
move_file(i) ==
    IF files[i - 1] = <<>> THEN UNCHANGED <<files, deleted>>
    ELSE /\ deleted' = deleted \cup Elements(files[i])
         /\ files' = [files EXCEPT ![i] = files[i - 1], ![i - 1] = <<>>]

\* The files move one place, the oldest first.
rotate_move ==
    /\ worker.at = "move" /\ move_file(worker.index)
    /\ worker' = [worker EXCEPT !.at = IF worker.index = 1 THEN "open" ELSE "move", !.index = @ - 1]
    /\ UNCHANGED <<buffer, size, lost, Threads>>

\* open_file appends to what is there.
rotate_open ==
    /\ worker.at = "open"
    /\ size' = Len(files[0])
    /\ worker' = [worker EXCEPT !.at = "write"]
    /\ UNCHANGED <<files, buffer, deleted, lost, Threads>>

\* The record is written; a warning or an error is flushed at once.
write_record ==
    /\ worker.at = "write"
    /\ size' = size + 1
    /\ \/ buffer' = Append(buffer, worker.record) /\ UNCHANGED files
       \/ buffer' = <<>> /\ files' = [files EXCEPT ![0] = @ \o Append(buffer, worker.record)]
    /\ worker' = [worker EXCEPT !.at = "done"]
    /\ UNCHANGED <<deleted, lost, Threads>>

worker_done ==
    /\ worker.at = "done" /\ worker' = AtRest
    /\ UNCHANGED <<files, buffer, size, deleted, lost, Threads>>

\* A file operation fails: the worker gives up, nothing is accepted any more.
worker_fails ==
    /\ worker.at \in {"remove", "move", "open", "write"}
    /\ worker' = [AtRest EXCEPT !.at = "ended"] /\ state' = "failed" /\ queue' = <<>>
    /\ UNCHANGED <<files, buffer, size, dropped, flusher, accepted, deleted, lost, promised>>

\* After the destructor asked for it the worker ends with an empty queue and flushes.
worker_ends ==
    /\ worker.at = "idle" /\ state = "stopping" /\ queue = <<>>
    /\ files' = [files EXCEPT ![0] = @ \o buffer] /\ buffer' = <<>>
    /\ worker' = [AtRest EXCEPT !.at = "ended"] /\ state' = "off"
    /\ UNCHANGED <<size, queue, dropped, flusher, accepted, deleted, lost, promised>>

\* The stream writes its buffer out when it likes.
stream_spills ==
    /\ buffer # <<>>
    /\ files' = [files EXCEPT ![0] = @ \o buffer] /\ buffer' = <<>>
    /\ UNCHANGED <<size, worker, deleted, lost, Threads>>

\* The program ends, at any step, and starts again: open_file takes the size of the file.
reopen ==
    /\ files' = files /\ buffer' = <<>> /\ size' = Len(files[0])
    /\ queue' = <<>> /\ dropped' = 0 /\ worker' = AtRest /\ state' = "on" /\ flusher' = 0
    /\ lost' = lost \cup ((1 .. accepted) \ (InFiles \cup deleted \cup promised))
    /\ UNCHANGED <<accepted, deleted, promised>>

LoggerNext ==
    \/ log \/ flush \/ flush_returns \/ destroy
    \/ worker_pop \/ rotate_close \/ rotate_remove \/ rotate_move \/ rotate_open
    \/ write_record \/ worker_done \/ worker_fails \/ worker_ends
    \/ stream_spills \/ reopen

LoggerSpec == LoggerInit /\ [][LoggerNext]_logvars

-----------------------------------------------------------------------------
(* Properties.                                                             *)

\* A rotation removes the oldest records first, and the files stay in order: through crashes
\* between the file operations and failures of them, no record goes before an older one.
\* When flush returned without an error, every record accepted before it is in a file, or
\* was one of the oldest and rotated away, or was lost by the stream before: no later crash
\* loses it.
NewestAreKept ==
    /\ \A d \in deleted, r \in InFiles : d < r
    /\ \A i, j \in Slots : i < j => \A r \in Elements(files[i]), q \in Elements(files[j]) : q < r
    /\ promised \subseteq InFiles \cup deleted \cup lost
=============================================================================
