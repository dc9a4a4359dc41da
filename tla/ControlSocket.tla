--------------------------- MODULE ControlSocket ---------------------------
(***************************************************************************)
(* The control socket of the background service on POSIX systems:          *)
(* LocalPipeServer of src/src/transport/posix_control.cpp, and             *)
(* local_pipe_request, which sends one request over it.                    *)
(*                                                                         *)
(* A service may start while another one is still stopping, crashed a      *)
(* moment ago, or runs.  The instances share the socket's path and the     *)
(* lock beside it, which is never removed.  Every system call is a step of *)
(* its own.  The kernel releases the lock of a process that ends; a socket *)
(* it left at the path stays there.                                        *)
(***************************************************************************)
EXTENDS Integers

CONSTANTS Service       \* processes that run the service, one after another or at once

Nobody == "nobody"
Stale == "stale"        \* a socket at the path that no process listens to

ASSUME ServiceNames == Nobody \notin Service /\ Stale \notin Service

VARIABLES
    path,       \* the socket at the path, named after the process that bound it
    lock,       \* the process that holds the lock
    at,         \* the step a process is at
    bound_,     \* processes that have bound the path
    request     \* of a client: the process it is connected to, or how it ended

sockvars == <<path, lock, at, bound_, request>>

SocketInit ==
    /\ path \in {Nobody, Stale}
    /\ lock = Nobody
    /\ at = [p \in Service |-> "off"]
    /\ bound_ = {}
    /\ request = Nobody

Goes(p, from, to) == at[p] = from /\ at' = [at EXCEPT ![p] = to]

\* The constructor takes the lock without waiting; if it is held the start fails.
lock_socket(p) ==
    /\ \/ lock = Nobody /\ lock' = p /\ Goes(p, "off", "locked")
       \/ lock # Nobody /\ at[p] = "off" /\ UNCHANGED <<lock, at>>
    /\ UNCHANGED <<path, bound_, request>>

\* A socket left at the path is removed.
remove_stale(p) ==
    /\ Goes(p, "locked", "cleared")
    /\ path' = Nobody
    /\ UNCHANGED <<lock, bound_, request>>

\* bind fails if the path is taken.
bind(p) ==
    /\ IF path = Nobody
       THEN /\ Goes(p, "cleared", "bound")
            /\ path' = p /\ bound_' = bound_ \cup {p}
       ELSE Goes(p, "cleared", "failed") /\ UNCHANGED <<path, bound_, request>>
    /\ UNCHANGED <<lock, request>>

\* chown, chmod, listen and the worker thread, which serves.
listen(p) == Goes(p, "bound", "serving") /\ UNCHANGED <<path, lock, bound_, request>>

\* A step of the constructor fails.
start_fails(p) ==
    /\ \E from \in {"locked", "cleared", "bound"} : Goes(p, from, "failed")
    /\ UNCHANGED <<path, lock, bound_, request>>

\* local_pipe_request: without a socket, or with one nobody listens to, the request fails.
local_pipe_request ==
    /\ request \notin Service
    /\ request' = IF path \in Service /\ at[path] = "serving" THEN path ELSE "failed"
    /\ UNCHANGED <<path, lock, at, bound_>>

\* serve takes the connection, reads the request and answers it, or gives it up.
serve(p) ==
    /\ at[p] = "serving" /\ request = p
    /\ request' \in {"answered", "failed"}
    /\ UNCHANGED <<path, lock, at, bound_>>

\* The client of a service that does not answer in time gives up.
transfer_times_out ==
    /\ request \in Service /\ request' = "failed"
    /\ UNCHANGED <<path, lock, at, bound_>>

\* The connections of a process end with it.
Disconnected(p) == IF request = p THEN "failed" ELSE request

\* stop: the worker is joined.
stop(p) == Goes(p, "serving", "stopped") /\ UNCHANGED <<path, lock, bound_, request>>

\* Mutation of close_listener: the lock is closed with the listener.
close_listener_unlocks(p) ==
    /\ \E from \in {"stopped", "failed"} : Goes(p, from, "closed")
    /\ request' = Disconnected(p) /\ lock' = Nobody
    /\ UNCHANGED <<path, bound_>>

\* cleanup: the listener is closed ...
close_listener(p) ==
    /\ \E from \in {"stopped", "failed"} : Goes(p, from, "closed")
    /\ request' = Disconnected(p)
    /\ UNCHANGED <<path, lock, bound_>>

\* ... the path is removed if this process had bound it, whatever is there now ...
unlink_path(p) ==
    /\ Goes(p, "closed", "unlinked")
    /\ path' = IF p \in bound_ THEN Nobody ELSE path
    /\ bound_' = bound_ \ {p}
    /\ UNCHANGED <<lock, request>>

\* ... and the lock released last.
release_lock(p) ==
    /\ Goes(p, "unlinked", "off")
    /\ lock' = Nobody
    /\ UNCHANGED <<path, bound_, request>>

\* The process ends without cleanup.
crash(p) ==
    /\ at[p] # "off"
    /\ at' = [at EXCEPT ![p] = "off"]
    /\ path' = IF path = p THEN Stale ELSE path
    /\ lock' = IF lock = p THEN Nobody ELSE lock
    /\ bound_' = bound_ \ {p}
    /\ request' = Disconnected(p)

SocketStep(p) ==
    \/ lock_socket(p) \/ remove_stale(p) \/ bind(p) \/ listen(p) \/ start_fails(p)
    \/ serve(p) \/ stop(p) \/ close_listener(p) \/ unlink_path(p) \/ release_lock(p) \/ crash(p)

SocketNext == local_pipe_request \/ transfer_times_out \/ \E p \in Service : SocketStep(p)

SocketSpec == SocketInit /\ [][SocketNext]_sockvars

-----------------------------------------------------------------------------
(* Properties.                                                             *)

\* A service that serves can be reached: the socket at the path is its own, whatever other
\* instances start, fail, stop or crash.
ServingIsReachable == \A p \in Service : at[p] = "serving" => path = p

\* Why: only the holder of the lock is past lock_socket, and the path is its own once it is
\* bound and until it is removed.
SocketInv ==
    /\ at \in [Service -> {"off", "locked", "cleared", "bound", "serving", "failed",
                           "stopped", "closed", "unlinked"}]
    /\ \A p \in Service : at[p] # "off" <=> lock = p
    /\ \A p \in Service : at[p] \in {"bound", "serving", "stopped"} => path = p /\ p \in bound_
    /\ bound_ \subseteq Service
    /\ \A p \in bound_ : at[p] \in {"bound", "serving", "failed", "stopped", "closed"} /\ path = p
=============================================================================
