--------------------------- MODULE ClientService ---------------------------
(***************************************************************************)
(* The background service of a client from its start to its end:           *)
(* run_client, wait_for_server and run_runtime_impl of                     *)
(* src/apps/service/client_runtime.cpp, under the service manager of       *)
(* Windows (windows_service.cpp) or a signal handler (posix_main.cpp).     *)
(*                                                                         *)
(* client.conf and the token file are replaced by other programs at any    *)
(* moment; each has a content and the time it was written.  A              *)
(* configuration may select a server; a file caught half written is not    *)
(* valid.  Reading a file and reading its time are separate steps.         *)
(***************************************************************************)
EXTENDS Integers

CONSTANTS MaxWrites       \* replacements of the two files

ASSUME RunAssumption == MaxWrites \in Nat

VARIABLES
    windows,              \* whether the service manager runs the service
    conf,                 \* client.conf: [valid, selected, stamp]
    token_file,           \* the token file: [ok, stamp]
    at,                   \* where run_client is
    config,               \* config: what was loaded
    original, token_stamp,    \* of wait_for_server
    credential_error,
    stopping,             \* requested_stop, signal_stop
    pipe, adapter,        \* the control socket and the virtual network are up
    reported,             \* the state last reported to the service manager
    control               \* control_handler runs

svcvars == <<windows, conf, token_file, at, config, original, token_stamp, credential_error,
             stopping, pipe, adapter, reported, control>>

Ended == {"returned", "failed"}

RunInit ==
    /\ windows \in BOOLEAN
    /\ conf \in [valid : BOOLEAN, selected : BOOLEAN, stamp : {0}]
    /\ token_file \in [ok : BOOLEAN, stamp : {0}]
    /\ at = "start" /\ config = [valid |-> FALSE, selected |-> FALSE]
    /\ original = 0 /\ token_stamp = 0 /\ credential_error = FALSE
    /\ stopping = FALSE /\ pipe = FALSE /\ adapter = FALSE
    /\ reported = "start_pending" /\ control = FALSE

Files == <<windows, conf, token_file>>
Waits == <<original, token_stamp, credential_error>>

\* Another program replaces client.conf or the token file.
replace_file ==
    /\ conf.stamp + token_file.stamp < MaxWrites
    /\ \/ /\ \E v, s \in BOOLEAN : conf' = [valid |-> v, selected |-> s, stamp |-> conf.stamp + 1]
          /\ UNCHANGED token_file
       \/ /\ \E k \in BOOLEAN : token_file' = [ok |-> k, stamp |-> token_file.stamp + 1]
          /\ UNCHANGED conf
    /\ UNCHANGED <<windows, at, config, Waits, stopping, pipe, adapter, reported, control>>

\* The service returns from run_client: service_main reports it.
Finish(outcome) ==
    /\ at' = outcome
    /\ reported' = "stopped"

Loaded == [valid |-> conf.valid, selected |-> conf.selected]

\* The start of run_client: an invalid file ends the service.
load_config ==
    /\ at = "start"
    /\ IF conf.valid
       THEN at' = "check" /\ config' = Loaded /\ UNCHANGED reported
       ELSE Finish("failed") /\ UNCHANGED config
    /\ UNCHANGED <<Files, Waits, stopping, pipe, adapter, control>>

\* The head of the loop: with a server selected and a usable token (AuthToken::load) the
\* service runs.
check_server ==
    /\ at = "check"
    /\ credential_error' = (config.selected /\ ~token_file.ok)
    /\ IF stopping THEN Finish("returned")
       ELSE /\ at' = IF config.selected /\ token_file.ok THEN "launch" ELSE "stamp"
            /\ UNCHANGED reported
    /\ UNCHANGED <<Files, config, original, token_stamp, stopping, pipe, adapter, control>>

\* wait_for_server takes the time of client.conf ...
stamp_config ==
    /\ at = "stamp" /\ at' = "stamp_token" /\ original' = conf.stamp
    /\ UNCHANGED <<Files, config, token_stamp, credential_error, stopping, pipe, adapter, reported, control>>

\* ... and of the token, then serves local control and is ready, or fails to.
stamp_token ==
    /\ at = "stamp_token" /\ token_stamp' = token_file.stamp
    /\ \/ at' = "wait" /\ pipe' = TRUE /\ reported' = "running"
       \/ Finish("failed") /\ UNCHANGED pipe
    /\ UNCHANGED <<Files, config, original, credential_error, stopping, adapter, control>>

\* What ends the wait besides a stop.
changed == conf.stamp # original \/ (credential_error /\ token_file.stamp # token_stamp)

\* Mutation of wait_for_server: a stop is only noticed together with a changed file.
wait_for_server_deaf ==
    /\ at = "wait" /\ changed
    /\ pipe' = FALSE
    /\ IF stopping THEN Finish("returned") ELSE at' = "reload" /\ UNCHANGED reported
    /\ UNCHANGED <<Files, config, Waits, stopping, adapter, control>>

\* One look of the loop of wait_for_server; after a stop run_client returns.
wait_for_server ==
    /\ at = "wait" /\ (stopping \/ changed)
    /\ pipe' = FALSE
    /\ IF stopping THEN Finish("returned") ELSE at' = "reload" /\ UNCHANGED reported
    /\ UNCHANGED <<Files, config, Waits, stopping, adapter, control>>

\* An invalid update is ignored.
reload_config ==
    /\ at = "reload" /\ at' = "check"
    /\ config' = IF conf.valid THEN Loaded ELSE config
    /\ UNCHANGED <<Files, Waits, stopping, pipe, adapter, reported, control>>

\* Unless a stop was asked for by now, run_runtime_impl starts the virtual network ...
start_network ==
    /\ at = "launch"
    /\ \/ at' = "network" /\ adapter' = TRUE /\ UNCHANGED reported
       \/ stopping /\ Finish("returned") /\ UNCHANGED adapter
       \/ Finish("failed") /\ UNCHANGED adapter
    /\ UNCHANGED <<Files, config, Waits, stopping, pipe, control>>

\* ... and local control, or stops the network again; then it is ready.
start_pipe ==
    /\ at = "network"
    /\ \/ at' = "run" /\ pipe' = TRUE /\ reported' = "running" /\ UNCHANGED adapter
       \/ Finish("failed") /\ adapter' = FALSE /\ UNCHANGED pipe
    /\ UNCHANGED <<Files, config, Waits, stopping, control>>

\* The main loop ends with a stop, the end of the session or an error of the adapter, and
\* everything is shut down.
shutdown ==
    /\ at = "run"
    /\ \E outcome \in Ended : Finish(outcome)
    /\ pipe' = FALSE /\ adapter' = FALSE
    /\ UNCHANGED <<Files, config, Waits, stopping, control>>

\* A stop asked for over local control.
stop_command ==
    /\ pipe /\ stopping' = TRUE
    /\ UNCHANGED <<Files, at, config, Waits, pipe, adapter, reported, control>>

\* A signal asks for a stop (posix_main).
stop_signal ==
    /\ ~windows /\ at \notin Ended /\ stopping' = TRUE
    /\ UNCHANGED <<Files, at, config, Waits, pipe, adapter, reported, control>>

\* The service manager asks for a stop; it does so only of a running service.
control_handler ==
    /\ windows /\ reported = "running" /\ ~control
    /\ stopping' = TRUE /\ control' = TRUE
    /\ UNCHANGED <<Files, at, config, Waits, pipe, adapter, reported>>

\* control_handler then reports that the stop is pending; service_main may be through by
\* then, and its handle gone or not.
report_pending ==
    /\ control /\ control' = FALSE
    /\ reported' \in {"stop_pending"} \cup (IF at \in Ended THEN {reported} ELSE {})
    /\ UNCHANGED <<Files, at, config, Waits, stopping, pipe, adapter>>

Advance ==
    \/ load_config \/ check_server \/ stamp_config \/ stamp_token \/ wait_for_server
    \/ reload_config \/ start_network \/ start_pipe \/ shutdown

RunNext ==
    \/ Advance \/ replace_file
    \/ stop_command \/ stop_signal \/ control_handler \/ report_pending

\* The thread of the service goes on; its main loop need not end without a stop.
RunFairness ==
    /\ WF_svcvars(Advance /\ at # "run")
    /\ WF_svcvars(shutdown /\ stopping)

RunSpec == RunInit /\ [][RunNext]_svcvars /\ RunFairness

-----------------------------------------------------------------------------
(* Properties.                                                             *)

\* A stop asked for over local control, by a signal or by the service manager ends the
\* service, whenever it comes, and neither local control nor the virtual network is left
\* running, by whatever path run_client was left.
StopIsHeeded == stopping ~> (at \in Ended /\ ~pipe /\ ~adapter)
=============================================================================
