------------------------------- MODULE MCHost -------------------------------
(***************************************************************************)
(* Instances of what the hosts keep: the relay's database as the service   *)
(* uses it (slices of MCService), its migration by the processes that open *)
(* it, and its audit log; the device's identity file, the control socket   *)
(* and the log files.  These parts share no state, so a behaviour is about *)
(* one of them and leaves the others in one initial state.                 *)
(***************************************************************************)
EXTENDS MCService, SchemaMigration, AuditLog, DeviceIdentity, ControlSocket, Logger

VARIABLE part

MCInit ==
    /\ part \in {"store", "migration", "audit", "identity", "socket", "logger"}
    /\ SliceInit /\ MigrationInit /\ AuditInit /\ IdentityInit /\ SocketInit /\ LoggerInit
    /\ part # "store" => slice = "rows"
    /\ part # "migration" => user_version = 0
    /\ part # "audit" => wall = 0
    /\ part # "identity" => platform = "posix" /\ file = NoFile
    /\ part # "socket" => path = Nobody

MCNext ==
    /\ UNCHANGED part
    /\ \/ /\ part = "store" /\ SliceNext
          /\ UNCHANGED <<mvars, avars, ivars, sockvars, logvars>>
       \/ /\ part = "migration" /\ MigrationNext
          /\ UNCHANGED <<svars, slice, avars, ivars, sockvars, logvars>>
       \/ /\ part = "audit" /\ AuditNext
          /\ UNCHANGED <<svars, slice, mvars, ivars, sockvars, logvars>>
       \/ /\ part = "identity" /\ IdentityNext
          /\ UNCHANGED <<svars, slice, mvars, avars, sockvars, logvars>>
       \/ /\ part = "socket" /\ SocketNext
          /\ UNCHANGED <<svars, slice, mvars, avars, ivars, logvars>>
       \/ /\ part = "logger" /\ LoggerNext
          /\ UNCHANGED <<svars, slice, mvars, avars, ivars, sockvars>>

MCSpec == MCInit /\ [][MCNext]_<<part, slice, svars, mvars, avars, ivars, sockvars, logvars>>
=============================================================================
