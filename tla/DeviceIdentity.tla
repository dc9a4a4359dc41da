--------------------------- MODULE DeviceIdentity ---------------------------
(***************************************************************************)
(* The file that holds the secret of a device:                             *)
(* DeviceIdentity::load_or_create (src/src/auth/identity.cpp) with the     *)
(* secret store (src/src/auth/secret_store.cpp).  The device identifier is *)
(* the hash of the key, so a lost or replaced file is another device.      *)
(*                                                                         *)
(* The file system has a visible state and the state a power loss falls    *)
(* back to.  What was written is on the disk after fsync, a rename after   *)
(* the directory was synchronised; either may get there earlier.  Windows  *)
(* renames with MOVEFILE_WRITE_THROUGH and protects the key, and rewrites  *)
(* a file of the unprotected form; elsewhere a protected file is refused.  *)
(* A step can fail, the process can be killed and the power can go between *)
(* any two steps.  One process uses the file at a time.                    *)
(***************************************************************************)
EXTENDS Integers

CONSTANTS
    MaxKeys,        \* keys drawn at most; they are 1, 2, ...
    Platforms       \* of {"windows", "posix"}

ASSUME IdentityAssumption == MaxKeys \in Nat /\ Platforms \subseteq {"windows", "posix"}

Files == [key : Nat, form : {"none", "legacy", "protected"}, synced : BOOLEAN, whole : BOOLEAN]
NoFile == [key |-> 0, form |-> "none", synced |-> FALSE, whole |-> FALSE]

VARIABLES
    platform,
    file,           \* what the path names
    disk,           \* what it names after a power loss, if nothing more gets to the disk
    temporary,      \* the temporary file of the process
    step,           \* where in load_or_create the process is
    secret,         \* secret_key
    drawn,          \* keys drawn so far
    kept            \* the key a completed store promised, 0 before

ivars == <<platform, file, disk, temporary, step, secret, drawn, kept>>

\* The file is absent, or was left by an earlier version or copied from another platform.
IdentityInit ==
    /\ platform \in Platforms
    /\ \/ file = NoFile /\ drawn = 0
       \/ \E left \in {"legacy", "protected"} :
             file = [key |-> 1, form |-> left, synced |-> TRUE, whole |-> TRUE] /\ drawn = 1
    /\ disk = file /\ kept = file.key
    /\ temporary = NoFile
    /\ step = "idle" /\ secret = 0

\* The process leaves load_or_create: the secret is wiped.
Leave == step' = "idle" /\ secret' = 0

\* load_or_create looks for the file; without one a key is drawn.
load_or_create ==
    /\ step = "idle"
    /\ \/ file # NoFile /\ step' = "load" /\ UNCHANGED <<secret, drawn>>
       \/ /\ file = NoFile /\ drawn < MaxKeys
          /\ drawn' = drawn + 1 /\ secret' = drawn + 1 /\ step' = "store"
    /\ UNCHANGED <<platform, file, disk, temporary, kept>>

\* unprotect_secret: only Windows opens a protected key.
unprotect_secret(f) == f.form = "protected" /\ platform = "windows"

\* decode_secret accepts the bytes, and asks for a migration.
decode_secret(f) == f.whole /\ (f.form = "legacy" \/ unprotect_secret(f))
requires_migration(f) == f.form = "legacy" /\ platform = "windows"

\* read_file gets the bytes, or fails and the error is thrown.
read_file ==
    /\ step = "load"
    /\ \/ step' = "decode" /\ UNCHANGED secret
       \/ Leave
    /\ UNCHANGED <<platform, file, disk, temporary, drawn, kept>>

\* load_device_secret: the key is returned, or the file refused; the migration stores the
\* same key again.
load_device_secret ==
    /\ step = "decode"
    /\ \/ /\ decode_secret(file) /\ requires_migration(file)
          /\ secret' = file.key /\ step' = "store"
       \/ ~(decode_secret(file) /\ requires_migration(file)) /\ Leave
    /\ UNCHANGED <<platform, file, disk, temporary, drawn, kept>>

\* protect_secret, which Windows writes a key with.
protect_secret == IF platform = "windows" THEN "protected" ELSE "legacy"

encode_secret(key) == [key |-> key, form |-> protect_secret, synced |-> FALSE, whole |-> TRUE]

\* store_device_secret: a new temporary file is written ...
write_temporary ==
    /\ step = "store"
    /\ temporary' = encode_secret(secret) /\ step' = "written"
    /\ UNCHANGED <<platform, file, disk, secret, drawn, kept>>

\* Mutation of sync_temporary: the bytes are left to the cache.
sync_temporary_later ==
    /\ step = "written" /\ step' = "synced"
    /\ UNCHANGED <<platform, file, disk, temporary, secret, drawn, kept>>

\* ... and forced to the disk, ...
sync_temporary ==
    /\ step = "written"
    /\ temporary' = [temporary EXCEPT !.synced = TRUE] /\ step' = "synced"
    /\ UNCHANGED <<platform, file, disk, secret, drawn, kept>>

\* ... then takes the place of the file.
rename_temporary ==
    /\ step = "synced" /\ platform = "posix"
    /\ file' = temporary /\ temporary' = NoFile
    /\ step' = "installed"
    /\ UNCHANGED <<platform, disk, secret, drawn, kept>>

\* On Windows the move is written through and ends the store.
move_temporary ==
    /\ step = "synced" /\ platform = "windows"
    /\ file' = temporary /\ temporary' = NoFile
    /\ disk' = temporary /\ kept' = secret /\ Leave
    /\ UNCHANGED <<platform, drawn>>

\* sync_parent_directory ends the store.
sync_parent_directory ==
    /\ step = "installed"
    /\ disk' = file /\ kept' = secret /\ Leave
    /\ UNCHANGED <<platform, file, temporary, drawn>>

\* A step fails: a temporary file that was not installed is removed and the error thrown.
atomic_write_fails ==
    /\ step \in {"store", "written", "synced", "installed"}
    /\ temporary' = NoFile /\ Leave
    /\ UNCHANGED <<platform, file, disk, drawn, kept>>

\* The process is killed.  What it wrote stays; a temporary file has a name of its own
\* and is never looked at again.
kill ==
    /\ step # "idle"
    /\ temporary' = NoFile /\ Leave
    /\ UNCHANGED <<platform, file, disk, drawn, kept>>

\* What a file is after a power loss: bytes that were not forced to the disk may be missing.
AfterLoss(f) == IF f = NoFile THEN {NoFile}
                ELSE {[f EXCEPT !.synced = TRUE, !.whole = w] : w \in {f.whole} \cup {f.synced /\ f.whole}}

\* The power goes: the last rename may or may not be on the disk.
power_loss ==
    /\ \E f \in AfterLoss(disk) \cup AfterLoss(file) : file' = f /\ disk' = f
    /\ temporary' = NoFile /\ Leave
    /\ UNCHANGED <<platform, drawn, kept>>

IdentityNext ==
    \/ load_or_create \/ read_file \/ load_device_secret
    \/ write_temporary \/ sync_temporary
    \/ rename_temporary \/ sync_parent_directory \/ move_temporary
    \/ atomic_write_fails \/ kill \/ power_loss

IdentitySpec == IdentityInit /\ [][IdentityNext]_ivars

-----------------------------------------------------------------------------
(* Properties.                                                             *)

\* Once load_or_create stored a key, the path names a whole file with that key for ever:
\* through failed writes, kills, power losses and the migration of the file.
IdentityKept == kept # 0 => file.whole /\ file.key = kept

\* Why: what a power loss falls back to is as good, and what is about to be renamed is
\* whole on the disk and holds the same key.
IdentityInv ==
    /\ {file, disk, temporary} \subseteq Files
    /\ {secret, drawn, kept} \subseteq Nat
    /\ platform \in {"windows", "posix"}
    /\ step \in {"idle", "load", "decode", "store", "written", "synced", "installed"}
    /\ \A f \in {file, disk} : f # NoFile => f.synced /\ f.whole /\ f.key # 0
    /\ kept # 0 => file.key = kept /\ disk.key = kept
    /\ step \in {"store", "written", "synced", "installed"} => secret # 0
    /\ step \in {"store", "written", "synced", "installed"} /\ kept # 0 => secret = kept
    /\ step \in {"written", "synced"} => temporary.whole /\ temporary.key = secret
    /\ step = "synced" => temporary.synced
    /\ step = "installed" => file.key = secret
    /\ step \in {"load", "decode"} => file # NoFile
=============================================================================
