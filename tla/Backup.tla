------------------------------- MODULE Backup -------------------------------
(***************************************************************************)
(* The daily backup (db-backup.py) on the database machine: a dump is      *)
(* written aside, synced, listed, renamed, uploaded and noted.  It shares  *)
(* with the machine the lock of db-bootstrap.sh, the server it dumps and   *)
(* the power supply.  Nothing is ever removed, and each dump has a name of *)
(* its own.                                                                *)
(***************************************************************************)
EXTENDS DatabaseHost

CONSTANT MaxBackups  \* dumps begun

ASSUME BackupAssumption == MaxBackups \in Nat

VARIABLES
    job,     \* the next step of the backup under way
    begun,   \* dumps begun; dump n is the n-th
    name,    \* of each local file: "none", ".partial" or ".dump"
    whole,   \* the dumps whose file holds all of pg_dump's output
    synced,  \* the dumps whose file is on the medium
    object,  \* what S3 holds under the key of each dump
    note     \* its .uploaded.json

backupVars == <<job, begun, name, whole, synced, object, note>>
vars == <<hostVars, backupVars>>

Dump == 1..MaxBackups
Files == <<name, whole, synced>>
-----------------------------------------------------------------------------
(* The timer is due, and PostgreSQL is up as the unit requires: verify      *)
(* takes the lock of the bootstrap, or the backup fails.                    *)
Begin ==
    /\ job = "idle"
    /\ timer = "enabled" /\ server = "public" /\ lock = "free"
    /\ begun < MaxBackups
    /\ lock' = "backup"
    /\ job' = "verify"
    /\ UNCHANGED <<volume, machine, pc, mounted, todo, server, faults, begun, Files, object, note>>

Verified ==
    /\ job = "verify"
    /\ mounted /\ ClusterOK
    /\ lock' = "free"
    /\ job' = "open"
    /\ UNCHANGED <<volume, machine, pc, mounted, todo, server, faults, begun, Files, object, note>>

(* A new .partial, for pg_dump to write to. *)
Open ==
    /\ job = "open"
    /\ server = "public"
    /\ begun' = begun + 1
    /\ name' = [name EXCEPT ![begun'] = ".partial"]
    /\ job' = "dump"
    /\ UNCHANGED <<hostVars, whole, synced, object, note>>

(* pg_dump ends well: the server did not fail under it. *)
PgDump ==
    /\ job = "dump"
    /\ whole' = whole \cup {begun}
    /\ job' = "fsync"
    /\ UNCHANGED <<hostVars, begun, name, synced, object, note>>

(* Faulty variant: the file is not synced. *)
FsyncNothing ==
    /\ job = "fsync"
    /\ job' = "list"
    /\ UNCHANGED <<hostVars, begun, Files, object, note>>

Fsync ==
    /\ job = "fsync"
    /\ synced' = synced \cup {begun}
    /\ job' = "list"
    /\ UNCHANGED <<hostVars, begun, name, whole, object, note>>

(* pg_restore --list reads the table of contents, the head of the file.     *)
List ==
    /\ job = "list"
    /\ job' = "rename"
    /\ UNCHANGED <<hostVars, begun, Files, object, note>>

Rename ==
    /\ job = "rename"
    /\ name' = [name EXCEPT ![begun] = ".dump"]
    /\ job' = "syncdir"
    /\ UNCHANGED <<hostVars, begun, whole, synced, object, note>>

(* The directory is synced; a dump of 5 GiB or more stays local.            *)
SyncDir ==
    /\ job = "syncdir"
    /\ job' \in {"put", "idle"}
    /\ UNCHANGED <<hostVars, begun, Files, object, note>>

(* The request is sent: S3 has the object before aws has the answer.        *)
Put ==
    /\ job = "put"
    /\ object' = [object EXCEPT ![begun] = IF begun \in whole THEN "whole" ELSE "cut"]
    /\ job' = "note"
    /\ UNCHANGED <<hostVars, begun, Files, note>>

(* Acknowledged: the note is created ... *)
CreateNote ==
    /\ job = "note"
    /\ note' = [note EXCEPT ![begun] = "torn"]
    /\ job' = "write"
    /\ UNCHANGED <<hostVars, begun, Files, object>>

WriteNote ==
    /\ job = "write"
    /\ note' = [note EXCEPT ![begun] = "whole"]
    /\ job' = "idle"
    /\ UNCHANGED <<hostVars, begun, Files, object>>
-----------------------------------------------------------------------------
(* A command fails, its answer is lost or the unit is killed: what there is *)
(* stays.                                                                   *)
FailBackup ==
    /\ job # "idle"
    /\ faults < MaxFaults
    /\ faults' = faults + 1
    /\ job' = "idle"
    /\ lock' = IF job = "verify" THEN "free" ELSE lock
    /\ UNCHANGED <<volume, machine, pc, mounted, todo, server, begun, Files, object, note>>

(* With the server fails its pg_dump, and none starts until it is back.     *)
FailServerUnderDump ==
    /\ FailServer
    /\ job' = IF job \in {"open", "dump"} THEN "idle" ELSE job
    /\ UNCHANGED <<begun, Files, object, note>>

(* A power loss cuts what is not synced and may undo the last operations of *)
(* the directory.                                                           *)
PowerLossUnderBackup ==
    /\ PowerLoss
    /\ whole' \in {whole \cap synced, whole}
    /\ job' = "idle"
    /\ name' \in {name}
         \cup (IF job \in {"dump", "fsync"} THEN {[name EXCEPT ![begun] = "none"]} ELSE {})
         \cup (IF job = "syncdir" THEN {[name EXCEPT ![begun] = ".partial"]} ELSE {})
    /\ note' \in {note}
         \cup (IF job = "write" THEN {[note EXCEPT ![begun] = "none"]} ELSE {})
    /\ UNCHANGED <<begun, synced, object>>

(* The server serves, no backup is due. *)
Serving == server = "public" /\ job = "idle" /\ UNCHANGED vars
-----------------------------------------------------------------------------
Init ==
    /\ HostInit
    /\ job = "idle" /\ begun = 0
    /\ name = [n \in Dump |-> "none"]
    /\ whole = {} /\ synced = {}
    /\ object = [n \in Dump |-> "none"]
    /\ note = [n \in Dump |-> "none"]

BackupStep ==
    \/ Verified \/ Open \/ PgDump \/ Fsync \/ List \/ Rename \/ SyncDir \/ Put
    \/ CreateNote \/ WriteNote

Next ==
    \/ (HostStep \/ Fail) /\ UNCHANGED backupVars
    \/ Begin \/ BackupStep
    \/ FailBackup \/ FailServerUnderDump \/ PowerLossUnderBackup
    \/ Serving

Spec == Init /\ [][Next]_vars

(* systemd runs its units and starts the server again; after a failed boot  *)
(* or a power loss someone or something starts the machine again.           *)
FairSpec ==
    /\ Spec
    /\ WF_vars(HostStep /\ UNCHANGED backupVars)
    /\ WF_vars(BackupStep)
-----------------------------------------------------------------------------
(***************************************************************************)
(* Properties.                                                             *)
(***************************************************************************)
(* What a name promises is true, whatever was interrupted and also after a  *)
(* power loss: a .dump is all of a dump, durably, and an .uploaded.json,    *)
(* even an empty one, means that S3 was given all of it (db-backup.py:54),  *)
(* so that an operator may trust the newest one that has both.  It is the   *)
(* exit of pg_dump that vouches for the dump, pg_restore --list would pass  *)
(* one that was cut.                                                        *)
NamesArePromises ==
    \A n \in Dump :
        /\ name[n] = ".dump" => n \in whole \cap synced
        /\ note[n] # "none" => name[n] = ".dump" /\ object[n] = "whole"
=============================================================================
