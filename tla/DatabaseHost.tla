---------------------------- MODULE DatabaseHost ----------------------------
(***************************************************************************)
(* The database machine: the systemd units install its packages            *)
(* (db-install.sh), prepare the data volume and the cluster on it          *)
(* (db-bootstrap.sh prepare, with db-admin.py), and run PostgreSQL, which  *)
(* is checked first (db-bootstrap.sh verify) and restarted when it fails.  *)
(* Every step may fail, be killed with its unit, or be cut off by a power  *)
(* loss; the units start again with the next boot or by hand.              *)
(*                                                                         *)
(* The file systems are journaling ones (ext4 by mkfs, the system disk of  *)
(* the image): an fsync makes every earlier operation on them durable.     *)
(***************************************************************************)
EXTENDS Sequences, FiniteSets, Naturals

CONSTANTS
    ConfFiles,  \* the files db-admin.py config replaces, in order
    MaxFaults   \* failed steps, power losses and crashes of the server

ASSUME HostAssumption == ConfFiles \in Seq(STRING) \ {<<>>} /\ MaxFaults \in Nat

VARIABLES
    \* the volume
    given,      \* what it was when the machine got it
    fs, stray,  \* its file system; files nobody knows, next to lost+found
    marker,     \* .logstack-volume.json, the identity
    data,       \* pgdata
    temps,      \* leftover *.logstack-new files
    conf,       \* the configuration files with our content
    loose,      \* those whose rename may still be undone
    roles,      \* the roles and the database of the application are there
    \* the machine
    approved,   \* allow_blank_volume_init
    installed,  \* logstack-db-install.json
    timer,      \* of the backups; cloud-init enables it once, or never
    \* the boot
    pc,         \* the next step of the units
    mounted, todo, lock,
    server,     \* the postmaster on pgdata and who can reach it
    faults

volume == <<given, fs, stray, marker, data, temps, conf, loose, roles>>
machine == <<approved, installed, timer>>
boot == <<pc, mounted, todo, lock, server, faults>>
hostVars == <<volume, machine, boot>>

ConfSet == {ConfFiles[i] : i \in DOMAIN ConfFiles}

(* A unit has failed; systemd kills what is left in its control group.      *)
Die ==
    /\ pc' = "failed"
    /\ server' = "none"
    /\ lock' = IF lock = "host" THEN "free" ELSE lock
-----------------------------------------------------------------------------
(***************************************************************************)
(* install_runtime().                                                      *)
(***************************************************************************)
(* An earlier boot has left its record: it is compared, nothing installed.  *)
CheckInstalled ==
    /\ pc = "install"
    /\ installed # "none"
    /\ IF installed = "whole" THEN pc' = "lock" /\ UNCHANGED <<server, lock>> ELSE Die
    /\ UNCHANGED <<volume, machine, mounted, todo, faults>>

(* The packages are installed and the record is created, still empty.       *)
InstallPackages ==
    /\ pc = "install"
    /\ installed = "none"
    /\ installed' = "torn"
    /\ pc' = "record"
    /\ UNCHANGED <<volume, approved, timer, mounted, todo, lock, server, faults>>

RecordInstall ==
    /\ pc = "record"
    /\ installed' = "whole"
    /\ pc' = "lock"
    /\ UNCHANGED <<volume, approved, timer, mounted, todo, lock, server, faults>>
-----------------------------------------------------------------------------
(***************************************************************************)
(* main() and prepare_mount().                                             *)
(***************************************************************************)
(* flock -n, then check-no-server. *)
LockPrepare ==
    /\ pc = "lock"
    /\ IF lock = "free" /\ server = "none"
       THEN pc' = "mount" /\ lock' = "host" /\ UNCHANGED server
       ELSE Die
    /\ UNCHANGED <<volume, machine, mounted, todo, faults>>

(* Faulty variant: a volume that is mounted already is refused. *)
MountOnce ==
    /\ pc = "mount"
    /\ mounted \/ fs = "ext4"
    /\ mounted' = TRUE
    /\ IF mounted THEN Die ELSE pc' = "identity" /\ UNCHANGED <<server, lock>>
    /\ UNCHANGED <<volume, machine, todo, faults>>

Mount ==
    /\ pc = "mount"
    /\ mounted \/ fs = "ext4"
    /\ mounted' = TRUE
    /\ pc' = "identity"
    /\ UNCHANGED <<volume, machine, todo, lock, server, faults>>

(* No signature of any kind and the approval: mkfs.ext4. *)
Format ==
    /\ pc = "mount"
    /\ ~mounted /\ fs = "none" /\ approved
    /\ fs' = "ext4"
    /\ UNCHANGED <<given, stray, marker, data, temps, conf, loose, roles, machine, boot>>

RefuseMount ==
    /\ pc = "mount"
    /\ ~mounted
    /\ fs = "other" \/ (fs = "none" /\ ~approved)
    /\ Die
    /\ UNCHANGED <<volume, machine, mounted, todo, faults>>
-----------------------------------------------------------------------------
(***************************************************************************)
(* check_identity(), verify_cluster() and prepare_cluster().               *)
(***************************************************************************)
Vacant == marker = "none" /\ data = "none" /\ ~stray

(* A volume with nothing on it is claimed: the marker is created ... *)
Claim ==
    /\ pc = "identity"
    /\ Vacant /\ approved
    /\ marker' = "torn"
    /\ pc' = "claim"
    /\ UNCHANGED <<given, fs, stray, data, temps, conf, loose, roles, machine, mounted,
                   todo, lock, server, faults>>

(* ... and written: the identity is new. *)
WriteMarker ==
    /\ pc = "claim"
    /\ marker' = "ours"
    /\ pc' = "datadir"
    /\ UNCHANGED <<given, fs, stray, data, temps, conf, loose, roles, machine, mounted,
                   todo, lock, server, faults>>

(* Faulty variant: a claimed volume without a cluster gets one. *)
RecogniseAnyway ==
    /\ pc = "identity"
    /\ marker = "ours"
    /\ pc' = IF data = "none" THEN "datadir" ELSE "verify"
    /\ UNCHANGED <<volume, machine, mounted, todo, lock, server, faults>>

(* Our marker: the identity exists, and so must the cluster. *)
Recognise ==
    /\ pc = "identity"
    /\ marker = "ours" /\ data # "none"
    /\ pc' = "verify"
    /\ UNCHANGED <<volume, machine, mounted, todo, lock, server, faults>>

RefuseIdentity ==
    /\ pc = "identity"
    /\ \/ marker \in {"torn", "foreign"}
       \/ marker = "none" /\ ~(Vacant /\ approved)
       \/ marker = "ours" /\ data = "none"
    /\ Die
    /\ UNCHANGED <<volume, machine, mounted, todo, faults>>

MakeDataDir ==
    /\ pc = "datadir"
    /\ data' = "empty"
    /\ pc' = "initdb"
    /\ UNCHANGED <<given, fs, stray, marker, temps, conf, loose, roles, machine, mounted,
                   todo, lock, server, faults>>

(* initdb ends by syncing all it has written. *)
Initdb ==
    /\ pc = "initdb"
    /\ data' = "complete"
    /\ pc' = "verify"
    /\ UNCHANGED <<given, fs, stray, marker, temps, conf, loose, roles, machine, mounted,
                   todo, lock, server, faults>>

(* PG_VERSION, the marker and pg_controldata.  A cluster whose bootstrap is *)
(* done and whose databases are not passes.                                 *)
ClusterOK == marker = "ours" /\ data \in {"bootstrapped", "complete"}

VerifyPrepared ==
    /\ pc = "verify"
    /\ IF ClusterOK
       THEN pc' = "create" /\ todo' = ConfFiles /\ UNCHANGED <<server, lock>>
       ELSE Die /\ UNCHANGED todo
    /\ UNCHANGED <<volume, machine, mounted, faults>>

(* write_pg(): the temporary file is created, written and synced. *)
CreateConf ==
    /\ pc = "create"
    /\ IF Head(todo) \in temps
       THEN Die /\ UNCHANGED <<temps, loose>>
       ELSE /\ temps' = temps \cup {Head(todo)}
            /\ loose' = {}
            /\ pc' = "replace"
            /\ UNCHANGED <<server, lock>>
    /\ UNCHANGED <<given, fs, stray, marker, data, conf, roles, machine, mounted, todo, faults>>

(* Faulty variant: the last file is left as it was. *)
ReplaceConfButLast ==
    /\ pc = "replace"
    /\ temps' = temps \ {Head(todo)}
    /\ conf' = conf \cup {Head(todo)}
    /\ loose' = {Head(todo)}
    /\ todo' = Tail(todo)
    /\ pc' = IF Len(todo) <= 2 THEN "start" ELSE "create"
    /\ UNCHANGED <<given, fs, stray, marker, data, roles, machine, mounted, lock, server,
                   faults>>

(* ... and renamed; the directory is not synced. *)
ReplaceConf ==
    /\ pc = "replace"
    /\ temps' = temps \ {Head(todo)}
    /\ conf' = conf \cup {Head(todo)}
    /\ loose' = {Head(todo)}
    /\ todo' = Tail(todo)
    /\ pc' = IF Tail(todo) = <<>> THEN "start" ELSE "create"
    /\ UNCHANGED <<given, fs, stray, marker, data, roles, machine, mounted, lock, server,
                   faults>>

(* pg_ctl start on a private socket; the postmaster syncs its lock file. *)
StartPrivate ==
    /\ pc = "start"
    /\ server' = "private"
    /\ loose' = {}
    /\ pc' = "roles"
    /\ UNCHANGED <<given, fs, stray, marker, data, temps, conf, roles, machine, mounted,
                   todo, lock, faults>>

(* roles() connects to the database postgres, the last one initdb makes. *)
SetRoles ==
    /\ pc = "roles"
    /\ IF data = "complete"
       THEN roles' = TRUE /\ pc' = "stop" /\ UNCHANGED <<server, lock>>
       ELSE Die /\ UNCHANGED roles
    /\ UNCHANGED <<given, fs, stray, marker, data, temps, conf, loose, machine, mounted,
                   todo, faults>>

StopPrivate ==
    /\ pc = "stop"
    /\ server' = "none"
    /\ lock' = "free"
    /\ pc' = "prepared"
    /\ UNCHANGED <<volume, machine, mounted, todo, faults>>
-----------------------------------------------------------------------------
(***************************************************************************)
(* logstack-postgresql.service.                                            *)
(***************************************************************************)
(* ExecStartPre; while a backup holds the lock it fails and is retried.     *)
LockVerify ==
    /\ pc = "prepared"
    /\ lock = "free"
    /\ lock' = "host"
    /\ pc' = "check"
    /\ UNCHANGED <<volume, machine, mounted, todo, server, faults>>

(* Verified, PostgreSQL listens.  cloud-init has waited for this in the     *)
(* first boot and enables the timer.                                        *)
Serve ==
    /\ pc = "check"
    /\ mounted /\ ClusterOK
    /\ lock' = "free"
    /\ server' = "public"
    /\ pc' = "serving"
    /\ timer' = IF timer = "pending" THEN "enabled" ELSE timer
    /\ UNCHANGED <<volume, approved, installed, mounted, todo, faults>>
-----------------------------------------------------------------------------
(***************************************************************************)
(* Failures.                                                               *)
(***************************************************************************)
(* What a killed initdb leaves; one that fails by itself empties its directory. *)
InitdbLeaves == IF pc = "initdb" THEN {"empty", "partial", "bootstrapped"} ELSE {data}

NeverAfter(t) == IF t = "pending" THEN "never" ELSE t

Preparing == pc \notin {"off", "failed", "prepared", "check", "serving"}

(* A command of install or prepare fails, or the unit's timeout kills it.   *)
Fail ==
    /\ Preparing
    /\ faults < MaxFaults
    /\ faults' = faults + 1
    /\ data' \in InitdbLeaves
    /\ timer' = NeverAfter(timer)
    /\ Die
    /\ UNCHANGED <<given, fs, stray, marker, temps, conf, loose, roles, approved, installed,
                   mounted, todo>>

(* The check before the server fails, or the server: Restart=on-failure.    *)
FailServer ==
    /\ pc \in {"check", "serving"}
    /\ faults < MaxFaults
    /\ faults' = faults + 1
    /\ pc' = "prepared"
    /\ server' = "none"
    /\ lock' = IF pc = "check" THEN "free" ELSE lock
    /\ timer' = NeverAfter(timer)
    /\ UNCHANGED <<volume, approved, installed, mounted, todo>>

(* The machine stops.  Of what is not synced yet anything may be lost: a    *)
(* new marker or temporary file, pgdata before the end of initdb, the last  *)
(* rename.                                                                  *)
PowerLoss ==
    /\ pc # "off"
    /\ faults < MaxFaults
    /\ faults' = faults + 1
    /\ installed' \in {installed} \cup (IF pc = "record" THEN {"none"} ELSE {})
    /\ marker' \in {marker} \cup (IF pc = "claim" THEN {"none"} ELSE {})
    /\ data' \in InitdbLeaves \cup (IF pc = "initdb" THEN {"none"} ELSE {})
    /\ \E undone \in SUBSET loose :
        /\ conf' = conf \ undone
        /\ temps' \in {temps \cup undone}
              \cup (IF pc = "replace" THEN {temps \ {Head(todo)}} ELSE {})
    /\ loose' = {}
    /\ timer' = NeverAfter(timer)
    /\ pc' = "off"
    /\ mounted' = FALSE
    /\ server' = "none"
    /\ lock' = "free"
    /\ UNCHANGED <<given, fs, stray, roles, approved, todo>>

(* Power is back, or someone starts the failed units again. *)
Start ==
    /\ pc \in {"off", "failed"}
    /\ pc' = "install"
    /\ UNCHANGED <<volume, machine, mounted, todo, lock, server, faults>>
-----------------------------------------------------------------------------
(* What a volume may be when it is attached: new; formatted and empty;      *)
(* formatted and used otherwise; of another file system; restored from a    *)
(* snapshot, whose marker names the original; ours, but its cluster moved   *)
(* away; ours.                                                              *)
Given == {"blank", "empty", "used", "other", "foreign", "lost", "ours"}
Usable == {"blank", "empty", "ours"}

HostInit ==
    /\ given \in Given
    /\ fs = CASE given = "blank" -> "none" [] given = "other" -> "other" [] OTHER -> "ext4"
    /\ stray = (given = "used")
    /\ marker = CASE given = "foreign" -> "foreign"
                  [] given \in {"lost", "ours"} -> "ours"
                  [] OTHER -> "none"
    /\ data = IF given \in {"foreign", "ours"} THEN "complete" ELSE "none"
    /\ temps = {} /\ conf = {} /\ loose = {} /\ roles = FALSE
    /\ approved \in BOOLEAN
    /\ installed = "none"
    /\ timer = "pending"
    /\ pc = "install"
    /\ mounted = FALSE /\ todo = <<>> /\ lock = "free" /\ server = "none"
    /\ faults = 0

HostStep ==
    \/ CheckInstalled \/ InstallPackages \/ RecordInstall
    \/ LockPrepare \/ Mount \/ Format \/ RefuseMount
    \/ Claim \/ WriteMarker \/ Recognise \/ RefuseIdentity
    \/ MakeDataDir \/ Initdb \/ VerifyPrepared
    \/ CreateConf \/ ReplaceConf \/ StartPrivate \/ SetRoles \/ StopPrivate
    \/ LockVerify \/ Serve \/ Start
-----------------------------------------------------------------------------
(***************************************************************************)
(* Properties.                                                             *)
(***************************************************************************)
(* Whoever can connect finds the cluster of this volume, complete, under    *)
(* our configuration and with the application's roles: no order of          *)
(* failures, reboots and retries puts a half-made or unguarded cluster on   *)
(* the network (db-bootstrap.sh:57-76); not even the private server runs    *)
(* with a pg_hba.conf that is not ours.                                     *)
ServesPreparedCluster ==
    /\ server # "none" => mounted /\ fs = "ext4" /\ marker = "ours" /\ conf = ConfSet
    /\ server = "public" => data = "complete" /\ roles

(* Nothing is replaced: a volume that is not for us keeps its file system,  *)
(* its marker, its data and its configuration, and a complete cluster is    *)
(* never initialised again (T5_STATUS.md:101,108).                          *)
NothingIsReplaced ==
    [][ /\ given \notin Usable \/ (given # "ours" /\ ~approved) => UNCHANGED volume
        /\ data = "complete" => data' = "complete" ]_hostVars

(* What takes a person: a volume that is not for us, a cluster that was not *)
(* finished, and the traces of an interrupted write: an empty marker, an    *)
(* empty record of the installation, a temporary configuration file.        *)
Stuck ==
    \/ installed = "torn"
    \/ fs = "other" \/ (fs = "none" /\ ~approved)
    \/ marker \in {"torn", "foreign"}
    \/ marker = "none" /\ ~(Vacant /\ approved)
    \/ marker = "ours" /\ data # "complete"
    \/ temps # {}

(* Once failures end the database is up for good, unless it is stuck: no    *)
(* other state, of the lock, of a mount left behind or of a half-done role, *)
(* keeps the units from getting there.                                      *)
ComesUp == <>[](server = "public" \/ Stuck)
=============================================================================
