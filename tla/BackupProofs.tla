---------------------------- MODULE BackupProofs ----------------------------
(***************************************************************************)
(* The safety of the database machine and of its backups, for any list of  *)
(* configuration files and any number of faults and of backups.            *)
(***************************************************************************)
EXTENDS Backup, TLAPS

Begun == {"create", "replace", "start", "roles", "stop", "prepared", "check", "serving"}
Configured == {"start", "roles", "stop", "prepared", "check", "serving"}
Ready == {"stop", "prepared", "check", "serving"}
Mounted == {"identity", "claim", "datadir", "initdb", "verify"} \cup Begun
Early == {"off", "failed", "install", "record", "lock", "mount", "identity"}

(* What the steps of a boot have established when they are at pc.           *)
BootInv ==
    /\ pc \in Mounted => mounted
    /\ mounted => fs = "ext4"
    /\ pc = "claim" => data = "none"
    /\ pc = "datadir" => data = "none" /\ marker = "ours"
    /\ pc = "initdb" => data = "empty" /\ marker = "ours"
    /\ pc \in Begun => ClusterOK
    /\ pc \in Configured => ConfSet \subseteq conf
    /\ pc \in Ready => data = "complete" /\ roles
    /\ server = "private" => pc \in {"roles", "stop"}
    /\ server = "public" => pc = "serving"
    /\ server \in {"none", "private", "public"}

(* The files that are still to be replaced, and those that have been.       *)
ConfInv ==
    /\ conf \subseteq ConfSet
    /\ pc \in {"create", "replace"} =>
         /\ todo \in Seq(STRING) /\ todo # <<>>
         /\ \A i \in 1..Len(todo) : todo[i] \in ConfSet
         /\ \A f \in ConfSet : f \in conf \/ \E i \in 1..Len(todo) : todo[i] = f

Untouchable == given \notin Usable \/ (given # "ours" /\ ~approved)

(* A volume that is not for us is never past identity-prepare.              *)
GivenInv ==
    Untouchable =>
        /\ pc \in Early
        /\ loose = {}
        /\ fs = "none" => ~approved
        /\ fs = "ext4" => ~(Vacant /\ approved)
        /\ ~(marker = "ours" /\ data # "none")

HostInv == BootInv /\ ConfInv /\ GivenInv
-----------------------------------------------------------------------------
LEMMA InitHostInv == HostInit => HostInv
<1> SUFFICES ASSUME HostInit PROVE HostInv
  OBVIOUS
<1> USE DEF HostInit
<1>1. BootInv
  BY DEF BootInv, Mounted, Begun, Configured, Ready
<1>2. ConfInv
  BY DEF ConfInv
<1>3. ASSUME Untouchable
      PROVE  /\ fs = "ext4" => ~(Vacant /\ approved)
             /\ ~(marker = "ours" /\ data # "none")
  <2>1. CASE given = "used"
    BY <2>1 DEF Vacant
  <2>2. CASE given \in {"blank", "empty"}
    <3>1. marker = "none" /\ ~approved
      BY <2>2, <1>3 DEF Untouchable, Usable
    <3> QED BY <3>1
  <2>3. CASE given = "other"
    BY <2>3
  <2>4. CASE given = "foreign"
    BY <2>4 DEF Vacant
  <2>5. CASE given = "lost"
    BY <2>5 DEF Vacant
  <2>6. CASE given = "ours"
    BY <2>6, <1>3 DEF Untouchable, Usable
  <2> QED BY <2>1, <2>2, <2>3, <2>4, <2>5, <2>6 DEF Given
<1>4. Untouchable /\ fs = "none" => ~approved
  BY DEF Untouchable, Usable
<1>5. GivenInv
  BY <1>3, <1>4 DEF GivenInv, Early
<1> QED BY <1>1, <1>2, <1>5 DEF HostInv

(* Of the files still to be replaced the first goes, and is one of ours. *)
LEMMA ReplaceConfInv ==
    ASSUME HostInv, ReplaceConf
    PROVE  /\ ConfInv'
           /\ pc' \in Configured => ConfSet \subseteq conf'
<1> USE DEF HostInv, ConfInv, ReplaceConf, Configured
<1>1. /\ todo \in Seq(STRING) /\ Len(todo) \in Nat /\ Len(todo) > 0
      /\ Head(todo) = todo[1] /\ Head(todo) \in ConfSet
  OBVIOUS
<1>2. /\ Tail(todo) \in Seq(STRING) /\ Len(Tail(todo)) = Len(todo) - 1
      /\ \A i \in 1..Len(Tail(todo)) : Tail(todo)[i] = todo[i + 1]
  BY <1>1
<1>3. ConfSet' = ConfSet /\ conf' = conf \cup {Head(todo)} /\ conf' \subseteq ConfSet
  BY <1>1 DEF ConfSet
<1>4. ASSUME NEW f \in ConfSet
      PROVE  f \in conf' \/ \E i \in 1..Len(todo') : todo'[i] = f
  <2>1. CASE f \in conf
    BY <2>1, <1>3
  <2>2. ASSUME NEW i \in 1..Len(todo), todo[i] = f
        PROVE  f \in conf' \/ \E j \in 1..Len(todo') : todo'[j] = f
    <3>1. CASE i = 1
      BY <3>1, <2>2, <1>1, <1>3
    <3>2. CASE i # 1
      <4>1. i - 1 \in 1..Len(Tail(todo)) /\ Tail(todo)[i - 1] = f
        BY <3>2, <2>2, <1>1, <1>2
      <4> QED BY <4>1
    <3> QED BY <3>1, <3>2
  <2> QED BY <2>1, <2>2
<1>5. \A i \in 1..Len(todo') : todo'[i] \in ConfSet
  BY <1>1, <1>2
<1>6. CASE Tail(todo) = <<>>
  <2>1. Len(todo') = 0
    BY <1>6
  <2>2. ConfSet \subseteq conf'
    BY <2>1, <1>4
  <2> QED BY <2>2, <1>3, <1>6
<1>7. CASE Tail(todo) # <<>>
  BY <1>2, <1>3, <1>4, <1>5, <1>7
<1> QED BY <1>6, <1>7

(* One step per action of the machine. *)
LEMMA HostNextInv ==
    ASSUME HostInv, HostStep \/ Fail \/ FailServer \/ PowerLoss
    PROVE  HostInv'
<1> USE HostAssumption DEF HostInv, BootInv, ConfInv, GivenInv, Untouchable, Vacant, ClusterOK,
        ConfSet, Mounted, Begun, Configured, Ready, Early, Die, volume, machine, boot
<1>1. CASE CheckInstalled
  BY <1>1 DEF CheckInstalled
<1>2. CASE InstallPackages
  BY <1>2 DEF InstallPackages
<1>3. CASE RecordInstall
  BY <1>3 DEF RecordInstall
<1>4. CASE LockPrepare
  BY <1>4 DEF LockPrepare
<1>5. CASE Mount
  BY <1>5 DEF Mount
<1>6. CASE Format
  BY <1>6 DEF Format
<1>7. CASE RefuseMount
  BY <1>7 DEF RefuseMount
<1>8. CASE Claim
  BY <1>8 DEF Claim
<1>9. CASE WriteMarker
  BY <1>9 DEF WriteMarker
<1>10. CASE Recognise
  BY <1>10 DEF Recognise
<1>11. CASE RefuseIdentity
  BY <1>11 DEF RefuseIdentity
<1>12. CASE MakeDataDir
  BY <1>12 DEF MakeDataDir
<1>13. CASE Initdb
  BY <1>13 DEF Initdb
<1>14. CASE VerifyPrepared
  BY <1>14 DEF VerifyPrepared
<1>15. CASE CreateConf
  BY <1>15 DEF CreateConf
<1>16. CASE ReplaceConf
  BY <1>16, ReplaceConfInv DEF ReplaceConf
<1>17. CASE StartPrivate
  BY <1>17 DEF StartPrivate
<1>18. CASE SetRoles
  BY <1>18 DEF SetRoles
<1>19. CASE StopPrivate
  BY <1>19 DEF StopPrivate
<1>20. CASE LockVerify
  BY <1>20 DEF LockVerify
<1>21. CASE Serve
  BY <1>21 DEF Serve
<1>22. CASE Start
  BY <1>22 DEF Start
<1>23. CASE Fail
  BY <1>23 DEF Fail, InitdbLeaves, Preparing
<1>24. CASE FailServer
  BY <1>24 DEF FailServer
<1>25. CASE PowerLoss
  BY <1>25 DEF PowerLoss, InitdbLeaves
<1> QED BY <1>1, <1>2, <1>3, <1>4, <1>5, <1>6, <1>7, <1>8, <1>9, <1>10, <1>11, <1>12, <1>13, <1>14, <1>15, <1>16, <1>17, <1>18, <1>19, <1>20, <1>21, <1>22, <1>23, <1>24, <1>25 DEF HostStep
-----------------------------------------------------------------------------
Writing == {"dump", "fsync", "list", "rename", "syncdir", "put", "note", "write"}
Dumped == {"fsync", "list", "rename", "syncdir", "put", "note", "write"}
Synced == {"list", "rename", "syncdir", "put", "note", "write"}
Renamed == {"syncdir", "put", "note", "write"}

BackupTypeOK ==
    /\ begun \in Nat /\ begun <= MaxBackups
    /\ job \in {"idle", "verify", "open"} \cup Writing
    /\ name \in [Dump -> {"none", ".partial", ".dump"}]
    /\ whole \subseteq Dump /\ synced \subseteq Dump
    /\ object \in [Dump -> {"none", "cut", "whole"}]
    /\ note \in [Dump -> {"none", "torn", "whole"}]

(* What the steps of a backup have established when they are at job: the    *)
(* names promise less than that until the last of them.                     *)
BackupInv ==
    /\ BackupTypeOK
    /\ NamesArePromises
    /\ job \in {"verify", "open"} => begun < MaxBackups
    /\ \A n \in Dump : n > begun => name[n] = "none" /\ note[n] = "none"
    /\ job \in Writing => begun \in Dump
    /\ job \in Dumped => begun \in whole
    /\ job \in Synced => begun \in synced
    /\ job \in Renamed => name[begun] = ".dump"
    /\ job \in Writing \ Renamed => name[begun] = ".partial"
    /\ job \in {"note", "write"} => object[begun] = "whole"
    /\ job \in Writing \ {"write"} => note[begun] = "none"

LEMMA InitBackupInv == Init => BackupInv
BY BackupAssumption DEF Init, BackupInv, BackupTypeOK, NamesArePromises, Dump, Writing, Dumped,
                        Synced, Renamed

LEMMA BackupNextInv ==
    ASSUME BackupInv, [Next]_vars
    PROVE  BackupInv'
<1> USE BackupAssumption DEF BackupInv, BackupTypeOK, NamesArePromises, Dump, Writing, Dumped, Synced,
        Renamed, backupVars, Files
<1>1. CASE UNCHANGED backupVars
  BY <1>1 
<1>2. CASE Begin
  BY <1>2 DEF Begin
<1>3. CASE Verified
  BY <1>3 DEF Verified
<1>4. CASE Open
  BY <1>4 DEF Open
<1>5. CASE PgDump
  BY <1>5 DEF PgDump
<1>6. CASE Fsync
  BY <1>6 DEF Fsync
<1>7. CASE List
  BY <1>7 DEF List
<1>8. CASE Rename
  BY <1>8 DEF Rename
<1>9. CASE SyncDir
  BY <1>9 DEF SyncDir
<1>10. CASE Put
  BY <1>10 DEF Put
<1>11. CASE CreateNote
  BY <1>11 DEF CreateNote
<1>12. CASE WriteNote
  BY <1>12 DEF WriteNote
<1>13. CASE FailBackup
  BY <1>13 DEF FailBackup
<1>14. CASE FailServerUnderDump
  BY <1>14 DEF FailServerUnderDump
<1>15. CASE PowerLossUnderBackup
  BY <1>15 DEF PowerLossUnderBackup
<1>16. CASE Serving
  BY <1>16 DEF Serving, vars
<1> QED
  BY <1>1, <1>2, <1>3, <1>4, <1>5, <1>6, <1>7, <1>8, <1>9, <1>10, <1>11, <1>12, <1>13, <1>14, <1>15, <1>16 DEF Next, BackupStep, vars

(* The backup leaves the machine alone, but for its lock.                   *)
LEMMA NextHostInv ==
    ASSUME HostInv, [Next]_vars
    PROVE  HostInv'
<1>1. CASE HostStep \/ Fail \/ FailServer \/ PowerLoss
  BY <1>1, HostNextInv
<1>2. CASE UNCHANGED <<volume, machine, pc, mounted, todo, server>>
  BY <1>2 DEF HostInv, BootInv, ConfInv, GivenInv, Untouchable, Vacant, ClusterOK, ConfSet, Mounted,
              Begun, Configured, Ready, Early, volume, machine
<1>3. ASSUME Begin \/ BackupStep \/ FailBackup \/ Serving \/ UNCHANGED vars
      PROVE  UNCHANGED <<volume, machine, pc, mounted, todo, server>>
  BY <1>3 DEF Begin, BackupStep, Verified, Open, PgDump, Fsync, List, Rename, SyncDir, Put,
              CreateNote, WriteNote, FailBackup, Serving, vars, hostVars, boot
<1> QED
  BY <1>1, <1>2, <1>3 DEF Next, FailServerUnderDump, PowerLossUnderBackup

(* The action behind NothingIsReplaced.                                     *)
NothingReplaced ==
    /\ Untouchable => UNCHANGED volume
    /\ data = "complete" => data' = "complete"

LEMMA NextKeepsVolume ==
    ASSUME HostInv, [Next]_vars
    PROVE  NothingReplaced
<1> USE DEF HostInv, BootInv, GivenInv, NothingReplaced, volume
<1>1. CASE UNCHANGED volume
  BY <1>1
<1>2. CASE Format
  BY <1>2 DEF Format
<1>3. ASSUME Claim \/ WriteMarker \/ MakeDataDir \/ Initdb \/ CreateConf \/ ReplaceConf
             \/ StartPrivate \/ SetRoles
      PROVE  NothingReplaced
  <2>1. pc \notin Early \/ (pc = "identity" /\ Vacant /\ approved)
    BY <1>3 DEF Claim, WriteMarker, MakeDataDir, Initdb, CreateConf, ReplaceConf, StartPrivate,
                SetRoles, Early
  <2>2. ~Untouchable
    BY <2>1 DEF Early, Mounted
  <2>3. data = "complete" => data' = "complete"
    BY <1>3 DEF Claim, WriteMarker, MakeDataDir, Initdb, CreateConf, ReplaceConf, StartPrivate,
                SetRoles
  <2> QED BY <2>2, <2>3
<1>4. CASE Fail
  BY <1>4 DEF Fail, InitdbLeaves, Early
<1>5. CASE PowerLoss
  BY <1>5 DEF PowerLoss, InitdbLeaves, Early
<1>6. ASSUME CheckInstalled \/ InstallPackages \/ RecordInstall \/ LockPrepare \/ Mount
             \/ RefuseMount \/ Recognise \/ RefuseIdentity \/ VerifyPrepared \/ StopPrivate
             \/ LockVerify \/ Serve \/ Start \/ FailServer \/ Begin \/ BackupStep
             \/ FailBackup \/ Serving \/ UNCHANGED vars
      PROVE  UNCHANGED volume
  BY <1>6 DEF CheckInstalled, InstallPackages, RecordInstall, LockPrepare, Mount, RefuseMount,
              Recognise, RefuseIdentity, VerifyPrepared, StopPrivate, LockVerify, Serve, Start,
              FailServer, Begin, BackupStep, Verified, Open, PgDump, Fsync, List, Rename, SyncDir,
              Put, CreateNote, WriteNote, FailBackup, Serving, vars, hostVars
<1> QED
  BY <1>1, <1>2, <1>3, <1>4, <1>5, <1>6
     DEF Next, HostStep, FailServerUnderDump, PowerLossUnderBackup
-----------------------------------------------------------------------------
LEMMA HostInvServes == HostInv => ServesPreparedCluster
BY DEF HostInv, BootInv, ConfInv, ServesPreparedCluster, ClusterOK, Mounted, Begun, Configured, Ready

(* No order of failures, kills and power losses puts a cluster on the       *)
(* network that is not this volume's, complete, and under our configuration.*)
THEOREM ServesOnlyPrepared == Spec => []ServesPreparedCluster
<1>1. Init => HostInv
  BY InitHostInv DEF Init
<1>2. HostInv /\ [Next]_vars => HostInv'
  BY NextHostInv
<1> QED BY <1>1, <1>2, HostInvServes, PTL DEF Spec

(* A volume that is not for us keeps its data, its marker and its cluster,  *)
(* and a complete cluster is never initialised again.                       *)
THEOREM VolumesAreKept == Spec => NothingIsReplaced
<1>1. Init => HostInv
  BY InitHostInv DEF Init
<1>2. HostInv /\ [Next]_vars => HostInv'
  BY NextHostInv
<1>3. HostInv /\ [Next]_vars =>
        [ /\ given \notin Usable \/ (given # "ours" /\ ~approved) => UNCHANGED volume
          /\ data = "complete" => data' = "complete" ]_hostVars
  BY NextKeepsVolume DEF NothingReplaced, Untouchable
<1> QED BY <1>1, <1>2, <1>3, PTL DEF Spec, NothingIsReplaced

(* A .dump is a whole dump on the medium, a note means an object in S3.     *)
THEOREM NamesKeepPromises == Spec => []NamesArePromises
<1>1. BackupInv => NamesArePromises
  BY DEF BackupInv
<1>2. BackupInv /\ [Next]_vars => BackupInv'
  BY BackupNextInv
<1> QED BY <1>1, <1>2, InitBackupInv, PTL DEF Spec
=============================================================================
