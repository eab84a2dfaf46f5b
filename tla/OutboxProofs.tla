---------------------------- MODULE OutboxProofs ----------------------------
(***************************************************************************)
(* Proofs about the outbox: it keeps its types, it loses no event, and its *)
(* failed journal has a refused event once and, short of a power loss, for *)
(* good.  The inductive invariants come first.  IInv is the one behind     *)
(* NoLoss: where, in every directory a crash may leave, each promised      *)
(* event is, and what memory and files have in common at each point of     *)
(* open(), of an append and of a compaction.                               *)
(***************************************************************************)
EXTENDS Outbox, DataInduction, SequenceTheorems, TLAPS

(* A file's durable prefix; all of it when nothing is dirty. *)
FileOK(f) ==
    /\ f.torn \/ f.dirty => f.exists
    /\ ~f.exists => f.lines = <<>>
    /\ f.synced <= Len(f.lines)
    /\ ~f.dirty => f.synced = Len(f.lines)

(* A manifest resumes at the start of a journal that is wholly on the medium. *)
DirectoryOK(d) ==
    /\ FileOK(d.journal)
    /\ FileOK(d.compact)
    /\ d.manifest.exists => d.manifest.checkpoint.offset = 0
    /\ d.manifest.exists /\ d.compact.exists => ~d.compact.dirty

(* Event e is on the medium behind the offset open() resumes from. *)
Kept(d, e) ==
    \E i \in 1..RecoveredJournal(d).synced :
        /\ i > RecoveredCheckpoint(d).offset
        /\ RecoveredJournal(d).lines[i] = e

DirectoriesOK ==
    /\ disk \in hist
    /\ \A d \in hist : DirectoryOK(d)

AllKept == \A d \in hist : \A e \in recorded \ settled : Kept(d, e)

(* Without a manifest, every directory names the one journal. *)
OneJournal ==
    ~disk.manifest.exists =>
        \A d \in hist :
            /\ d.journal.exists => d.journal = disk.journal
            /\ d.manifest.exists => ~d.compact.exists

(* Where the process stands, and the files it has put in place. *)
RecoverPcs == {"recover_sync", "recover_checkpoint", "recover_unlink", "compact_checkpoint",
               "compact_unlink"}
PlainPcs == {"recover_unlinked", "tail_journal", "tail_journal_sync", "tail_failed",
             "tail_failed_sync", "load", "open_journal", "open_sync", "idle", "append_fsync",
             "confirm_sync", "quarantine_fsync", "compact_unlinked"}
QuietPcs == {"idle", "append_fsync", "quarantine_fsync"}

FilesAtPc ==
    /\ pc \in RecoverPcs => disk.manifest.exists /\ ~disk.compact.exists
    /\ pc \in PlainPcs => ~disk.manifest.exists /\ ~disk.compact.exists
    /\ pc \in {"recover_unlink", "compact_unlink"} => disk.checkpoint.offset = 0
    /\ pc \in CallPcs \ {"open_journal"} => disk.journal.exists
    /\ pc = "compact_manifest" => ~disk.manifest.exists
    /\ pc = "compact_rename" => disk.manifest.exists
    /\ pc \in {"compact_manifest", "compact_rename"} =>
          disk.compact.exists /\ ~disk.compact.torn
    /\ pc \in CallPcs \cup {"tail_journal_sync", "tail_failed", "tail_failed_sync", "load"} =>
          ~disk.journal.torn

(* Between calls the last directory operation of the journal is durable. *)
Quiet ==
    pc \in QuietPcs =>
        /\ disk.journal.exists
        /\ \A d \in hist :
              /\ d.journal = disk.journal
              /\ d.compact = disk.compact
              /\ d.checkpoint = disk.checkpoint
              /\ d.manifest = disk.manifest

(* pending is the part of the journal behind the checkpoint. *)
MemoryIsTail ==
    /\ pc \in CallPcs \ {"append_fsync", "compact_checkpoint", "compact_unlink",
                         "compact_unlinked"} =>
          /\ checkpointOffset <= Len(disk.journal.lines)
          /\ pending = SubSeq(disk.journal.lines, checkpointOffset + 1, Len(disk.journal.lines))
          /\ disk.checkpoint.offset = checkpointOffset
    /\ pc = "append_fsync" =>
          /\ checkpointOffset + Len(inflight) <= Len(disk.journal.lines)
          /\ pending \o inflight =
                SubSeq(disk.journal.lines, checkpointOffset + 1, Len(disk.journal.lines))
          /\ disk.checkpoint.offset = checkpointOffset
    /\ pc \in {"compact_manifest", "compact_rename"} => disk.compact.lines = pending
    /\ pc \in {"compact_checkpoint", "compact_unlink", "compact_unlinked"} =>
          disk.journal.lines = pending
    /\ pc = "compact_unlinked" => disk.checkpoint.offset = 0

(***************************************************************************)
(* The inductive invariant: TypeOK's part about the journal, and the facts *)
(* above, of which AllKept is the one NoLoss follows from.                 *)
(***************************************************************************)
IInv ==
    /\ JournalTypeOK
    /\ DirectoriesOK
    /\ AllKept
    /\ OneJournal
    /\ FilesAtPc
    /\ Quiet
    /\ MemoryIsTail
-----------------------------------------------------------------------------
(***************************************************************************)
(* The failed journal, for FailedOnce and RefusedAreKept: every directory  *)
(* has each refused event once, and memory knows enough of the file to     *)
(* tell a new one.                                                         *)
(***************************************************************************)
Distinct(s) == \A i, j \in 1..Len(s) : i # j => s[i] # s[j]

FailedDistinct == \A d \in hist : Distinct(d.failed.lines)

FailedWhole ==
    pc \in CallPcs \cup {"tail_failed_sync", "load"} /\ ~failedWriteFault => ~disk.failed.torn

(* The count is short only of the lines whose fsync is under way. *)
FailedKnown ==
    pc \in CallPcs /\ ~failedWriteFault =>
        /\ failedEventIds \subseteq Elements(disk.failed.lines)
        /\ failedUniqueCount + (IF pc = "quarantine_fsync" THEN Len(inflight) ELSE 0)
              = Len(disk.failed.lines)
        /\ pc = "quarantine_fsync" => Elements(inflight) \subseteq Elements(disk.failed.lines)

FailedTypeOK ==
    /\ failedEventIds \subseteq Nat
    /\ failedUniqueCount \in Nat
    /\ failedWriteFault \in BOOLEAN
    /\ handled \subseteq Rejected
    /\ kills \in 0..MaxKills
    /\ powerLosses \in 0..MaxPowerLosses

FailedInv == IInv /\ FailedTypeOK /\ FailedDistinct /\ FailedWhole /\ FailedKnown

(* Without a power loss the failed journal only grows. *)
HandledAreKept == handled \cup (settled \cap Rejected) \subseteq Elements(disk.failed.lines)
-----------------------------------------------------------------------------
(***************************************************************************)
(* The account, for RecordedCountExact: every directory accounts for the   *)
(* lines ever journaled, and memory has the directory's numbers.           *)
(***************************************************************************)
Accounted(d) ==
    /\ RecoveredCheckpoint(d).base + Len(RecoveredJournal(d).lines) = Cardinality(journaled)
    /\ Elements(RecoveredJournal(d).lines) \subseteq journaled

AccountsOK == journaled \subseteq 1..generated /\ \A d \in hist : Accounted(d)

SwapPcs == {"compact_checkpoint", "compact_unlink", "compact_unlinked"}

AccountInMemory ==
    /\ pc \in CallPcs \ SwapPcs =>
          /\ confirmedSinceCompaction = checkpointOffset
          /\ journalBaseCount = disk.checkpoint.base
          /\ journalEntryCount + (IF pc = "append_fsync" THEN Len(inflight) ELSE 0)
                = Len(disk.journal.lines)
    /\ pc \in {"compact_rename", "compact_checkpoint", "compact_unlink"} =>
          disk.manifest.checkpoint = NextState
    /\ pc \in {"compact_unlink", "compact_unlinked"} => disk.checkpoint = NextState
    /\ pc = "recover_unlink" => disk.checkpoint = disk.manifest.checkpoint

AccountInv == AccountsOK /\ AccountInMemory

-----------------------------------------------------------------------------
(* Operations on files keep their type. *)

LEMMA FileOfType ==
  ASSUME NEW ls \in Seq(Line), NEW n \in Nat, NEW t \in BOOLEAN, NEW y \in BOOLEAN
  PROVE  FileOf(ls, n, t, y) \in File
  BY DEF FileOf, File

LEMMA NoFileType == NoFile \in File /\ EmptyFile \in File
<1>1. NoFile \in File
  BY DEF NoFile, File, Line
<1>2. <<>> \in Seq(Line) /\ 0 \in Nat
  BY DEF Line
<1>3. FALSE \in BOOLEAN
  BY Zenon
<1>4. EmptyFile \in File
  BY <1>2, <1>3, FileOfType DEF EmptyFile
<1> QED BY <1>1, <1>4

LEMMA FileFields ==
  ASSUME NEW f \in File
  PROVE  /\ f.exists \in BOOLEAN
         /\ f.lines \in Seq(Line)
         /\ Len(f.lines) \in Nat
         /\ f.synced \in Nat
         /\ f.torn \in BOOLEAN
         /\ f.dirty \in BOOLEAN
  BY DEF File

LEMMA WrittenType ==
  ASSUME NEW f \in File, NEW es \in Seq(Nat)
  PROVE  Written(f, es) \in File
<1>1. CASE f.torn /\ es # <<>>
  <2>1. f.lines \o <<Garbage>> \o Tail(es) \in Seq(Line)
    BY <1>1, FileFields DEF Garbage, Line
  <2> QED BY <1>1, <2>1, FileFields, FileOfType DEF Written
<1>2. CASE ~(f.torn /\ es # <<>>)
  <2>1. f.lines \o es \in Seq(Line)
    BY FileFields DEF Line
  <2> QED BY <1>2, <2>1, FileFields, FileOfType DEF Written
<1> QED BY <1>1, <1>2

LEMMA FileOpsType ==
  ASSUME NEW f \in File
  PROVE  /\ TornAfter(f) \in File
         /\ Fsynced(f) \in File
         /\ Truncated(f) \in File
  BY FileFields, FileOfType DEF TornAfter, Fsynced, Truncated

LEMMA SubSeqType ==
  ASSUME NEW S, NEW s \in Seq(S), NEW m \in Nat \ {0}, NEW n \in 0..Len(s)
  PROVE  SubSeq(s, m, n) \in Seq(S)
  OBVIOUS

LEMMA SurvivorsType ==
  ASSUME NEW f \in File
  PROVE  Survivors(f) \subseteq File
<1> SUFFICES ASSUME NEW g \in Survivors(f)
             PROVE  g \in File
  OBVIOUS
<1>1. CASE ~f.dirty
  BY <1>1 DEF Survivors
<1>2. CASE f.dirty
  <2>1. PICK k \in f.synced..Len(f.lines) : g = Cut(f, k, TRUE) \/ g = Cut(f, k, FALSE)
    BY <1>2 DEF Survivors
  <2>2. SubSeq(f.lines, 1, k) \in Seq(Line) /\ k \in Nat
    BY SubSeqType, FileFields
  <2> QED BY <2>1, <2>2, FileOfType DEF Cut
<1> QED BY <1>1, <1>2

LEMMA PowerLossImagesType ==
  ASSUME NEW d \in Directory
  PROVE  PowerLossImages(d) \subseteq Directory
<1> SUFFICES ASSUME NEW j \in Survivors(d.journal), NEW f \in Survivors(d.failed),
                    NEW c \in Survivors(d.compact)
             PROVE  [journal |-> j, failed |-> f, compact |-> c,
                     checkpoint |-> d.checkpoint, manifest |-> d.manifest] \in Directory
  BY DEF PowerLossImages
<1>1. j \in File /\ f \in File /\ c \in File
  BY SurvivorsType DEF Directory
<1> QED BY <1>1 DEF Directory

(* A directory with one entry replaced. *)
LEMMA DirectoryUpdate ==
  ASSUME NEW d \in Directory
  PROVE  /\ d.journal \in File /\ d.failed \in File /\ d.compact \in File
         /\ d.checkpoint \in Checkpoint /\ d.manifest \in Manifest
         /\ \A f \in File : /\ [d EXCEPT !.journal = f] \in Directory
                          /\ [d EXCEPT !.failed = f] \in Directory
                          /\ [d EXCEPT !.compact = f] \in Directory
         /\ \A c \in Checkpoint : [d EXCEPT !.checkpoint = c] \in Directory
         /\ \A m \in Manifest : [d EXCEPT !.manifest = m] \in Directory
  BY DEF Directory

LEMMA ZeroTypes ==
  /\ ZeroCheckpoint \in Checkpoint
  /\ NoManifest \in Manifest
  /\ EmptyDir \in Directory
<1>1. ZeroCheckpoint \in Checkpoint
  BY DEF ZeroCheckpoint, Checkpoint
<1>2. NoManifest \in Manifest
  BY <1>1 DEF NoManifest, Manifest
<1>3. EmptyDir \in Directory
  BY <1>1, <1>2, NoFileType DEF EmptyDir, Directory
<1> QED BY <1>1, <1>2, <1>3

(* Writes keep the type of the visible directory and of every surviving one. *)
LEMMA WriteJournalType ==
  ASSUME disk \in Directory, hist \subseteq Directory, NEW f \in File, WriteJournal(f)
  PROVE  disk' \in Directory /\ hist' \subseteq Directory
<1>1. disk' \in Directory
  BY DirectoryUpdate DEF WriteJournal
<1>2. \A d \in hist : [d EXCEPT !.journal = IF @.exists THEN f ELSE @] \in Directory
  BY DirectoryUpdate
<1> QED BY <1>1, <1>2 DEF WriteJournal

LEMMA WriteFailedType ==
  ASSUME disk \in Directory, hist \subseteq Directory, NEW f \in File, WriteFailed(f)
  PROVE  disk' \in Directory /\ hist' \subseteq Directory
<1>1. disk' \in Directory
  BY DirectoryUpdate DEF WriteFailed
<1>2. \A d \in hist : [d EXCEPT !.failed = IF @.exists THEN f ELSE @] \in Directory
  BY DirectoryUpdate
<1> QED BY <1>1, <1>2 DEF WriteFailed, FailedImages

LEMMA DirOpType ==
  ASSUME disk \in Directory, hist \subseteq Directory, NEW d \in Directory,
         DirOp(d) \/ SyncDirThen(d) \/ SyncDir
  PROVE  disk' \in Directory /\ hist' \subseteq Directory
  BY DEF DirOp, SyncDirThen, SyncDir
-----------------------------------------------------------------------------
(* The journal's type invariant is inductive.                              *)

LEMMA TypeInit == Init => JournalTypeOK
<1> SUFFICES ASSUME Init
             PROVE  JournalTypeOK
  OBVIOUS
<1>1. disk \in Directory /\ hist \subseteq Directory
  BY ZeroTypes DEF Init
<1>2. pc \in OpenPcs \cup CallPcs
  BY DEF Init, OpenPcs
<1>3. inflight \in Seq(Nat) /\ pending \in Seq(Line)
  BY DEF Init, Line
<1> QED BY <1>1, <1>2, <1>3 DEF Init, JournalTypeOK

(* What lost memory leaves. *)
LEMMA LoseMemoryType ==
  ASSUME LoseMemory
  PROVE  /\ pc' \in OpenPcs \cup CallPcs
         /\ inflight' \in Seq(Nat)
         /\ pending' \in Seq(Line)
         /\ checkpointOffset' \in Nat
         /\ journalBaseCount' \in Nat
         /\ confirmedSinceCompaction' \in Nat
         /\ journalEntryCount' \in Nat
  BY DEF LoseMemory, OpenPcs, Line

LEMMA TypeRecover ==
  ASSUME JournalTypeOK,
         RecoverNoManifest \/ RecoverRename \/ RecoverSync \/ RecoverCheckpoint
            \/ RecoverUnlink \/ RecoverDone
  PROVE  JournalTypeOK'
<1> USE DEF jmem, ghosts, OpenPcs, CallPcs
<1>0. disk \in Directory /\ hist \subseteq Directory
  BY DEF JournalTypeOK
<1>1. UNCHANGED <<inflight, jmem, ghosts>> /\ pc' \in OpenPcs \cup CallPcs
  BY DEF RecoverNoManifest, RecoverRename, RecoverSync, RecoverCheckpoint, RecoverUnlink,
         RecoverDone, Goto
<1>2. \E d \in Directory : DirOp(d) \/ SyncDirThen(d) \/ SyncDir
  <2>1. [disk EXCEPT !.compact = NoFile] \in Directory
    BY <1>0, DirectoryUpdate, NoFileType
  <2>2. [disk EXCEPT !.journal = disk.compact, !.compact = NoFile] \in Directory
    BY <1>0, NoFileType DEF Directory
  <2>3. [disk EXCEPT !.checkpoint = disk.manifest.checkpoint] \in Directory
    BY <1>0, DirectoryUpdate DEF Manifest
  <2>4. [disk EXCEPT !.manifest = NoManifest] \in Directory
    BY <1>0, DirectoryUpdate, ZeroTypes
  <2> QED BY <1>0, <2>1, <2>2, <2>3, <2>4
          DEF RecoverNoManifest, RecoverRename, RecoverSync, RecoverCheckpoint,
              RecoverUnlink, RecoverDone
<1>3. disk' \in Directory /\ hist' \subseteq Directory
  BY <1>0, <1>2, DirOpType
<1> QED BY <1>1, <1>3 DEF JournalTypeOK

LEMMA TypeTail ==
  ASSUME JournalTypeOK,
         TailJournal \/ TailJournalSync \/ TailFailed \/ TailFailedSync
  PROVE  JournalTypeOK'
<1> USE DEF jmem, ghosts, OpenPcs, CallPcs
<1>0. /\ disk \in Directory /\ hist \subseteq Directory
      /\ disk.journal \in File /\ disk.failed \in File
  BY DirectoryUpdate DEF JournalTypeOK
<1>1. UNCHANGED <<inflight, jmem, ghosts>> /\ pc' \in OpenPcs \cup CallPcs
  BY DEF TailJournal, TailJournalSync, TailFailed, TailFailedSync, Goto
<1>2. disk' \in Directory /\ hist' \subseteq Directory
  <2>1. CASE TailJournal
    BY <1>0, <2>1, WriteJournalType, FileOpsType DEF TailJournal
  <2>2. CASE TailJournalSync
    BY <1>0, <2>2, DirectoryUpdate, FileOpsType DEF TailJournalSync
  <2>3. CASE TailFailed
    BY <1>0, <2>3, WriteFailedType, FileOpsType DEF TailFailed
  <2>4. CASE TailFailedSync
    BY <1>0, <2>4, DirectoryUpdate, FileOpsType DEF TailFailedSync
  <2> QED BY <2>1, <2>2, <2>3, <2>4
<1> QED BY <1>1, <1>2 DEF JournalTypeOK

LEMMA ResumeOffsetType ==
  ASSUME NEW c \in Checkpoint, NEW ls \in Seq(Line)
  PROVE  ResumeOffset(c, ls) \in 0..Len(ls)
  BY DEF ResumeOffset, Checkpoint

LEMMA TypeOpen ==
  ASSUME JournalTypeOK, Load \/ OpenJournal \/ OpenSync
  PROVE  JournalTypeOK'
<1> USE DEF jmem, ghosts, OpenPcs, CallPcs
<1>0. disk \in Directory /\ hist \subseteq Directory
  BY DEF JournalTypeOK
<1>1. CASE Load /\ LoadState
  <2> DEFINE lines == disk.journal.lines
             off == ResumeOffset(disk.checkpoint, lines)
             ckpt == [offset |-> off, base |-> disk.checkpoint.base, confirmed |-> off]
  <2>1. lines \in Seq(Line) /\ disk.checkpoint \in Checkpoint
    BY <1>0, DirectoryUpdate, FileFields
  <2>2. off \in 0..Len(lines) /\ Len(lines) \in Nat
    BY <2>1, ResumeOffsetType
  <2>3. SubSeq(lines, off + 1, Len(lines)) \in Seq(Line)
    BY <2>1, <2>2
  <2>4. ckpt \in Checkpoint
    BY <2>1, <2>2 DEF Checkpoint
  <2>5. disk' \in Directory /\ hist' \subseteq Directory
    <3>1. [disk EXCEPT !.checkpoint = ckpt] \in Directory
      BY <1>0, <2>4, DirectoryUpdate
    <3> QED BY <1>0, <1>1, <3>1, DirOpType DEF LoadState
  <2>6. /\ pending' \in Seq(Line)
        /\ checkpointOffset' \in Nat
        /\ journalBaseCount' \in Nat
        /\ confirmedSinceCompaction' \in Nat
        /\ journalEntryCount' \in Nat
    BY <1>1, <2>1, <2>2, <2>3 DEF LoadState, Checkpoint
  <2> QED BY <1>1, <2>5, <2>6 DEF Load, LoadState, JournalTypeOK
<1>2. CASE Load /\ ~LoadState
  BY <1>0, <1>2 DEF Load, JournalTypeOK
<1>3. CASE OpenJournal \/ OpenSync
  <2>1. UNCHANGED <<inflight, jmem, ghosts>> /\ pc' \in OpenPcs \cup CallPcs
    BY <1>3 DEF OpenJournal, OpenSync, Goto
  <2>2. [disk EXCEPT !.journal = EmptyFile] \in Directory
    BY <1>0, DirectoryUpdate, NoFileType
  <2>3. disk' \in Directory /\ hist' \subseteq Directory
    BY <1>0, <1>3, <2>2, DirOpType DEF OpenJournal, OpenSync
  <2> QED BY <2>1, <2>3 DEF JournalTypeOK
<1> QED BY <1>1, <1>2, <1>3

LEMMA NewEventsType ==
  ASSUME generated \in Nat, NEW n \in Nat
  PROVE  /\ NewEvents(n) \in Seq(Nat)
         /\ Len(NewEvents(n)) = n
         /\ Elements(NewEvents(n)) \subseteq Nat
<1>1. NewEvents(n) \in [1..n -> Nat]
  BY DEF NewEvents
<1> QED BY <1>1 DEF Elements

LEMMA ElementsType ==
  ASSUME NEW S, NEW s \in Seq(S)
  PROVE  Elements(s) \subseteq S
  BY DEF Elements

LEMMA TypeAppend ==
  ASSUME JournalTypeOK, (\E n \in 1..MaxAppend : AppendWrite(n)) \/ AppendFsync
  PROVE  JournalTypeOK'
<1> USE OutboxAssumption DEF OutboxAssumption, jmem, ghosts, OpenPcs, CallPcs
<1>0. /\ disk \in Directory /\ hist \subseteq Directory
      /\ disk.journal \in File
  BY DirectoryUpdate DEF JournalTypeOK
<1>1. ASSUME NEW n \in 1..MaxAppend, AppendWrite(n)
      PROVE  JournalTypeOK'
  <2>1. /\ NewEvents(n) \in Seq(Nat)
        /\ Elements(NewEvents(n)) \subseteq Nat
    BY NewEventsType DEF JournalTypeOK
  <2>2. disk' \in Directory /\ hist' \subseteq Directory
    BY <1>0, <1>1, <2>1, WrittenType, WriteJournalType DEF AppendWrite
  <2>3. n \in Nat /\ generated' = generated + n
    BY <1>1 DEF AppendWrite
  <2>4. generated' \in Nat
    BY <2>3 DEF JournalTypeOK
  <2>5. journaled' \subseteq Nat
    BY <1>1, <2>1 DEF AppendWrite, JournalTypeOK
  <2>6. inflight' \in Seq(Nat) /\ pc' \in OpenPcs \cup CallPcs
    BY <1>1, <2>1 DEF AppendWrite, Goto
  <2>7. UNCHANGED <<jmem, recorded, settled>>
    BY <1>1 DEF AppendWrite
  <2> QED BY <2>2, <2>4, <2>5, <2>6, <2>7 DEF JournalTypeOK
<1>2. CASE AppendFsync
  <2>1. disk' \in Directory /\ hist' \subseteq Directory
    BY <1>0, <1>2, FileOpsType, WriteJournalType DEF AppendFsync
  <2>2. /\ inflight \in Seq(Nat) /\ pending \in Seq(Nat)
        /\ journalEntryCount \in Nat /\ recorded \subseteq Nat
    BY DEF JournalTypeOK, Line
  <2>3. pending' \in Seq(Line) /\ journalEntryCount' \in Nat
    BY <1>2, <2>2 DEF AppendFsync, Line
  <2>4. recorded' \subseteq Nat
    BY <1>2, <2>2, ElementsType DEF AppendFsync
  <2>5. inflight' \in Seq(Nat)
    BY <1>2 DEF AppendFsync
  <2> QED BY <1>2, <2>1, <2>3, <2>4, <2>5 DEF AppendFsync, Goto, JournalTypeOK
<1> QED BY <1>1, <1>2

LEMMA TypeConfirm ==
  ASSUME JournalTypeOK, NEW n \in 1..MaxEvents, Confirm(n)
  PROVE  JournalTypeOK'
<1> USE OutboxAssumption DEF OutboxAssumption, ghosts, OpenPcs, CallPcs
<1>0. disk \in Directory /\ hist \subseteq Directory
  BY DEF JournalTypeOK
<1>1. /\ pending' \in Seq(Line)
      /\ checkpointOffset' \in Nat
      /\ confirmedSinceCompaction' \in Nat
      /\ settled' \subseteq Nat
  <2>1. n \in Nat /\ n <= Len(pending)
    BY DEF Confirm
  <2>0. /\ pending \in Seq(Nat) /\ checkpointOffset \in Nat
        /\ confirmedSinceCompaction \in Nat /\ settled \subseteq Nat
    BY DEF JournalTypeOK, Line
  <2>2. /\ pending' = SubSeq(pending, n + 1, Len(pending))
        /\ checkpointOffset' = checkpointOffset + n
        /\ confirmedSinceCompaction' = confirmedSinceCompaction + n
        /\ settled' = settled \cup {pending[i] : i \in 1..n}
    BY Zenon DEF Confirm
  <2>3. pending' \in Seq(Line)
    BY <2>0, <2>1, <2>2 DEF Line
  <2>4. settled' \subseteq Nat
    <3>1. \A i \in 1..n : pending[i] \in Nat
      BY <2>0, <2>1
    <3> QED BY <2>0, <2>2, <3>1
  <2>5. checkpointOffset' \in Nat
    BY <2>0, <2>1, <2>2
  <2>6. confirmedSinceCompaction' \in Nat
    BY <2>0, <2>1, <2>2
  <2> QED BY <2>3, <2>4, <2>5, <2>6
<1>2. [offset |-> checkpointOffset', base |-> journalBaseCount,
       confirmed |-> confirmedSinceCompaction'] \in Checkpoint
  BY <1>1 DEF JournalTypeOK, Checkpoint
<1>3. [disk EXCEPT !.checkpoint = [offset |-> checkpointOffset', base |-> journalBaseCount,
                                   confirmed |-> confirmedSinceCompaction']] \in Directory
  BY <1>0, <1>2, DirectoryUpdate
<1>4. disk' \in Directory /\ hist' \subseteq Directory
  BY <1>0, <1>3, DirOpType DEF Confirm
<1> QED BY <1>1, <1>4 DEF Confirm, Goto, JournalTypeOK

LEMMA NextStateType ==
  ASSUME JournalTypeOK
  PROVE  /\ NextState \in Checkpoint
         /\ [exists |-> TRUE, checkpoint |-> NextState] \in Manifest
<1>1. NextState \in Checkpoint
  BY DEF JournalTypeOK, NextState, Checkpoint
<1> QED BY <1>1 DEF Manifest

LEMMA TypeCompact ==
  ASSUME JournalTypeOK,
         ConfirmDone \/ CompactWrite \/ CompactManifest \/ CompactRename
            \/ CompactCheckpoint \/ CompactUnlink \/ CompactDone
  PROVE  JournalTypeOK'
<1> USE DEF jmem, ghosts, OpenPcs, CallPcs
<1>0. /\ disk \in Directory /\ hist \subseteq Directory
      /\ disk.compact \in File
      /\ pending \in Seq(Nat)
  BY DirectoryUpdate DEF JournalTypeOK, Line
<1>1. CASE ConfirmDone
  BY <1>0, <1>1, DirOpType DEF ConfirmDone, Goto, JournalTypeOK
<1>2. CASE CompactWrite
  <2>1. [disk EXCEPT !.compact = Written(EmptyFile, pending)] \in Directory
    BY <1>0, DirectoryUpdate, WrittenType, NoFileType
  <2>2. disk' \in Directory /\ hist' \subseteq Directory
    BY <1>0, <1>2, <2>1, DirOpType DEF CompactWrite
  <2> QED BY <1>2, <2>2 DEF CompactWrite, Goto, JournalTypeOK
<1>3. CASE CompactManifest
  <2> DEFINE synced == [disk EXCEPT !.compact = Fsynced(@)]
             next == [synced EXCEPT !.manifest = [exists |-> TRUE, checkpoint |-> NextState]]
  <2>1. Fsynced(disk.compact) \in File
    BY <1>0, FileOpsType
  <2>2. next \in Directory
    BY <1>0, <2>1, DirectoryUpdate, NextStateType
  <2>3. \A d \in hist :
           [d EXCEPT !.compact = IF @.exists THEN Fsynced(disk.compact) ELSE @] \in Directory
    BY <1>0, <2>1, DirectoryUpdate
  <2>4. disk' \in Directory /\ hist' \subseteq Directory
    BY <1>3, <2>2, <2>3 DEF CompactManifest
  <2> QED BY <1>3, <2>4 DEF CompactManifest, Goto, JournalTypeOK
<1>4. CASE CompactRename
  <2>1. [disk EXCEPT !.journal = disk.compact, !.compact = NoFile] \in Directory
    BY <1>0, NoFileType DEF Directory
  <2>2. disk' \in Directory /\ hist' \subseteq Directory
    BY <1>0, <1>4, <2>1, DirOpType DEF CompactRename
  <2> QED BY <1>4, <2>2 DEF CompactRename, Goto, JournalTypeOK
<1>5. CASE CompactCheckpoint
  <2>1. [disk EXCEPT !.checkpoint = NextState] \in Directory
    BY <1>0, DirectoryUpdate, NextStateType
  <2>2. disk' \in Directory /\ hist' \subseteq Directory
    BY <1>0, <1>5, <2>1, DirOpType DEF CompactCheckpoint
  <2> QED BY <1>5, <2>2 DEF CompactCheckpoint, Goto, JournalTypeOK
<1>6. CASE CompactUnlink
  <2>1. [disk EXCEPT !.manifest = NoManifest] \in Directory
    BY <1>0, DirectoryUpdate, ZeroTypes
  <2>2. disk' \in Directory /\ hist' \subseteq Directory
    BY <1>0, <1>6, <2>1, DirOpType DEF CompactUnlink
  <2> QED BY <1>6, <2>2 DEF CompactUnlink, Goto, JournalTypeOK
<1>7. CASE CompactDone
  <2>1. disk' \in Directory /\ hist' \subseteq Directory
    BY <1>0, <1>7, DirOpType DEF CompactDone
  <2>2. /\ checkpointOffset' \in Nat
        /\ journalBaseCount' \in Nat
        /\ confirmedSinceCompaction' \in Nat
        /\ journalEntryCount' \in Nat
    BY <1>0, <1>7, NextStateType DEF CompactDone, Checkpoint, JournalTypeOK
  <2> QED BY <1>7, <2>1, <2>2 DEF CompactDone, Goto, JournalTypeOK
<1> QED BY <1>1, <1>2, <1>3, <1>4, <1>5, <1>6, <1>7

LEMMA InOrderType ==
  ASSUME JournalTypeOK, NEW n \in Nat, n <= Len(pending), NEW new \in InOrder(NewFailed(n), n)
  PROVE  new \in Seq(Nat)
<1>1. NewFailed(n) \subseteq Nat
  BY DEF NewFailed, Refused, JournalTypeOK, Line
<1>2. PICK m \in 0..n : new \in [1..m -> NewFailed(n)]
  BY DEF InOrder
<1> QED BY <1>1, <1>2

LEMMA TypeQuarantine ==
  ASSUME JournalTypeOK,
         \/ \E n \in 1..MaxEvents : QuarantineKnown(n) \/ QuarantineWrite(n)
         \/ \E n \in 1..MaxEvents, k \in 0..MaxEvents, t \in BOOLEAN : QuarantineFails(n, k, t)
         \/ QuarantineDone
  PROVE  JournalTypeOK'
<1> USE OutboxAssumption DEF OutboxAssumption, jmem, ghosts, OpenPcs, CallPcs
<1>0. /\ disk \in Directory /\ hist \subseteq Directory
      /\ disk.failed \in File
  BY DirectoryUpdate DEF JournalTypeOK
<1>1. ASSUME NEW n \in 1..MaxEvents, QuarantineKnown(n)
      PROVE  JournalTypeOK'
  BY <1>1 DEF QuarantineKnown, JournalTypeOK
<1>2. ASSUME NEW n \in 1..MaxEvents, QuarantineWrite(n)
      PROVE  JournalTypeOK'
  <2>1. PICK new \in InOrder(NewFailed(n), n) :
           inflight' = new /\ WriteFailed(Written(disk.failed, new))
    BY <1>2 DEF QuarantineWrite
  <2>2. new \in Seq(Nat)
    BY <1>2, InOrderType DEF QuarantineWrite
  <2>3. disk' \in Directory /\ hist' \subseteq Directory
    BY <1>0, <2>1, <2>2, WrittenType, WriteFailedType
  <2> QED BY <1>2, <2>1, <2>2, <2>3 DEF QuarantineWrite, Goto, JournalTypeOK
<1>3. ASSUME NEW n \in 1..MaxEvents, NEW k \in 0..MaxEvents, NEW t \in BOOLEAN,
             QuarantineFails(n, k, t)
      PROVE  JournalTypeOK'
  <2>1. PICK new \in InOrder(NewFailed(n), n) :
           /\ k <= Len(new)
           /\ LET f == Written(disk.failed, SubSeq(new, 1, k))
              IN  WriteFailed(IF t /\ k < Len(new) THEN TornAfter(f) ELSE f)
    BY <1>3 DEF QuarantineFails
  <2>2. new \in Seq(Nat)
    BY <1>3, InOrderType DEF QuarantineFails
  <2>3. SubSeq(new, 1, k) \in Seq(Nat)
    BY <2>1, <2>2, SubSeqType
  <2>4. Written(disk.failed, SubSeq(new, 1, k)) \in File
    BY <1>0, <2>3, WrittenType
  <2>5. disk' \in Directory /\ hist' \subseteq Directory
    BY <1>0, <2>1, <2>4, FileOpsType, WriteFailedType
  <2> QED BY <1>3, <2>5 DEF QuarantineFails, JournalTypeOK
<1>4. CASE QuarantineDone
  <2>1. disk' \in Directory /\ hist' \subseteq Directory
    BY <1>0, <1>4, DirectoryUpdate, FileOpsType DEF QuarantineDone
  <2> QED BY <1>4, <2>1 DEF QuarantineDone, Goto, JournalTypeOK
<1> QED BY <1>1, <1>2, <1>3, <1>4

LEMMA TypeCrash ==
  ASSUME JournalTypeOK, Close \/ Crash
  PROVE  JournalTypeOK'
<1> USE OutboxAssumption DEF OutboxAssumption, ghosts
<1>0. /\ disk \in Directory /\ hist \subseteq Directory
      /\ disk.journal \in File
  BY DirectoryUpdate DEF JournalTypeOK
<1>1. CASE Close \/ Kill
  BY <1>1, LoseMemoryType DEF Close, Kill, JournalTypeOK
<1>2. ASSUME NEW n \in 1..MaxAppend, NEW k \in 0..MaxAppend, NEW t \in BOOLEAN,
             KillInAppend(n, k, t)
      PROVE  JournalTypeOK'
  <2>1. NewEvents(n) \in Seq(Nat) /\ Len(NewEvents(n)) = n
    BY NewEventsType DEF JournalTypeOK
  <2>2. SubSeq(NewEvents(n), 1, k) \in Seq(Nat)
    BY <1>2, <2>1, SubSeqType DEF KillInAppend
  <2>3. Written(disk.journal, SubSeq(NewEvents(n), 1, k)) \in File
    BY <1>0, <2>2, WrittenType
  <2>4. disk' \in Directory /\ hist' \subseteq Directory
    BY <1>0, <1>2, <2>3, FileOpsType, WriteJournalType DEF KillInAppend
  <2>5. generated' \in Nat /\ journaled' \subseteq Nat
    <3>1. generated \in Nat /\ journaled \subseteq Nat
      BY DEF JournalTypeOK
    <3>2. Elements(SubSeq(NewEvents(n), 1, k)) \subseteq Nat
      BY <2>2, ElementsType
    <3>3. generated' = generated + n
          /\ journaled' = journaled \cup Elements(SubSeq(NewEvents(n), 1, k))
      BY <1>2, Zenon DEF KillInAppend
    <3>4. generated' \in Nat
      BY <3>1, <3>3
    <3>5. journaled' \subseteq Nat
      BY <3>1, <3>2, <3>3
    <3> QED BY <3>4, <3>5
  <2> QED BY <1>2, <2>4, <2>5, LoseMemoryType DEF KillInAppend, JournalTypeOK
<1>3. CASE PowerLoss
  <2>1. disk' \in Directory /\ hist' \subseteq Directory
    BY <1>0, <1>3, PowerLossImagesType DEF PowerLoss
  <2>2. journaled' \subseteq Nat
    BY <1>3 DEF PowerLoss, JournalTypeOK
  <2> QED BY <1>3, <2>1, <2>2, LoseMemoryType DEF PowerLoss, JournalTypeOK
<1> QED BY <1>1, <1>2, <1>3 DEF Crash

LEMMA TypeStep ==
  ASSUME JournalTypeOK, [Next]_vars
  PROVE  JournalTypeOK'
<1>1. CASE OpenStep
  BY <1>1, TypeRecover, TypeTail, TypeOpen DEF OpenStep
<1>2. CASE CallStep
  BY <1>2, TypeAppend, TypeCompact, TypeQuarantine DEF CallStep
<1>3. CASE Call
  BY <1>3, TypeAppend, TypeConfirm, TypeQuarantine, TypeCrash DEF Call
<1>4. CASE Crash
  BY <1>4, TypeCrash
<1>5. CASE UNCHANGED vars
  BY <1>5 DEF vars, jmem, ghosts, JournalTypeOK
<1> QED BY <1>1, <1>2, <1>3, <1>4, <1>5 DEF Next

(***************************************************************************)
(* The files, the journal's state in memory and the ghosts keep their      *)
(* types, through every crash, recovery and compaction.                    *)
(***************************************************************************)
THEOREM JournalTypeCorrect == Spec => []JournalTypeOK
  BY TypeInit, TypeStep, PTL DEF Spec
-----------------------------------------------------------------------------
(***************************************************************************)
(* No loss: IInv is inductive and implies NoLoss.                          *)
(***************************************************************************)

(* The fields of an updated directory. *)
LEMMA JournalField ==
  ASSUME NEW d \in Directory, NEW f
  PROVE  LET x == [d EXCEPT !.journal = f]
         IN  /\ x.journal = f /\ x.failed = d.failed /\ x.compact = d.compact
             /\ x.checkpoint = d.checkpoint /\ x.manifest = d.manifest
  BY DEF Directory

LEMMA FailedField ==
  ASSUME NEW d \in Directory, NEW f
  PROVE  LET x == [d EXCEPT !.failed = f]
         IN  /\ x.journal = d.journal /\ x.failed = f /\ x.compact = d.compact
             /\ x.checkpoint = d.checkpoint /\ x.manifest = d.manifest
  BY DEF Directory

LEMMA CompactField ==
  ASSUME NEW d \in Directory, NEW f
  PROVE  LET x == [d EXCEPT !.compact = f]
         IN  /\ x.journal = d.journal /\ x.failed = d.failed /\ x.compact = f
             /\ x.checkpoint = d.checkpoint /\ x.manifest = d.manifest
  BY DEF Directory

LEMMA CheckpointField ==
  ASSUME NEW d \in Directory, NEW c
  PROVE  LET x == [d EXCEPT !.checkpoint = c]
         IN  /\ x.journal = d.journal /\ x.failed = d.failed /\ x.compact = d.compact
             /\ x.checkpoint = c /\ x.manifest = d.manifest
  BY DEF Directory

LEMMA ManifestField ==
  ASSUME NEW d \in Directory, NEW m
  PROVE  LET x == [d EXCEPT !.manifest = m]
         IN  /\ x.journal = d.journal /\ x.failed = d.failed /\ x.compact = d.compact
             /\ x.checkpoint = d.checkpoint /\ x.manifest = m
  BY DEF Directory

LEMMA RenameField ==
  ASSUME NEW d \in Directory
  PROVE  LET x == [d EXCEPT !.journal = d.compact, !.compact = NoFile]
         IN  /\ x \in Directory
             /\ x.journal = d.compact /\ x.failed = d.failed /\ x.compact = NoFile
             /\ x.checkpoint = d.checkpoint /\ x.manifest = d.manifest
  BY NoFileType DEF Directory

LEMMA NoFileFields ==
  /\ NoFile.exists = FALSE /\ NoFile.lines = <<>> /\ NoFile.synced = 0
  /\ NoFile.torn = FALSE /\ NoFile.dirty = FALSE
  BY DEF NoFile

LEMMA FsyncedFields ==
  ASSUME NEW f \in File
  PROVE  /\ Fsynced(f).exists = TRUE /\ Fsynced(f).lines = f.lines
         /\ Fsynced(f).synced = Len(f.lines) /\ Fsynced(f).torn = f.torn
         /\ Fsynced(f).dirty = FALSE
  BY DEF Fsynced, FileOf, File

LEMMA TruncatedFields ==
  ASSUME NEW f \in File
  PROVE  /\ Truncated(f).exists = TRUE /\ Truncated(f).lines = f.lines
         /\ Truncated(f).synced = f.synced /\ Truncated(f).torn = FALSE
         /\ Truncated(f).dirty = TRUE
  BY DEF Truncated, FileOf, File

(* What open() takes from a directory is a file and a checkpoint. *)
LEMMA RecoveredTypes ==
  ASSUME NEW d \in Directory
  PROVE  /\ RecoveredJournal(d) \in File
         /\ RecoveredCheckpoint(d) \in Checkpoint
         /\ RecoveredCheckpoint(d).offset \in Nat
         /\ RecoveredJournal(d).synced \in Nat
<1>1. RecoveredJournal(d) \in File
  BY DirectoryUpdate DEF RecoveredJournal
<1>2. RecoveredCheckpoint(d) \in Checkpoint
  BY DirectoryUpdate DEF RecoveredCheckpoint, Manifest
<1>3. RecoveredCheckpoint(d).offset \in Nat
  BY <1>2 DEF Checkpoint
<1> QED BY <1>1, <1>2, <1>3, FileFields

(* An event stays kept when the journal open() reads only grows and its     *)
(* offset does not advance.                                                 *)
LEMMA KeptRewinds ==
  ASSUME NEW d \in Directory, NEW x \in Directory, NEW e, Kept(d, e),
         RecoveredJournal(d).synced <= RecoveredJournal(x).synced,
         \A i \in 1..RecoveredJournal(d).synced :
            RecoveredJournal(x).lines[i] = RecoveredJournal(d).lines[i],
         RecoveredCheckpoint(x).offset <= RecoveredCheckpoint(d).offset
  PROVE  Kept(x, e)
<1>1. PICK i \in 1..RecoveredJournal(d).synced :
         i > RecoveredCheckpoint(d).offset /\ RecoveredJournal(d).lines[i] = e
  BY DEF Kept
<1>2. i \in 1..RecoveredJournal(x).synced
  BY RecoveredTypes
<1>3. i > RecoveredCheckpoint(x).offset
  BY <1>1, RecoveredTypes
<1> QED BY <1>1, <1>2, <1>3 DEF Kept

LEMMA KeptMoves ==
  ASSUME NEW d \in Directory, NEW x \in Directory, NEW e, Kept(d, e),
         RecoveredJournal(d).synced <= RecoveredJournal(x).synced,
         \A i \in 1..RecoveredJournal(d).synced :
            RecoveredJournal(x).lines[i] = RecoveredJournal(d).lines[i],
         RecoveredCheckpoint(x).offset = RecoveredCheckpoint(d).offset
  PROVE  Kept(x, e)
<1>1. RecoveredCheckpoint(x).offset <= RecoveredCheckpoint(d).offset
  BY RecoveredTypes
<1> QED BY <1>1, KeptRewinds

LEMMA KeptSame ==
  ASSUME NEW d \in Directory, NEW x \in Directory, NEW e, Kept(d, e),
         RecoveredJournal(x) = RecoveredJournal(d),
         RecoveredCheckpoint(x).offset = RecoveredCheckpoint(d).offset
  PROVE  Kept(x, e)
  BY RecoveredTypes, KeptMoves

(* A directory operation that makes an acceptable directory. *)
LEMMA DirOpSafe ==
  ASSUME JournalTypeOK, DirectoriesOK, AllKept,
         NEW x \in Directory, DirectoryOK(x), \A e \in recorded \ settled' : Kept(x, e),
         recorded' = recorded, settled \subseteq settled',
         DirOp(x) \/ SyncDirThen(x)
  PROVE  DirectoriesOK' /\ AllKept'
<1>1. disk' = x /\ hist' \subseteq hist \cup {x} /\ x \in hist'
  BY DEF DirOp, SyncDirThen, DirectoriesOK
<1>2. \A d \in hist : DirectoryOK(d)
  BY DEF DirectoriesOK
<1>3. \A d \in hist : \A e \in recorded \ settled' : Kept(d, e)
  BY DEF AllKept
<1> QED BY <1>1, <1>2, <1>3 DEF DirectoriesOK, AllKept

LEMMA SyncDirSafe ==
  ASSUME DirectoriesOK, AllKept, OneJournal,
         recorded' = recorded, settled' = settled, SyncDir
  PROVE  DirectoriesOK' /\ AllKept' /\ OneJournal'
  BY DEF SyncDir, DirectoriesOK, AllKept, OneJournal

-----------------------------------------------------------------------------
(* recoverCompaction() *)

LEMMA StepRecoverNoManifest ==
  ASSUME IInv, JournalTypeOK', RecoverNoManifest
  PROVE  IInv'
<1> DEFINE x == [disk EXCEPT !.compact = NoFile]
<1> USE DEF IInv
<1>0. disk \in Directory /\ hist \subseteq Directory /\ disk \in hist /\ DirectoryOK(disk)
  BY DEF JournalTypeOK, DirectoriesOK
<1>1. /\ x \in Directory /\ x.journal = disk.journal /\ x.compact = NoFile
      /\ x.checkpoint = disk.checkpoint /\ x.manifest = disk.manifest
  BY <1>0, CompactField, DirectoryUpdate, NoFileType
<1>2. ~disk.manifest.exists /\ DirOp(x) /\ pc' = "tail_journal"
  BY DEF RecoverNoManifest, Goto
<1>3. RecoveredJournal(x) = RecoveredJournal(disk) /\ RecoveredCheckpoint(x) = RecoveredCheckpoint(disk)
  BY <1>1, <1>2 DEF RecoveredJournal, RecoveredCheckpoint
<1>4. \A e \in recorded \ settled : Kept(x, e)
  BY <1>0, <1>1, <1>3, KeptSame DEF AllKept
<1>5. DirectoryOK(x)
  BY <1>0, <1>1, <1>2, NoFileFields DEF DirectoryOK, FileOK
<1>6. recorded' = recorded /\ settled' = settled
  BY DEF RecoverNoManifest, ghosts
<1>7. DirectoriesOK' /\ AllKept'
  BY <1>1, <1>2, <1>4, <1>5, <1>6, DirOpSafe
<1>8. OneJournal'
  BY <1>1, <1>2, NoFileFields DEF OneJournal, DirOp
<1>9. FilesAtPc' /\ Quiet' /\ MemoryIsTail'
  BY <1>1, <1>2, NoFileFields
     DEF FilesAtPc, Quiet, MemoryIsTail, DirOp, RecoverPcs, PlainPcs, QuietPcs, CallPcs
<1> QED BY <1>7, <1>8, <1>9

(* The compacted journal takes the old one's place. *)
LEMMA RenameKeeps ==
  ASSUME NEW d \in Directory, NEW e, Kept(d, e), DirectoryOK(d),
         d.manifest.exists, d.compact.exists
  PROVE  LET x == [d EXCEPT !.journal = d.compact, !.compact = NoFile]
         IN  Kept(x, e) /\ DirectoryOK(x)
<1> DEFINE x == [d EXCEPT !.journal = d.compact, !.compact = NoFile]
<1>1. /\ x \in Directory /\ x.journal = d.compact /\ x.compact = NoFile
      /\ x.checkpoint = d.checkpoint /\ x.manifest = d.manifest
  BY RenameField
<1>2. RecoveredJournal(x) = RecoveredJournal(d) /\ RecoveredCheckpoint(x) = RecoveredCheckpoint(d)
  BY <1>1, NoFileFields DEF RecoveredJournal, RecoveredCheckpoint
<1>3. DirectoryOK(x)
  BY <1>1, NoFileFields DEF DirectoryOK, FileOK
<1> QED BY <1>1, <1>2, <1>3, KeptSame

LEMMA RenameOK ==
  ASSUME NEW d \in Directory, DirectoryOK(d)
  PROVE  d.manifest.exists => DirectoryOK([d EXCEPT !.journal = d.compact, !.compact = NoFile])
<1> DEFINE x == [d EXCEPT !.journal = d.compact, !.compact = NoFile]
<1>1. /\ x.journal = d.compact /\ x.compact = NoFile /\ x.manifest = d.manifest
  BY RenameField
<1> QED BY <1>1, NoFileFields DEF DirectoryOK, FileOK

LEMMA StepRecoverRename ==
  ASSUME IInv, JournalTypeOK', RecoverRename
  PROVE  IInv'
<1> DEFINE x == [disk EXCEPT !.journal = disk.compact, !.compact = NoFile]
<1> USE DEF IInv
<1>0. disk \in Directory /\ hist \subseteq Directory /\ disk \in hist /\ DirectoryOK(disk)
  BY DEF JournalTypeOK, DirectoriesOK
<1>1. x \in Directory /\ x.compact = NoFile /\ x.manifest = disk.manifest
  BY <1>0, RenameField
<1>2. disk.manifest.exists /\ disk.compact.exists /\ DirOp(x) /\ pc' = "recover_sync"
  BY DEF RecoverRename, Goto
<1>3. \A e \in recorded \ settled : Kept(x, e)
  BY <1>0, <1>2, RenameKeeps DEF AllKept
<1>4. DirectoryOK(x)
  BY <1>0, <1>2, RenameOK
<1>5. recorded' = recorded /\ settled' = settled
  BY DEF RecoverRename, ghosts
<1>6. DirectoriesOK' /\ AllKept'
  BY <1>1, <1>2, <1>3, <1>4, <1>5, DirOpSafe
<1>7. OneJournal' /\ FilesAtPc' /\ Quiet' /\ MemoryIsTail'
  BY <1>1, <1>2, NoFileFields
     DEF OneJournal, FilesAtPc, Quiet, MemoryIsTail, DirOp, RecoverPcs, PlainPcs, QuietPcs, CallPcs
<1> QED BY <1>6, <1>7

LEMMA StepRecoverSync ==
  ASSUME IInv, JournalTypeOK', RecoverSync \/ RecoverDone
  PROVE  IInv'
<1> USE DEF IInv
<1>1. /\ SyncDir /\ recorded' = recorded /\ settled' = settled
      /\ \/ pc = "recover_sync" /\ pc' = "recover_checkpoint"
         \/ pc = "recover_unlinked" /\ pc' = "tail_journal"
  BY DEF RecoverSync, RecoverDone, Goto, ghosts
<1>2. DirectoriesOK' /\ AllKept' /\ OneJournal'
  BY <1>1, SyncDirSafe
<1>3. FilesAtPc' /\ Quiet' /\ MemoryIsTail'
  BY <1>1
     DEF FilesAtPc, Quiet, MemoryIsTail, SyncDir, RecoverPcs, PlainPcs, QuietPcs, CallPcs
<1> QED BY <1>2, <1>3

(* The checkpoint of a manifest, or any that starts where it does. *)
LEMMA CheckpointKeeps ==
  ASSUME NEW d \in Directory, NEW c \in Checkpoint, DirectoryOK(d), d.manifest.exists
  PROVE  LET x == [d EXCEPT !.checkpoint = c]
         IN  /\ x \in Directory
             /\ DirectoryOK(x)
             /\ \A e : Kept(d, e) => Kept(x, e)
             /\ x.journal = d.journal /\ x.compact = d.compact
             /\ x.manifest = d.manifest /\ x.checkpoint = c
<1> DEFINE x == [d EXCEPT !.checkpoint = c]
<1>1. /\ x \in Directory /\ x.journal = d.journal /\ x.compact = d.compact
      /\ x.checkpoint = c /\ x.manifest = d.manifest
  BY CheckpointField, DirectoryUpdate
<1>2. RecoveredJournal(x) = RecoveredJournal(d) /\ RecoveredCheckpoint(x) = RecoveredCheckpoint(d)
  BY <1>1 DEF RecoveredJournal, RecoveredCheckpoint
<1>3. \A e : Kept(d, e) => Kept(x, e)
  BY <1>1, <1>2, KeptSame
<1>4. DirectoryOK(x)
  BY <1>1 DEF DirectoryOK
<1> QED BY <1>1, <1>3, <1>4

LEMMA StepRecoverCheckpoint ==
  ASSUME IInv, JournalTypeOK', RecoverCheckpoint
  PROVE  IInv'
<1> DEFINE x == [disk EXCEPT !.checkpoint = disk.manifest.checkpoint]
<1> USE DEF IInv
<1>0. disk \in Directory /\ hist \subseteq Directory /\ disk \in hist /\ DirectoryOK(disk)
  BY DEF JournalTypeOK, DirectoriesOK
<1>1. disk.manifest.exists /\ ~disk.compact.exists /\ DirOp(x) /\ pc' = "recover_unlink"
  BY DEF RecoverCheckpoint, Goto, FilesAtPc, RecoverPcs
<1>2. disk.manifest.checkpoint \in Checkpoint /\ disk.manifest.checkpoint.offset = 0
  BY <1>0, <1>1, DirectoryUpdate DEF Manifest, DirectoryOK
<1>3. /\ x \in Directory /\ DirectoryOK(x) /\ x.manifest = disk.manifest
      /\ x.compact = disk.compact /\ x.checkpoint = disk.manifest.checkpoint
  BY <1>0, <1>1, <1>2, CheckpointKeeps
<1>4. \A e \in recorded \ settled : Kept(x, e)
  BY <1>0, <1>1, <1>2, CheckpointKeeps DEF AllKept
<1>5. recorded' = recorded /\ settled' = settled
  BY DEF RecoverCheckpoint, ghosts
<1>6. DirectoriesOK' /\ AllKept'
  BY <1>1, <1>3, <1>4, <1>5, DirOpSafe
<1>7. OneJournal' /\ FilesAtPc' /\ Quiet' /\ MemoryIsTail'
  BY <1>1, <1>2, <1>3
     DEF OneJournal, FilesAtPc, Quiet, MemoryIsTail, DirOp, RecoverPcs, PlainPcs, QuietPcs, CallPcs
<1> QED BY <1>6, <1>7

(* Removing a manifest whose work is done. *)
LEMMA UnlinkKeeps ==
  ASSUME NEW d \in Directory, DirectoryOK(d), d.manifest.exists, ~d.compact.exists,
         d.checkpoint.offset = 0
  PROVE  LET x == [d EXCEPT !.manifest = NoManifest]
         IN  /\ x \in Directory
             /\ DirectoryOK(x)
             /\ \A e : Kept(d, e) => Kept(x, e)
             /\ x.journal = d.journal /\ x.compact = d.compact
             /\ ~x.manifest.exists /\ x.checkpoint = d.checkpoint
<1> DEFINE x == [d EXCEPT !.manifest = NoManifest]
<1>1. /\ x \in Directory /\ x.journal = d.journal /\ x.compact = d.compact
      /\ x.checkpoint = d.checkpoint /\ x.manifest = NoManifest
  BY ManifestField, DirectoryUpdate, ZeroTypes
<1>2. ~x.manifest.exists
  BY <1>1 DEF NoManifest
<1>3. /\ RecoveredJournal(x) = RecoveredJournal(d)
      /\ RecoveredCheckpoint(x).offset = RecoveredCheckpoint(d).offset
  BY <1>1, <1>2 DEF RecoveredJournal, RecoveredCheckpoint, DirectoryOK
<1>4. \A e : Kept(d, e) => Kept(x, e)
  BY <1>1, <1>3, KeptSame
<1>5. DirectoryOK(x)
  BY <1>1, <1>2 DEF DirectoryOK
<1> QED BY <1>1, <1>2, <1>4, <1>5

LEMMA StepRecoverUnlink ==
  ASSUME IInv, JournalTypeOK', RecoverUnlink
  PROVE  IInv'
<1> DEFINE x == [disk EXCEPT !.manifest = NoManifest]
<1> USE DEF IInv
<1>0. disk \in Directory /\ hist \subseteq Directory /\ disk \in hist /\ DirectoryOK(disk)
  BY DEF JournalTypeOK, DirectoriesOK
<1>1. /\ disk.manifest.exists /\ ~disk.compact.exists /\ disk.checkpoint.offset = 0
      /\ SyncDirThen(x) /\ pc' = "recover_unlinked"
  BY DEF RecoverUnlink, Goto, FilesAtPc, RecoverPcs
<1>3. /\ x \in Directory /\ DirectoryOK(x) /\ ~x.manifest.exists
      /\ x.compact = disk.compact /\ x.journal = disk.journal
  BY <1>0, <1>1, UnlinkKeeps
<1>4. \A e \in recorded \ settled : Kept(x, e)
  BY <1>0, <1>1, UnlinkKeeps DEF AllKept
<1>5. recorded' = recorded /\ settled' = settled
  BY DEF RecoverUnlink, ghosts
<1>6. DirectoriesOK' /\ AllKept'
  BY <1>1, <1>3, <1>4, <1>5, DirOpSafe
<1>7. OneJournal'
  BY <1>1, <1>3 DEF OneJournal, SyncDirThen
<1>8. FilesAtPc' /\ Quiet' /\ MemoryIsTail'
  BY <1>1, <1>3
     DEF FilesAtPc, Quiet, MemoryIsTail, SyncDirThen, RecoverPcs, PlainPcs, QuietPcs, CallPcs
<1> QED BY <1>6, <1>7, <1>8

-----------------------------------------------------------------------------
(* Writes to the two journals. *)

(* The journal grows, or a torn tail is cut off, in every directory. *)
LEMMA WriteJournalSafe ==
  ASSUME JournalTypeOK, DirectoriesOK, AllKept, OneJournal,
         ~disk.manifest.exists, disk.journal.exists,
         NEW f \in File, FileOK(f), f.exists,
         disk.journal.synced <= f.synced,
         \A i \in 1..disk.journal.synced : f.lines[i] = disk.journal.lines[i],
         WriteJournal(f)
  PROVE  /\ DirectoriesOK' /\ OneJournal'
         /\ \A x \in hist' : \A e \in recorded \ settled : Kept(x, e)
         /\ disk'.journal = f /\ disk'.compact = disk.compact
         /\ disk'.manifest = disk.manifest /\ disk'.checkpoint = disk.checkpoint
<1>0. disk \in Directory /\ hist \subseteq Directory /\ disk \in hist
  BY DEF JournalTypeOK, DirectoriesOK
<1>1. /\ disk' = [disk EXCEPT !.journal = f]
      /\ disk'.journal = f /\ disk'.compact = disk.compact
      /\ disk'.manifest = disk.manifest /\ disk'.checkpoint = disk.checkpoint
  BY <1>0, JournalField DEF WriteJournal
<1> DEFINE Image(d) == [d EXCEPT !.journal = IF @.exists THEN f ELSE @]
<1>2. hist' = {Image(d) : d \in hist}
  BY DEF WriteJournal
<1>3. disk' \in hist'
  BY <1>0, <1>1, <1>2
<1>4. ASSUME NEW d \in hist
      PROVE  /\ Image(d) \in Directory
             /\ DirectoryOK(Image(d))
             /\ Image(d).journal = IF d.journal.exists THEN f ELSE d.journal
             /\ Image(d).compact = d.compact
             /\ Image(d).manifest = d.manifest
             /\ \A e \in recorded \ settled : Kept(Image(d), e)
  <2>0. d \in Directory /\ DirectoryOK(d)
    BY <1>0 DEF DirectoriesOK
  <2>1. /\ Image(d) \in Directory
        /\ Image(d).journal = IF d.journal.exists THEN f ELSE d.journal
        /\ Image(d).compact = d.compact
        /\ Image(d).manifest = d.manifest
        /\ Image(d).checkpoint = d.checkpoint
    <3> DEFINE g == IF d.journal.exists THEN f ELSE d.journal
    <3>1. g \in File
      BY <2>0, DirectoryUpdate
    <3>2. Image(d) = [d EXCEPT !.journal = g]
      OBVIOUS
    <3> HIDE DEF Image, g
    <3>3. Image(d) \in Directory
      BY <2>0, <3>1, <3>2, DirectoryUpdate
    <3>4. /\ Image(d).journal = g
          /\ Image(d).compact = d.compact
          /\ Image(d).manifest = d.manifest
          /\ Image(d).checkpoint = d.checkpoint
      BY <2>0, <3>2, JournalField
    <3> QED BY <3>3, <3>4 DEF g
  <2>2. DirectoryOK(Image(d))
    <3>1. FileOK(Image(d).journal)
      BY <2>0, <2>1 DEF DirectoryOK
    <3>2. FileOK(Image(d).compact)
      BY <2>0, <2>1 DEF DirectoryOK
    <3> HIDE DEF Image
    <3> QED BY <2>0, <2>1, <3>1, <3>2 DEF DirectoryOK
  <2>3. ASSUME NEW e \in recorded \ settled
        PROVE  Kept(Image(d), e)
    <3>0. Kept(d, e)
      BY DEF AllKept
    <3>1. RecoveredCheckpoint(Image(d)) = RecoveredCheckpoint(d)
      BY <2>1 DEF RecoveredCheckpoint
    <3>2. CASE d.journal.exists
      <4>1. d.journal = disk.journal /\ (d.manifest.exists => ~d.compact.exists)
        BY <3>2 DEF OneJournal
      <4>2. RecoveredJournal(d) = disk.journal /\ RecoveredJournal(Image(d)) = f
        BY <2>1, <3>2, <4>1 DEF RecoveredJournal
      <4> QED BY <2>0, <2>1, <3>0, <3>1, <4>2, KeptMoves
    <3>3. CASE ~d.journal.exists
      <4>1. RecoveredJournal(Image(d)) = RecoveredJournal(d)
        BY <2>1, <3>3 DEF RecoveredJournal
      <4> QED BY <2>0, <2>1, <3>0, <3>1, <4>1, KeptSame
    <3> QED BY <3>2, <3>3
  <2> QED BY <2>1, <2>2, <2>3
<1>5. DirectoriesOK'
  BY <1>2, <1>3, <1>4 DEF DirectoriesOK
<1>6. OneJournal'
  <2>1. ASSUME NEW x \in hist'
        PROVE  /\ x.journal.exists => x.journal = f
               /\ x.manifest.exists => ~x.compact.exists
    <3>1. PICK d \in hist : x = Image(d)
      BY <1>2
    <3>2. /\ d.journal.exists => d.journal = disk.journal
          /\ d.manifest.exists => ~d.compact.exists
      BY DEF OneJournal
    <3> HIDE DEF Image
    <3> QED BY <1>4, <3>1, <3>2
  <2> QED BY <1>1, <2>1 DEF OneJournal
<1>7. \A x \in hist' : \A e \in recorded \ settled : Kept(x, e)
  BY <1>2, <1>4
<1> QED BY <1>1, <1>5, <1>6, <1>7

LEMMA StepTailJournal ==
  ASSUME IInv, JournalTypeOK', TailJournal
  PROVE  IInv'
<1> USE DEF IInv
<1>0. disk \in Directory /\ hist \subseteq Directory /\ disk \in hist /\ DirectoryOK(disk)
  BY DEF JournalTypeOK, DirectoriesOK
<1>1. pc = "tail_journal" /\ ~disk.manifest.exists /\ ~disk.compact.exists
  BY DEF TailJournal, FilesAtPc, PlainPcs
<1>2. recorded' = recorded /\ settled' = settled
  BY DEF TailJournal, ghosts
<1>3. CASE disk.journal.torn
  <2> DEFINE f == Truncated(disk.journal)
  <2>0. disk.journal \in File /\ FileOK(disk.journal) /\ disk.journal.exists
    BY <1>0, <1>3, DirectoryUpdate DEF DirectoryOK, FileOK
  <2>1. /\ f.exists = TRUE /\ f.lines = disk.journal.lines /\ f.synced = disk.journal.synced
        /\ f.torn = FALSE /\ f.dirty = TRUE
    BY <2>0, TruncatedFields
  <2>2. f \in File /\ FileOK(f)
    BY <2>0, <2>1, FileOpsType DEF FileOK
  <2>3. WriteJournal(f) /\ pc' = "tail_journal_sync"
    BY <1>3 DEF TailJournal
  <2>4. f.synced \in Nat
    BY <2>2, FileFields
  <2> HIDE DEF f
  <2>5. /\ DirectoriesOK' /\ OneJournal'
        /\ \A x \in hist' : \A e \in recorded \ settled : Kept(x, e)
        /\ disk'.journal = f /\ disk'.compact = disk.compact
        /\ disk'.manifest = disk.manifest
    BY <1>1, <2>0, <2>1, <2>2, <2>3, <2>4, WriteJournalSafe
  <2>6. AllKept'
    BY <1>2, <2>5 DEF AllKept
  <2>7. FilesAtPc' /\ Quiet' /\ MemoryIsTail'
    BY <1>1, <2>1, <2>3, <2>5
       DEF FilesAtPc, Quiet, MemoryIsTail, RecoverPcs, PlainPcs, QuietPcs, CallPcs
  <2> QED BY <2>5, <2>6, <2>7
<1>4. CASE ~disk.journal.torn
  <2>1. disk' = disk /\ hist' = hist /\ pc' = "tail_failed"
    BY <1>4 DEF TailJournal
  <2>2. DirectoriesOK' /\ AllKept' /\ OneJournal'
    BY <1>2, <2>1 DEF DirectoriesOK, AllKept, OneJournal
  <2>3. FilesAtPc' /\ Quiet' /\ MemoryIsTail'
    BY <1>1, <1>4, <2>1
       DEF FilesAtPc, Quiet, MemoryIsTail, RecoverPcs, PlainPcs, QuietPcs, CallPcs
  <2> QED BY <2>2, <2>3
<1> QED BY <1>3, <1>4

(* Fsync of the journal keeps what it holds. *)
LEMMA FsyncedOK ==
  ASSUME NEW f \in File, FileOK(f)
  PROVE  LET g == Fsynced(f)
         IN  /\ g \in File /\ g.exists = TRUE /\ g.lines = f.lines /\ g.synced = Len(f.lines)
             /\ g.torn = f.torn /\ g.dirty = FALSE
             /\ FileOK(g)
             /\ f.synced <= g.synced
<1> DEFINE g == Fsynced(f)
<1>1. /\ g.exists = TRUE /\ g.lines = f.lines /\ g.synced = Len(f.lines)
      /\ g.torn = f.torn /\ g.dirty = FALSE
  BY FsyncedFields
<1>2. g \in File
  BY FileOpsType
<1> HIDE DEF g
<1> QED BY <1>1, <1>2, FileFields DEF FileOK, g

LEMMA StepTailJournalSync ==
  ASSUME IInv, JournalTypeOK', TailJournalSync
  PROVE  IInv'
<1> USE DEF IInv
<1> DEFINE g == Fsynced(disk.journal)
<1> DEFINE x == [disk EXCEPT !.journal = g]
<1>0. disk \in Directory /\ disk \in hist /\ DirectoryOK(disk) /\ disk.journal \in File
  BY DirectoryUpdate DEF JournalTypeOK, DirectoriesOK
<1>1. /\ ~disk.manifest.exists /\ ~disk.compact.exists /\ ~disk.journal.torn
      /\ pc' = "tail_failed" /\ disk' = x /\ hist' = {x}
  BY DEF TailJournalSync, Goto, FilesAtPc, PlainPcs
<1>2. recorded' = recorded /\ settled' = settled
  BY DEF TailJournalSync, ghosts
<1>3. /\ g \in File /\ g.exists = TRUE /\ g.lines = disk.journal.lines
      /\ g.torn = disk.journal.torn /\ FileOK(g) /\ disk.journal.synced <= g.synced
  BY <1>0, FsyncedOK DEF DirectoryOK
<1> HIDE DEF g
<1>4. /\ x \in Directory /\ x.journal = g /\ x.compact = disk.compact
      /\ x.checkpoint = disk.checkpoint /\ x.manifest = disk.manifest
  BY <1>0, <1>3, JournalField, DirectoryUpdate
<1>5. DirectoryOK(x)
  BY <1>0, <1>3, <1>4 DEF DirectoryOK
<1>6. RecoveredJournal(x) = g /\ RecoveredJournal(disk) = disk.journal
  BY <1>1, <1>4 DEF RecoveredJournal
<1>7. RecoveredCheckpoint(x) = RecoveredCheckpoint(disk)
  BY <1>4 DEF RecoveredCheckpoint
<1>8. \A e \in recorded \ settled : Kept(x, e)
  BY <1>0, <1>3, <1>4, <1>6, <1>7, KeptMoves DEF AllKept
<1>9. DirectoriesOK' /\ AllKept' /\ OneJournal'
  BY <1>1, <1>2, <1>4, <1>5, <1>8 DEF DirectoriesOK, AllKept, OneJournal
<1>10. FilesAtPc' /\ Quiet' /\ MemoryIsTail'
  BY <1>1, <1>3, <1>4
     DEF FilesAtPc, Quiet, MemoryIsTail, RecoverPcs, PlainPcs, QuietPcs, CallPcs
<1> QED BY <1>9, <1>10

-----------------------------------------------------------------------------
(* What changes only the failed journal keeps everything IInv says. *)
SameButFailed(d, x) ==
    /\ x.journal = d.journal
    /\ x.compact = d.compact
    /\ x.checkpoint = d.checkpoint
    /\ x.manifest = d.manifest

LEMMA SameKept ==
  ASSUME NEW d \in Directory, NEW x \in Directory, SameButFailed(d, x)
  PROVE  /\ DirectoryOK(d) => DirectoryOK(x)
         /\ \A e : Kept(d, e) => Kept(x, e)
<1>1. RecoveredJournal(x) = RecoveredJournal(d) /\ RecoveredCheckpoint(x) = RecoveredCheckpoint(d)
  BY DEF SameButFailed, RecoveredJournal, RecoveredCheckpoint
<1>2. \A e : Kept(d, e) => Kept(x, e)
  BY <1>1, KeptSame
<1>3. DirectoryOK(d) => DirectoryOK(x)
  BY DEF SameButFailed, DirectoryOK
<1> QED BY <1>2, <1>3

LEMMA FailedSide ==
  ASSUME IInv, JournalTypeOK', disk' \in hist', SameButFailed(disk, disk'),
         \A x \in hist' : \E d \in hist : SameButFailed(d, x),
         recorded' = recorded, settled' = settled
  PROVE  DirectoriesOK' /\ AllKept' /\ OneJournal' /\ (pc \in QuietPcs \/ pc' \notin QuietPcs => Quiet')
<1> USE DEF IInv
<1>0. hist \subseteq Directory /\ hist' \subseteq Directory
  BY DEF JournalTypeOK
<1>1. ASSUME NEW x \in hist'
      PROVE  DirectoryOK(x) /\ \A e \in recorded \ settled : Kept(x, e)
  <2>1. PICK d \in hist : SameButFailed(d, x)
    OBVIOUS
  <2> QED BY <1>0, <2>1, SameKept DEF DirectoriesOK, AllKept
<1>2. DirectoriesOK' /\ AllKept'
  BY <1>1 DEF DirectoriesOK, AllKept
<1>3. OneJournal'
  BY DEF OneJournal, SameButFailed
<1>4. pc \in QuietPcs \/ pc' \notin QuietPcs => Quiet'
  BY DEF Quiet, SameButFailed
<1> QED BY <1>2, <1>3, <1>4

LEMMA WriteFailedSame ==
  ASSUME JournalTypeOK, disk \in hist, NEW f \in File, WriteFailed(f)
  PROVE  /\ disk' \in hist' /\ SameButFailed(disk, disk')
         /\ \A x \in hist' : \E d \in hist : SameButFailed(d, x)
<1>0. disk \in Directory /\ hist \subseteq Directory
  BY DEF JournalTypeOK
<1>1. disk' = [disk EXCEPT !.failed = f]
  BY DEF WriteFailed
<1>2. SameButFailed(disk, disk')
  BY <1>0, <1>1, FailedField DEF SameButFailed
<1>3. hist' = FailedImages(f) \cup {disk'}
  BY <1>1 DEF WriteFailed
<1>4. ASSUME NEW x \in FailedImages(f)
      PROVE  \E d \in hist : SameButFailed(d, x)
  <2>1. PICK d \in hist : x = [d EXCEPT !.failed = IF d.failed.exists THEN f ELSE d.failed]
    BY DEF FailedImages
  <2> DEFINE g == IF d.failed.exists THEN f ELSE d.failed
  <2>2. x = [d EXCEPT !.failed = g]
    BY <2>1
  <2> HIDE DEF g
  <2> QED BY <1>0, <2>2, FailedField DEF SameButFailed
<1> QED BY <1>2, <1>3, <1>4

LEMMA FsyncFailedSame ==
  ASSUME JournalTypeOK, disk \in hist, disk' = [disk EXCEPT !.failed = Fsynced(@)],
         hist' = {disk'}
  PROVE  /\ disk' \in hist' /\ SameButFailed(disk, disk')
         /\ \A x \in hist' : \E d \in hist : SameButFailed(d, x)
<1>1. SameButFailed(disk, disk')
  BY FailedField DEF JournalTypeOK, SameButFailed
<1> QED BY <1>1

LEMMA StepTailFailed ==
  ASSUME IInv, JournalTypeOK', TailFailed \/ TailFailedSync
  PROVE  IInv'
<1> USE DEF IInv
<1>0. disk \in hist /\ disk.failed \in File
  BY DirectoryUpdate DEF DirectoriesOK, JournalTypeOK
<1>1. /\ recorded' = recorded /\ settled' = settled
      /\ pc \in {"tail_failed", "tail_failed_sync"} /\ pc' \in {"tail_failed_sync", "load"}
  BY DEF TailFailed, TailFailedSync, ghosts, Goto
<1>2. /\ disk' \in hist' /\ SameButFailed(disk, disk')
      /\ \A x \in hist' : \E d \in hist : SameButFailed(d, x)
  <2>1. CASE TailFailed /\ disk.failed.torn
    BY <1>0, <2>1, FileOpsType, WriteFailedSame DEF TailFailed
  <2>2. CASE TailFailed /\ ~disk.failed.torn
    BY <1>0, <2>2 DEF TailFailed, SameButFailed
  <2>3. CASE TailFailedSync
    BY <1>0, <2>3, FsyncFailedSame DEF TailFailedSync
  <2> QED BY <2>1, <2>2, <2>3
<1>3. DirectoriesOK' /\ AllKept' /\ OneJournal' /\ Quiet'
  BY <1>1, <1>2, FailedSide DEF QuietPcs
<1>4. FilesAtPc' /\ MemoryIsTail'
  BY <1>1, <1>2
     DEF FilesAtPc, MemoryIsTail, SameButFailed, RecoverPcs, PlainPcs, CallPcs
<1> QED BY <1>3, <1>4

LEMMA StepQuarantine ==
  ASSUME IInv, JournalTypeOK',
         \/ \E n \in 1..MaxEvents : QuarantineKnown(n) \/ QuarantineWrite(n)
         \/ \E n \in 1..MaxEvents, k \in 0..MaxEvents, t \in BOOLEAN : QuarantineFails(n, k, t)
         \/ QuarantineDone
  PROVE  IInv'
<1> USE OutboxAssumption DEF OutboxAssumption, IInv
<1>0. disk \in hist /\ disk.failed \in File
  BY DirectoryUpdate DEF DirectoriesOK, JournalTypeOK
<1>1. /\ recorded' = recorded /\ settled' = settled /\ UNCHANGED jmem
      /\ pc \in {"idle", "quarantine_fsync"} /\ pc' \in {"idle", "quarantine_fsync"}
  BY DEF QuarantineKnown, QuarantineWrite, QuarantineFails, QuarantineDone, ghosts, Goto
<1>2. /\ disk' \in hist' /\ SameButFailed(disk, disk')
      /\ \A x \in hist' : \E d \in hist : SameButFailed(d, x)
  <2>1. ASSUME NEW n \in 1..MaxEvents, QuarantineKnown(n)
        PROVE  <1>2!:
    BY <1>0, <2>1 DEF QuarantineKnown, SameButFailed
  <2>2. ASSUME NEW n \in 1..MaxEvents, QuarantineWrite(n)
        PROVE  <1>2!:
    <3>1. PICK new \in InOrder(NewFailed(n), n) : WriteFailed(Written(disk.failed, new))
      BY <2>2 DEF QuarantineWrite
    <3>2. new \in Seq(Nat)
      BY <2>2, InOrderType DEF QuarantineWrite
    <3> QED BY <1>0, <3>1, <3>2, WrittenType, WriteFailedSame
  <2>3. ASSUME NEW n \in 1..MaxEvents, NEW k \in 0..MaxEvents, NEW t \in BOOLEAN,
               QuarantineFails(n, k, t)
        PROVE  <1>2!:
    <3>1. PICK new \in InOrder(NewFailed(n), n) :
             /\ k <= Len(new)
             /\ LET f == Written(disk.failed, SubSeq(new, 1, k))
                IN  WriteFailed(IF t /\ k < Len(new) THEN TornAfter(f) ELSE f)
      BY <2>3 DEF QuarantineFails
    <3>2. new \in Seq(Nat)
      BY <2>3, InOrderType DEF QuarantineFails
    <3>3. SubSeq(new, 1, k) \in Seq(Nat)
      BY <3>1, <3>2, SubSeqType
    <3>4. Written(disk.failed, SubSeq(new, 1, k)) \in File
      BY <1>0, <3>3, WrittenType
    <3> QED BY <1>0, <3>1, <3>4, FileOpsType, WriteFailedSame
  <2>4. CASE QuarantineDone
    BY <1>0, <2>4, FsyncFailedSame DEF QuarantineDone
  <2> QED BY <2>1, <2>2, <2>3, <2>4
<1>3. DirectoriesOK' /\ AllKept' /\ OneJournal' /\ Quiet'
  BY <1>1, <1>2, FailedSide DEF QuietPcs
<1>4. FilesAtPc' /\ MemoryIsTail'
  BY <1>1, <1>2
     DEF FilesAtPc, MemoryIsTail, SameButFailed, RecoverPcs, PlainPcs, CallPcs, jmem
<1> QED BY <1>3, <1>4

-----------------------------------------------------------------------------
(* The rest of open(). *)
LEMMA StepLoad ==
  ASSUME IInv, JournalTypeOK', Load
  PROVE  IInv'
<1> USE DEF IInv
<1>0. /\ disk \in Directory /\ hist \subseteq Directory /\ disk \in hist /\ DirectoryOK(disk)
      /\ disk.journal \in File /\ disk.checkpoint \in Checkpoint
  BY DirectoryUpdate DEF JournalTypeOK, DirectoriesOK
<1>1. /\ pc = "load" /\ recorded' = recorded /\ settled' = settled
      /\ ~disk.manifest.exists /\ ~disk.compact.exists /\ ~disk.journal.torn
  BY DEF Load, ghosts, FilesAtPc, PlainPcs
<1>2. CASE pc' = "refused" /\ UNCHANGED <<disk, hist, jmem>>
  <2>1. DirectoriesOK' /\ AllKept' /\ OneJournal'
    BY <1>1, <1>2 DEF DirectoriesOK, AllKept, OneJournal
  <2>2. FilesAtPc' /\ Quiet' /\ MemoryIsTail'
    BY <1>2 DEF FilesAtPc, Quiet, MemoryIsTail, RecoverPcs, PlainPcs, QuietPcs, CallPcs
  <2> QED BY <2>1, <2>2
<1>3. CASE LoadState
  <2> DEFINE lines == disk.journal.lines
             off == ResumeOffset(disk.checkpoint, lines)
             c == [offset |-> off, base |-> disk.checkpoint.base, confirmed |-> off]
             x == [disk EXCEPT !.checkpoint = c]
  <2>1. lines \in Seq(Line) /\ Len(lines) \in Nat /\ disk.checkpoint.offset \in Nat
    BY <1>0, FileFields DEF Checkpoint
  <2>2. off \in 0..Len(lines) /\ off <= disk.checkpoint.offset
    BY <1>0, <2>1, ResumeOffsetType DEF ResumeOffset
  <2>3. c \in Checkpoint /\ c.offset = off
    BY <1>0, <2>1, <2>2 DEF Checkpoint
  <2>4. /\ DirOp(x) /\ pc' = "open_journal" /\ checkpointOffset' = off
        /\ pending' = SubSeq(lines, off + 1, Len(lines))
    BY <1>3 DEF LoadState
  <2> HIDE DEF c, off
  <2>5. /\ x \in Directory /\ x.journal = disk.journal /\ x.compact = disk.compact
        /\ x.checkpoint = c /\ x.manifest = disk.manifest
    BY <1>0, <2>3, CheckpointField, DirectoryUpdate
  <2>6. DirectoryOK(x)
    BY <1>0, <2>5 DEF DirectoryOK
  <2>7. /\ RecoveredJournal(x) = RecoveredJournal(disk)
        /\ RecoveredCheckpoint(x) = c /\ RecoveredCheckpoint(disk) = disk.checkpoint
    BY <1>1, <2>5 DEF RecoveredJournal, RecoveredCheckpoint
  <2>8. RecoveredJournal(disk).synced <= RecoveredJournal(disk).synced
    BY <1>0, RecoveredTypes
  <2>9. ASSUME NEW e \in recorded \ settled
        PROVE  Kept(x, e)
    BY <1>0, <2>2, <2>3, <2>5, <2>7, <2>8, KeptRewinds DEF AllKept
  <2>10. DirectoriesOK' /\ AllKept'
    BY <1>1, <2>4, <2>5, <2>6, <2>9, DirOpSafe
  <2>11. OneJournal'
    BY <1>1, <2>4, <2>5 DEF OneJournal, DirOp
  <2>12. FilesAtPc' /\ Quiet'
    BY <1>1, <2>4, <2>5 DEF FilesAtPc, Quiet, DirOp, RecoverPcs, PlainPcs, QuietPcs, CallPcs
  <2>13. disk' = x /\ off <= Len(lines)
    BY <2>1, <2>2, <2>4 DEF DirOp
  <2> HIDE DEF x
  <2>14. MemoryIsTail'
    BY <2>3, <2>4, <2>5, <2>13 DEF MemoryIsTail, CallPcs
  <2> QED BY <2>10, <2>11, <2>12, <2>14
<1> QED BY <1>2, <1>3 DEF Load, jmem

LEMMA StepOpenJournal ==
  ASSUME IInv, JournalTypeOK', OpenJournal \/ OpenSync
  PROVE  IInv'
<1> USE DEF IInv
<1> DEFINE x == [disk EXCEPT !.journal = EmptyFile]
<1>0. /\ disk \in Directory /\ hist \subseteq Directory /\ disk \in hist /\ DirectoryOK(disk)
      /\ disk.journal \in File
  BY DirectoryUpdate DEF JournalTypeOK, DirectoriesOK
<1>1. /\ pc \in {"open_journal", "open_sync"} /\ recorded' = recorded /\ settled' = settled
      /\ ~disk.manifest.exists /\ ~disk.compact.exists /\ ~disk.journal.torn /\ UNCHANGED jmem
  BY DEF OpenJournal, OpenSync, Goto, ghosts, FilesAtPc, PlainPcs, CallPcs
<1>2. CASE pc' = "idle" /\ SyncDir
  <2>1. disk.journal.exists
    BY <1>2 DEF OpenJournal, OpenSync, Goto, FilesAtPc, CallPcs
  <2>2. DirectoriesOK' /\ AllKept' /\ OneJournal'
    BY <1>1, <1>2, SyncDirSafe
  <2>3. FilesAtPc' /\ Quiet'
    BY <1>1, <1>2, <2>1
       DEF FilesAtPc, Quiet, SyncDir, RecoverPcs, PlainPcs, QuietPcs, CallPcs
  <2>4. MemoryIsTail'
    BY <1>1, <1>2 DEF MemoryIsTail, SyncDir, jmem, CallPcs
  <2> QED BY <2>2, <2>3, <2>4
<1>3. CASE pc' = "open_sync" /\ SyncDirThen(x) /\ ~disk.journal.exists
  <2>1. /\ EmptyFile.exists = TRUE /\ EmptyFile.lines = <<>> /\ EmptyFile.synced = 0
        /\ EmptyFile.torn = FALSE /\ EmptyFile.dirty = FALSE
    BY DEF EmptyFile, FileOf
  <2>2. /\ x \in Directory /\ x.journal = EmptyFile /\ x.compact = disk.compact
        /\ x.checkpoint = disk.checkpoint /\ x.manifest = disk.manifest
    BY <1>0, JournalField, DirectoryUpdate, NoFileType
  <2>3. disk.journal.lines = <<>> /\ disk.journal.synced = 0
    BY <1>0, <1>3, FileFields DEF DirectoryOK, FileOK
  <2>4. DirectoryOK(x)
    BY <1>0, <2>1, <2>2 DEF DirectoryOK, FileOK
  <2>5. RecoveredJournal(disk) = disk.journal
    BY <1>1 DEF RecoveredJournal
  <2>6. ASSUME NEW e \in recorded \ settled
        PROVE  FALSE
    <3>1. Kept(disk, e)
      BY <1>0 DEF AllKept
    <3> QED BY <2>3, <2>5, <3>1 DEF Kept
  <2>7. DirectoriesOK' /\ AllKept'
    BY <1>1, <1>3, <2>2, <2>4, <2>6, DirOpSafe
  <2>8. OneJournal'
    BY <1>1, <1>3, <2>2 DEF OneJournal, SyncDirThen
  <2>9. FilesAtPc' /\ Quiet'
    BY <1>1, <1>3, <2>1, <2>2
       DEF FilesAtPc, Quiet, SyncDirThen, RecoverPcs, PlainPcs, QuietPcs, CallPcs
  <2>10. pc = "open_journal" /\ disk' = x
    BY <1>3 DEF OpenJournal, OpenSync, Goto, SyncDirThen
  <2>11. x.journal.lines = disk.journal.lines
    BY <2>1, <2>2, <2>3
  <2> HIDE DEF x
  <2>12. MemoryIsTail'
    BY <1>1, <1>3, <2>2, <2>10, <2>11 DEF MemoryIsTail, jmem, CallPcs
  <2> QED BY <2>7, <2>8, <2>9, <2>12
<1> QED BY <1>2, <1>3 DEF OpenJournal, OpenSync, Goto

-----------------------------------------------------------------------------
(* appendMany() *)

(* The tail of a sequence. *)
LEMMA TailElements ==
  ASSUME NEW s \in Seq(Nat), NEW m \in 0..Len(s)
  PROVE  LET u == SubSeq(s, m + 1, Len(s))
         IN  /\ u \in Seq(Nat) /\ Len(u) = Len(s) - m
             /\ \A i \in 1..Len(u) : u[i] = s[m + i]
  OBVIOUS

(* The tail of a sequence that grows. *)
LEMMA TailGrows ==
  ASSUME NEW s \in Seq(Nat), NEW t \in Seq(Nat), NEW m \in 0..Len(s)
  PROVE  /\ Len(s \o t) = Len(s) + Len(t)
         /\ SubSeq(s, m + 1, Len(s)) \o t = SubSeq(s \o t, m + 1, Len(s \o t))
<1> DEFINE w == s \o t
           u == SubSeq(s, m + 1, Len(s))
           v == SubSeq(w, m + 1, Len(w))
<1>1. /\ w \in Seq(Nat) /\ Len(w) = Len(s) + Len(t)
      /\ \A i \in 1..Len(w) : w[i] = IF i <= Len(s) THEN s[i] ELSE t[i - Len(s)]
  OBVIOUS
<1>2. /\ u \in Seq(Nat) /\ Len(u) = Len(s) - m
      /\ \A i \in 1..Len(u) : u[i] = s[m + i]
  BY TailElements
<1> HIDE DEF w, u
<1>3. /\ v \in Seq(Nat) /\ Len(v) = Len(w) - m
      /\ \A i \in 1..Len(v) : v[i] = w[m + i]
  BY <1>1
<1> HIDE DEF v
<1>4. /\ u \o t \in Seq(Nat) /\ Len(u \o t) = Len(u) + Len(t)
      /\ \A i \in 1..(Len(u) + Len(t)) :
            (u \o t)[i] = IF i <= Len(u) THEN u[i] ELSE t[i - Len(u)]
  BY <1>2, ConcatProperties
<1>0. Len(s) \in Nat /\ Len(t) \in Nat /\ m \in Nat /\ m <= Len(s)
  OBVIOUS
<1>5. Len(u \o t) = Len(v) /\ Len(v) = Len(s) - m + Len(t) /\ Len(u) = Len(s) - m
  BY <1>0, <1>1, <1>2, <1>3, <1>4
<1>6. ASSUME NEW i \in 1..Len(v)
      PROVE  (u \o t)[i] = v[i]
  <2>1. /\ v[i] = w[m + i] /\ m + i \in 1..Len(w)
        /\ (u \o t)[i] = IF i <= Len(u) THEN u[i] ELSE t[i - Len(u)]
        /\ w[m + i] = IF m + i <= Len(s) THEN s[m + i] ELSE t[(m + i) - Len(s)]
    <3>1. m + i \in 1..Len(w) /\ i \in 1..(Len(u) + Len(t))
      BY <1>0, <1>1, <1>5
    <3> QED BY <1>1, <1>3, <1>4, <3>1
  <2>2. CASE i <= Len(u)
    <3>1. m + i <= Len(s) /\ i \in 1..Len(u)
      BY <1>0, <1>5, <2>2
    <3> QED BY <1>2, <2>1, <2>2, <3>1
  <2>3. CASE ~(i <= Len(u))
    <3>1. ~(m + i <= Len(s)) /\ (m + i) - Len(s) = i - Len(u)
      BY <1>0, <1>5, <2>3
    <3> QED BY <2>1, <2>3, <3>1
  <2> QED BY <2>2, <2>3
<1>7. u \o t = v
  BY <1>3, <1>4, <1>5, <1>6, SeqEqual
<1> QED BY <1>1, <1>7 DEF u, v, w

(* What a write to an untorn journal leaves. *)
LEMMA WrittenOK ==
  ASSUME NEW f \in File, FileOK(f), ~f.torn, NEW es \in Seq(Nat)
  PROVE  LET g == Written(f, es)
         IN  /\ g \in File /\ g.exists = TRUE /\ g.lines = f.lines \o es
             /\ g.synced = f.synced /\ g.torn = FALSE /\ g.dirty = TRUE
             /\ FileOK(g)
             /\ f.synced <= g.synced
             /\ \A i \in 1..f.synced : g.lines[i] = f.lines[i]
<1> DEFINE g == Written(f, es)
<1>1. g = FileOf(f.lines \o es, f.synced, f.torn, TRUE)
  BY DEF Written
<1>2. /\ g.exists = TRUE /\ g.lines = f.lines \o es /\ g.synced = f.synced
      /\ g.dirty = TRUE
  BY <1>1 DEF FileOf
<1>3. g.torn = FALSE
  BY <1>1, FileFields DEF FileOf
<1>4. g \in File
  BY WrittenType
<1>5. f.lines \in Seq(Nat) /\ f.synced \in Nat /\ f.synced <= Len(f.lines)
  BY FileFields DEF FileOK, Line
<1> HIDE DEF g
<1>6. FileOK(g)
  BY <1>2, <1>3, <1>5 DEF FileOK
<1>7. \A i \in 1..f.synced : g.lines[i] = f.lines[i]
  BY <1>2, <1>5
<1>8. f.synced <= g.synced
  BY <1>2, <1>5
<1> QED BY <1>2, <1>3, <1>4, <1>6, <1>7, <1>8 DEF g

LEMMA TornAfterOK ==
  ASSUME NEW f \in File, FileOK(f), f.exists
  PROVE  LET g == TornAfter(f)
         IN  g \in File /\ g.exists /\ g.lines = f.lines /\ g.synced = f.synced /\ FileOK(g)
<1> DEFINE g == TornAfter(f)
<1>1. /\ g.exists = TRUE /\ g.lines = f.lines /\ g.synced = f.synced
      /\ g.torn = TRUE /\ g.dirty = TRUE
  BY DEF TornAfter, FileOf, File
<1>2. g \in File
  BY FileOpsType
<1> HIDE DEF g
<1> QED BY <1>1, <1>2 DEF FileOK, g

(* A write to the journal while the directory is quiet. *)
LEMMA QuietWrite ==
  ASSUME IInv, pc \in QuietPcs, NEW f, WriteJournal(f)
  PROVE  \A x \in hist' : /\ x.journal = f
                          /\ x.compact = disk.compact
                          /\ x.checkpoint = disk.checkpoint
                          /\ x.manifest = disk.manifest
<1> USE DEF IInv
<1> SUFFICES ASSUME NEW x \in hist'
             PROVE  /\ x.journal = f
                    /\ x.compact = disk.compact
                    /\ x.checkpoint = disk.checkpoint
                    /\ x.manifest = disk.manifest
  OBVIOUS
<1>1. PICK d \in hist : x = [d EXCEPT !.journal = IF d.journal.exists THEN f ELSE d.journal]
  BY DEF WriteJournal
<1>2. /\ d \in Directory /\ d.journal = disk.journal /\ disk.journal.exists
      /\ d.compact = disk.compact /\ d.checkpoint = disk.checkpoint
      /\ d.manifest = disk.manifest
  BY DEF Quiet, JournalTypeOK
<1>3. x = [d EXCEPT !.journal = f]
  BY <1>1, <1>2
<1> QED BY <1>2, <1>3, JournalField

LEMMA StepAppendWrite ==
  ASSUME IInv, JournalTypeOK', NEW n \in 1..MaxAppend, AppendWrite(n)
  PROVE  IInv'
<1> USE DEF IInv
<1> DEFINE es == NewEvents(n)
           f == Written(disk.journal, es)
<1>0. /\ disk \in Directory /\ hist \subseteq Directory /\ disk \in hist /\ DirectoryOK(disk)
      /\ disk.journal \in File /\ FileOK(disk.journal)
  BY DirectoryUpdate DEF JournalTypeOK, DirectoriesOK, DirectoryOK
<1>1. /\ pc = "idle" /\ pc' = "append_fsync" /\ WriteJournal(f) /\ inflight' = es
      /\ recorded' = recorded /\ settled' = settled /\ UNCHANGED jmem
  BY DEF AppendWrite, Goto
<1>2. disk.journal.exists /\ ~disk.journal.torn /\ ~disk.manifest.exists /\ ~disk.compact.exists
  BY <1>1 DEF FilesAtPc, CallPcs, PlainPcs
<1>3. es \in Seq(Nat)
  BY OutboxAssumption, NewEventsType DEF JournalTypeOK, OutboxAssumption
<1> HIDE DEF es
<1>4. /\ f \in File /\ f.exists = TRUE /\ f.lines = disk.journal.lines \o es
      /\ f.torn = FALSE /\ FileOK(f) /\ disk.journal.synced <= f.synced
      /\ \A i \in 1..disk.journal.synced : f.lines[i] = disk.journal.lines[i]
  BY <1>0, <1>2, <1>3, WrittenOK
<1> HIDE DEF f
<1>5. /\ DirectoriesOK' /\ OneJournal'
      /\ \A x \in hist' : \A e \in recorded \ settled : Kept(x, e)
      /\ disk'.journal = f /\ disk'.compact = disk.compact
      /\ disk'.manifest = disk.manifest /\ disk'.checkpoint = disk.checkpoint
  BY <1>1, <1>2, <1>4, WriteJournalSafe
<1>6. AllKept'
  BY <1>1, <1>5 DEF AllKept
<1>7. FilesAtPc'
  BY <1>1, <1>2, <1>4, <1>5 DEF FilesAtPc, RecoverPcs, PlainPcs, CallPcs
<1>8. Quiet'
  BY <1>1, <1>4, <1>5, QuietWrite DEF Quiet, QuietPcs
<1>9. MemoryIsTail'
  <2>1. /\ checkpointOffset \in 0..Len(disk.journal.lines)
        /\ pending = SubSeq(disk.journal.lines, checkpointOffset + 1, Len(disk.journal.lines))
        /\ disk.checkpoint.offset = checkpointOffset
    BY <1>0, <1>1, FileFields DEF MemoryIsTail, CallPcs, JournalTypeOK
  <2>2. disk.journal.lines \in Seq(Nat) /\ Len(es) \in Nat
    BY <1>0, <1>3, FileFields DEF Line
  <2>3. /\ pending \o es = SubSeq(f.lines, checkpointOffset + 1, Len(f.lines))
        /\ checkpointOffset + Len(es) <= Len(f.lines)
    <3>1. Len(f.lines) = Len(disk.journal.lines) + Len(es)
      BY <1>3, <1>4, <2>2, TailGrows
    <3>2. pending \o es = SubSeq(f.lines, checkpointOffset + 1, Len(f.lines))
      BY <1>3, <1>4, <2>1, <2>2, TailGrows
    <3>3. checkpointOffset + Len(es) <= Len(f.lines)
      BY <2>1, <2>2, <3>1
    <3> QED BY <3>2, <3>3
  <2>4. /\ pending' = pending /\ checkpointOffset' = checkpointOffset
        /\ disk'.journal = f /\ disk'.checkpoint.offset = checkpointOffset
    BY <1>1, <1>5, <2>1 DEF jmem
  <2> QED BY <1>1, <2>3, <2>4 DEF MemoryIsTail, CallPcs
<1> QED BY <1>5, <1>6, <1>7, <1>8, <1>9

(* The events of an append that returns are on the medium. *)
LEMMA StepAppendFsync ==
  ASSUME IInv, JournalTypeOK', AppendFsync
  PROVE  IInv'
<1> USE DEF IInv
<1> DEFINE f == Fsynced(disk.journal)
           off == checkpointOffset
<1>0. /\ disk \in Directory /\ hist \subseteq Directory /\ disk \in hist /\ DirectoryOK(disk)
      /\ disk.journal \in File /\ FileOK(disk.journal)
      /\ inflight \in Seq(Nat) /\ pending \in Seq(Nat) /\ off \in Nat
      /\ disk.journal.lines \in Seq(Nat)
  BY DirectoryUpdate, FileFields DEF JournalTypeOK, DirectoriesOK, DirectoryOK, Line
<1>1. /\ pc = "append_fsync" /\ pc' = "idle" /\ WriteJournal(f)
      /\ pending' = pending \o inflight /\ recorded' = recorded \cup Elements(inflight)
      /\ settled' = settled /\ checkpointOffset' = off
  BY DEF AppendFsync, Goto
<1>2. disk.journal.exists /\ ~disk.journal.torn /\ ~disk.manifest.exists /\ ~disk.compact.exists
  BY <1>1 DEF FilesAtPc, CallPcs, PlainPcs
<1>3. /\ off + Len(inflight) <= Len(disk.journal.lines)
      /\ pending \o inflight = SubSeq(disk.journal.lines, off + 1, Len(disk.journal.lines))
      /\ disk.checkpoint.offset = off
  BY <1>1 DEF MemoryIsTail
<1>4. /\ f \in File /\ f.exists = TRUE /\ f.lines = disk.journal.lines
      /\ f.synced = Len(disk.journal.lines) /\ f.torn = disk.journal.torn
      /\ FileOK(f) /\ disk.journal.synced <= f.synced
  BY <1>0, FsyncedOK
<1> HIDE DEF f
<1>5. /\ DirectoriesOK' /\ OneJournal'
      /\ \A x \in hist' : \A e \in recorded \ settled : Kept(x, e)
      /\ disk'.journal = f /\ disk'.compact = disk.compact
      /\ disk'.manifest = disk.manifest /\ disk'.checkpoint = disk.checkpoint
  BY <1>1, <1>2, <1>4, WriteJournalSafe
<1>6. \A x \in hist' : /\ x.journal = f /\ x.compact = disk.compact
                       /\ x.checkpoint = disk.checkpoint /\ x.manifest = disk.manifest
  BY <1>1, QuietWrite DEF QuietPcs
<1>7. ASSUME NEW x \in hist', NEW e \in Elements(inflight)
      PROVE  Kept(x, e)
  <2>1. PICK j \in 1..Len(inflight) : inflight[j] = e
    BY DEF Elements
  <2> DEFINE i == off + Len(pending) + j
             L == Len(disk.journal.lines)
  <2>2. Len(pending) \in Nat /\ Len(inflight) \in Nat /\ L \in Nat /\ j \in Nat
    BY <1>0
  <2>3. Len(pending) + Len(inflight) = L - off
    <3>1. Len(pending \o inflight) = Len(pending) + Len(inflight)
      BY <1>0, ConcatProperties
    <3>2. Len(SubSeq(disk.journal.lines, off + 1, L)) = L - off
      BY <1>0, <1>3, <2>2
    <3> QED BY <1>3, <3>1, <3>2
  <2>4. i \in 1..L /\ i > off
    BY <1>0, <2>2, <2>3
  <2>5. disk.journal.lines[i] = e
    <3> DEFINE k == Len(pending) + j
    <3>1. (pending \o inflight)[k] = e
      <4>1. k \in 1..(Len(pending) + Len(inflight)) /\ ~(k <= Len(pending)) /\ k - Len(pending) = j
        BY <2>2
      <4>2. (pending \o inflight)[k] = inflight[k - Len(pending)]
        BY <1>0, <4>1, ConcatProperties
      <4> QED BY <2>1, <4>1, <4>2
    <3>2. SubSeq(disk.journal.lines, off + 1, L)[k] = disk.journal.lines[off + k]
      <4>1. k \in 1..(L - off) /\ off \in 0..L
        BY <1>0, <2>2, <2>3
      <4> HIDE DEF k
      <4> QED BY <1>0, <4>1, TailElements
    <3>3. off + k = i
      BY <1>0, <2>2
    <3> QED BY <1>3, <3>1, <3>2, <3>3
  <2>6. RecoveredJournal(x) = f /\ RecoveredCheckpoint(x).offset = off
    BY <1>2, <1>3, <1>6 DEF RecoveredJournal, RecoveredCheckpoint
  <2> HIDE DEF i, L
  <2> QED BY <1>4, <2>4, <2>5, <2>6 DEF Kept, L
<1>8. AllKept'
  BY <1>1, <1>5, <1>7 DEF AllKept
<1>9. FilesAtPc'
  BY <1>1, <1>2, <1>4, <1>5 DEF FilesAtPc, RecoverPcs, PlainPcs, CallPcs
<1>10. Quiet'
  BY <1>1, <1>4, <1>5, <1>6 DEF Quiet, QuietPcs
<1>11. off <= Len(disk.journal.lines)
  BY <1>0, <1>3
<1>12. MemoryIsTail'
  BY <1>1, <1>3, <1>4, <1>5, <1>11 DEF MemoryIsTail, CallPcs
<1> QED BY <1>5, <1>8, <1>9, <1>10, <1>12

LEMMA StepKillInAppend ==
  ASSUME IInv, JournalTypeOK', NEW n \in 1..MaxAppend, NEW k \in 0..MaxAppend, NEW t \in BOOLEAN,
         KillInAppend(n, k, t)
  PROVE  IInv'
<1> USE DEF IInv
<1> DEFINE es == SubSeq(NewEvents(n), 1, k)
           g == Written(disk.journal, es)
           f == IF t THEN TornAfter(g) ELSE g
<1>0. disk.journal \in File /\ FileOK(disk.journal)
  BY DirectoryUpdate DEF JournalTypeOK, DirectoriesOK, DirectoryOK
<1>1. /\ pc = "idle" /\ pc' = "down" /\ k < n /\ WriteJournal(f)
      /\ recorded' = recorded /\ settled' = settled
  BY DEF KillInAppend, LoseMemory
<1>2. disk.journal.exists /\ ~disk.journal.torn /\ ~disk.manifest.exists
  BY <1>1 DEF FilesAtPc, CallPcs, PlainPcs
<1>3. NewEvents(n) \in Seq(Nat) /\ Len(NewEvents(n)) = n
  BY OutboxAssumption, NewEventsType DEF JournalTypeOK, OutboxAssumption
<1>4. es \in Seq(Nat)
  BY <1>1, <1>3, SubSeqType
<1> HIDE DEF es
<1>5. /\ g \in File /\ g.exists = TRUE /\ FileOK(g) /\ disk.journal.synced <= g.synced
      /\ \A i \in 1..disk.journal.synced : g.lines[i] = disk.journal.lines[i]
  BY <1>0, <1>2, <1>4, WrittenOK
<1> HIDE DEF g
<1>6. /\ f \in File /\ f.exists /\ FileOK(f) /\ disk.journal.synced <= f.synced
      /\ \A i \in 1..disk.journal.synced : f.lines[i] = disk.journal.lines[i]
  <2>1. CASE t
    BY <1>5, <2>1, TornAfterOK
  <2>2. CASE ~t
    BY <1>5, <2>2
  <2> QED BY <2>1, <2>2
<1> HIDE DEF f
<1>7. /\ DirectoriesOK' /\ OneJournal'
      /\ \A x \in hist' : \A e \in recorded \ settled : Kept(x, e)
  BY <1>1, <1>2, <1>6, WriteJournalSafe
<1>8. AllKept'
  BY <1>1, <1>7 DEF AllKept
<1>9. FilesAtPc' /\ Quiet' /\ MemoryIsTail'
  BY <1>1 DEF FilesAtPc, Quiet, MemoryIsTail, RecoverPcs, PlainPcs, QuietPcs, CallPcs
<1> QED BY <1>7, <1>8, <1>9

-----------------------------------------------------------------------------
(* confirm() and the compaction it runs. *)

LEMMA TailOfTail ==
  ASSUME NEW s \in Seq(Nat), NEW m \in 0..Len(s), NEW n \in Nat, n <= Len(s) - m
  PROVE  LET u == SubSeq(s, m + 1, Len(s))
         IN  SubSeq(u, n + 1, Len(u)) = SubSeq(s, m + n + 1, Len(s))
<1> DEFINE u == SubSeq(s, m + 1, Len(s))
           v == SubSeq(u, n + 1, Len(u))
           w == SubSeq(s, (m + n) + 1, Len(s))
<1>0. Len(s) \in Nat /\ m \in Nat /\ m + n \in 0..Len(s)
  OBVIOUS
<1>1. u \in Seq(Nat) /\ Len(u) = Len(s) - m /\ \A i \in 1..Len(u) : u[i] = s[m + i]
  BY TailElements
<1>2. w \in Seq(Nat) /\ Len(w) = Len(s) - (m + n) /\ \A i \in 1..Len(w) : w[i] = s[(m + n) + i]
  BY <1>0, TailElements
<1>3. m + n + 1 = (m + n) + 1
  OBVIOUS
<1> HIDE DEF u, w
<1>4. n \in 0..Len(u)
  BY <1>0, <1>1
<1>5. v \in Seq(Nat) /\ Len(v) = Len(u) - n /\ \A i \in 1..Len(v) : v[i] = u[n + i]
  BY <1>1, <1>4, TailElements
<1> HIDE DEF v
<1>6. Len(v) = Len(w)
  BY <1>0, <1>1, <1>2, <1>5
<1>7. ASSUME NEW i \in 1..Len(v)
      PROVE  v[i] = w[i]
  <2>1. n + i \in 1..Len(u) /\ m + (n + i) = (m + n) + i
    BY <1>0, <1>1, <1>4, <1>5
  <2> QED BY <1>1, <1>2, <1>5, <1>6, <2>1
<1>8. v = w
  BY <1>2, <1>5, <1>6, <1>7, SeqEqual
<1> QED BY <1>3, <1>8 DEF u, v, w

LEMMA StepConfirm ==
  ASSUME IInv, JournalTypeOK', NEW n \in 1..MaxEvents, Confirm(n)
  PROVE  IInv'
<1> USE DEF IInv
<1> DEFINE off == checkpointOffset
           lines == disk.journal.lines
           c == [offset |-> checkpointOffset', base |-> journalBaseCount,
                 confirmed |-> confirmedSinceCompaction']
           x == [disk EXCEPT !.checkpoint = c]
<1>0. /\ disk \in Directory /\ disk \in hist /\ DirectoryOK(disk)
      /\ disk.journal \in File /\ FileOK(disk.journal)
      /\ off \in Nat /\ lines \in Seq(Nat)
      /\ Len(lines) \in Nat /\ disk.journal.synced \in Nat
  BY DirectoryUpdate, FileFields DEF JournalTypeOK, DirectoriesOK, DirectoryOK, Line
<1>a. n \in Nat
  BY OutboxAssumption DEF OutboxAssumption
<1>1. /\ pc = "idle" /\ pc' = "confirm_sync" /\ n <= Len(pending)
      /\ recorded' = recorded
  BY DEF Confirm, Goto
<1>2. /\ pending' = SubSeq(pending, n + 1, Len(pending))
      /\ checkpointOffset' = off + n
      /\ settled' = settled \cup {pending[i] : i \in 1..n}
      /\ DirOp(x)
  BY Zenon DEF Confirm
<1>b. settled \subseteq settled'
  BY <1>2
<1>3. /\ disk.journal.exists /\ ~disk.journal.torn /\ ~disk.manifest.exists /\ ~disk.compact.exists
      /\ off \in 0..Len(lines) /\ pending = SubSeq(lines, off + 1, Len(lines))
      /\ disk.checkpoint.offset = off
  BY <1>0, <1>1 DEF FilesAtPc, MemoryIsTail, CallPcs, PlainPcs
<1>4. c \in Checkpoint /\ c.offset = off + n
  BY <1>2, <1>a DEF JournalTypeOK, Checkpoint
<1> HIDE DEF c
<1>5. /\ x \in Directory /\ x.journal = disk.journal /\ x.compact = disk.compact
      /\ x.checkpoint = c /\ x.manifest = disk.manifest
  BY <1>0, <1>4, CheckpointField, DirectoryUpdate
<1> HIDE DEF x
<1>6. DirectoryOK(x)
  BY <1>0, <1>5 DEF DirectoryOK
<1>7. /\ RecoveredJournal(disk) = disk.journal /\ RecoveredJournal(x) = disk.journal
      /\ RecoveredCheckpoint(disk).offset = off /\ RecoveredCheckpoint(x).offset = off + n
  BY <1>3, <1>4, <1>5 DEF RecoveredJournal, RecoveredCheckpoint
<1>8. Len(pending) = Len(lines) - off /\ \A i \in 1..Len(pending) : pending[i] = lines[off + i]
  BY <1>0, <1>3, TailElements
<1>9. ASSUME NEW e \in recorded \ settled'
      PROVE  Kept(x, e)
  <2>1. Kept(disk, e)
    BY <1>0, <1>b DEF AllKept
  <2>2. PICK i \in 1..disk.journal.synced : i > off /\ lines[i] = e
    BY <1>7, <2>1 DEF Kept
  <2>3. CASE i <= off + n
    <3>1. i - off \in 1..n /\ i - off \in 1..Len(pending) /\ off + (i - off) = i
      BY <1>0, <1>a, <1>1, <1>8, <2>2, <2>3
    <3>2. pending[i - off] = e
      BY <1>8, <2>2, <3>1
    <3> QED BY <1>2, <3>1, <3>2
  <2>4. CASE i > off + n
    BY <1>7, <2>2, <2>4 DEF Kept
  <2> QED BY <1>0, <1>a, <2>3, <2>4
<1>10. DirectoriesOK' /\ AllKept'
  BY <1>0, <1>b, <1>1, <1>2, <1>5, <1>6, <1>9, DirOpSafe
<1>11. OneJournal'
  BY <1>2, <1>3, <1>5 DEF OneJournal, DirOp
<1>12. FilesAtPc' /\ Quiet'
  BY <1>1, <1>2, <1>3, <1>5 DEF FilesAtPc, Quiet, DirOp, RecoverPcs, PlainPcs, QuietPcs, CallPcs
<1>13. off + n <= Len(lines) /\ pending' = SubSeq(lines, (off + n) + 1, Len(lines))
  <2>1. n <= Len(lines) - off
    BY <1>1, <1>8
  <2>2. pending' = SubSeq(lines, off + n + 1, Len(lines))
    BY <1>0, <1>a, <1>2, <1>3, <2>1, TailOfTail
  <2>3. off + n <= Len(lines) /\ off + n + 1 = (off + n) + 1
    BY <1>0, <1>a, <2>1
  <2> QED BY <2>2, <2>3
<1>14. disk' = x
  BY <1>2 DEF DirOp
<1>15. MemoryIsTail'
  BY <1>1, <1>2, <1>4, <1>5, <1>13, <1>14 DEF MemoryIsTail, CallPcs
<1> QED BY <1>10, <1>11, <1>12, <1>15

LEMMA StepConfirmDone ==
  ASSUME IInv, JournalTypeOK', ConfirmDone
  PROVE  IInv'
<1> USE DEF IInv
<1>1. /\ SyncDir /\ recorded' = recorded /\ settled' = settled /\ UNCHANGED jmem
      /\ pc = "confirm_sync" /\ pc' = "idle"
  BY DEF ConfirmDone, Goto, ghosts
<1>2. DirectoriesOK' /\ AllKept' /\ OneJournal'
  BY <1>1, SyncDirSafe
<1>3. FilesAtPc' /\ Quiet'
  BY <1>1 DEF FilesAtPc, Quiet, SyncDir, RecoverPcs, PlainPcs, QuietPcs, CallPcs
<1>4. MemoryIsTail'
  BY <1>1 DEF MemoryIsTail, SyncDir, CallPcs, jmem
<1> QED BY <1>2, <1>3, <1>4

LEMMA StepCompactWrite ==
  ASSUME IInv, JournalTypeOK', CompactWrite
  PROVE  IInv'
<1> USE DEF IInv
<1> DEFINE f == Written(EmptyFile, pending)
           x == [disk EXCEPT !.compact = f]
<1>0. /\ disk \in Directory /\ disk \in hist /\ DirectoryOK(disk) /\ pending \in Seq(Nat)
  BY DEF JournalTypeOK, DirectoriesOK, Line
<1>1. /\ pc = "confirm_sync" /\ pc' = "compact_manifest" /\ SyncDirThen(x)
      /\ recorded' = recorded /\ settled' = settled /\ UNCHANGED jmem
  BY DEF CompactWrite, Goto, ghosts
<1>2. disk.journal.exists /\ ~disk.journal.torn /\ ~disk.manifest.exists
  BY <1>1 DEF FilesAtPc, CallPcs, PlainPcs
<1>3. /\ EmptyFile \in File /\ EmptyFile.lines = <<>> /\ ~EmptyFile.torn
      /\ FileOK(EmptyFile)
  BY NoFileType DEF EmptyFile, FileOf, FileOK
<1>4. /\ f \in File /\ f.exists = TRUE /\ f.lines = EmptyFile.lines \o pending
      /\ f.torn = FALSE /\ FileOK(f)
  BY <1>0, <1>3, WrittenOK
<1>5. f.lines = pending
  BY <1>0, <1>3, <1>4
<1> HIDE DEF f
<1>6. /\ x \in Directory /\ x.journal = disk.journal /\ x.compact = f
      /\ x.checkpoint = disk.checkpoint /\ x.manifest = disk.manifest
  BY <1>0, <1>4, CompactField, DirectoryUpdate
<1> HIDE DEF x
<1>7. DirectoryOK(x)
  BY <1>0, <1>2, <1>4, <1>6 DEF DirectoryOK
<1>8. /\ RecoveredJournal(x) = RecoveredJournal(disk)
      /\ RecoveredCheckpoint(x) = RecoveredCheckpoint(disk)
  BY <1>2, <1>6 DEF RecoveredJournal, RecoveredCheckpoint
<1>9. \A e \in recorded \ settled : Kept(x, e)
  BY <1>0, <1>6, <1>8, KeptSame DEF AllKept
<1>10. DirectoriesOK' /\ AllKept'
  BY <1>1, <1>6, <1>7, <1>9, DirOpSafe
<1>11. OneJournal'
  BY <1>1, <1>2, <1>6 DEF OneJournal, SyncDirThen
<1>12. FilesAtPc' /\ Quiet'
  BY <1>1, <1>2, <1>4, <1>6
     DEF FilesAtPc, Quiet, SyncDirThen, RecoverPcs, PlainPcs, QuietPcs, CallPcs
<1>13. disk' = x
  BY <1>1 DEF SyncDirThen
<1>14. MemoryIsTail'
  BY <1>1, <1>5, <1>6, <1>13 DEF MemoryIsTail, CallPcs, jmem
<1> QED BY <1>10, <1>11, <1>12, <1>14

(* The manifest makes the compacted journal the one open() reads. *)
LEMMA StepCompactManifest ==
  ASSUME IInv, JournalTypeOK', CompactManifest
  PROVE  IInv'
<1> USE DEF IInv
<1> DEFINE f == Fsynced(disk.compact)
           m == [exists |-> TRUE, checkpoint |-> NextState]
           y == [disk EXCEPT !.compact = f]
           x == [y EXCEPT !.manifest = m]
           Image(d) == [d EXCEPT !.compact = IF @.exists THEN f ELSE @]
           off == checkpointOffset
           lines == disk.journal.lines
<1>0. /\ disk \in Directory /\ hist \subseteq Directory /\ disk \in hist /\ DirectoryOK(disk)
      /\ disk.compact \in File /\ FileOK(disk.compact) /\ disk.journal \in File
      /\ FileOK(disk.journal) /\ lines \in Seq(Nat) /\ Len(lines) \in Nat
      /\ disk.journal.synced \in Nat /\ off \in Nat
  BY DirectoryUpdate, FileFields DEF JournalTypeOK, DirectoriesOK, DirectoryOK, Line
<1>1. /\ pc = "compact_manifest" /\ pc' = "compact_rename"
      /\ recorded' = recorded /\ settled' = settled /\ UNCHANGED jmem
      /\ disk' = x /\ hist' = {Image(d) : d \in hist} \cup {x}
  BY DEF CompactManifest, Goto, ghosts
<1>2. /\ disk.journal.exists /\ ~disk.journal.torn /\ ~disk.manifest.exists
      /\ disk.compact.exists /\ ~disk.compact.torn /\ disk.compact.lines = pending
      /\ off \in 0..Len(lines) /\ pending = SubSeq(lines, off + 1, Len(lines))
      /\ disk.checkpoint.offset = off
  BY <1>0, <1>1 DEF FilesAtPc, MemoryIsTail, CallPcs
<1>3. /\ f \in File /\ f.exists = TRUE /\ f.lines = pending /\ f.synced = Len(pending)
      /\ f.torn = disk.compact.torn /\ f.dirty = FALSE /\ FileOK(f)
  BY <1>0, <1>2, FsyncedOK
<1> HIDE DEF f
<1>4. /\ m \in Manifest /\ m.exists = TRUE /\ m.checkpoint.offset = 0
  BY NextStateType DEF NextState
<1> HIDE DEF m
<1>5. /\ y \in Directory /\ y.journal = disk.journal /\ y.compact = f
      /\ y.checkpoint = disk.checkpoint
  BY <1>0, <1>3, CompactField, DirectoryUpdate
<1> HIDE DEF y
<1>6. /\ x \in Directory /\ x.journal = disk.journal /\ x.compact = f
      /\ x.checkpoint = disk.checkpoint /\ x.manifest = m
  BY <1>4, <1>5, ManifestField, DirectoryUpdate
<1> HIDE DEF x
<1>7. DirectoryOK(x)
  BY <1>0, <1>3, <1>4, <1>6 DEF DirectoryOK
<1>8. /\ RecoveredJournal(x) = f /\ RecoveredCheckpoint(x).offset = 0
      /\ RecoveredJournal(disk) = disk.journal /\ RecoveredCheckpoint(disk).offset = off
  BY <1>2, <1>3, <1>4, <1>6 DEF RecoveredJournal, RecoveredCheckpoint
<1>9. Len(pending) = Len(lines) - off /\ \A i \in 1..Len(pending) : pending[i] = lines[off + i]
  BY <1>0, <1>2, TailElements
<1>10. ASSUME NEW e \in recorded \ settled
       PROVE  Kept(x, e)
  <2>1. PICK i \in 1..disk.journal.synced : i > off /\ lines[i] = e
    BY <1>0, <1>8 DEF AllKept, Kept
  <2>2. disk.journal.synced <= Len(lines)
    BY <1>0 DEF FileOK
  <2>3. i - off \in 1..Len(pending) /\ off + (i - off) = i /\ i - off > 0
    BY <1>0, <1>9, <2>1, <2>2
  <2>4. pending[i - off] = e
    BY <1>9, <2>1, <2>3
  <2> QED BY <1>3, <1>8, <2>3, <2>4 DEF Kept
<1>11. ASSUME NEW d \in hist
       PROVE  DirectoryOK(Image(d)) /\ \A e \in recorded \ settled : Kept(Image(d), e)
  <2> DEFINE g == IF d.compact.exists THEN f ELSE d.compact
  <2>1. /\ d \in Directory /\ DirectoryOK(d) /\ d.compact \in File
        /\ d.manifest.exists => ~d.compact.exists
    BY <1>0, <1>2, DirectoryUpdate DEF DirectoriesOK, OneJournal
  <2>2. g \in File /\ FileOK(g) /\ (d.compact.exists => g = f) /\ (~d.compact.exists => g = d.compact)
    BY <1>3, <2>1 DEF DirectoryOK
  <2>3. Image(d) = [d EXCEPT !.compact = g]
    OBVIOUS
  <2> HIDE DEF Image, g
  <2>4. Image(d) \in Directory
    BY <2>1, <2>2, <2>3, DirectoryUpdate
  <2>5. /\ Image(d).journal = d.journal /\ Image(d).compact = g
        /\ Image(d).checkpoint = d.checkpoint /\ Image(d).manifest = d.manifest
    BY <2>1, <2>3, CompactField
  <2>6. /\ RecoveredJournal(Image(d)) = RecoveredJournal(d)
        /\ RecoveredCheckpoint(Image(d)) = RecoveredCheckpoint(d)
    BY <2>1, <2>2, <2>5 DEF RecoveredJournal, RecoveredCheckpoint
  <2>7. DirectoryOK(Image(d))
    BY <2>1, <2>2, <2>5 DEF DirectoryOK
  <2>8. \A e \in recorded \ settled : Kept(Image(d), e)
    BY <2>1, <2>4, <2>6, KeptSame DEF AllKept
  <2> QED BY <2>7, <2>8
<1>12. DirectoriesOK' /\ AllKept'
  BY <1>1, <1>7, <1>10, <1>11 DEF DirectoriesOK, AllKept
<1>13. OneJournal' /\ FilesAtPc' /\ Quiet'
  BY <1>1, <1>2, <1>3, <1>4, <1>6
     DEF OneJournal, FilesAtPc, Quiet, RecoverPcs, PlainPcs, QuietPcs, CallPcs
<1>14. MemoryIsTail'
  BY <1>1, <1>2, <1>3, <1>6 DEF MemoryIsTail, CallPcs, jmem
<1> QED BY <1>12, <1>13, <1>14

LEMMA StepCompactRename ==
  ASSUME IInv, JournalTypeOK', CompactRename
  PROVE  IInv'
<1> USE DEF IInv
<1> DEFINE x == [disk EXCEPT !.journal = disk.compact, !.compact = NoFile]
<1>0. disk \in Directory /\ disk \in hist /\ DirectoryOK(disk)
  BY DEF JournalTypeOK, DirectoriesOK
<1>1. /\ pc = "compact_rename" /\ pc' = "compact_checkpoint" /\ SyncDirThen(x)
      /\ recorded' = recorded /\ settled' = settled /\ UNCHANGED jmem
  BY DEF CompactRename, Goto, ghosts
<1>2. /\ disk.manifest.exists /\ disk.compact.exists /\ ~disk.compact.torn
      /\ disk.compact.lines = pending
  BY <1>1 DEF FilesAtPc, MemoryIsTail
<1>3. /\ x \in Directory /\ x.journal = disk.compact /\ x.compact = NoFile
      /\ x.checkpoint = disk.checkpoint /\ x.manifest = disk.manifest
  BY <1>0, RenameField
<1>4. DirectoryOK(x) /\ \A e \in recorded \ settled : Kept(x, e)
  BY <1>0, <1>2, RenameOK, RenameKeeps DEF AllKept
<1> HIDE DEF x
<1>5. DirectoriesOK' /\ AllKept'
  BY <1>1, <1>3, <1>4, DirOpSafe
<1>6. OneJournal' /\ FilesAtPc' /\ Quiet'
  BY <1>1, <1>2, <1>3, NoFileFields
     DEF OneJournal, FilesAtPc, Quiet, SyncDirThen, RecoverPcs, PlainPcs, QuietPcs, CallPcs
<1>7. MemoryIsTail'
  BY <1>1, <1>2, <1>3 DEF MemoryIsTail, SyncDirThen, CallPcs, jmem
<1> QED BY <1>5, <1>6, <1>7

LEMMA StepCompactCheckpoint ==
  ASSUME IInv, JournalTypeOK', CompactCheckpoint
  PROVE  IInv'
<1> USE DEF IInv
<1> DEFINE x == [disk EXCEPT !.checkpoint = NextState]
<1>0. disk \in Directory /\ disk \in hist /\ DirectoryOK(disk)
  BY DEF JournalTypeOK, DirectoriesOK
<1>1. /\ pc = "compact_checkpoint" /\ pc' = "compact_unlink" /\ SyncDirThen(x)
      /\ recorded' = recorded /\ settled' = settled /\ UNCHANGED jmem
  BY DEF CompactCheckpoint, Goto, ghosts
<1>2. /\ disk.manifest.exists /\ ~disk.compact.exists /\ disk.journal.exists
      /\ ~disk.journal.torn /\ disk.journal.lines = pending
  BY <1>1 DEF FilesAtPc, MemoryIsTail, RecoverPcs, CallPcs
<1>3. NextState \in Checkpoint /\ NextState.offset = 0
  BY NextStateType DEF NextState
<1>4. /\ x \in Directory /\ DirectoryOK(x) /\ \A e : Kept(disk, e) => Kept(x, e)
      /\ x.journal = disk.journal /\ x.compact = disk.compact
      /\ x.manifest = disk.manifest /\ x.checkpoint = NextState
  BY <1>0, <1>2, <1>3, CheckpointKeeps
<1> HIDE DEF x
<1>5. \A e \in recorded \ settled : Kept(x, e)
  BY <1>0, <1>4 DEF AllKept
<1>6. DirectoriesOK' /\ AllKept'
  BY <1>1, <1>4, <1>5, DirOpSafe
<1>7. OneJournal' /\ FilesAtPc' /\ Quiet'
  BY <1>1, <1>2, <1>3, <1>4
     DEF OneJournal, FilesAtPc, Quiet, SyncDirThen, RecoverPcs, PlainPcs, QuietPcs, CallPcs
<1>8. MemoryIsTail'
  BY <1>1, <1>2, <1>4 DEF MemoryIsTail, SyncDirThen, CallPcs, jmem
<1> QED BY <1>6, <1>7, <1>8

LEMMA StepCompactUnlink ==
  ASSUME IInv, JournalTypeOK', CompactUnlink
  PROVE  IInv'
<1> USE DEF IInv
<1> DEFINE x == [disk EXCEPT !.manifest = NoManifest]
<1>0. disk \in Directory /\ disk \in hist /\ DirectoryOK(disk)
  BY DEF JournalTypeOK, DirectoriesOK
<1>1. /\ pc = "compact_unlink" /\ pc' = "compact_unlinked" /\ SyncDirThen(x)
      /\ recorded' = recorded /\ settled' = settled /\ UNCHANGED jmem
  BY DEF CompactUnlink, Goto, ghosts
<1>2. /\ disk.manifest.exists /\ ~disk.compact.exists /\ disk.journal.exists
      /\ ~disk.journal.torn /\ disk.journal.lines = pending /\ disk.checkpoint.offset = 0
  BY <1>1 DEF FilesAtPc, MemoryIsTail, RecoverPcs, CallPcs
<1>3. /\ x \in Directory /\ DirectoryOK(x) /\ \A e : Kept(disk, e) => Kept(x, e)
      /\ x.journal = disk.journal /\ x.compact = disk.compact
      /\ ~x.manifest.exists /\ x.checkpoint = disk.checkpoint
  BY <1>0, <1>2, UnlinkKeeps
<1> HIDE DEF x
<1>4. \A e \in recorded \ settled : Kept(x, e)
  BY <1>0, <1>3 DEF AllKept
<1>5. DirectoriesOK' /\ AllKept'
  BY <1>1, <1>3, <1>4, DirOpSafe
<1>6. OneJournal'
  BY <1>1, <1>2, <1>3 DEF OneJournal, SyncDirThen
<1>7. FilesAtPc' /\ Quiet'
  BY <1>1, <1>2, <1>3
     DEF FilesAtPc, Quiet, SyncDirThen, RecoverPcs, PlainPcs, QuietPcs, CallPcs
<1>8. MemoryIsTail'
  BY <1>1, <1>2, <1>3 DEF MemoryIsTail, SyncDirThen, CallPcs, jmem
<1> QED BY <1>5, <1>6, <1>7, <1>8

LEMMA StepCompactDone ==
  ASSUME IInv, JournalTypeOK', CompactDone
  PROVE  IInv'
<1> USE DEF IInv
<1>1. /\ pc = "compact_unlinked" /\ pc' = "idle" /\ SyncDir
      /\ recorded' = recorded /\ settled' = settled
      /\ checkpointOffset' = 0 /\ pending' = pending
  BY DEF CompactDone, Goto, ghosts
<1>2. DirectoriesOK' /\ AllKept' /\ OneJournal'
  BY <1>1, SyncDirSafe
<1>3. FilesAtPc' /\ Quiet'
  BY <1>1 DEF FilesAtPc, Quiet, SyncDir, RecoverPcs, PlainPcs, QuietPcs, CallPcs
<1>4. /\ disk.journal.lines = pending /\ disk.checkpoint.offset = 0 /\ disk' = disk
      /\ pending \in Seq(Nat)
  BY <1>1 DEF MemoryIsTail, SyncDir, JournalTypeOK, Line
<1>5. pending = SubSeq(pending, 0 + 1, Len(pending)) /\ 0 <= Len(pending)
  BY <1>4
<1>6. MemoryIsTail'
  BY <1>1, <1>4, <1>5 DEF MemoryIsTail, CallPcs
<1> QED BY <1>2, <1>3, <1>6

-----------------------------------------------------------------------------
(* The end of a process, and of the machine. *)
LEMMA StepProcessEnds ==
  ASSUME IInv, JournalTypeOK', Close \/ Kill
  PROVE  IInv'
<1> USE DEF IInv
<1>1. disk' = disk /\ hist' = hist /\ recorded' = recorded /\ settled' = settled /\ pc' = "down"
  BY DEF Close, Kill, LoseMemory, ghosts
<1>2. DirectoriesOK' /\ AllKept' /\ OneJournal'
  BY <1>1 DEF DirectoriesOK, AllKept, OneJournal
<1>3. FilesAtPc' /\ Quiet' /\ MemoryIsTail'
  BY <1>1 DEF FilesAtPc, Quiet, MemoryIsTail, RecoverPcs, PlainPcs, QuietPcs, CallPcs
<1> QED BY <1>2, <1>3

(* A power loss leaves the durable prefix of a file. *)
LEMMA SurvivorKeeps ==
  ASSUME NEW f \in File, FileOK(f), NEW g \in Survivors(f)
  PROVE  /\ g \in File /\ FileOK(g)
         /\ g.exists = f.exists
         /\ f.synced <= g.synced
         /\ \A i \in 1..f.synced : g.lines[i] = f.lines[i]
         /\ ~g.dirty
         /\ Len(g.lines) <= Len(f.lines)
         /\ ~f.dirty => g = f
<1>0. /\ g \in File /\ f.exists \in BOOLEAN /\ f.synced \in Nat /\ f.synced <= Len(f.lines)
      /\ f.lines \in Seq(Nat) /\ Len(f.lines) \in Nat
  BY SurvivorsType, FileFields DEF FileOK, Line
<1>1. CASE ~f.dirty
  BY <1>0, <1>1 DEF Survivors
<1>2. CASE f.dirty
  <2>1. PICK k \in f.synced..Len(f.lines) : g = Cut(f, k, TRUE) \/ g = Cut(f, k, FALSE)
    BY <1>2 DEF Survivors
  <2> DEFINE u == SubSeq(f.lines, 1, k)
  <2>2. k \in Nat /\ f.synced <= k /\ k <= Len(f.lines)
    BY <1>0
  <2>3. u \in Seq(Nat) /\ Len(u) = k /\ \A i \in 1..k : u[i] = f.lines[i]
    BY <1>0, <2>2
  <2>4. g.exists = TRUE /\ g.lines = u /\ g.synced = k /\ g.dirty = FALSE
    BY <2>1 DEF Cut, FileOf
  <2> HIDE DEF u
  <2>5. f.exists
    BY <1>2 DEF FileOK
  <2>6. FileOK(g)
    BY <2>2, <2>3, <2>4 DEF FileOK
  <2>7. g.exists = f.exists
    BY <1>0, <2>4, <2>5
  <2>8. \A i \in 1..f.synced : g.lines[i] = f.lines[i]
    BY <1>0, <2>2, <2>3, <2>4
  <2>9. f.synced <= g.synced /\ ~g.dirty /\ Len(g.lines) <= Len(f.lines)
    BY <2>2, <2>3, <2>4
  <2> QED BY <1>0, <1>2, <2>6, <2>7, <2>8, <2>9
<1> QED BY <1>1, <1>2

LEMMA PowerLossKeeps ==
  ASSUME NEW d \in Directory, DirectoryOK(d), NEW x \in PowerLossImages(d)
  PROVE  /\ x \in Directory /\ DirectoryOK(x)
         /\ \A e : Kept(d, e) => Kept(x, e)
<1>1. PICK j \in Survivors(d.journal), f \in Survivors(d.failed), c \in Survivors(d.compact) :
         x = [journal |-> j, failed |-> f, compact |-> c,
              checkpoint |-> d.checkpoint, manifest |-> d.manifest]
  BY DEF PowerLossImages
<1>2. /\ x \in Directory /\ x.journal = j /\ x.compact = c
      /\ x.checkpoint = d.checkpoint /\ x.manifest = d.manifest
  BY <1>1, PowerLossImagesType
<1>3. d.journal \in File /\ d.compact \in File /\ FileOK(d.journal) /\ FileOK(d.compact)
  BY DirectoryUpdate DEF DirectoryOK
<1>4. /\ FileOK(j) /\ FileOK(c) /\ c.exists = d.compact.exists
      /\ (~d.compact.dirty => c = d.compact)
  BY <1>3, SurvivorKeeps
<1>5. DirectoryOK(x)
  BY <1>2, <1>4 DEF DirectoryOK
<1>6. RecoveredCheckpoint(x) = RecoveredCheckpoint(d)
  BY <1>2 DEF RecoveredCheckpoint
<1>7. CASE d.manifest.exists /\ d.compact.exists
  <2>1. RecoveredJournal(x) = RecoveredJournal(d)
    BY <1>2, <1>4, <1>7 DEF RecoveredJournal, DirectoryOK
  <2> QED BY <1>2, <1>5, <1>6, <2>1, KeptSame
<1>8. CASE ~(d.manifest.exists /\ d.compact.exists)
  <2>1. RecoveredJournal(x) = j /\ RecoveredJournal(d) = d.journal
    BY <1>2, <1>4, <1>8 DEF RecoveredJournal
  <2>2. d.journal.synced <= j.synced /\ \A i \in 1..d.journal.synced : j.lines[i] = d.journal.lines[i]
    BY <1>3, SurvivorKeeps
  <2> QED BY <1>2, <1>5, <1>6, <2>1, <2>2, KeptMoves
<1> QED BY <1>7, <1>8

LEMMA StepPowerLoss ==
  ASSUME IInv, JournalTypeOK', PowerLoss
  PROVE  IInv'
<1> USE DEF IInv
<1>1. PICK d \in hist : disk' \in PowerLossImages(d)
  BY DEF PowerLoss
<1>2. hist' = {disk'} /\ pc' = "down" /\ recorded' = recorded /\ settled' = settled
  BY DEF PowerLoss, LoseMemory
<1>3. d \in Directory /\ DirectoryOK(d)
  BY DEF JournalTypeOK, DirectoriesOK
<1>4. DirectoryOK(disk') /\ \A e : Kept(d, e) => Kept(disk', e)
  BY <1>1, <1>3, PowerLossKeeps
<1>5. DirectoriesOK' /\ AllKept' /\ OneJournal'
  BY <1>2, <1>4 DEF DirectoriesOK, AllKept, OneJournal
<1>6. FilesAtPc' /\ Quiet' /\ MemoryIsTail'
  BY <1>2 DEF FilesAtPc, Quiet, MemoryIsTail, RecoverPcs, PlainPcs, QuietPcs, CallPcs
<1> QED BY <1>5, <1>6

-----------------------------------------------------------------------------
LEMMA InvariantInit == Init => IInv
<1> SUFFICES ASSUME Init
             PROVE  IInv
  OBVIOUS
<1>1. JournalTypeOK
  BY TypeInit
<1>2. disk = EmptyDir /\ hist = {EmptyDir} /\ pc = "down" /\ recorded = {}
  BY DEF Init
<1>3. DirectoryOK(EmptyDir)
  BY DEF EmptyDir, DirectoryOK, FileOK, NoFile, NoManifest
<1>4. DirectoriesOK /\ AllKept /\ OneJournal
  BY <1>2, <1>3 DEF DirectoriesOK, AllKept, OneJournal
<1>5. FilesAtPc /\ Quiet /\ MemoryIsTail
  BY <1>2 DEF FilesAtPc, Quiet, MemoryIsTail, RecoverPcs, PlainPcs, QuietPcs, CallPcs
<1> QED BY <1>1, <1>4, <1>5 DEF IInv

LEMMA InvariantStutter ==
  ASSUME IInv, UNCHANGED vars
  PROVE  IInv'
<1> USE DEF IInv
<1>1. /\ disk' = disk /\ hist' = hist /\ pc' = pc /\ inflight' = inflight
      /\ recorded' = recorded /\ settled' = settled /\ UNCHANGED jmem
  BY DEF vars, ghosts
<1>2. JournalTypeOK'
  BY TypeStep
<1>3. DirectoriesOK' /\ AllKept' /\ OneJournal' /\ FilesAtPc' /\ Quiet'
  BY <1>1 DEF DirectoriesOK, AllKept, OneJournal, FilesAtPc, Quiet
<1>4. MemoryIsTail'
  BY <1>1 DEF MemoryIsTail, jmem
<1> QED BY <1>2, <1>3, <1>4

LEMMA InvariantStep ==
  ASSUME IInv, [Next]_vars
  PROVE  IInv'
<1>0. JournalTypeOK'
  BY TypeStep DEF IInv
<1>1. CASE OpenStep
  BY <1>0, <1>1, StepRecoverNoManifest, StepRecoverRename, StepRecoverSync,
     StepRecoverCheckpoint, StepRecoverUnlink, StepTailJournal, StepTailJournalSync,
     StepTailFailed, StepLoad, StepOpenJournal
     DEF OpenStep
<1>2. CASE CallStep
  BY <1>0, <1>2, StepAppendFsync, StepConfirmDone, StepQuarantine, StepCompactWrite,
     StepCompactManifest, StepCompactRename, StepCompactCheckpoint, StepCompactUnlink,
     StepCompactDone
     DEF CallStep
<1>3. CASE Call
  BY <1>0, <1>3, StepAppendWrite, StepConfirm, StepQuarantine, StepProcessEnds DEF Call
<1>4. CASE Crash
  BY <1>0, <1>4, StepProcessEnds, StepKillInAppend, StepPowerLoss DEF Crash
<1>5. CASE UNCHANGED vars
  BY <1>5, InvariantStutter
<1> QED BY <1>1, <1>2, <1>3, <1>4, <1>5 DEF Next

(* A kept event is in the queue open() makes of the directory. *)
LEMMA KeptIsPending ==
  ASSUME NEW x \in Directory, DirectoryOK(x), NEW e, Kept(x, e)
  PROVE  e \in Elements(RecoveredQueue(x))
<1> DEFINE f == RecoveredJournal(x)
           off == RecoveredCheckpoint(x).offset
<1>1. f \in File /\ off \in Nat /\ FileOK(f)
  BY RecoveredTypes DEF DirectoryOK, RecoveredJournal
<1>2. f.lines \in Seq(Nat) /\ Len(f.lines) \in Nat /\ f.synced \in Nat /\ f.synced <= Len(f.lines)
  BY <1>1, FileFields DEF FileOK, Line
<1>3. PICK i \in 1..f.synced : i > off /\ f.lines[i] = e
  BY DEF Kept
<1>4. off \in 0..Len(f.lines) /\ ~(off > Len(f.lines))
  BY <1>1, <1>2, <1>3
<1> DEFINE u == SubSeq(f.lines, off + 1, Len(f.lines))
<1>5. RecoveredQueue(x) = u
  BY <1>4 DEF RecoveredQueue, ResumeOffset
<1> HIDE DEF f, off
<1>6. Len(u) = Len(f.lines) - off /\ \A k \in 1..Len(u) : u[k] = f.lines[off + k]
  BY <1>2, <1>4, TailElements
<1> HIDE DEF u
<1>7. i - off \in 1..Len(u) /\ off + (i - off) = i
  BY <1>1, <1>2, <1>3, <1>6
<1>8. u[i - off] = e
  BY <1>3, <1>6, <1>7
<1> QED BY <1>5, <1>7, <1>8 DEF Elements

LEMMA InvariantImpliesNoLoss == IInv => NoLoss
<1> SUFFICES ASSUME IInv, NEW d \in hist, NEW x \in PowerLossImages(d), NEW e \in recorded \ settled
             PROVE  e \in Elements(RecoveredQueue(x))
  BY DEF NoLoss
<1>1. d \in Directory /\ DirectoryOK(d) /\ Kept(d, e)
  BY DEF IInv, JournalTypeOK, DirectoriesOK, AllKept
<1> QED BY <1>1, PowerLossKeeps, KeptIsPending

(***************************************************************************)
(* No event whose appendMany() returned is lost before confirm() is called *)
(* for it: in every state, and whatever part of the unsynced data a power  *)
(* loss takes, recoverCompaction(), truncateIncompleteTail() and           *)
(* loadJournal() make it pending again.                                    *)
(***************************************************************************)
THEOREM OutboxLosesNothing == Spec => []NoLoss
<1>1. Init => IInv
  BY InvariantInit
<1>2. IInv /\ [Next]_vars => IInv'
  BY InvariantStep
<1>3. IInv => NoLoss
  BY InvariantImpliesNoLoss
<1> QED BY <1>1, <1>2, <1>3, PTL DEF Spec

-----------------------------------------------------------------------------
(***************************************************************************)
(* The failed journal: FailedInv is inductive, FailedOnce follows from it, *)
(* and, where no power is lost, so does RefusedAreKept.                    *)
(***************************************************************************)

(* What loadFailedEventIds() knows after its first i lines. *)
LoadBody(lines, f, i) ==
    IF i = 0 THEN [cache |-> {}, count |-> 0]
    ELSE IF HasFailedId(f[i - 1].cache, f[i - 1].count, SubSeq(lines, 1, i - 1), lines[i])
         THEN f[i - 1]
         ELSE [cache |-> Cached(f[i - 1].cache, lines[i]), count |-> f[i - 1].count + 1]
IsLoad(lines, f, n) == f = [i \in 0..n |-> LoadBody(lines, f, i)]

LEMMA LoadExists ==
  ASSUME NEW lines, NEW n \in Nat
  PROVE  \E f : IsLoad(lines, f, n)
<1> DEFINE T == {m \in Nat : \E f : f = [i \in 0..m |-> LoadBody(lines, f, i)]}
<1>1. 0 \in T
  <2> DEFINE f == [i \in 0..0 |-> [cache |-> {}, count |-> 0]]
  <2>1. f = [i \in 0..0 |-> LoadBody(lines, f, i)]
    BY DEF LoadBody
  <2> HIDE DEF f
  <2> QED BY <2>1
<1>2. ASSUME NEW m \in T PROVE m + 1 \in T
  <2>1. PICK f : f = [i \in 0..m |-> LoadBody(lines, f, i)]
    OBVIOUS
  <2> DEFINE g == [i \in 0..(m + 1) |-> LoadBody(lines, f, i)]
  <2>2. \A i \in 0..m : i \in 0..(m + 1) /\ g[i] = f[i]
    BY <2>1
  <2>3. \A i \in 0..(m + 1) : i = 0 \/ i - 1 \in 0..m
    OBVIOUS
  <2>4. \A i \in 0..(m + 1) : LoadBody(lines, f, i) = LoadBody(lines, g, i)
    <3> HIDE DEF g
    <3> QED BY <2>2, <2>3 DEF LoadBody
  <2>5. g = [i \in 0..(m + 1) |-> LoadBody(lines, g, i)]
    BY <2>4
  <2>6. \E h : h = [i \in 0..(m + 1) |-> LoadBody(lines, h, i)]
    <3> HIDE DEF g
    <3> QED BY <2>5
  <2> QED BY <2>6
<1>3. T = Nat
  <2> HIDE DEF T
  <2>1. T \subseteq Nat
    BY DEF T
  <2> QED BY <1>1, <1>2, <2>1, NatSet
<1> QED BY <1>3 DEF IsLoad

LEMMA LoadIs ==
  ASSUME NEW lines, Len(lines) \in Nat
  PROVE  \E f : IsLoad(lines, f, Len(lines)) /\ LoadFailedEventIds(lines) = f[Len(lines)]
<1> DEFINE load == CHOOSE f : IsLoad(lines, f, Len(lines))
<1>1. IsLoad(lines, load, Len(lines))
  BY LoadExists
<1>2. LoadFailedEventIds(lines) = load[Len(lines)]
  BY DEF LoadFailedEventIds, IsLoad, LoadBody
<1> QED BY <1>1, <1>2

(* The cache and the count together tell whether an id is in the file. *)
LEMMA KnownIsExact ==
  ASSUME NEW scanned \in Seq(Nat), NEW cache, cache \subseteq Elements(scanned),
         IsFiniteSet(Elements(scanned)), NEW count, count = Cardinality(Elements(scanned)), NEW id
  PROVE  HasFailedId(cache, count, scanned, id) <=> id \in Elements(scanned)
<1>1. CASE count > Cardinality(cache)
  BY <1>1 DEF HasFailedId, Elements
<1>2. CASE ~(count > Cardinality(cache))
  <2>1. cache = Elements(scanned)
    BY <1>2, FS_Subset, FS_CardinalityType
  <2> QED BY <1>2, <2>1 DEF HasFailedId
<1> QED BY <1>1, <1>2

LEMMA ElementsFinite ==
  ASSUME NEW s \in Seq(Nat), NEW i \in 0..Len(s)
  PROVE  /\ SubSeq(s, 1, i) \in Seq(Nat) /\ Len(SubSeq(s, 1, i)) = i
         /\ Elements(SubSeq(s, 1, i)) = {s[j] : j \in 1..i}
         /\ i < Len(s) => Elements(SubSeq(s, 1, i + 1)) = Elements(SubSeq(s, 1, i)) \cup {s[i + 1]}
<1>1. /\ SubSeq(s, 1, i) \in Seq(Nat) /\ Len(SubSeq(s, 1, i)) = i
      /\ \A j \in 1..i : SubSeq(s, 1, i)[j] = s[j]
  OBVIOUS
<1>2. Elements(SubSeq(s, 1, i)) = {s[j] : j \in 1..i}
  BY <1>1 DEF Elements
<1>3. ASSUME i < Len(s)
      PROVE  Elements(SubSeq(s, 1, i + 1)) = Elements(SubSeq(s, 1, i)) \cup {s[i + 1]}
  <2> DEFINE u == SubSeq(s, 1, i + 1)
  <2>1. Len(u) = i + 1 /\ \A j \in 1..(i + 1) : u[j] = s[j]
    BY <1>3
  <2>2. Elements(u) = {s[j] : j \in 1..(i + 1)}
    <3> HIDE DEF u
    <3> QED BY <2>1 DEF Elements
  <2>3. 1..(i + 1) = (1..i) \cup {i + 1}
    OBVIOUS
  <2> HIDE DEF u
  <2> QED BY <1>2, <2>2, <2>3 DEF u
<1> QED BY <1>1, <1>2, <1>3

(* loadFailedEventIds() counts the events of the file, for every sequence   *)
(* of lines and every cache limit, and caches only events of the file.      *)
LEMMA LoadCounts ==
  ASSUME NEW lines \in Seq(Nat)
  PROVE  /\ IsFiniteSet(Elements(lines))
         /\ LoadFailedEventIds(lines).count = Cardinality(Elements(lines))
         /\ LoadFailedEventIds(lines).cache \subseteq Elements(lines)
<1> DEFINE n == Len(lines)
           E(i) == Elements(SubSeq(lines, 1, i))
<1>0. n \in Nat
  OBVIOUS
<1>1. PICK f : IsLoad(lines, f, n) /\ LoadFailedEventIds(lines) = f[n]
  BY <1>0, LoadIs
<1> DEFINE Good(i) == /\ IsFiniteSet(E(i))
                      /\ f[i].count = Cardinality(E(i))
                      /\ f[i].cache \subseteq E(i)
           T == {i \in Nat : i <= n => Good(i)}
<1>2. \A i \in 0..n : f[i] = LoadBody(lines, f, i)
  BY <1>1 DEF IsLoad
<1>3. 0 \in T
  <2>1. E(0) = {}
    BY ElementsFinite
  <2>2. f[0].count = 0 /\ f[0].cache = {}
    <3>1. f[0] = LoadBody(lines, f, 0)
      BY <1>0, <1>2
    <3> QED BY <3>1 DEF LoadBody
  <2>3. Good(0)
    BY <2>1, <2>2, FS_EmptySet
  <2> QED BY <2>3
<1>4. ASSUME NEW m \in T, m + 1 <= n PROVE Good(m + 1)
  <2>1. Good(m) /\ m \in 0..n /\ m + 1 \in 0..n /\ m < n
    BY <1>4
  <2>2. SubSeq(lines, 1, m) \in Seq(Nat) /\ E(m + 1) = E(m) \cup {lines[m + 1]}
    BY <2>1, ElementsFinite
  <2> DEFINE e == lines[m + 1]
             s == f[m]
  <2>3. f[m + 1] = IF HasFailedId(s.cache, s.count, SubSeq(lines, 1, m), e) THEN s
                   ELSE [cache |-> Cached(s.cache, e), count |-> s.count + 1]
    <3>1. m + 1 # 0 /\ (m + 1) - 1 = m
      OBVIOUS
    <3>2. f[m + 1] = LoadBody(lines, f, m + 1)
      BY <1>2, <2>1
    <3> QED BY <3>1, <3>2 DEF LoadBody
  <2>4. HasFailedId(s.cache, s.count, SubSeq(lines, 1, m), e) <=> e \in E(m)
    <3> HIDE DEF s, e
    <3>1. s.cache \subseteq E(m) /\ IsFiniteSet(E(m)) /\ s.count = Cardinality(E(m))
      BY <2>1 DEF s
    <3> QED BY <2>2, <3>1, KnownIsExact
  <2>5. IsFiniteSet(E(m + 1)) /\ Cardinality(E(m + 1)) = IF e \in E(m) THEN Cardinality(E(m))
                                                        ELSE Cardinality(E(m)) + 1
    <3>1. IsFiniteSet(E(m))
      BY <2>1
    <3> HIDE DEF E, e
    <3>2. E(m + 1) = E(m) \cup {e}
      BY <2>2 DEF e
    <3> QED BY <3>1, <3>2, FS_AddElement
  <2>6. Cached(s.cache, e) \subseteq E(m + 1)
    BY <2>1, <2>2 DEF Cached
  <2> HIDE DEF E, e
  <2>7. CASE e \in E(m)
    BY <2>1, <2>2, <2>3, <2>4, <2>5, <2>7
  <2>8. CASE e \notin E(m)
    BY <2>1, <2>2, <2>3, <2>4, <2>5, <2>6, <2>8
  <2> QED BY <2>7, <2>8
<1>5. T = Nat
  <2>1. T \subseteq Nat
    OBVIOUS
  <2>2. \A m \in T : m + 1 \in T
    BY <1>4
  <2> HIDE DEF T
  <2> QED BY <1>3, <2>1, <2>2, NatSet
<1>6. Good(n)
  BY <1>0, <1>5
<1>7. SubSeq(lines, 1, n) = lines
  OBVIOUS
<1> QED BY <1>1, <1>6, <1>7

(* Lines that differ are as many events. *)
LEMMA DistinctCount ==
  ASSUME NEW s \in Seq(Nat), Distinct(s)
  PROVE  IsFiniteSet(Elements(s)) /\ Cardinality(Elements(s)) = Len(s)
<1> DEFINE f == [i \in 1..Len(s) |-> s[i]]
<1>0. Len(s) \in Nat
  OBVIOUS
<1>1. f \in [1..Len(s) -> Elements(s)] /\ \A i \in 1..Len(s) : f[i] = s[i]
  BY DEF Elements
<1>2. f \in Injection(1..Len(s), Elements(s))
  <2> HIDE DEF f
  <2> QED BY <1>1 DEF Injection, IsInjective, Distinct
<1>3. f \in Surjection(1..Len(s), Elements(s))
  <2> HIDE DEF f
  <2> QED BY <1>1 DEF Surjection, Elements
<1>4. IsFiniteSet(1..Len(s)) /\ Cardinality(1..Len(s)) = Len(s)
  <2> DEFINE n == Len(s)
  <2>1. n \in Nat /\ 1 \in Int /\ n \in Int
    BY <1>0
  <2> HIDE DEF n
  <2>2. IsFiniteSet(1..n) /\ Cardinality(1..n) = IF 1 > n THEN 0 ELSE n - 1 + 1
    BY <2>1, FS_Interval
  <2>3. IsFiniteSet(1..n) /\ Cardinality(1..n) = n
    BY <2>1, <2>2
  <2> QED BY <2>3 DEF n
<1>5. f \in Bijection(1..Len(s), Elements(s))
  BY <1>2, <1>3 DEF Bijection
<1> QED BY <1>4, <1>5, FS_Bijection DEF ExistsBijection
-----------------------------------------------------------------------------
(* What a step does to the failed journal: what is to be shown of each. *)
FailedFilesKept ==
    /\ disk'.failed = disk.failed
    /\ \A x \in hist' : \E d \in hist : x.failed = d.failed
FailedKeeps == FailedInv' /\ (HandledAreKept /\ powerLosses' = powerLosses => HandledAreKept')

LEMMA DirOpFailed ==
  ASSUME disk \in hist, NEW x, x.failed = disk.failed, DirOp(x) \/ SyncDirThen(x)
  PROVE  FailedFilesKept
  BY DEF DirOp, SyncDirThen, FailedFilesKept

LEMMA SyncDirFailed ==
  ASSUME disk \in hist, SyncDir
  PROVE  FailedFilesKept
  BY DEF SyncDir, FailedFilesKept

LEMMA WriteJournalFailed ==
  ASSUME JournalTypeOK, NEW f, WriteJournal(f)
  PROVE  FailedFilesKept
<1>0. disk \in Directory /\ hist \subseteq Directory
  BY DEF JournalTypeOK
<1>1. disk' = [disk EXCEPT !.journal = f]
      /\ hist' = {[d EXCEPT !.journal = IF @.exists THEN f ELSE @] : d \in hist}
  BY DEF WriteJournal
<1>2. disk'.failed = disk.failed
  BY <1>0, <1>1, JournalField
<1>3. ASSUME NEW x \in hist' PROVE \E d \in hist : x.failed = d.failed
  <2>1. PICK d \in hist : x = [d EXCEPT !.journal = IF d.journal.exists THEN f ELSE d.journal]
    BY <1>1
  <2> DEFINE g == IF d.journal.exists THEN f ELSE d.journal
  <2>2. x = [d EXCEPT !.journal = g]
    BY <2>1
  <2> HIDE DEF g
  <2> QED BY <1>0, <2>2, JournalField
<1> QED BY <1>2, <1>3 DEF FailedFilesKept

(* A step of another call, or of the recovery. *)
LEMMA FailedAlone ==
  ASSUME FailedInv, IInv', FailedFilesKept, UNCHANGED <<fmem, faults>>,
         settled' \cap Rejected \subseteq settled \cup handled,
         pc' \in CallPcs => pc \in CallPcs \ {"quarantine_fsync"},
         pc' \notin {"tail_failed_sync", "load", "quarantine_fsync"}
  PROVE  FailedKeeps
<1> USE DEF FailedInv
<1>1. /\ failedEventIds' = failedEventIds /\ failedUniqueCount' = failedUniqueCount
      /\ failedWriteFault' = failedWriteFault /\ handled' = handled
      /\ kills' = kills /\ powerLosses' = powerLosses /\ disk'.failed = disk.failed
  BY DEF fmem, faults, FailedFilesKept
<1>2. FailedTypeOK'
  BY <1>1 DEF FailedTypeOK
<1>3. FailedDistinct'
  BY DEF FailedFilesKept, FailedDistinct
<1>4. FailedWhole'
  BY <1>1 DEF FailedWhole
<1>5. FailedKnown'
  BY <1>1 DEF FailedKnown
<1>6. HandledAreKept => HandledAreKept'
  BY <1>1 DEF HandledAreKept
<1> QED BY <1>2, <1>3, <1>4, <1>5, <1>6 DEF FailedKeeps

LEMMA FailedFacts ==
  ASSUME FailedInv
  PROVE  /\ JournalTypeOK /\ disk \in hist /\ disk \in Directory /\ hist \subseteq Directory
         /\ \A d \in hist : d.failed \in File /\ d.failed.lines \in Seq(Nat)
  BY DirectoryUpdate, FileFields DEF FailedInv, IInv, JournalTypeOK, DirectoriesOK, Line

(* open() before it loads the files *)
LEMMA FailedRecover ==
  ASSUME FailedInv, IInv',
         \/ RecoverNoManifest \/ RecoverRename \/ RecoverSync \/ RecoverCheckpoint
         \/ RecoverUnlink \/ RecoverDone \/ TailJournal \/ TailJournalSync
  PROVE  FailedKeeps
<1>0. /\ JournalTypeOK /\ disk \in hist /\ disk \in Directory
  BY FailedFacts
<1>1. FailedFilesKept
  <2>1. CASE RecoverNoManifest
    BY <1>0, <2>1, CompactField, DirOpFailed DEF RecoverNoManifest
  <2>2. CASE RecoverRename
    BY <1>0, <2>2, RenameField, DirOpFailed DEF RecoverRename
  <2>3. CASE RecoverSync \/ RecoverDone
    BY <1>0, <2>3, SyncDirFailed DEF RecoverSync, RecoverDone
  <2>4. CASE RecoverCheckpoint
    BY <1>0, <2>4, CheckpointField, DirOpFailed DEF RecoverCheckpoint
  <2>5. CASE RecoverUnlink
    BY <1>0, <2>5, ManifestField, DirOpFailed DEF RecoverUnlink
  <2>6. CASE TailJournal
    BY <1>0, <2>6, WriteJournalFailed DEF TailJournal, FailedFilesKept
  <2>7. CASE TailJournalSync
    <3>1. disk'.failed = disk.failed
      BY <1>0, <2>7, JournalField DEF TailJournalSync
    <3> QED BY <1>0, <2>7, <3>1 DEF TailJournalSync, FailedFilesKept
  <2> QED BY <2>1, <2>2, <2>3, <2>4, <2>5, <2>6, <2>7
<1>2. /\ UNCHANGED <<fmem, faults>> /\ settled' = settled
      /\ pc' \in {"tail_journal", "recover_sync", "recover_checkpoint", "recover_unlink",
                  "recover_unlinked", "tail_journal_sync", "tail_failed"}
  BY DEF RecoverNoManifest, RecoverRename, RecoverSync, RecoverCheckpoint, RecoverUnlink,
         RecoverDone, TailJournal, TailJournalSync, Goto, ghosts
<1>3. pc' \notin CallPcs /\ pc' \notin {"tail_failed_sync", "load", "quarantine_fsync"}
  BY <1>2 DEF CallPcs
<1> QED BY <1>1, <1>2, <1>3, FailedAlone

(* appendMany(), confirm() and the compaction, and the end of open() *)
LEMMA FailedCalls ==
  ASSUME FailedInv, IInv',
         \/ OpenJournal \/ OpenSync \/ AppendFsync \/ ConfirmDone
         \/ CompactWrite \/ CompactManifest \/ CompactRename \/ CompactCheckpoint
         \/ CompactUnlink \/ CompactDone
         \/ \E n \in 1..MaxAppend : AppendWrite(n)
         \/ \E n \in 1..MaxEvents : Confirm(n)
  PROVE  FailedKeeps
<1>0. /\ JournalTypeOK /\ disk \in hist /\ disk \in Directory /\ hist \subseteq Directory
  BY FailedFacts
<1>1. FailedFilesKept
  <2>1. CASE OpenJournal
    BY <1>0, <2>1, JournalField, DirOpFailed, SyncDirFailed DEF OpenJournal
  <2>2. CASE OpenSync \/ ConfirmDone \/ CompactDone
    BY <1>0, <2>2, SyncDirFailed DEF OpenSync, ConfirmDone, CompactDone
  <2>3. CASE AppendFsync \/ \E n \in 1..MaxAppend : AppendWrite(n)
    BY <1>0, <2>3, WriteJournalFailed DEF AppendFsync, AppendWrite
  <2>4. CASE CompactWrite
    BY <1>0, <2>4, CompactField, DirOpFailed DEF CompactWrite
  <2>5. CASE CompactManifest
    <3> DEFINE synced == [disk EXCEPT !.compact = Fsynced(@)]
               next == [synced EXCEPT !.manifest = [exists |-> TRUE, checkpoint |-> NextState]]
    <3>1. next.failed = disk.failed
      BY <1>0, FileOpsType, DirectoryUpdate, CompactField, ManifestField
    <3>2. disk' = next
          /\ hist' = {[d EXCEPT !.compact = IF @.exists THEN Fsynced(disk.compact) ELSE @] :
                         d \in hist} \cup {next}
      BY <2>5, Zenon DEF CompactManifest
    <3> HIDE DEF next
    <3>3. ASSUME NEW x \in hist' PROVE \E d \in hist : x.failed = d.failed
      <4>1. CASE x = next
        BY <1>0, <3>1, <4>1
      <4>2. CASE x # next
        <5>1. PICK d \in hist :
                 x = [d EXCEPT !.compact = IF d.compact.exists THEN Fsynced(disk.compact)
                                           ELSE d.compact]
          BY <3>2, <4>2
        <5> DEFINE g == IF d.compact.exists THEN Fsynced(disk.compact) ELSE d.compact
        <5>2. x = [d EXCEPT !.compact = g]
          BY <5>1
        <5> HIDE DEF g
        <5> QED BY <1>0, <5>2, CompactField
      <4> QED BY <4>1, <4>2
    <3> QED BY <3>1, <3>2, <3>3 DEF FailedFilesKept
  <2>6. CASE CompactRename
    BY <1>0, <2>6, RenameField, DirOpFailed DEF CompactRename
  <2>7. CASE CompactCheckpoint
    BY <1>0, <2>7, CheckpointField, DirOpFailed DEF CompactCheckpoint
  <2>8. CASE CompactUnlink
    BY <1>0, <2>8, ManifestField, DirOpFailed DEF CompactUnlink
  <2>9. CASE \E n \in 1..MaxEvents : Confirm(n)
    <3>1. PICK n \in 1..MaxEvents : Confirm(n)
      BY <2>9
    <3>2. \E c : DirOp([disk EXCEPT !.checkpoint = c])
      BY <3>1 DEF Confirm
    <3> QED BY <1>0, <3>2, CheckpointField, DirOpFailed
  <2> QED BY <2>1, <2>2, <2>3, <2>4, <2>5, <2>6, <2>7, <2>8, <2>9
<1>2. UNCHANGED <<fmem, faults>>
  BY DEF OpenJournal, OpenSync, AppendFsync, ConfirmDone, CompactWrite, CompactManifest,
         CompactRename, CompactCheckpoint, CompactUnlink, CompactDone, AppendWrite, Confirm
<1>3. settled' \cap Rejected \subseteq settled \cup handled
  <2>1. ASSUME NEW n \in 1..MaxEvents, Confirm(n)
        PROVE  settled' \cap Rejected \subseteq settled \cup handled
    BY <2>1 DEF Confirm
  <2>2. CASE ~ \E n \in 1..MaxEvents : Confirm(n)
    BY <2>2 DEF OpenJournal, OpenSync, AppendFsync, ConfirmDone, CompactWrite, CompactManifest,
         CompactRename, CompactCheckpoint, CompactUnlink, CompactDone, AppendWrite, ghosts
  <2> QED BY <2>1, <2>2
<1>4. pc \in CallPcs \ {"quarantine_fsync"} /\ pc' \notin {"tail_failed_sync", "load", "quarantine_fsync"}
  BY DEF OpenJournal, OpenSync, AppendFsync, ConfirmDone, CompactWrite, CompactManifest,
         CompactRename, CompactCheckpoint, CompactUnlink, CompactDone, AppendWrite, Confirm,
         Goto, CallPcs
<1> QED BY <1>1, <1>2, <1>3, <1>4, FailedAlone
-----------------------------------------------------------------------------
(* A write to the failed journal reaches every directory that names it. *)
LEMMA WriteFailedDistinct ==
  ASSUME FailedInv, NEW f \in File, Distinct(f.lines),
         WriteFailed(f) \/ (disk' = [disk EXCEPT !.failed = f] /\ hist' = {disk'})
  PROVE  disk'.failed = f /\ FailedDistinct'
<1>0. /\ disk \in Directory /\ hist \subseteq Directory
  BY FailedFacts
<1>1. disk' = [disk EXCEPT !.failed = f]
  BY DEF WriteFailed
<1>2. disk'.failed = f
  BY <1>0, <1>1, FailedField
<1>3. ASSUME NEW x \in hist' PROVE Distinct(x.failed.lines)
  <2>1. CASE x = disk'
    BY <1>2, <2>1
  <2>2. CASE x # disk'
    <3>1. PICK d \in hist : x = [d EXCEPT !.failed = IF d.failed.exists THEN f ELSE d.failed]
      BY <1>1, <2>2 DEF WriteFailed, FailedImages
    <3> DEFINE g == IF d.failed.exists THEN f ELSE d.failed
    <3>2. x = [d EXCEPT !.failed = g]
      BY <3>1
    <3>3. Distinct(g.lines)
      BY DEF FailedInv, FailedDistinct
    <3> HIDE DEF g
    <3> QED BY <1>0, <3>2, <3>3, FailedField
  <2> QED BY <2>1, <2>2
<1> QED BY <1>2, <1>3 DEF FailedDistinct

LEMMA FailedTail ==
  ASSUME FailedInv, IInv', TailFailed \/ TailFailedSync
  PROVE  FailedKeeps
<1> USE DEF FailedInv
<1>0. /\ disk \in hist /\ disk.failed \in File /\ disk \in Directory
  BY FailedFacts
<1>1. /\ failedEventIds' = failedEventIds /\ failedUniqueCount' = failedUniqueCount
      /\ failedWriteFault' = failedWriteFault /\ handled' = handled /\ settled' = settled
      /\ kills' = kills /\ powerLosses' = powerLosses /\ pc' \in {"tail_failed_sync", "load"}
  BY DEF TailFailed, TailFailedSync, fmem, faults, ghosts, Goto
<1>2. /\ disk'.failed.lines = disk.failed.lines /\ FailedDistinct'
      /\ ~failedWriteFault => ~disk'.failed.torn
  <2>1. CASE TailFailed /\ disk.failed.torn
    <3>1. Truncated(disk.failed) \in File /\ Truncated(disk.failed).lines = disk.failed.lines
          /\ Truncated(disk.failed).torn = FALSE
      BY <1>0, FileOpsType, TruncatedFields
    <3>2. WriteFailed(Truncated(disk.failed)) /\ pc' = "tail_failed_sync"
      BY <2>1 DEF TailFailed
    <3>3. Distinct(disk.failed.lines)
      BY <1>0 DEF FailedDistinct
    <3> QED BY <3>1, <3>2, <3>3, WriteFailedDistinct
  <2>2. CASE TailFailed /\ ~disk.failed.torn
    BY <2>2 DEF TailFailed, FailedDistinct
  <2>3. CASE TailFailedSync
    <3>1. /\ Fsynced(disk.failed) \in File /\ Fsynced(disk.failed).lines = disk.failed.lines
          /\ Fsynced(disk.failed).torn = disk.failed.torn
      BY <1>0, FileOpsType, FsyncedFields
    <3>2. disk' = [disk EXCEPT !.failed = Fsynced(@)] /\ hist' = {disk'}
      BY <2>3 DEF TailFailedSync
    <3>3. Distinct(disk.failed.lines)
      BY <1>0 DEF FailedDistinct
    <3>4. ~failedWriteFault => ~disk.failed.torn
      BY <2>3 DEF FailedWhole, TailFailedSync, Goto
    <3> QED BY <3>1, <3>2, <3>3, <3>4, WriteFailedDistinct
  <2> QED BY <2>1, <2>2, <2>3
<1>3. FailedTypeOK'
  BY <1>1 DEF FailedTypeOK
<1>4. FailedWhole' /\ FailedKnown'
  BY <1>1, <1>2 DEF FailedWhole, FailedKnown, CallPcs
<1>5. HandledAreKept => HandledAreKept'
  BY <1>1, <1>2 DEF HandledAreKept, Elements
<1> QED BY <1>2, <1>3, <1>4, <1>5 DEF FailedKeeps

LEMMA FailedLoad ==
  ASSUME FailedInv, IInv', Load
  PROVE  FailedKeeps
<1> USE DEF FailedInv
<1>0. /\ disk \in hist /\ disk \in Directory /\ disk.failed.lines \in Seq(Nat)
      /\ Distinct(disk.failed.lines)
  BY FailedFacts DEF FailedDistinct
<1>1. CASE pc' = "refused"
  <2>1. /\ disk' = disk /\ hist' = hist /\ settled' = settled /\ UNCHANGED <<fmem, faults>>
    BY <1>1 DEF Load, LoadState, ghosts, fmem
  <2>2. FailedFilesKept
    BY <2>1 DEF FailedFilesKept
  <2>3. pc' \notin CallPcs /\ pc' \notin {"tail_failed_sync", "load", "quarantine_fsync"}
    BY <1>1 DEF CallPcs
  <2> QED BY <2>1, <2>2, <2>3, FailedAlone
<1>2. CASE LoadState
  <2> DEFINE known == LoadFailedEventIds(disk.failed.lines)
  <2>1. /\ known.count = Len(disk.failed.lines)
        /\ known.cache \subseteq Elements(disk.failed.lines)
        /\ Elements(disk.failed.lines) \subseteq Nat
    BY <1>0, LoadCounts, DistinctCount, ElementsType
  <2>2. failedEventIds' = known.cache /\ failedUniqueCount' = known.count /\ pc' = "open_journal"
    BY <1>2 DEF LoadState
  <2> HIDE DEF known
  <2>3. /\ failedWriteFault' = failedWriteFault /\ handled' = handled /\ settled' = settled
        /\ kills' = kills /\ powerLosses' = powerLosses /\ pc = "load"
    BY DEF Load, ghosts, faults
  <2>4. FailedFilesKept
    <3>1. \E c : DirOp([disk EXCEPT !.checkpoint = c])
      BY <1>2 DEF LoadState
    <3> QED BY <1>0, <3>1, CheckpointField, DirOpFailed
  <2>5. disk'.failed = disk.failed
    BY <2>4 DEF FailedFilesKept
  <2>6. FailedTypeOK'
    <3>1. Len(disk.failed.lines) \in Nat
      BY <1>0
    <3> QED BY <2>1, <2>2, <2>3, <3>1 DEF FailedTypeOK
  <2>7. FailedDistinct'
    BY <2>4 DEF FailedFilesKept, FailedDistinct
  <2>8. FailedWhole'
    BY <2>3, <2>5 DEF FailedWhole
  <2>9. FailedKnown'
    BY <1>0, <2>1, <2>2, <2>5 DEF FailedKnown
  <2>10. HandledAreKept => HandledAreKept'
    BY <2>3, <2>5 DEF HandledAreKept
  <2> QED BY <2>6, <2>7, <2>8, <2>9, <2>10 DEF FailedKeeps
<1> QED BY <1>1, <1>2 DEF Load
-----------------------------------------------------------------------------
(* The end of a process *)
LEMMA FailedLoseMemory ==
  ASSUME FailedInv, IInv', LoseMemory, FailedDistinct',
         kills' \in 0..MaxKills, powerLosses' \in 0..MaxPowerLosses
  PROVE  FailedInv'
<1>1. /\ pc' = "down" /\ failedEventIds' = {} /\ failedUniqueCount' = 0
      /\ failedWriteFault' = FALSE /\ handled' = {}
  BY DEF LoseMemory
<1>2. FailedTypeOK'
  BY <1>1, Zenon DEF FailedTypeOK
<1>3. FailedWhole' /\ FailedKnown'
  BY <1>1 DEF FailedWhole, FailedKnown, CallPcs
<1> QED BY <1>2, <1>3 DEF FailedInv

LEMMA FailedEnds ==
  ASSUME FailedInv, IInv',
         \/ Close \/ Kill
         \/ \E n \in 1..MaxAppend, k \in 0..MaxAppend, t \in BOOLEAN : KillInAppend(n, k, t)
  PROVE  FailedKeeps
<1> USE OutboxAssumption DEF OutboxAssumption
<1>0. JournalTypeOK /\ disk \in hist
  BY FailedFacts
<1>1. FailedFilesKept
  <2>1. CASE Close \/ Kill
    BY <1>0, <2>1 DEF Close, Kill, FailedFilesKept
  <2>2. ASSUME NEW n \in 1..MaxAppend, NEW k \in 0..MaxAppend, NEW t \in BOOLEAN,
               KillInAppend(n, k, t)
        PROVE  FailedFilesKept
    BY <1>0, <2>2, WriteJournalFailed DEF KillInAppend
  <2> QED BY <2>1, <2>2
<1>2. FailedDistinct'
  BY <1>1 DEF FailedFilesKept, FailedDistinct, FailedInv
<1>3. LoseMemory /\ settled' = settled
  BY DEF Close, Kill, KillInAppend, ghosts
<1>4. kills \in 0..MaxKills /\ powerLosses \in 0..MaxPowerLosses
  BY DEF FailedInv, FailedTypeOK
<1>5. (kills' = kills \/ (kills < MaxKills /\ kills' = kills + 1)) /\ powerLosses' = powerLosses
  BY DEF Close, Kill, KillInAppend, Dies, faults
<1>6. kills' \in 0..MaxKills /\ powerLosses' \in 0..MaxPowerLosses
  BY <1>4, <1>5
<1>7. HandledAreKept => HandledAreKept'
  <2>1. handled' = {} /\ disk'.failed = disk.failed
    BY <1>1, <1>3 DEF LoseMemory, FailedFilesKept
  <2> QED BY <1>3, <2>1 DEF HandledAreKept
<1> QED BY <1>2, <1>3, <1>6, <1>7, FailedLoseMemory DEF FailedKeeps

LEMMA FailedPowerLoss ==
  ASSUME FailedInv, IInv', PowerLoss
  PROVE  FailedKeeps
<1> USE OutboxAssumption DEF OutboxAssumption
<1>1. PICK d \in hist : disk' \in PowerLossImages(d)
  BY DEF PowerLoss
<1>2. /\ hist' = {disk'} /\ LoseMemory /\ kills' = kills
      /\ powerLosses < MaxPowerLosses /\ powerLosses' = powerLosses + 1
  BY DEF PowerLoss
<1>3. d.failed \in File /\ d.failed.lines \in Seq(Nat) /\ Distinct(d.failed.lines)
  BY FailedFacts DEF FailedInv, FailedDistinct
<1>4. disk'.failed \in Survivors(d.failed)
  BY <1>1 DEF PowerLossImages
<1>5. Distinct(disk'.failed.lines)
  <2>1. CASE ~d.failed.dirty
    BY <1>3, <1>4, <2>1 DEF Survivors
  <2>2. CASE d.failed.dirty
    <3>1. PICK k \in d.failed.synced..Len(d.failed.lines) :
             disk'.failed = Cut(d.failed, k, TRUE) \/ disk'.failed = Cut(d.failed, k, FALSE)
      BY <1>4, <2>2 DEF Survivors
    <3> DEFINE u == SubSeq(d.failed.lines, 1, k)
    <3>2. k \in 0..Len(d.failed.lines)
      BY <1>3, FileFields
    <3>3. Len(u) = k /\ \A i \in 1..k : u[i] = d.failed.lines[i]
      BY <1>3, <3>2
    <3>4. disk'.failed.lines = u
      BY <3>1 DEF Cut, FileOf
    <3> HIDE DEF u
    <3>5. 1..k \subseteq 1..Len(d.failed.lines)
      BY <1>3, <3>2
    <3> QED BY <1>3, <3>3, <3>4, <3>5 DEF Distinct
  <2> QED BY <2>1, <2>2
<1>6. FailedDistinct'
  BY <1>2, <1>5 DEF FailedDistinct
<1>7. kills' \in 0..MaxKills /\ powerLosses' \in 0..MaxPowerLosses /\ powerLosses' # powerLosses
  BY <1>2 DEF FailedInv, FailedTypeOK
<1> QED BY <1>2, <1>6, <1>7, FailedLoseMemory DEF FailedKeeps
-----------------------------------------------------------------------------
(* quarantine() *)
LEMMA DistinctAppend ==
  ASSUME NEW s \in Seq(Nat), NEW es \in Seq(Nat), Distinct(s), Distinct(es),
         \A e \in Elements(es) : e \notin Elements(s)
  PROVE  Distinct(s \o es)
<1> DEFINE w == s \o es
<1>1. /\ Len(w) = Len(s) + Len(es) /\ Len(s) \in Nat /\ Len(es) \in Nat
      /\ \A i \in 1..Len(w) : w[i] = IF i <= Len(s) THEN s[i] ELSE es[i - Len(s)]
  OBVIOUS
<1> HIDE DEF w
<1>2. \A i \in 1..Len(w) : \/ i \in 1..Len(s) /\ w[i] = s[i] /\ w[i] \in Elements(s)
                           \/ /\ i - Len(s) \in 1..Len(es) /\ i > Len(s)
                              /\ w[i] = es[i - Len(s)] /\ w[i] \in Elements(es)
  <2> TAKE i \in 1..Len(w)
  <2>1. CASE i <= Len(s)
    BY <1>1, <2>1 DEF Elements
  <2>2. CASE ~(i <= Len(s))
    <3>1. i - Len(s) \in 1..Len(es) /\ i > Len(s) /\ w[i] = es[i - Len(s)]
      BY <1>1, <2>2
    <3> QED BY <3>1 DEF Elements
  <2> QED BY <2>1, <2>2
<1>3. ASSUME NEW i \in 1..Len(w), NEW j \in 1..Len(w), i # j PROVE w[i] # w[j]
  <2>1. CASE i \in 1..Len(s) /\ j \in 1..Len(s) /\ w[i] = s[i] /\ w[j] = s[j]
    BY <1>3, <2>1 DEF Distinct
  <2>2. CASE /\ i - Len(s) \in 1..Len(es) /\ j - Len(s) \in 1..Len(es)
             /\ w[i] = es[i - Len(s)] /\ w[j] = es[j - Len(s)]
    <3>1. i - Len(s) # j - Len(s)
      BY <1>1, <1>3
    <3> QED BY <2>2, <3>1 DEF Distinct
  <2>3. CASE w[i] \in Elements(s) /\ w[j] \in Elements(es)
    BY <2>3
  <2>4. CASE w[j] \in Elements(s) /\ w[i] \in Elements(es)
    BY <2>4
  <2> QED BY <1>2, <2>1, <2>2, <2>3, <2>4
<1>4. Distinct(w)
  BY <1>3 DEF Distinct
<1> QED BY <1>4 DEF w

LEMMA ElementsAppend ==
  ASSUME NEW s \in Seq(Nat), NEW es \in Seq(Nat)
  PROVE  Elements(s \o es) = Elements(s) \cup Elements(es)
<1> DEFINE w == s \o es
<1>1. /\ Len(w) = Len(s) + Len(es) /\ Len(s) \in Nat /\ Len(es) \in Nat
      /\ \A i \in 1..Len(w) : w[i] = IF i <= Len(s) THEN s[i] ELSE es[i - Len(s)]
  OBVIOUS
<1> HIDE DEF w
<1>2. ASSUME NEW i \in 1..Len(w) PROVE w[i] \in Elements(s) \cup Elements(es)
  <2>1. CASE i <= Len(s)
    BY <1>1, <2>1 DEF Elements
  <2>2. CASE ~(i <= Len(s))
    <3>1. i - Len(s) \in 1..Len(es) /\ w[i] = es[i - Len(s)]
      BY <1>1, <2>2
    <3> QED BY <3>1 DEF Elements
  <2> QED BY <2>1, <2>2
<1>3. ASSUME NEW i \in 1..Len(s) PROVE s[i] \in Elements(w)
  <2>1. i \in 1..Len(w) /\ w[i] = s[i]
    BY <1>1
  <2> QED BY <2>1 DEF Elements
<1>4. ASSUME NEW i \in 1..Len(es) PROVE es[i] \in Elements(w)
  <2>1. Len(s) + i \in 1..Len(w) /\ ~(Len(s) + i <= Len(s)) /\ (Len(s) + i) - Len(s) = i
    BY <1>1
  <2>2. w[Len(s) + i] = es[i]
    BY <1>1, <2>1
  <2> QED BY <2>1, <2>2 DEF Elements
<1>5. Elements(w) = Elements(s) \cup Elements(es)
  <2>1. Elements(w) \subseteq Elements(s) \cup Elements(es)
    BY <1>2 DEF Elements
  <2>2. Elements(s) \subseteq Elements(w)
    BY <1>3 DEF Elements
  <2>3. Elements(es) \subseteq Elements(w)
    BY <1>4 DEF Elements
  <2> QED BY <2>1, <2>2, <2>3
<1> QED BY <1>5 DEF w

(* What quarantine() takes for new is not in the file. *)
LEMMA NewFailedIs ==
  ASSUME FailedInv, pc = "idle", ~failedWriteFault, NEW n \in Nat
  PROVE  NewFailed(n) = Refused(n) \ Elements(disk.failed.lines)
<1> DEFINE lines == disk.failed.lines
<1>1. lines \in Seq(Nat) /\ Distinct(lines)
  BY FailedFacts DEF FailedInv, FailedDistinct
<1>2. /\ failedEventIds \subseteq Elements(lines) /\ Len(lines) \in Nat
      /\ failedUniqueCount = Len(lines)
  <2>1. /\ failedEventIds \subseteq Elements(lines)
        /\ failedUniqueCount + 0 = Len(lines)
    BY DEF FailedInv, FailedKnown, CallPcs
  <2> QED BY <1>1, <2>1 DEF FailedInv, FailedTypeOK
<1>3. IsFiniteSet(Elements(lines)) /\ failedUniqueCount = Cardinality(Elements(lines))
  BY <1>1, <1>2, DistinctCount
<1>4. \A id : HasFailedId(failedEventIds, failedUniqueCount, lines, id) <=> id \in Elements(lines)
  <2> HIDE DEF lines
  <2> QED BY <1>1, <1>2, <1>3, KnownIsExact
<1> QED BY <1>4 DEF NewFailed

(* The lines quarantine() writes, or the first of them. *)
LEMMA NewLines ==
  ASSUME FailedInv, pc = "idle", ~failedWriteFault, NEW n \in Nat, n <= Len(pending),
         NEW new \in InOrder(NewFailed(n), n), NEW k \in 0..Len(new)
  PROVE  LET es == SubSeq(new, 1, k)
             f == Written(disk.failed, es)
         IN  /\ new \in Seq(Nat) /\ es \in Seq(Nat) /\ f \in File
             /\ f.lines = disk.failed.lines \o es /\ f.torn = FALSE
             /\ Distinct(f.lines)
             /\ Elements(f.lines) = Elements(disk.failed.lines) \cup Elements(es)
<1> DEFINE es == SubSeq(new, 1, k)
           f == Written(disk.failed, es)
           lines == disk.failed.lines
<1>0. JournalTypeOK /\ disk.failed \in File /\ lines \in Seq(Nat) /\ Distinct(lines)
  BY FailedFacts DEF FailedInv, FailedDistinct
<1>1. new \in Seq(Nat)
  BY <1>0, InOrderType
<1>2. es \in Seq(Nat) /\ Len(es) = k /\ \A i \in 1..k : es[i] = new[i]
  BY <1>1
<1>3. ~disk.failed.torn
  BY DEF FailedInv, FailedWhole, CallPcs
<1>4. /\ Elements(new) = NewFailed(n)
      /\ \A i, j \in 1..Len(new) : i < j => new[i] < new[j]
  BY <1>1 DEF InOrder
<1> HIDE DEF es
<1>5. f \in File /\ f.lines = lines \o es /\ f.torn = FALSE
  <2>1. f = FileOf(lines \o es, disk.failed.synced, disk.failed.torn, TRUE)
    BY <1>3 DEF Written
  <2>2. disk.failed.torn = FALSE
    BY <1>0, <1>3, FileFields
  <2> QED BY <1>0, <1>2, <2>1, <2>2, WrittenType DEF FileOf
<1>6. Distinct(es)
  <2>1. 1..k \subseteq 1..Len(new)
    BY <1>1
  <2>2. \A i, j \in 1..Len(new) : i # j => new[i] # new[j]
    BY <1>1, <1>4
  <2> QED BY <1>2, <2>1, <2>2 DEF Distinct
<1>7. \A e \in Elements(es) : e \notin Elements(lines)
  <2>1. Elements(es) \subseteq Elements(new)
    BY <1>1, <1>2 DEF Elements
  <2> QED BY <1>4, <2>1, NewFailedIs
<1> HIDE DEF f, lines
<1>8. Distinct(f.lines) /\ Elements(f.lines) = Elements(lines) \cup Elements(es)
  BY <1>0, <1>2, <1>5, <1>6, <1>7, DistinctAppend, ElementsAppend
<1> QED BY <1>1, <1>2, <1>5, <1>8 DEF f, es, lines

LEMMA FailedQuarantine ==
  ASSUME FailedInv, IInv',
         NEW n \in 1..MaxEvents, QuarantineKnown(n) \/ QuarantineWrite(n)
  PROVE  FailedKeeps
<1> USE DEF FailedInv
<1>0. /\ JournalTypeOK /\ disk \in hist /\ disk.failed \in File /\ disk.failed.lines \in Seq(Nat)
      /\ n \in Nat
  BY FailedFacts, OutboxAssumption DEF OutboxAssumption
<1>1. /\ pc = "idle" /\ ~failedWriteFault /\ n <= Len(pending) /\ Handle(n)
      /\ failedEventIds' = failedEventIds /\ failedUniqueCount' = failedUniqueCount
      /\ failedWriteFault' = failedWriteFault /\ settled' = settled
      /\ kills' = kills /\ powerLosses' = powerLosses
  BY DEF QuarantineKnown, QuarantineWrite, Goto, ghosts, faults
<1>2. NewFailed(n) = Refused(n) \ Elements(disk.failed.lines)
  BY <1>0, <1>1, NewFailedIs
<1>3. FailedTypeOK'
  <2>1. handled' \subseteq Rejected
    BY <1>1 DEF Handle, Refused, FailedTypeOK
  <2> QED BY <1>1, <2>1 DEF FailedTypeOK
<1>4. CASE QuarantineKnown(n)
  <2>1. disk' = disk /\ hist' = hist /\ pc' = pc /\ NewFailed(n) = {} /\ inflight' = inflight
    BY <1>4 DEF QuarantineKnown
  <2>2. FailedDistinct'
    BY <2>1 DEF FailedDistinct
  <2>3. FailedWhole'
    BY <1>1, <2>1 DEF FailedWhole
  <2>4. FailedKnown'
    BY <1>1, <2>1 DEF FailedKnown
  <2>5. HandledAreKept => HandledAreKept'
    BY <1>1, <1>2, <2>1 DEF HandledAreKept, Handle
  <2> QED BY <1>3, <2>2, <2>3, <2>4, <2>5 DEF FailedKeeps
<1>5. CASE QuarantineWrite(n)
  <2>1. PICK new \in InOrder(NewFailed(n), n) :
           inflight' = new /\ WriteFailed(Written(disk.failed, new))
    BY <1>5 DEF QuarantineWrite
  <2>2. pc' = "quarantine_fsync" /\ pc' \in CallPcs
    BY <1>5 DEF QuarantineWrite, Goto, CallPcs
  <2>3. new \in Seq(Nat)
    BY <1>0, <1>1, <2>1, InOrderType
  <2>4. SubSeq(new, 1, Len(new)) = new /\ Len(new) \in 0..Len(new)
    BY <2>3
  <2> DEFINE f == Written(disk.failed, new)
             lines == disk.failed.lines
  <2>5. /\ f \in File /\ f.lines = lines \o new /\ f.torn = FALSE /\ Distinct(f.lines)
        /\ Elements(f.lines) = Elements(lines) \cup Elements(new)
    BY <1>0, <1>1, <2>1, <2>4, NewLines
  <2>6. Elements(new) = NewFailed(n)
    BY <2>1 DEF InOrder
  <2>7. Len(f.lines) = Len(lines) + Len(new) /\ Len(lines) \in Nat
    BY <1>0, <2>3, <2>5
  <2> HIDE DEF f
  <2>8. disk'.failed = f /\ FailedDistinct'
    BY <2>1, <2>5, WriteFailedDistinct DEF f
  <2>9. FailedWhole'
    BY <2>5, <2>8 DEF FailedWhole
  <2>10. failedEventIds \subseteq Elements(lines) /\ failedUniqueCount + 0 = Len(lines)
    BY <1>1 DEF FailedKnown, CallPcs
  <2>11. failedUniqueCount + Len(new) = Len(f.lines)
    BY <2>7, <2>10 DEF FailedTypeOK
  <2>12. FailedKnown'
    BY <1>1, <2>1, <2>2, <2>5, <2>8, <2>10, <2>11 DEF FailedKnown
  <2>13. HandledAreKept => HandledAreKept'
    BY <1>1, <1>2, <2>5, <2>6, <2>8 DEF HandledAreKept, Handle
  <2> QED BY <1>3, <2>8, <2>9, <2>12, <2>13 DEF FailedKeeps
<1> QED BY <1>4, <1>5

LEMMA FailedQuarantineFails ==
  ASSUME FailedInv, IInv', NEW n \in 1..MaxEvents, NEW k \in 0..MaxEvents, NEW t \in BOOLEAN,
         QuarantineFails(n, k, t)
  PROVE  FailedKeeps
<1> USE DEF FailedInv
<1>0. JournalTypeOK /\ disk.failed \in File /\ n \in Nat
  BY FailedFacts, OutboxAssumption DEF OutboxAssumption
<1>1. /\ pc = "idle" /\ ~failedWriteFault /\ n <= Len(pending) /\ handled' = handled
      /\ failedEventIds' = failedEventIds /\ failedUniqueCount' = failedUniqueCount
      /\ failedWriteFault' = TRUE /\ settled' = settled
      /\ kills' = kills /\ powerLosses' = powerLosses
  BY DEF QuarantineFails, ghosts, faults
<1>2. PICK new \in InOrder(NewFailed(n), n) :
         /\ k <= Len(new)
         /\ LET f == Written(disk.failed, SubSeq(new, 1, k))
            IN  WriteFailed(IF t /\ k < Len(new) THEN TornAfter(f) ELSE f)
  BY DEF QuarantineFails
<1>3. k \in 0..Len(new)
  <2>1. new \in Seq(Nat)
    BY <1>0, <1>1, InOrderType
  <2> QED BY <1>2, <2>1
<1> DEFINE f == Written(disk.failed, SubSeq(new, 1, k))
           g == IF t /\ k < Len(new) THEN TornAfter(f) ELSE f
<1>4. /\ f \in File /\ Distinct(f.lines)
      /\ Elements(disk.failed.lines) \subseteq Elements(f.lines)
  BY <1>0, <1>1, <1>3, NewLines
<1>5. WriteFailed(g)
  BY <1>2
<1>6. g \in File /\ g.lines = f.lines
  <2>1. TornAfter(f) \in File /\ TornAfter(f).lines = f.lines
    BY <1>4, FileOpsType DEF TornAfter, FileOf
  <2> HIDE DEF f
  <2> QED BY <1>4, <2>1
<1> HIDE DEF f, g
<1>7. disk'.failed = g /\ FailedDistinct'
  BY <1>4, <1>5, <1>6, WriteFailedDistinct
<1>8. FailedTypeOK'
  BY <1>1, Zenon DEF FailedTypeOK
<1>9. FailedWhole' /\ FailedKnown'
  BY <1>1 DEF FailedWhole, FailedKnown
<1>10. HandledAreKept => HandledAreKept'
  BY <1>1, <1>4, <1>6, <1>7 DEF HandledAreKept
<1> QED BY <1>7, <1>8, <1>9, <1>10 DEF FailedKeeps

LEMMA FailedQuarantineDone ==
  ASSUME FailedInv, IInv', QuarantineDone
  PROVE  FailedKeeps
<1> USE DEF FailedInv
<1>0. /\ JournalTypeOK /\ disk \in hist /\ disk.failed \in File
      /\ Distinct(disk.failed.lines) /\ inflight \in Seq(Nat)
  BY FailedFacts DEF FailedDistinct, IInv, JournalTypeOK
<1> DEFINE room == CacheLimit - Cardinality(failedEventIds)
           added == {inflight[i] : i \in {j \in 1..Len(inflight) : j <= room}}
<1>1. /\ pc = "quarantine_fsync" /\ pc' = "idle"
      /\ disk' = [disk EXCEPT !.failed = Fsynced(@)] /\ hist' = {disk'}
      /\ failedEventIds' = failedEventIds \cup added
      /\ failedUniqueCount' = failedUniqueCount + Len(inflight)
      /\ failedWriteFault' = failedWriteFault /\ handled' = handled /\ settled' = settled
      /\ kills' = kills /\ powerLosses' = powerLosses
  BY DEF QuarantineDone, Goto, ghosts, faults
<1>2. added \subseteq Elements(inflight)
  BY DEF Elements
<1> HIDE DEF added
<1>3. /\ Fsynced(disk.failed) \in File /\ Fsynced(disk.failed).lines = disk.failed.lines
      /\ Fsynced(disk.failed).torn = disk.failed.torn
  BY <1>0, FileOpsType, FsyncedFields
<1>4. disk'.failed = Fsynced(disk.failed) /\ FailedDistinct'
  BY <1>0, <1>1, <1>3, WriteFailedDistinct
<1>5. FailedTypeOK'
  <2>1. Elements(inflight) \subseteq Nat /\ Len(inflight) \in Nat
    BY <1>0, ElementsType
  <2>2. failedEventIds' \subseteq Nat /\ failedUniqueCount' \in Nat
    BY <1>1, <1>2, <2>1 DEF FailedTypeOK
  <2> QED BY <1>1, <2>2 DEF FailedTypeOK
<1>6. FailedWhole'
  BY <1>1, <1>3, <1>4 DEF FailedWhole, CallPcs
<1>7. FailedKnown'
  <2>1. CASE ~failedWriteFault
    <3>1. /\ failedEventIds \cup Elements(inflight) \subseteq Elements(disk.failed.lines)
          /\ failedUniqueCount + Len(inflight) = Len(disk.failed.lines)
      BY <1>1, <2>1 DEF FailedKnown, CallPcs
    <3>2. failedUniqueCount' + 0 = Len(disk.failed.lines)
      BY <1>1, <3>1 DEF FailedTypeOK
    <3> QED BY <1>1, <1>2, <1>3, <1>4, <3>1, <3>2 DEF FailedKnown
  <2>2. CASE failedWriteFault
    BY <1>1, <2>2 DEF FailedKnown
  <2> QED BY <2>1, <2>2
<1>8. HandledAreKept => HandledAreKept'
  BY <1>1, <1>3, <1>4 DEF HandledAreKept
<1> QED BY <1>4, <1>5, <1>6, <1>7, <1>8 DEF FailedKeeps
-----------------------------------------------------------------------------
LEMMA FailedInit == Init => FailedInv /\ HandledAreKept
<1> SUFFICES ASSUME Init
             PROVE  FailedInv /\ HandledAreKept
  OBVIOUS
<1>1. IInv
  BY InvariantInit
<1>2. /\ disk = EmptyDir /\ hist = {EmptyDir} /\ pc = "down" /\ failedEventIds = {}
      /\ failedUniqueCount = 0 /\ failedWriteFault = FALSE /\ handled = {} /\ settled = {}
      /\ kills = 0 /\ powerLosses = 0
  BY DEF Init
<1>3. EmptyDir.failed.lines = <<>>
  BY DEF EmptyDir, NoFile
<1>4. FailedTypeOK
  <2>1. 0 \in 0..MaxKills /\ 0 \in 0..MaxPowerLosses
    BY OutboxAssumption DEF OutboxAssumption
  <2> QED BY <1>2, <2>1, Zenon DEF FailedTypeOK
<1>5. FailedDistinct /\ FailedWhole /\ FailedKnown /\ HandledAreKept
  BY <1>2, <1>3 DEF FailedDistinct, Distinct, FailedWhole, FailedKnown, HandledAreKept, CallPcs
<1> QED BY <1>1, <1>4, <1>5 DEF FailedInv

LEMMA FailedStep ==
  ASSUME FailedInv, [Next]_vars
  PROVE  FailedKeeps
<1>0. IInv'
  BY InvariantStep DEF FailedInv
<1>1. CASE OpenStep
  BY <1>0, <1>1, FailedRecover, FailedTail, FailedLoad, FailedCalls DEF OpenStep
<1>2. CASE CallStep
  BY <1>0, <1>2, FailedCalls, FailedQuarantineDone DEF CallStep
<1>3. CASE Call
  BY <1>0, <1>3, FailedCalls, FailedQuarantine, FailedQuarantineFails, FailedEnds DEF Call
<1>4. CASE Crash
  BY <1>0, <1>4, FailedEnds, FailedPowerLoss DEF Crash
<1>5. CASE UNCHANGED vars
  <2>1. /\ disk' = disk /\ hist' = hist /\ pc' = pc /\ inflight' = inflight
        /\ settled' = settled /\ UNCHANGED fmem /\ UNCHANGED faults
    BY <1>5 DEF vars, ghosts
  <2> QED BY <1>0, <2>1 DEF FailedKeeps, FailedInv, FailedTypeOK, FailedDistinct, FailedWhole,
                            FailedKnown, HandledAreKept, fmem, faults
<1> QED BY <1>1, <1>2, <1>3, <1>4, <1>5 DEF Next

(***************************************************************************)
(* failed.jsonl has every event at most once, through torn and failing     *)
(* writes, kills, power losses and an overflowing id cache, for every      *)
(* cache limit; failedCount is the number of its lines.                    *)
(***************************************************************************)
THEOREM RefusedOnce == Spec => []FailedOnce
<1>1. FailedInv => FailedOnce
  <2> SUFFICES ASSUME FailedInv PROVE FailedOnce
    OBVIOUS
  <2>1. Distinct(disk.failed.lines)
    BY FailedFacts DEF FailedInv, FailedDistinct
  <2>2. ASSUME pc = "idle", ~failedWriteFault PROVE failedUniqueCount = Len(disk.failed.lines)
    <3>1. failedUniqueCount + 0 = Len(disk.failed.lines)
      BY <2>2 DEF FailedInv, FailedKnown, CallPcs
    <3> QED BY <3>1 DEF FailedInv, FailedTypeOK
  <2> QED BY <2>1, <2>2 DEF FailedOnce, Distinct
<1>2. FailedInv /\ [Next]_vars => FailedInv'
  BY FailedStep DEF FailedKeeps
<1> QED BY <1>1, <1>2, FailedInit, PTL DEF Spec

(***************************************************************************)
(* A refused event confirm() was called for is in failed.jsonl for good,   *)
(* as long as only processes die, and not the machine.                     *)
(***************************************************************************)
THEOREM RefusedStay ==
  ASSUME MaxPowerLosses = 0
  PROVE  Spec => []RefusedAreKept
<1>1. FailedInv /\ HandledAreKept /\ [Next]_vars => (FailedInv /\ HandledAreKept)'
  <2> SUFFICES ASSUME FailedInv, HandledAreKept, [Next]_vars
               PROVE  FailedInv' /\ HandledAreKept'
    OBVIOUS
  <2>1. FailedKeeps
    BY FailedStep
  <2>2. powerLosses' = powerLosses
    BY <2>1 DEF FailedKeeps, FailedInv, FailedTypeOK
  <2> QED BY <2>1, <2>2 DEF FailedKeeps
<1>2. HandledAreKept => RefusedAreKept
  BY DEF HandledAreKept, RefusedAreKept
<1> QED BY <1>1, <1>2, FailedInit, PTL DEF Spec

(* Every variable of the outbox keeps its type. *)
THEOREM OutboxTypeCorrect == Spec => []TypeOK
<1>1. FailedInv => TypeOK
  BY DEF FailedInv, IInv, FailedTypeOK, TypeOK
<1>2. FailedInv /\ [Next]_vars => FailedInv'
  BY FailedStep DEF FailedKeeps
<1> QED BY <1>1, <1>2, FailedInit, PTL DEF Spec
=============================================================================
