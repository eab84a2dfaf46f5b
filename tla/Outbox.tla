------------------------------- MODULE Outbox -------------------------------
(***************************************************************************)
(* The sender's durable outbox (sender/src/outbox.ts): an append-only      *)
(* journal outbox.jsonl, an atomically replaced checkpoint.json, the       *)
(* quarantine journal failed.jsonl, and a compaction that swaps in a       *)
(* shorter journal under the protection of a manifest.                     *)
(*                                                                         *)
(* Every system call after which the machine may stop is a step.  A step   *)
(* that renames or unlinks is followed by fsyncDirectory() in the code;    *)
(* the model performs that fsync at the start of the NEXT step, so that a  *)
(* crash between the two falls between the steps.                          *)
(*                                                                         *)
(* Events are numbered in the order they are generated (their ids are      *)
(* random UUIDs, never reused).  A line of a journal is an event, and      *)
(* offsets count lines: with lines of one size every offset up to the end  *)
(* of the file is a line boundary, so no boundary check can mask a stale   *)
(* checkpoint.                                                             *)
(***************************************************************************)
EXTENDS Integers, Sequences, FiniteSets

CONSTANTS
    MaxEvents,         \* events the generator may produce
    MaxAppend,         \* largest appendMany() call
    Rejected,          \* events the receiver refuses for good
    CompactThreshold,  \* COMPACT_THRESHOLD_BYTES, in lines
    CacheLimit,        \* failedIdCacheLimit
    MaxKills,          \* process deaths (SIGKILL, uncaught exception)
    MaxPowerLosses     \* machine deaths: the page cache is lost too

ASSUME OutboxAssumption ==
    /\ MaxEvents \in Nat
    /\ MaxAppend \in Nat \ {0}
    /\ Rejected \subseteq Nat
    /\ CompactThreshold \in Nat \ {0}
    /\ CacheLimit \in Nat
    /\ MaxKills \in Nat
    /\ MaxPowerLosses \in Nat

VARIABLES
    disk,   \* the directory as a running process sees it
    hist,   \* the directories a power loss may leave: the ones since fsyncDirectory
    pc,     \* where the process is; "down" when there is none
    inflight,                   \* events of the append or quarantine under way
    pending, checkpointOffset, journalBaseCount, confirmedSinceCompaction,
    journalEntryCount,          \* the journal's state in memory
    failedEventIds, failedUniqueCount, failedWriteFault,  \* the failed journal's
    handled,    \* rejected events given to a quarantine() of this process that did not throw
    generated,  \* ghost: events handed to appendMany()
    recorded,   \* ghost: events an appendMany() that returned was given
    settled,    \* ghost: events confirm() was called for
    journaled,  \* ghost: events whose line reached the journal and was not lost again
    kills, powerLosses

jmem == <<pending, checkpointOffset, journalBaseCount, confirmedSinceCompaction,
          journalEntryCount>>
fmem == <<failedEventIds, failedUniqueCount, failedWriteFault, handled>>
ghosts == <<generated, recorded, settled, journaled>>
faults == <<kills, powerLosses>>
vars == <<disk, hist, pc, inflight, jmem, fmem, ghosts, faults>>
-----------------------------------------------------------------------------
(***************************************************************************)
(* Files.  lines is what a reader sees, torn an incomplete last line after *)
(* it; the first synced lines survive a power loss, and dirty says that    *)
(* something of the file is not known to be on the medium.  The line 0 is  *)
(* what an append after a torn tail leaves: a complete line that is no     *)
(* JSON.                                                                   *)
(***************************************************************************)
Garbage == 0
Line == Nat

NoFile == [exists |-> FALSE, lines |-> <<>>, synced |-> 0, torn |-> FALSE,
           dirty |-> FALSE]
FileOf(ls, synced, torn, dirty) ==
    [exists |-> TRUE, lines |-> ls, synced |-> synced, torn |-> torn, dirty |-> dirty]
EmptyFile == FileOf(<<>>, 0, FALSE, FALSE)

(* writeAll(): the first line written after a torn tail merges with it. *)
Written(f, es) ==
    IF f.torn /\ es # <<>>
    THEN FileOf(f.lines \o <<Garbage>> \o Tail(es), f.synced, FALSE, TRUE)
    ELSE FileOf(f.lines \o es, f.synced, f.torn, TRUE)
TornAfter(f) == FileOf(f.lines, f.synced, TRUE, TRUE)
Fsynced(f) == FileOf(f.lines, Len(f.lines), f.torn, FALSE)
Truncated(f) == FileOf(f.lines, f.synced, FALSE, TRUE)

(* What a power loss may leave of a file: a cut after line k, with or       *)
(* without a part of the next line, unless all of it was on the medium.     *)
Cut(f, k, torn) == FileOf(SubSeq(f.lines, 1, k), k, torn, FALSE)
Survivors(f) ==
    IF f.dirty
    THEN {Cut(f, k, FALSE) : k \in f.synced..Len(f.lines)}
             \cup {Cut(f, k, TRUE) : k \in f.synced..Len(f.lines)}
    ELSE {f}

(***************************************************************************)
(* The directory.  checkpoint.json and compaction.json are replaced        *)
(* atomically (tmp, fsync, rename), so they are values; a missing          *)
(* checkpoint reads as all zeros.                                          *)
(***************************************************************************)
ZeroCheckpoint == [offset |-> 0, base |-> 0, confirmed |-> 0]
NoManifest == [exists |-> FALSE, checkpoint |-> ZeroCheckpoint]
EmptyDir == [journal |-> NoFile, failed |-> NoFile, compact |-> NoFile,
             checkpoint |-> ZeroCheckpoint, manifest |-> NoManifest]

PowerLossImages(d) ==
    {[journal |-> j, failed |-> f, compact |-> c, checkpoint |-> d.checkpoint,
      manifest |-> d.manifest] :
        j \in Survivors(d.journal), f \in Survivors(d.failed), c \in Survivors(d.compact)}

(* A directory operation: durable only once the directory is fsynced. *)
DirOp(d) == disk' = d /\ hist' = hist \cup {d}
(* fsyncDirectory() of the previous operation, alone or followed by the next. *)
SyncDir == disk' = disk /\ hist' = {disk}
SyncDirThen(d) == disk' = d /\ hist' = {disk, d}
(* A write to the open journal reaches every directory that names it. *)
WriteJournal(f) ==
    /\ disk' = [disk EXCEPT !.journal = f]
    /\ hist' = {[d EXCEPT !.journal = IF @.exists THEN f ELSE @] : d \in hist}
(* A write to failed.jsonl, created by the first open. *)
FailedImages(f) ==
    {[d EXCEPT !.failed = IF @.exists THEN f ELSE @] : d \in hist}
WriteFailed(f) ==
    /\ disk' = [disk EXCEPT !.failed = f]
    /\ hist' = FailedImages(f) \cup {[disk EXCEPT !.failed = f]}

Goto(from, to) == pc = from /\ pc' = to
-----------------------------------------------------------------------------
(***************************************************************************)
(* What open() makes of a directory.                                       *)
(***************************************************************************)
(* The offset open() resumes from: a checkpoint past the end of the journal *)
(* is not trusted, everything in the journal is sent again.                 *)
ResumeOffset(ckpt, lines) == IF ckpt.offset > Len(lines) THEN 0 ELSE ckpt.offset

RecoveredJournal(d) ==
    IF d.manifest.exists /\ d.compact.exists THEN d.compact ELSE d.journal
RecoveredCheckpoint(d) ==
    IF d.manifest.exists THEN d.manifest.checkpoint ELSE d.checkpoint
RecoveredQueue(d) ==
    LET lines == RecoveredJournal(d).lines
    IN  SubSeq(lines, ResumeOffset(RecoveredCheckpoint(d), lines) + 1, Len(lines))
Elements(s) == {s[i] : i \in 1..Len(s)}

-----------------------------------------------------------------------------
(***************************************************************************)
(* recoverCompaction().                                                    *)
(***************************************************************************)
RecoverNoManifest ==
    /\ Goto("down", "tail_journal")
    /\ ~disk.manifest.exists
    /\ DirOp([disk EXCEPT !.compact = NoFile])
    /\ UNCHANGED <<inflight, jmem, fmem, ghosts, faults>>

RecoverRename ==
    /\ Goto("down", "recover_sync")
    /\ disk.manifest.exists
    /\ disk.compact.exists
    /\ DirOp([disk EXCEPT !.journal = disk.compact, !.compact = NoFile])
    /\ UNCHANGED <<inflight, jmem, fmem, ghosts, faults>>

RecoverSync ==
    /\ Goto("recover_sync", "recover_checkpoint")
    /\ SyncDir
    /\ UNCHANGED <<inflight, jmem, fmem, ghosts, faults>>

(* Faulty variant: a manifest without a compact file is only removed. *)
RecoverCheckpointSkipped ==
    /\ \/ Goto("recover_checkpoint", "recover_unlink")
       \/ /\ Goto("down", "recover_unlink")
          /\ disk.manifest.exists
          /\ ~disk.compact.exists
    /\ UNCHANGED <<disk, hist, inflight, jmem, fmem, ghosts, faults>>

RecoverCheckpoint ==
    /\ \/ Goto("recover_checkpoint", "recover_unlink")
       \/ /\ Goto("down", "recover_unlink")
          /\ disk.manifest.exists
          /\ ~disk.compact.exists
    /\ DirOp([disk EXCEPT !.checkpoint = disk.manifest.checkpoint])
    /\ UNCHANGED <<inflight, jmem, fmem, ghosts, faults>>

RecoverUnlink ==
    /\ Goto("recover_unlink", "recover_unlinked")
    /\ SyncDirThen([disk EXCEPT !.manifest = NoManifest])
    /\ UNCHANGED <<inflight, jmem, fmem, ghosts, faults>>

RecoverDone ==
    /\ Goto("recover_unlinked", "tail_journal")
    /\ SyncDir
    /\ UNCHANGED <<inflight, jmem, fmem, ghosts, faults>>

(***************************************************************************)
(* truncateIncompleteTail() of the two journals: ftruncate, then fsync of  *)
(* the file and the directory; nothing when the file ends in a newline.    *)
(***************************************************************************)
(* Faulty variant: the incomplete line is only ignored in memory. *)
TailJournalIgnored ==
    /\ Goto("tail_journal", "tail_failed")
    /\ UNCHANGED <<disk, hist, inflight, jmem, fmem, ghosts, faults>>

TailJournal ==
    /\ pc = "tail_journal"
    /\ IF disk.journal.torn
       THEN pc' = "tail_journal_sync" /\ WriteJournal(Truncated(disk.journal))
       ELSE pc' = "tail_failed" /\ UNCHANGED <<disk, hist>>
    /\ UNCHANGED <<inflight, jmem, fmem, ghosts, faults>>

TailJournalSync ==
    /\ Goto("tail_journal_sync", "tail_failed")
    /\ disk' = [disk EXCEPT !.journal = Fsynced(@)]
    /\ hist' = {disk'}
    /\ UNCHANGED <<inflight, jmem, fmem, ghosts, faults>>

TailFailed ==
    /\ pc = "tail_failed"
    /\ IF disk.failed.torn
       THEN pc' = "tail_failed_sync" /\ WriteFailed(Truncated(disk.failed))
       ELSE pc' = "load" /\ UNCHANGED <<disk, hist>>
    /\ UNCHANGED <<inflight, jmem, fmem, ghosts, faults>>

TailFailedSync ==
    /\ Goto("tail_failed_sync", "load")
    /\ disk' = [disk EXCEPT !.failed = Fsynced(@)]
    /\ hist' = {disk'}
    /\ UNCHANGED <<inflight, jmem, fmem, ghosts, faults>>

(***************************************************************************)
(* The rest of the constructor.                                            *)
(***************************************************************************)
(* Faulty variant: the cache alone decides. *)
HasFailedIdCached(cache, count, scanned, id) == id \in cache

(* hasFailedId(): the cache, then a scan of the lines if ids overflowed it. *)
HasFailedId(cache, count, scanned, id) ==
    \/ id \in cache
    \/ count > Cardinality(cache) /\ \E i \in 1..Len(scanned) : scanned[i] = id

(* cacheFailedId() *)
Cached(cache, id) == IF Cardinality(cache) < CacheLimit THEN cache \cup {id} ELSE cache

(* loadFailedEventIds(): each line is looked up among the lines before it. *)
LoadFailedEventIds(lines) ==
    LET load[i \in 0..Len(lines)] ==
          IF i = 0 THEN [cache |-> {}, count |-> 0]
          ELSE LET s == load[i - 1]
               IN  IF HasFailedId(s.cache, s.count, SubSeq(lines, 1, i - 1), lines[i]) THEN s
                   ELSE [cache |-> Cached(s.cache, lines[i]), count |-> s.count + 1]
    IN  load[Len(lines)]

HasGarbage(f) == \E i \in 1..Len(f.lines) : f.lines[i] = Garbage

(* Faulty variant: the confirmed count of the checkpoint is believed. *)
LoadStateTrusting ==
    LET lines == disk.journal.lines
        off == ResumeOffset(disk.checkpoint, lines)
        failed == LoadFailedEventIds(disk.failed.lines)
    IN  /\ pc' = "open_journal"
        /\ pending' = SubSeq(lines, off + 1, Len(lines))
        /\ checkpointOffset' = off
        /\ journalBaseCount' = disk.checkpoint.base
        /\ confirmedSinceCompaction' = disk.checkpoint.confirmed
        /\ journalEntryCount' = Len(lines)
        /\ failedEventIds' = failed.cache
        /\ failedUniqueCount' = failed.count
        /\ DirOp([disk EXCEPT !.checkpoint.offset = off])

LoadState ==
    LET lines == disk.journal.lines
        off == ResumeOffset(disk.checkpoint, lines)
        failed == LoadFailedEventIds(disk.failed.lines)
    IN  /\ pc' = "open_journal"
        /\ pending' = SubSeq(lines, off + 1, Len(lines))
        /\ checkpointOffset' = off
        /\ journalBaseCount' = disk.checkpoint.base
        /\ confirmedSinceCompaction' = off    \* entries whose end <= offset
        /\ journalEntryCount' = Len(lines)
        /\ failedEventIds' = failed.cache
        /\ failedUniqueCount' = failed.count
        /\ DirOp([disk EXCEPT !.checkpoint =
                     [offset |-> off, base |-> disk.checkpoint.base, confirmed |-> off]])

(* loadJournal() and failedJournalIds() throw on a complete line that is    *)
(* not an event: the outbox refuses to start.                               *)
Load ==
    /\ pc = "load"
    /\ IF HasGarbage(disk.journal) \/ HasGarbage(disk.failed)
       THEN pc' = "refused" /\ UNCHANGED <<disk, hist, jmem, failedEventIds, failedUniqueCount>>
       ELSE LoadState
    /\ UNCHANGED <<inflight, failedWriteFault, handled, ghosts, faults>>

OpenJournal ==
    /\ pc = "open_journal"
    /\ IF disk.journal.exists
       THEN pc' = "idle" /\ SyncDir
       ELSE pc' = "open_sync" /\ SyncDirThen([disk EXCEPT !.journal = EmptyFile])
    /\ UNCHANGED <<inflight, jmem, fmem, ghosts, faults>>

OpenSync ==
    /\ Goto("open_sync", "idle")
    /\ SyncDir
    /\ UNCHANGED <<inflight, jmem, fmem, ghosts, faults>>
-----------------------------------------------------------------------------
(***************************************************************************)
(* appendMany(): write, fsync, and only then the events count as recorded. *)
(***************************************************************************)
NewEvents(n) == [i \in 1..n |-> generated + i]

AppendWrite(n) ==
    /\ Goto("idle", "append_fsync")
    /\ generated + n <= MaxEvents
    /\ generated' = generated + n
    /\ inflight' = NewEvents(n)
    /\ WriteJournal(Written(disk.journal, NewEvents(n)))
    /\ journaled' = journaled \cup Elements(NewEvents(n))
    /\ UNCHANGED <<jmem, fmem, recorded, settled, faults>>

AppendFsync ==
    /\ Goto("append_fsync", "idle")
    /\ WriteJournal(Fsynced(disk.journal))
    /\ pending' = pending \o inflight
    /\ journalEntryCount' = journalEntryCount + Len(inflight)
    /\ recorded' = recorded \cup Elements(inflight)
    /\ inflight' = <<>>
    /\ UNCHANGED <<checkpointOffset, journalBaseCount, confirmedSinceCompaction, fmem,
                   generated, settled, journaled, faults>>

(***************************************************************************)
(* confirm(count), with the compaction it may run.                         *)
(***************************************************************************)
(* Faulty variant: the batch is confirmed without its quarantine. *)
ConfirmUnquarantined(n) ==
    /\ Goto("idle", "confirm_sync")
    /\ n <= Len(pending)
    /\ pending' = SubSeq(pending, n + 1, Len(pending))
    /\ checkpointOffset' = checkpointOffset + n
    /\ confirmedSinceCompaction' = confirmedSinceCompaction + n
    /\ settled' = settled \cup {pending[i] : i \in 1..n}
    /\ DirOp([disk EXCEPT !.checkpoint =
                 [offset |-> checkpointOffset', base |-> journalBaseCount,
                  confirmed |-> confirmedSinceCompaction']])
    /\ UNCHANGED <<inflight, journalBaseCount, journalEntryCount, fmem, generated, recorded,
                   journaled, faults>>

Confirm(n) ==
    /\ Goto("idle", "confirm_sync")
    /\ n <= Len(pending)
    /\ \A i \in 1..n : pending[i] \in Rejected => pending[i] \in handled
    /\ pending' = SubSeq(pending, n + 1, Len(pending))
    /\ checkpointOffset' = checkpointOffset + n
    /\ confirmedSinceCompaction' = confirmedSinceCompaction + n
    /\ settled' = settled \cup {pending[i] : i \in 1..n}
    /\ DirOp([disk EXCEPT !.checkpoint =
                 [offset |-> checkpointOffset', base |-> journalBaseCount,
                  confirmed |-> confirmedSinceCompaction']])
    /\ UNCHANGED <<inflight, journalBaseCount, journalEntryCount, fmem, generated, recorded,
                   journaled, faults>>

ConfirmDone ==
    /\ Goto("confirm_sync", "idle")
    /\ checkpointOffset < CompactThreshold
    /\ SyncDir
    /\ UNCHANGED <<inflight, jmem, fmem, ghosts, faults>>

CompactWrite ==
    /\ Goto("confirm_sync", "compact_manifest")
    /\ checkpointOffset >= CompactThreshold
    /\ SyncDirThen([disk EXCEPT !.compact = Written(EmptyFile, pending)])
    /\ UNCHANGED <<inflight, jmem, fmem, ghosts, faults>>

(* Faulty variant: the base goes the wrong way. *)
NextStateSwapped == [offset |-> 0, base |-> journalBaseCount - confirmedSinceCompaction,
                     confirmed |-> 0]
NextState == [offset |-> 0, base |-> journalBaseCount + confirmedSinceCompaction,
              confirmed |-> 0]

(* Faulty variant: the manifest is written before the new journal is fsynced. *)
CompactManifestUnsynced ==
    /\ Goto("compact_manifest", "compact_rename")
    /\ DirOp([disk EXCEPT !.manifest = [exists |-> TRUE, checkpoint |-> NextState]])
    /\ UNCHANGED <<inflight, jmem, fmem, ghosts, faults>>

(* fsync of the new journal's file, then the manifest. *)
CompactManifest ==
    LET synced == [disk EXCEPT !.compact = Fsynced(@)]
        next == [synced EXCEPT !.manifest = [exists |-> TRUE, checkpoint |-> NextState]]
    IN  /\ Goto("compact_manifest", "compact_rename")
        /\ disk' = next
        /\ hist' = {[d EXCEPT !.compact = IF @.exists THEN Fsynced(disk.compact) ELSE @] :
                       d \in hist} \cup {next}
        /\ UNCHANGED <<inflight, jmem, fmem, ghosts, faults>>

CompactRename ==
    /\ Goto("compact_rename", "compact_checkpoint")
    /\ SyncDirThen([disk EXCEPT !.journal = disk.compact, !.compact = NoFile])
    /\ UNCHANGED <<inflight, jmem, fmem, ghosts, faults>>

CompactCheckpoint ==
    /\ Goto("compact_checkpoint", "compact_unlink")
    /\ SyncDirThen([disk EXCEPT !.checkpoint = NextState])
    /\ UNCHANGED <<inflight, jmem, fmem, ghosts, faults>>

CompactUnlink ==
    /\ Goto("compact_unlink", "compact_unlinked")
    /\ SyncDirThen([disk EXCEPT !.manifest = NoManifest])
    /\ UNCHANGED <<inflight, jmem, fmem, ghosts, faults>>

(* Faulty variant: the offset in memory is not reset. *)
CompactDoneStaleOffset ==
    /\ Goto("compact_unlinked", "idle")
    /\ SyncDir
    /\ journalBaseCount' = NextState.base
    /\ confirmedSinceCompaction' = 0
    /\ journalEntryCount' = Len(pending)
    /\ UNCHANGED <<inflight, pending, checkpointOffset, fmem, ghosts, faults>>

CompactDone ==
    /\ Goto("compact_unlinked", "idle")
    /\ SyncDir
    /\ checkpointOffset' = 0
    /\ journalBaseCount' = NextState.base
    /\ confirmedSinceCompaction' = 0
    /\ journalEntryCount' = Len(pending)
    /\ UNCHANGED <<inflight, pending, fmem, ghosts, faults>>

(***************************************************************************)
(* quarantine() of the refused events among the first n pending ones.      *)
(***************************************************************************)
Refused(n) == {pending[i] : i \in {j \in 1..n : pending[j] \in Rejected}}
NewFailed(n) ==
    {e \in Refused(n) :
        ~HasFailedId(failedEventIds, failedUniqueCount, disk.failed.lines, e)}
(* The events of a batch in its order, which is the order of generation. *)
InOrder(events, n) ==
    {s \in UNION {[1..m -> events] : m \in 0..n} :
        /\ Elements(s) = events
        /\ \A i, j \in DOMAIN s : i < j => s[i] < s[j]}

Handle(n) == handled' = handled \cup Refused(n)

(* Every event is already in failed.jsonl: returns 0 without writing. *)
QuarantineKnown(n) ==
    /\ pc = "idle"
    /\ ~failedWriteFault
    /\ n <= Len(pending)
    /\ NewFailed(n) = {}
    /\ Handle(n)
    /\ UNCHANGED <<disk, hist, pc, inflight, jmem, failedEventIds, failedUniqueCount,
                   failedWriteFault, ghosts, faults>>

QuarantineWrite(n) ==
    /\ Goto("idle", "quarantine_fsync")
    /\ ~failedWriteFault
    /\ n <= Len(pending)
    /\ NewFailed(n) # {}
    /\ \E new \in InOrder(NewFailed(n), n) :
          /\ inflight' = new
          /\ WriteFailed(Written(disk.failed, new))
    /\ Handle(n)
    /\ UNCHANGED <<jmem, failedEventIds, failedUniqueCount, failedWriteFault, ghosts, faults>>

(* fsync of the file and of the directory, then the cache and the count. *)
QuarantineDone ==
    /\ Goto("quarantine_fsync", "idle")
    /\ disk' = [disk EXCEPT !.failed = Fsynced(@)]
    /\ hist' = {disk'}
    /\ LET room == CacheLimit - Cardinality(failedEventIds)
       IN  /\ failedEventIds' = failedEventIds \cup
                  {inflight[i] : i \in {j \in 1..Len(inflight) : j <= room}}
           /\ failedUniqueCount' = failedUniqueCount + Len(inflight)
    /\ inflight' = <<>>
    /\ UNCHANGED <<jmem, failedWriteFault, handled, ghosts, faults>>

(* The write or the fsync fails after k lines and perhaps part of another. *)
QuarantineFails(n, k, t) ==
    /\ pc = "idle"
    /\ ~failedWriteFault
    /\ n <= Len(pending)
    /\ \E new \in InOrder(NewFailed(n), n) :
          LET f == Written(disk.failed, SubSeq(new, 1, k))
          IN  /\ k <= Len(new)
              /\ new # <<>>
              /\ WriteFailed(IF t /\ k < Len(new) THEN TornAfter(f) ELSE f)
    /\ failedWriteFault' = TRUE
    /\ UNCHANGED <<pc, inflight, jmem, failedEventIds, failedUniqueCount, handled, ghosts,
                   faults>>
-----------------------------------------------------------------------------
(***************************************************************************)
(* The end of a process.  Its memory is gone.                              *)
(***************************************************************************)
LoseMemory ==
    /\ pc' = "down"
    /\ inflight' = <<>>
    /\ pending' = <<>>
    /\ checkpointOffset' = 0
    /\ journalBaseCount' = 0
    /\ confirmedSinceCompaction' = 0
    /\ journalEntryCount' = 0
    /\ failedEventIds' = {}
    /\ failedUniqueCount' = 0
    /\ failedWriteFault' = FALSE
    /\ handled' = {}

(* close() *)
Close ==
    /\ pc = "idle"
    /\ LoseMemory
    /\ UNCHANGED <<disk, hist, ghosts, faults>>

Dies == kills < MaxKills /\ kills' = kills + 1 /\ UNCHANGED powerLosses

(* SIGKILL or an uncaught exception: the page cache survives. *)
Kill ==
    /\ pc \notin {"down", "refused"}
    /\ Dies
    /\ LoseMemory
    /\ UNCHANGED <<disk, hist, ghosts>>

(* The process dies inside writeAll() of an append: some of the lines, and  *)
(* perhaps part of the next one, are in the file.                           *)
KillInAppend(n, k, t) ==
    /\ pc = "idle"
    /\ generated + n <= MaxEvents
    /\ k < n
    /\ Dies
    /\ generated' = generated + n
    /\ LET f == Written(disk.journal, SubSeq(NewEvents(n), 1, k))
       IN  WriteJournal(IF t THEN TornAfter(f) ELSE f)
    /\ journaled' = journaled \cup Elements(SubSeq(NewEvents(n), 1, k))
    /\ LoseMemory
    /\ UNCHANGED <<recorded, settled>>

(* The machine dies: what was not fsynced may be lost. *)
PowerLoss ==
    /\ powerLosses < MaxPowerLosses
    /\ powerLosses' = powerLosses + 1
    /\ \E d \in hist :
          /\ disk' \in PowerLossImages(d)
          /\ journaled' = journaled \ (Elements(RecoveredJournal(d).lines)
                                       \ Elements(RecoveredJournal(disk').lines))
    /\ hist' = {disk'}
    /\ LoseMemory
    /\ UNCHANGED <<generated, recorded, settled, kills>>
-----------------------------------------------------------------------------
Init ==
    /\ disk = EmptyDir
    /\ hist = {EmptyDir}
    /\ pc = "down"
    /\ inflight = <<>>
    /\ pending = <<>>
    /\ checkpointOffset = 0
    /\ journalBaseCount = 0
    /\ confirmedSinceCompaction = 0
    /\ journalEntryCount = 0
    /\ failedEventIds = {}
    /\ failedUniqueCount = 0
    /\ failedWriteFault = FALSE
    /\ handled = {}
    /\ generated = 0
    /\ recorded = {}
    /\ settled = {}
    /\ journaled = {}
    /\ kills = 0
    /\ powerLosses = 0

(* open(), and the rest of a call under way *)
OpenStep ==
    \/ RecoverNoManifest \/ RecoverRename \/ RecoverSync \/ RecoverCheckpoint
    \/ RecoverUnlink \/ RecoverDone
    \/ TailJournal \/ TailJournalSync \/ TailFailed \/ TailFailedSync
    \/ Load \/ OpenJournal \/ OpenSync
CallStep ==
    \/ AppendFsync \/ ConfirmDone \/ QuarantineDone
    \/ CompactWrite \/ CompactManifest \/ CompactRename \/ CompactCheckpoint
    \/ CompactUnlink \/ CompactDone

(* the calls the daemon makes *)
Call ==
    \/ \E n \in 1..MaxAppend : AppendWrite(n)
    \/ \E n \in 1..MaxEvents : Confirm(n) \/ QuarantineKnown(n) \/ QuarantineWrite(n)
    \/ \E n \in 1..MaxEvents, k \in 0..MaxEvents, t \in BOOLEAN : QuarantineFails(n, k, t)
    \/ Close

Crash ==
    \/ Kill
    \/ \E n \in 1..MaxAppend, k \in 0..MaxAppend, t \in BOOLEAN : KillInAppend(n, k, t)
    \/ PowerLoss

Next == OpenStep \/ CallStep \/ Call \/ Crash

Spec == Init /\ [][Next]_vars

(* Single-threaded code runs on, and systemd starts the sender again. *)
FairSpec == Spec /\ WF_vars(OpenStep) /\ WF_vars(CallStep)
-----------------------------------------------------------------------------
File == [exists : BOOLEAN, lines : Seq(Line), synced : Nat, torn : BOOLEAN, dirty : BOOLEAN]
Checkpoint == [offset : Nat, base : Nat, confirmed : Nat]
Manifest == [exists : BOOLEAN, checkpoint : Checkpoint]
Directory == [journal : File, failed : File, compact : File, checkpoint : Checkpoint,
              manifest : Manifest]
OpenPcs == {"down", "recover_sync", "recover_checkpoint", "recover_unlink",
            "recover_unlinked", "tail_journal", "tail_journal_sync", "tail_failed",
            "tail_failed_sync", "load", "refused"}
CallPcs == {"open_journal", "open_sync", "idle", "append_fsync", "confirm_sync",
            "compact_manifest", "compact_rename", "compact_checkpoint", "compact_unlink",
            "compact_unlinked", "quarantine_fsync"}

(* The journal's side of the type invariant; the ghosts belong to it. *)
JournalTypeOK ==
    /\ disk \in Directory
    /\ hist \subseteq Directory
    /\ pc \in OpenPcs \cup CallPcs
    /\ inflight \in Seq(Nat)
    /\ pending \in Seq(Line)
    /\ checkpointOffset \in Nat
    /\ journalBaseCount \in Nat
    /\ confirmedSinceCompaction \in Nat
    /\ journalEntryCount \in Nat
    /\ generated \in Nat
    /\ recorded \subseteq Nat
    /\ settled \subseteq Nat
    /\ journaled \subseteq Nat

(* Every variable keeps its type: the fields of class Outbox, the files. *)
TypeOK ==
    /\ JournalTypeOK
    /\ failedEventIds \subseteq Nat
    /\ failedUniqueCount \in Nat
    /\ failedWriteFault \in BOOLEAN
    /\ handled \subseteq Rejected
    /\ kills \in 0..MaxKills
    /\ powerLosses \in 0..MaxPowerLosses

(***************************************************************************)
(* No event whose appendMany() returned is lost before confirm() is called *)
(* for it: whatever the machine does now, and wherever a compaction or a   *)
(* recovery stands, the next open() has it pending.                        *)
(***************************************************************************)
NoLoss ==
    \A d \in hist : \A x \in PowerLossImages(d) :
        recorded \ settled \subseteq Elements(RecoveredQueue(x))

(***************************************************************************)
(* While the outbox serves calls, pending is what a restart would load,    *)
(* and it is in generation order without repetition: no event is sent      *)
(* twice, or ahead of an older one, because of a confirm or a compaction.  *)
(***************************************************************************)
PendingIsJournalTail ==
    pc \in {"idle", "confirm_sync", "compact_manifest", "compact_rename",
            "compact_checkpoint", "compact_unlink", "compact_unlinked"} =>
        /\ pending = RecoveredQueue(disk)
        /\ \A i, j \in 1..Len(pending) : i < j => pending[i] < pending[j]

(***************************************************************************)
(* recordedCount, the outbox's own account of what was journaled, is exact *)
(* across restarts, rewound checkpoints and compactions cut short.         *)
(***************************************************************************)
RecordedCountExact ==
    pc = "idle" => journalBaseCount + journalEntryCount = Cardinality(journaled)

(***************************************************************************)
(* failed.jsonl holds an event at most once, whatever was interrupted and  *)
(* however small the id cache is, and failedCount is the number of events  *)
(* in it.                                                                  *)
(***************************************************************************)
FailedOnce ==
    LET lines == disk.failed.lines
    IN  /\ \A i, j \in 1..Len(lines) : i # j => lines[i] # lines[j]
        /\ pc = "idle" /\ ~failedWriteFault => failedUniqueCount = Len(lines)

(***************************************************************************)
(* A refused event that confirm() was called for is in failed.jsonl, as    *)
(* long as only processes die.                                             *)
(***************************************************************************)
RefusedAreKept == settled \cap Rejected \subseteq Elements(disk.failed.lines)

(***************************************************************************)
(* quarantine()'s comment: it returns only after the fsync of the failed   *)
(* journal, so that a refused event is in failed.jsonl, or still pending,  *)
(* whatever happens while the checkpoint advances - a power loss included. *)
(***************************************************************************)
RefusedAreDurable ==
    \A d \in hist : \A x \in PowerLossImages(d) :
        settled \cap Rejected
            \subseteq Elements(x.failed.lines) \cup Elements(RecoveredQueue(x))

(***************************************************************************)
(* The outbox implements the queue: what a restart would find changes only *)
(* by an append, a confirm or a power loss, never by a kill, a recovery    *)
(* step or a compaction step.                                              *)
(***************************************************************************)
Abstract == INSTANCE OutboxQueue WITH queue <- RecoveredQueue(disk)
ImplementsQueue == Abstract!Spec

(***************************************************************************)
(* open() and every call come to an end, and open() never refuses the      *)
(* files a crash left: the outbox serves calls again.                      *)
(***************************************************************************)
ServesAgain == pc # "idle" ~> pc = "idle"
=============================================================================
