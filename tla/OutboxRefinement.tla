-------------------------- MODULE OutboxRefinement --------------------------
(***************************************************************************)
(* Proof that the outbox implements OutboxQueue, that its memory is the    *)
(* tail of its journal, and that recordedCount is exact.  A step maps to   *)
(* an abstract one by what it does to the queue a restart would find; that *)
(* a power loss leaves the rest of the queue in order needs that every     *)
(* journal, also one a compaction prepared, holds the events in the order  *)
(* of generation.  The account (AccountInv) says of every directory a      *)
(* power loss can leave that its base and its lines count the events that  *)
(* reached the journal and are not lost, and of memory that it agrees      *)
(* with the files except between the swap's renames.                       *)
(***************************************************************************)
EXTENDS OutboxProofs

Ordered(s, g) ==
    /\ \A i \in 1..Len(s) : s[i] \in 1..g
    /\ \A i, j \in 1..Len(s) : i < j => s[i] < s[j]

JournalsOrdered ==
    \A d \in hist : Ordered(d.journal.lines, generated) /\ Ordered(d.compact.lines, generated)

RefinementInv == IInv /\ JournalsOrdered
-----------------------------------------------------------------------------
LEMMA OrderedEmpty ==
  ASSUME NEW g
  PROVE  Ordered(<<>>, g)
BY DEF Ordered

LEMMA OrderedGrows ==
  ASSUME NEW s \in Seq(Nat), NEW g \in Nat, NEW h \in Nat, g <= h, Ordered(s, g)
  PROVE  Ordered(s, h)
BY DEF Ordered

LEMMA OrderedTail ==
  ASSUME NEW s \in Seq(Nat), NEW g \in Nat, Ordered(s, g), NEW m \in 0..Len(s)
  PROVE  Ordered(SubSeq(s, m + 1, Len(s)), g)
<1> DEFINE u == SubSeq(s, m + 1, Len(s))
<1>1. u \in Seq(Nat) /\ Len(u) = Len(s) - m /\ \A i \in 1..Len(u) : u[i] = s[m + i]
  BY TailElements
<1> HIDE DEF u
<1>2. \A i \in 1..Len(u) : m + i \in 1..Len(s)
  BY <1>1
<1>3. \A i, j \in 1..Len(u) : i < j => m + i < m + j
  BY <1>1
<1>4. Ordered(u, g)
  BY <1>1, <1>2, <1>3 DEF Ordered
<1> QED BY <1>4 DEF u

LEMMA OrderedHead ==
  ASSUME NEW s \in Seq(Nat), NEW g \in Nat, Ordered(s, g), NEW k \in 0..Len(s)
  PROVE  Ordered(SubSeq(s, 1, k), g)
<1> DEFINE u == SubSeq(s, 1, k)
<1>1. u \in Seq(Nat) /\ Len(u) = k /\ \A i \in 1..k : u[i] = s[i]
  OBVIOUS
<1> HIDE DEF u
<1>2. k \in Nat /\ k <= Len(s) /\ 1..k \subseteq 1..Len(s)
  OBVIOUS
<1>3. Ordered(u, g)
  BY <1>1, <1>2 DEF Ordered
<1> QED BY <1>3 DEF u

(* Events generated after those of a journal go behind them. *)
LEMMA OrderedAppend ==
  ASSUME NEW s \in Seq(Nat), NEW g \in Nat, Ordered(s, g), NEW k \in Nat, NEW h \in Nat, g + k <= h,
         NEW es \in Seq(Nat), Len(es) = k, \A i \in 1..k : es[i] = g + i
  PROVE  Ordered(s \o es, h)
<1> DEFINE w == s \o es
<1>0. /\ w \in Seq(Nat) /\ Len(w) = Len(s) + Len(es)
      /\ \A i \in 1..Len(w) : w[i] = IF i <= Len(s) THEN s[i] ELSE es[i - Len(s)]
  OBVIOUS
<1>1. /\ w \in Seq(Nat) /\ Len(w) = Len(s) + k /\ Len(s) \in Nat
      /\ \A i \in 1..Len(w) : w[i] = IF i <= Len(s) THEN s[i] ELSE es[i - Len(s)]
  BY <1>0
<1> HIDE DEF w
<1>2. \A i \in 1..Len(w) : ~(i <= Len(s)) => w[i] = g + (i - Len(s)) /\ i - Len(s) \in 1..k
  BY <1>1
<1>3. \A i \in 1..Len(w) : i <= Len(s) => i \in 1..Len(s) /\ w[i] = s[i] /\ s[i] \in 1..g
  BY <1>1 DEF Ordered
<1>4. ASSUME NEW i \in 1..Len(w) PROVE w[i] \in 1..h
  <2>1. CASE i <= Len(s)
    <3>1. w[i] \in 1..g
      BY <1>3, <2>1
    <3> QED BY <3>1
  <2>2. CASE ~(i <= Len(s))
    <3>1. w[i] = g + (i - Len(s)) /\ i - Len(s) \in 1..k
      BY <1>2, <2>2
    <3> QED BY <3>1
  <2> QED BY <2>1, <2>2
<1>5. ASSUME NEW i \in 1..Len(w), NEW j \in 1..Len(w), i < j PROVE w[i] < w[j]
  <2>1. CASE j <= Len(s)
    <3>1. i <= Len(s)
      BY <1>1, <1>5, <2>1
    <3>2. i \in 1..Len(s) /\ j \in 1..Len(s) /\ w[i] = s[i] /\ w[j] = s[j]
      BY <1>3, <2>1, <3>1
    <3> QED BY <1>5, <3>2 DEF Ordered
  <2>2. CASE i <= Len(s) /\ ~(j <= Len(s))
    <3>1. w[i] \in 1..g /\ w[j] = g + (j - Len(s)) /\ j - Len(s) \in 1..k
      BY <1>2, <1>3, <2>2
    <3> QED BY <3>1
  <2>3. CASE ~(i <= Len(s)) /\ ~(j <= Len(s))
    <3>1. w[i] = g + (i - Len(s)) /\ w[j] = g + (j - Len(s))
      BY <1>2, <2>3
    <3> QED BY <1>1, <1>5, <3>1
  <2>4. CASE ~(i <= Len(s)) /\ j <= Len(s)
    BY <1>1, <1>5, <2>4
  <2> QED BY <2>1, <2>2, <2>3, <2>4
<1>6. Ordered(w, h)
  BY <1>4, <1>5 DEF Ordered
<1> QED BY <1>6 DEF w

LEMMA NewEventsElements ==
  ASSUME generated \in Nat, NEW n \in Nat, NEW k \in 0..n
  PROVE  LET es == SubSeq(NewEvents(n), 1, k)
         IN  /\ NewEvents(n) \in Seq(Nat) /\ Len(NewEvents(n)) = n
             /\ \A i \in 1..n : NewEvents(n)[i] = generated + i
             /\ es \in Seq(Nat) /\ Len(es) = k
             /\ \A i \in 1..k : es[i] = generated + i
             /\ es = [i \in 1..k |-> generated + i]
<1> DEFINE es == SubSeq(NewEvents(n), 1, k)
<1>1. /\ NewEvents(n) \in Seq(Nat) /\ Len(NewEvents(n)) = n
      /\ \A i \in 1..n : NewEvents(n)[i] = generated + i
  BY DEF NewEvents
<1>2. es \in Seq(Nat) /\ Len(es) = k /\ \A i \in 1..k : es[i] = NewEvents(n)[i]
  BY <1>1
<1>3. \A i \in 1..k : es[i] = generated + i
  BY <1>1, <1>2
<1> HIDE DEF es
<1>4. es = [i \in 1..Len(es) |-> es[i]]
  BY <1>2
<1>5. es = [i \in 1..k |-> generated + i]
  BY <1>2, <1>3, <1>4
<1> QED BY <1>1, <1>2, <1>3, <1>5 DEF es
-----------------------------------------------------------------------------
(* What every directory of hist has. *)
LEMMA DirectoryFacts ==
  ASSUME RefinementInv, NEW d \in hist
  PROVE  /\ d \in Directory /\ DirectoryOK(d)
         /\ d.journal \in File /\ d.compact \in File
         /\ d.journal.lines \in Seq(Nat) /\ d.compact.lines \in Seq(Nat)
         /\ Ordered(d.journal.lines, generated) /\ Ordered(d.compact.lines, generated)
  BY DirectoryUpdate, FileFields
     DEF RefinementInv, IInv, JournalTypeOK, DirectoriesOK, DirectoryOK, JournalsOrdered, Line

LEMMA DiskFacts ==
  ASSUME RefinementInv
  PROVE  /\ disk \in hist /\ generated \in Nat
         /\ checkpointOffset \in Nat /\ disk.checkpoint.offset \in Nat
  BY DirectoryUpdate DEF RefinementInv, IInv, JournalTypeOK, DirectoriesOK, Checkpoint

(* A directory operation or an fsync of the directory. *)
LEMMA OrderOfDirOp ==
  ASSUME RefinementInv, generated' = generated,
         NEW x, DirOp(x) \/ SyncDirThen(x),
         Ordered(x.journal.lines, generated), Ordered(x.compact.lines, generated)
  PROVE  JournalsOrdered'
<1>1. \A d \in hist' : d \in hist \/ d = x
  BY DiskFacts DEF DirOp, SyncDirThen
<1> QED BY <1>1 DEF JournalsOrdered, RefinementInv

LEMMA OrderOfSync ==
  ASSUME RefinementInv, generated' = generated, hist' \subseteq hist
  PROVE  JournalsOrdered'
  BY DEF JournalsOrdered, RefinementInv

(* A write to the journal. *)
LEMMA OrderOfWrite ==
  ASSUME RefinementInv, generated' \in Nat, generated <= generated',
         NEW f \in File, Ordered(f.lines, generated'), WriteJournal(f)
  PROVE  JournalsOrdered'
<1> SUFFICES ASSUME NEW x \in hist'
             PROVE  Ordered(x.journal.lines, generated') /\ Ordered(x.compact.lines, generated')
  BY DEF JournalsOrdered
<1>1. PICK d \in hist : x = [d EXCEPT !.journal = IF d.journal.exists THEN f ELSE d.journal]
  BY DEF WriteJournal
<1>2. /\ d.journal.lines \in Seq(Nat) /\ d.compact.lines \in Seq(Nat) /\ generated \in Nat
      /\ Ordered(d.journal.lines, generated) /\ Ordered(d.compact.lines, generated)
      /\ d \in Directory
  BY DirectoryFacts, DiskFacts
<1>3. Ordered(d.journal.lines, generated') /\ Ordered(d.compact.lines, generated')
  BY <1>2, OrderedGrows
<1>4. x.compact = d.compact /\ x.journal = IF d.journal.exists THEN f ELSE d.journal
  BY <1>1, <1>2, JournalField
<1> QED BY <1>3, <1>4

(* A write to failed.jsonl. *)
LEMMA OrderOfFailedWrite ==
  ASSUME RefinementInv, generated' = generated, NEW f, WriteFailed(f)
  PROVE  JournalsOrdered'
<1> SUFFICES ASSUME NEW x \in hist'
             PROVE  Ordered(x.journal.lines, generated) /\ Ordered(x.compact.lines, generated)
  BY DEF JournalsOrdered
<1>1. \E d \in hist : x.journal = d.journal /\ x.compact = d.compact
  <2>1. CASE x = [disk EXCEPT !.failed = f]
    BY <2>1, DiskFacts, DirectoryFacts, FailedField
  <2>2. CASE x \in FailedImages(f)
    <3>1. PICK d \in hist : x = [d EXCEPT !.failed = IF d.failed.exists THEN f ELSE d.failed]
      BY <2>2 DEF FailedImages
    <3> QED BY <3>1, DirectoryFacts, FailedField
  <2> QED BY <2>1, <2>2 DEF WriteFailed
<1> QED BY <1>1, DirectoryFacts

(* The queue depends on the journal open() reads and the offset only. *)
LEMMA QueueSame ==
  ASSUME NEW d, NEW x,
         RecoveredJournal(x).lines = RecoveredJournal(d).lines,
         RecoveredCheckpoint(x).offset = RecoveredCheckpoint(d).offset
  PROVE  RecoveredQueue(x) = RecoveredQueue(d)
  BY DEF RecoveredQueue, ResumeOffset

(* Without a manifest it is the journal behind the checkpoint. *)
LEMMA QueueOfJournal ==
  ASSUME NEW d, ~d.manifest.exists
  PROVE  /\ RecoveredJournal(d) = d.journal /\ RecoveredCheckpoint(d) = d.checkpoint
         /\ RecoveredQueue(d) = SubSeq(d.journal.lines,
               ResumeOffset(d.checkpoint, d.journal.lines) + 1, Len(d.journal.lines))
  BY DEF RecoveredJournal, RecoveredCheckpoint, RecoveredQueue

LEMMA ResumesWithin ==
  ASSUME NEW ckpt, NEW s \in Seq(Nat), ckpt.offset \in Nat, ckpt.offset <= Len(s)
  PROVE  ResumeOffset(ckpt, s) = ckpt.offset
  BY LenProperties DEF ResumeOffset

(* At rest the queue is the memory's. *)
LEMMA QueueAtRest ==
  ASSUME RefinementInv, pc \in {"idle", "confirm_sync", "compact_manifest", "append_fsync"}
  PROVE  /\ ~disk.manifest.exists
         /\ disk.checkpoint.offset = checkpointOffset
         /\ checkpointOffset <= Len(disk.journal.lines)
         /\ RecoveredQueue(disk) = SubSeq(disk.journal.lines, checkpointOffset + 1,
                                          Len(disk.journal.lines))
         /\ RecoveredQueue(disk) = IF pc = "append_fsync" THEN pending \o inflight ELSE pending
<1>1. /\ disk.journal.lines \in Seq(Nat) /\ checkpointOffset \in Nat /\ Len(inflight) \in Nat
      /\ Len(disk.journal.lines) \in Nat
  BY DirectoryFacts, DiskFacts, LenProperties DEF RefinementInv, IInv, JournalTypeOK
<1>2. ~disk.manifest.exists
  BY DEF RefinementInv, IInv, FilesAtPc, PlainPcs
<1>3. /\ disk.checkpoint.offset = checkpointOffset
      /\ checkpointOffset <= Len(disk.journal.lines)
      /\ SubSeq(disk.journal.lines, checkpointOffset + 1, Len(disk.journal.lines))
            = IF pc = "append_fsync" THEN pending \o inflight ELSE pending
  <2>1. CASE pc = "append_fsync"
    <3>1. /\ checkpointOffset + Len(inflight) <= Len(disk.journal.lines)
          /\ pending \o inflight = SubSeq(disk.journal.lines, checkpointOffset + 1,
                                          Len(disk.journal.lines))
          /\ disk.checkpoint.offset = checkpointOffset
      BY <2>1 DEF RefinementInv, IInv, MemoryIsTail
    <3>2. checkpointOffset <= Len(disk.journal.lines)
      BY ONLY <1>1, <3>1
    <3> QED BY <2>1, <3>1, <3>2
  <2>2. CASE pc # "append_fsync"
    <3>1. pc \in {"idle", "confirm_sync", "compact_manifest"}
      BY <2>2
    <3> QED BY <2>2, <3>1 DEF RefinementInv, IInv, MemoryIsTail, CallPcs
  <2> QED BY <2>1, <2>2
<1>4. ResumeOffset(disk.checkpoint, disk.journal.lines) = checkpointOffset
  BY <1>1, <1>3, ResumesWithin
<1> QED BY <1>2, <1>3, <1>4, QueueOfJournal
-----------------------------------------------------------------------------
(* The steps nobody sees in the queue. *)
QueueKept ==
    /\ RecoveredQueue(disk)' = RecoveredQueue(disk)
    /\ UNCHANGED <<generated, recorded, settled, powerLosses>>

LEMMA HiddenRecover ==
  ASSUME RefinementInv,
         RecoverNoManifest \/ RecoverRename \/ RecoverSync \/ RecoverCheckpoint
            \/ RecoverUnlink \/ RecoverDone
  PROVE  JournalsOrdered' /\ QueueKept
<1>0. /\ disk \in Directory /\ disk \in hist /\ DirectoryOK(disk)
      /\ Ordered(disk.journal.lines, generated) /\ Ordered(disk.compact.lines, generated)
      /\ Ordered(<<>>, generated)
      /\ disk.manifest.exists => disk.manifest.checkpoint.offset = 0
  BY DiskFacts, DirectoryFacts, OrderedEmpty DEF DirectoryOK
<1>00. UNCHANGED <<generated, recorded, settled, powerLosses>>
  BY DEF RecoverNoManifest, RecoverRename, RecoverSync, RecoverCheckpoint, RecoverUnlink,
         RecoverDone, ghosts, faults
<1>1. CASE RecoverNoManifest
  <2> DEFINE x == [disk EXCEPT !.compact = NoFile]
  <2>1. DirOp(x) /\ ~disk.manifest.exists
    BY <1>1 DEF RecoverNoManifest
  <2>2. x.journal = disk.journal /\ x.compact = NoFile /\ x.checkpoint = disk.checkpoint
        /\ x.manifest = disk.manifest
    BY <1>0, CompactField
  <2> HIDE DEF x
  <2>3. JournalsOrdered'
    BY <1>0, <1>00, <2>1, <2>2, NoFileFields, OrderOfDirOp
  <2>4. RecoveredQueue(x) = RecoveredQueue(disk)
    BY <2>1, <2>2, QueueOfJournal
  <2> QED BY <1>00, <2>1, <2>3, <2>4 DEF QueueKept, DirOp
<1>2. CASE RecoverRename
  <2> DEFINE x == [disk EXCEPT !.journal = disk.compact, !.compact = NoFile]
  <2>1. DirOp(x) /\ disk.manifest.exists /\ disk.compact.exists
    BY <1>2 DEF RecoverRename
  <2>2. x.journal = disk.compact /\ x.compact = NoFile /\ x.manifest = disk.manifest
    BY <1>0, RenameField
  <2> HIDE DEF x
  <2>3. JournalsOrdered'
    BY <1>0, <1>00, <2>1, <2>2, NoFileFields, OrderOfDirOp
  <2>4. RecoveredJournal(x) = RecoveredJournal(disk)
        /\ RecoveredCheckpoint(x) = RecoveredCheckpoint(disk)
    BY <2>1, <2>2, NoFileFields DEF RecoveredJournal, RecoveredCheckpoint
  <2>5. RecoveredQueue(x) = RecoveredQueue(disk)
    BY <2>4, QueueSame
  <2> QED BY <1>00, <2>1, <2>3, <2>5 DEF QueueKept, DirOp
<1>3. CASE RecoverSync \/ RecoverDone
  <2>1. disk' = disk /\ hist' \subseteq hist
    BY <1>0, <1>3 DEF RecoverSync, RecoverDone, SyncDir
  <2> QED BY <1>00, <2>1, OrderOfSync DEF QueueKept
<1>4. CASE RecoverCheckpoint
  <2> DEFINE x == [disk EXCEPT !.checkpoint = disk.manifest.checkpoint]
  <2>1. DirOp(x) /\ disk.manifest.exists
    BY <1>4 DEF RecoverCheckpoint, Goto, RefinementInv, IInv, FilesAtPc, RecoverPcs
  <2>2. x.journal = disk.journal /\ x.compact = disk.compact /\ x.manifest = disk.manifest
    BY <1>0, CheckpointField
  <2> HIDE DEF x
  <2>3. JournalsOrdered'
    BY <1>0, <1>00, <2>1, <2>2, OrderOfDirOp
  <2>4. RecoveredJournal(x) = RecoveredJournal(disk)
        /\ RecoveredCheckpoint(x) = RecoveredCheckpoint(disk)
    BY <2>1, <2>2 DEF RecoveredJournal, RecoveredCheckpoint
  <2>5. RecoveredQueue(x) = RecoveredQueue(disk)
    BY <2>4, QueueSame
  <2> QED BY <1>00, <2>1, <2>3, <2>5 DEF QueueKept, DirOp
<1>5. CASE RecoverUnlink
  <2> DEFINE x == [disk EXCEPT !.manifest = NoManifest]
  <2>1. /\ SyncDirThen(x) /\ disk.manifest.exists /\ ~disk.compact.exists
        /\ disk.checkpoint.offset = 0
    BY <1>5 DEF RecoverUnlink, Goto, RefinementInv, IInv, FilesAtPc, RecoverPcs
  <2>2. x.journal = disk.journal /\ x.compact = disk.compact /\ x.checkpoint = disk.checkpoint
        /\ x.manifest = NoManifest
    BY <1>0, ManifestField
  <2> HIDE DEF x
  <2>3. JournalsOrdered'
    BY <1>0, <1>00, <2>1, <2>2, OrderOfDirOp
  <2>4. RecoveredJournal(x) = RecoveredJournal(disk)
        /\ RecoveredCheckpoint(x).offset = RecoveredCheckpoint(disk).offset
    BY <1>0, <2>1, <2>2 DEF RecoveredJournal, RecoveredCheckpoint, NoManifest
  <2>5. RecoveredQueue(x) = RecoveredQueue(disk)
    BY <2>4, QueueSame
  <2> QED BY <1>00, <2>1, <2>3, <2>5 DEF QueueKept, SyncDirThen
<1> QED BY <1>1, <1>2, <1>3, <1>4, <1>5

(* A write that leaves the journal's lines as they are. *)
LEMMA HiddenWrite ==
  ASSUME RefinementInv, NEW f \in File, f.lines = disk.journal.lines, WriteJournal(f),
         generated' = generated
  PROVE  JournalsOrdered' /\ RecoveredQueue(disk)' = RecoveredQueue(disk)
<1>0. disk \in Directory /\ generated \in Nat /\ Ordered(f.lines, generated)
  BY DiskFacts, DirectoryFacts
<1>1. JournalsOrdered'
  BY <1>0, OrderOfWrite
<1>2. disk' = [disk EXCEPT !.journal = f]
  BY DEF WriteJournal
<1>3. disk'.journal = f /\ disk'.compact = disk.compact /\ disk'.checkpoint = disk.checkpoint
      /\ disk'.manifest = disk.manifest
  BY <1>0, <1>2, JournalField
<1>4. RecoveredQueue(disk') = RecoveredQueue(disk)
  BY <1>3, QueueSame DEF RecoveredJournal, RecoveredCheckpoint
<1> QED BY <1>1, <1>4

LEMMA HiddenFailedWrite ==
  ASSUME RefinementInv, NEW f,
         WriteFailed(f) \/ (disk' = [disk EXCEPT !.failed = f] /\ hist' = {disk'}),
         generated' = generated
  PROVE  JournalsOrdered' /\ RecoveredQueue(disk)' = RecoveredQueue(disk)
<1>0. disk \in Directory /\ disk \in hist
  BY DiskFacts, DirectoryFacts
<1>1. disk' = [disk EXCEPT !.failed = f]
  BY DEF WriteFailed
<1>2. disk'.journal = disk.journal /\ disk'.compact = disk.compact
      /\ disk'.checkpoint = disk.checkpoint /\ disk'.manifest = disk.manifest
  BY <1>0, <1>1, FailedField
<1>3. RecoveredQueue(disk') = RecoveredQueue(disk)
  BY <1>2, QueueSame DEF RecoveredJournal, RecoveredCheckpoint
<1>4. JournalsOrdered'
  <2>1. CASE WriteFailed(f)
    BY <2>1, OrderOfFailedWrite
  <2>2. CASE hist' = {disk'}
    BY <1>0, <1>2, <2>2, DirectoryFacts DEF JournalsOrdered
  <2> QED BY <2>1, <2>2
<1> QED BY <1>3, <1>4

LEMMA HiddenTail ==
  ASSUME RefinementInv, TailJournal \/ TailJournalSync \/ TailFailed \/ TailFailedSync
  PROVE  JournalsOrdered' /\ QueueKept
<1>0. disk \in Directory /\ disk \in hist /\ disk.journal \in File
  BY DiskFacts, DirectoryFacts
<1>00. UNCHANGED <<generated, recorded, settled, powerLosses>>
  BY DEF TailJournal, TailJournalSync, TailFailed, TailFailedSync, ghosts, faults
<1>1. CASE TailJournal /\ disk.journal.torn
  <2>1. WriteJournal(Truncated(disk.journal))
    BY <1>1 DEF TailJournal
  <2> QED BY <1>0, <1>00, <2>1, TruncatedFields, FileOpsType, HiddenWrite DEF QueueKept
<1>2. CASE TailJournalSync
  <2> DEFINE f == Fsynced(disk.journal)
  <2>1. disk' = [disk EXCEPT !.journal = f] /\ hist' = {disk'}
    BY <1>2 DEF TailJournalSync
  <2>2. f.lines = disk.journal.lines
    BY <1>0, FsyncedFields
  <2> HIDE DEF f
  <2>3. disk'.journal = f /\ disk'.compact = disk.compact
        /\ disk'.checkpoint = disk.checkpoint /\ disk'.manifest = disk.manifest
    BY <1>0, <2>1, JournalField
  <2>4. JournalsOrdered'
    BY <1>0, <1>00, <2>1, <2>2, <2>3, DirectoryFacts DEF JournalsOrdered
  <2>5. RecoveredQueue(disk') = RecoveredQueue(disk)
    BY <2>2, <2>3, QueueSame DEF RecoveredJournal, RecoveredCheckpoint
  <2> QED BY <1>00, <2>4, <2>5 DEF QueueKept
<1>3. CASE (TailFailed /\ disk.failed.torn) \/ TailFailedSync
  <2>1. PICK f : WriteFailed(f) \/ (disk' = [disk EXCEPT !.failed = f] /\ hist' = {disk'})
    BY <1>3 DEF TailFailed, TailFailedSync
  <2> QED BY <1>00, <2>1, HiddenFailedWrite DEF QueueKept
<1>4. CASE (TailJournal /\ ~disk.journal.torn) \/ (TailFailed /\ ~disk.failed.torn)
  <2>1. disk' = disk /\ hist' = hist
    BY <1>4 DEF TailJournal, TailFailed
  <2> QED BY <1>00, <2>1, OrderOfSync DEF QueueKept
<1> QED BY <1>1, <1>2, <1>3, <1>4

LEMMA HiddenOpen ==
  ASSUME RefinementInv, Load \/ OpenJournal \/ OpenSync
  PROVE  JournalsOrdered' /\ QueueKept
<1>0. /\ disk \in Directory /\ disk \in hist /\ disk.journal \in File /\ DirectoryOK(disk)
      /\ disk.journal.lines \in Seq(Nat) /\ disk.checkpoint.offset \in Nat
      /\ Ordered(disk.journal.lines, generated) /\ Ordered(disk.compact.lines, generated)
      /\ Ordered(<<>>, generated)
  BY DiskFacts, DirectoryFacts, OrderedEmpty
<1>00. UNCHANGED <<generated, recorded, settled, powerLosses>>
  BY DEF Load, OpenJournal, OpenSync, ghosts, faults
<1>01. ~disk.manifest.exists /\ ~disk.compact.exists
  BY DEF Load, OpenJournal, OpenSync, Goto, RefinementInv, IInv, FilesAtPc, PlainPcs
<1>1. CASE Load /\ (HasGarbage(disk.journal) \/ HasGarbage(disk.failed))
  <2>1. disk' = disk /\ hist' = hist
    BY <1>1 DEF Load
  <2> QED BY <1>00, <2>1, OrderOfSync DEF QueueKept
<1>2. CASE Load /\ ~(HasGarbage(disk.journal) \/ HasGarbage(disk.failed))
  <2> DEFINE lines == disk.journal.lines
             off == ResumeOffset(disk.checkpoint, lines)
             c == [offset |-> off, base |-> disk.checkpoint.base, confirmed |-> off]
             x == [disk EXCEPT !.checkpoint = c]
  <2>1. DirOp(x)
    BY <1>2 DEF Load, LoadState
  <2>2. x.journal = disk.journal /\ x.compact = disk.compact /\ x.checkpoint = c
        /\ x.manifest = disk.manifest /\ c.offset = off
    BY <1>0, CheckpointField
  <2>3. off \in Nat /\ off <= Len(lines)
    BY <1>0, LenProperties DEF ResumeOffset
  <2>4. ResumeOffset(c, lines) = off
    BY <1>0, <2>2, <2>3, ResumesWithin
  <2> HIDE DEF x, c
  <2>5. RecoveredQueue(x) = RecoveredQueue(disk)
    BY <1>01, <2>2, <2>4, QueueOfJournal
  <2>6. JournalsOrdered'
    BY <1>0, <1>00, <2>1, <2>2, OrderOfDirOp
  <2> QED BY <1>00, <2>1, <2>5, <2>6 DEF QueueKept, DirOp
<1>3. CASE OpenSync \/ (OpenJournal /\ disk.journal.exists)
  <2>1. disk' = disk /\ hist' \subseteq hist
    BY <1>0, <1>3 DEF OpenSync, OpenJournal, SyncDir
  <2> QED BY <1>00, <2>1, OrderOfSync DEF QueueKept
<1>4. CASE OpenJournal /\ ~disk.journal.exists
  <2> DEFINE x == [disk EXCEPT !.journal = EmptyFile]
  <2>1. SyncDirThen(x)
    BY <1>4 DEF OpenJournal
  <2>2. x.journal = EmptyFile /\ x.compact = disk.compact /\ x.checkpoint = disk.checkpoint
        /\ x.manifest = disk.manifest
    BY <1>0, JournalField
  <2>3. EmptyFile.lines = <<>> /\ disk.journal.lines = <<>>
    BY <1>0, <1>4 DEF EmptyFile, FileOf, DirectoryOK, FileOK
  <2> HIDE DEF x
  <2>4. RecoveredQueue(x) = RecoveredQueue(disk)
    BY <1>01, <2>2, <2>3, QueueOfJournal
  <2>5. JournalsOrdered'
    BY <1>0, <1>00, <2>1, <2>2, <2>3, OrderOfDirOp
  <2> QED BY <1>00, <2>1, <2>4, <2>5 DEF QueueKept, SyncDirThen
<1> QED BY <1>1, <1>2, <1>3, <1>4
-----------------------------------------------------------------------------
(* The steps of a compaction. *)
LEMMA HiddenCompactWrite ==
  ASSUME RefinementInv, CompactWrite
  PROVE  JournalsOrdered' /\ QueueKept
<1> DEFINE f == Written(EmptyFile, pending)
           x == [disk EXCEPT !.compact = f]
<1>0. /\ disk \in Directory /\ pending \in Seq(Nat) /\ generated \in Nat
      /\ disk.journal.lines \in Seq(Nat) /\ checkpointOffset \in Nat
      /\ Ordered(disk.journal.lines, generated)
  BY DiskFacts, DirectoryFacts DEF RefinementInv, IInv, JournalTypeOK, Line
<1>1. SyncDirThen(x) /\ pc = "confirm_sync" /\ UNCHANGED <<generated, recorded, settled, powerLosses>>
  BY DEF CompactWrite, Goto, ghosts, faults
<1>2. /\ ~disk.manifest.exists /\ checkpointOffset <= Len(disk.journal.lines)
      /\ RecoveredQueue(disk) = pending
      /\ pending = SubSeq(disk.journal.lines, checkpointOffset + 1, Len(disk.journal.lines))
  <2>1. pc \in {"idle", "confirm_sync", "compact_manifest", "append_fsync"} /\ pc # "append_fsync"
    BY <1>1
  <2> QED BY <2>1, QueueAtRest
<1>3. checkpointOffset \in 0..Len(disk.journal.lines)
  BY <1>0, <1>2, LenProperties
<1>4. Ordered(pending, generated)
  BY <1>0, <1>2, <1>3, OrderedTail
<1>5. EmptyFile \in File /\ EmptyFile.lines = <<>> /\ ~EmptyFile.torn /\ FileOK(EmptyFile)
  BY NoFileType DEF EmptyFile, FileOf, FileOK
<1>6. f.lines = EmptyFile.lines \o pending
  BY <1>0, <1>5, WrittenOK
<1>7. f.lines = pending
  BY <1>0, <1>5, <1>6
<1> HIDE DEF f
<1>8. x.journal = disk.journal /\ x.compact = f /\ x.checkpoint = disk.checkpoint
      /\ x.manifest = disk.manifest
  BY <1>0, CompactField
<1> HIDE DEF x
<1>9. JournalsOrdered'
  BY <1>0, <1>1, <1>4, <1>7, <1>8, OrderOfDirOp
<1>10. RecoveredQueue(x) = RecoveredQueue(disk)
  BY <1>2, <1>8, QueueOfJournal
<1> QED BY <1>1, <1>9, <1>10 DEF QueueKept, SyncDirThen

LEMMA HiddenCompactManifest ==
  ASSUME RefinementInv, CompactManifest
  PROVE  JournalsOrdered' /\ QueueKept
<1> DEFINE f == Fsynced(disk.compact)
           m == [exists |-> TRUE, checkpoint |-> NextState]
           y == [disk EXCEPT !.compact = f]
           x == [y EXCEPT !.manifest = m]
           Image(d) == [d EXCEPT !.compact = IF @.exists THEN f ELSE @]
<1>0. /\ disk \in Directory /\ hist \subseteq Directory /\ disk \in hist
      /\ disk.compact \in File /\ generated \in Nat /\ pending \in Seq(Nat)
      /\ Ordered(disk.journal.lines, generated) /\ Ordered(disk.compact.lines, generated)
  BY DiskFacts, DirectoryFacts DEF RefinementInv, IInv, JournalTypeOK, Line
<1>1. /\ pc = "compact_manifest" /\ UNCHANGED <<generated, recorded, settled, powerLosses>>
      /\ disk' = x /\ hist' = {Image(d) : d \in hist} \cup {x}
  BY DEF CompactManifest, Goto, ghosts, faults
<1>2. RecoveredQueue(disk) = pending
  <2>1. pc \in {"idle", "confirm_sync", "compact_manifest", "append_fsync"} /\ pc # "append_fsync"
    BY <1>1
  <2> QED BY <2>1, QueueAtRest
<1>3. disk.compact.lines = pending
  BY <1>1 DEF RefinementInv, IInv, MemoryIsTail
<1>4. f \in File /\ f.exists = TRUE /\ f.lines = pending
  BY <1>0, <1>3, FsyncedFields, FileOpsType
<1>5. m \in Manifest /\ m.exists = TRUE /\ m.checkpoint.offset = 0
  BY NextStateType DEF NextState, RefinementInv, IInv
<1> HIDE DEF f, m
<1>6. y \in Directory /\ y.journal = disk.journal /\ y.compact = f /\ y.checkpoint = disk.checkpoint
  BY <1>0, <1>4, CompactField, DirectoryUpdate
<1> HIDE DEF y
<1>7. x.journal = disk.journal /\ x.compact = f /\ x.manifest = m
  BY <1>5, <1>6, ManifestField
<1> HIDE DEF x
<1>8. RecoveredQueue(x) = pending
  <2>1. RecoveredJournal(x) = f /\ RecoveredCheckpoint(x) = m.checkpoint
    BY <1>4, <1>5, <1>7 DEF RecoveredJournal, RecoveredCheckpoint
  <2>2. ResumeOffset(m.checkpoint, pending) = 0
    BY <1>0, <1>5, LenProperties DEF ResumeOffset
  <2>3. RecoveredQueue(x) = SubSeq(pending, 0 + 1, Len(pending))
    BY <1>4, <2>1, <2>2 DEF RecoveredQueue
  <2> QED BY <1>0, <2>3
<1>9. ASSUME NEW d \in hist
      PROVE  /\ Ordered(Image(d).journal.lines, generated)
             /\ Ordered(Image(d).compact.lines, generated)
  <2>1. d \in Directory /\ Ordered(d.journal.lines, generated) /\ Ordered(d.compact.lines, generated)
    BY DirectoryFacts
  <2> DEFINE g == IF d.compact.exists THEN f ELSE d.compact
  <2>2. Image(d) = [d EXCEPT !.compact = g]
    OBVIOUS
  <2>3. g = f \/ g = d.compact
    OBVIOUS
  <2> HIDE DEF Image, g
  <2>4. Image(d).journal = d.journal /\ Image(d).compact = g
    BY <2>1, <2>2, CompactField
  <2> QED BY <1>0, <1>3, <1>4, <2>1, <2>3, <2>4
<1> HIDE DEF Image
<1>10. JournalsOrdered'
  BY <1>0, <1>1, <1>3, <1>4, <1>7, <1>9 DEF JournalsOrdered
<1> QED BY <1>1, <1>2, <1>8, <1>10 DEF QueueKept

LEMMA HiddenCompactSwap ==
  ASSUME RefinementInv, CompactRename \/ CompactCheckpoint \/ CompactUnlink
  PROVE  JournalsOrdered' /\ QueueKept
<1>0. /\ disk \in Directory /\ disk \in hist /\ DirectoryOK(disk)
      /\ Ordered(disk.journal.lines, generated) /\ Ordered(disk.compact.lines, generated)
      /\ Ordered(<<>>, generated)
      /\ disk.manifest.exists => disk.manifest.checkpoint.offset = 0
  BY DiskFacts, DirectoryFacts, OrderedEmpty DEF DirectoryOK
<1>00. UNCHANGED <<generated, recorded, settled, powerLosses>>
  BY DEF CompactRename, CompactCheckpoint, CompactUnlink, ghosts, faults
<1>1. CASE CompactRename
  <2> DEFINE x == [disk EXCEPT !.journal = disk.compact, !.compact = NoFile]
  <2>1. SyncDirThen(x) /\ disk.manifest.exists /\ disk.compact.exists
    BY <1>1 DEF CompactRename, Goto, RefinementInv, IInv, FilesAtPc
  <2>2. x.journal = disk.compact /\ x.compact = NoFile /\ x.manifest = disk.manifest
    BY <1>0, RenameField
  <2> HIDE DEF x
  <2>3. JournalsOrdered'
    BY <1>0, <1>00, <2>1, <2>2, NoFileFields, OrderOfDirOp
  <2>4. RecoveredJournal(x) = RecoveredJournal(disk)
        /\ RecoveredCheckpoint(x) = RecoveredCheckpoint(disk)
    BY <2>1, <2>2, NoFileFields DEF RecoveredJournal, RecoveredCheckpoint
  <2>5. RecoveredQueue(x) = RecoveredQueue(disk)
    BY <2>4, QueueSame
  <2> QED BY <1>00, <2>1, <2>3, <2>5 DEF QueueKept, SyncDirThen
<1>2. CASE CompactCheckpoint
  <2> DEFINE x == [disk EXCEPT !.checkpoint = NextState]
  <2>1. SyncDirThen(x) /\ disk.manifest.exists
    BY <1>2 DEF CompactCheckpoint, Goto, RefinementInv, IInv, FilesAtPc, RecoverPcs
  <2>2. x.journal = disk.journal /\ x.compact = disk.compact /\ x.manifest = disk.manifest
    BY <1>0, CheckpointField
  <2> HIDE DEF x
  <2>3. JournalsOrdered'
    BY <1>0, <1>00, <2>1, <2>2, OrderOfDirOp
  <2>4. RecoveredJournal(x) = RecoveredJournal(disk)
        /\ RecoveredCheckpoint(x) = RecoveredCheckpoint(disk)
    BY <2>1, <2>2 DEF RecoveredJournal, RecoveredCheckpoint
  <2>5. RecoveredQueue(x) = RecoveredQueue(disk)
    BY <2>4, QueueSame
  <2> QED BY <1>00, <2>1, <2>3, <2>5 DEF QueueKept, SyncDirThen
<1>3. CASE CompactUnlink
  <2> DEFINE x == [disk EXCEPT !.manifest = NoManifest]
  <2>1. /\ SyncDirThen(x) /\ disk.manifest.exists /\ ~disk.compact.exists
        /\ disk.checkpoint.offset = 0
    BY <1>3 DEF CompactUnlink, Goto, RefinementInv, IInv, FilesAtPc, RecoverPcs
  <2>2. x.journal = disk.journal /\ x.compact = disk.compact /\ x.checkpoint = disk.checkpoint
        /\ x.manifest = NoManifest
    BY <1>0, ManifestField
  <2> HIDE DEF x
  <2>3. JournalsOrdered'
    BY <1>0, <1>00, <2>1, <2>2, OrderOfDirOp
  <2>4. RecoveredJournal(x) = RecoveredJournal(disk)
        /\ RecoveredCheckpoint(x).offset = RecoveredCheckpoint(disk).offset
    BY <1>0, <2>1, <2>2 DEF RecoveredJournal, RecoveredCheckpoint, NoManifest
  <2>5. RecoveredQueue(x) = RecoveredQueue(disk)
    BY <2>4, QueueSame
  <2> QED BY <1>00, <2>1, <2>3, <2>5 DEF QueueKept, SyncDirThen
<1> QED BY <1>1, <1>2, <1>3

(* The end of a call, a quarantine, and the end of a process. *)
LEMMA HiddenQuarantine ==
  ASSUME RefinementInv,
         \/ \E n \in 1..MaxEvents : QuarantineKnown(n) \/ QuarantineWrite(n)
         \/ \E n \in 1..MaxEvents, k \in 0..MaxEvents, t \in BOOLEAN : QuarantineFails(n, k, t)
         \/ QuarantineDone
  PROVE  JournalsOrdered' /\ QueueKept
<1>1. UNCHANGED <<generated, recorded, settled, powerLosses>>
  BY DEF QuarantineKnown, QuarantineWrite, QuarantineFails, QuarantineDone, ghosts, faults
<1>2. CASE \E n \in 1..MaxEvents : QuarantineKnown(n)
  <2>1. disk' = disk /\ hist' \subseteq hist
    BY <1>2 DEF QuarantineKnown
  <2> QED BY <1>1, <2>1, OrderOfSync DEF QueueKept
<1>3. CASE \/ \E n \in 1..MaxEvents : QuarantineWrite(n)
           \/ \E n \in 1..MaxEvents, k \in 0..MaxEvents, t \in BOOLEAN : QuarantineFails(n, k, t)
           \/ QuarantineDone
  <2>1. PICK f : WriteFailed(f) \/ (disk' = [disk EXCEPT !.failed = f] /\ hist' = {disk'})
    BY <1>3 DEF QuarantineWrite, QuarantineFails, QuarantineDone
  <2> QED BY <1>1, <2>1, HiddenFailedWrite DEF QueueKept
<1> QED BY <1>2, <1>3

LEMMA HiddenEnd ==
  ASSUME RefinementInv, ConfirmDone \/ CompactDone \/ Close \/ Kill
  PROVE  JournalsOrdered' /\ QueueKept
<1>1. /\ UNCHANGED <<generated, recorded, settled, powerLosses>>
      /\ disk' = disk /\ hist' \subseteq hist
  BY DiskFacts DEF ConfirmDone, CompactDone, Close, Kill, Dies, SyncDir, ghosts, faults
<1> QED BY <1>1, OrderOfSync DEF QueueKept
-----------------------------------------------------------------------------
(* The steps that change the queue or a promise. *)
LEMMA Appends ==
  ASSUME RefinementInv, pc = "idle", NEW n \in Nat, NEW k \in 0..n, generated' = generated + n,
         NEW es \in Seq(Nat), Len(es) = k, \A i \in 1..k : es[i] = generated + i,
         NEW f \in File, f.lines = disk.journal.lines \o es, WriteJournal(f)
  PROVE  JournalsOrdered' /\ RecoveredQueue(disk)' = RecoveredQueue(disk) \o es
<1> DEFINE lines == disk.journal.lines
           off == checkpointOffset
<1>0. /\ disk \in Directory /\ generated \in Nat /\ lines \in Seq(Nat) /\ off \in Nat
      /\ Ordered(lines, generated)
  BY DiskFacts, DirectoryFacts
<1>1. /\ ~disk.manifest.exists /\ disk.checkpoint.offset = off /\ off <= Len(lines)
      /\ RecoveredQueue(disk) = SubSeq(lines, off + 1, Len(lines))
  BY QueueAtRest
<1>2. generated' \in Nat /\ generated <= generated' /\ generated + k <= generated' /\ k \in Nat
  BY <1>0
<1>3. Ordered(f.lines, generated')
  BY <1>0, <1>2, OrderedAppend
<1>4. JournalsOrdered'
  BY <1>2, <1>3, OrderOfWrite
<1>5. disk' = [disk EXCEPT !.journal = f]
  BY DEF WriteJournal
<1>6. disk'.journal = f /\ disk'.checkpoint = disk.checkpoint /\ disk'.manifest = disk.manifest
  BY <1>0, <1>5, JournalField
<1>7. off \in 0..Len(lines) /\ Len(lines) \in Nat
  BY <1>0, <1>1, LenProperties
<1> HIDE DEF lines, off
<1>80. lines \o es \in Seq(Nat)
  BY <1>0
<1>8. /\ Len(lines \o es) = Len(lines) + Len(es) /\ lines \o es \in Seq(Nat)
      /\ SubSeq(lines, off + 1, Len(lines)) \o es = SubSeq(lines \o es, off + 1, Len(lines \o es))
  BY <1>0, <1>7, <1>80, TailGrows
<1>81. f.lines = lines \o es
  BY DEF lines
<1>9. disk'.checkpoint.offset = off /\ off <= Len(f.lines)
  BY <1>0, <1>1, <1>2, <1>6, <1>7, <1>8, <1>81
<1>10. ResumeOffset(disk'.checkpoint, f.lines) = off
  BY <1>0, <1>8, <1>81, <1>9, ResumesWithin
<1>11. RecoveredQueue(disk') = SubSeq(f.lines, off + 1, Len(f.lines))
  BY <1>1, <1>6, <1>10, QueueOfJournal
<1> QED BY <1>1, <1>4, <1>8, <1>81, <1>11

LEMMA VisibleAppendWrite ==
  ASSUME RefinementInv, NEW n \in 1..MaxAppend, AppendWrite(n)
  PROVE  JournalsOrdered' /\ Abstract!Offer
<1> DEFINE es == NewEvents(n)
           f == Written(disk.journal, es)
<1>0. generated \in Nat /\ disk.journal \in File /\ n \in Nat /\ n \in 0..n
  BY DiskFacts, DirectoryFacts, OutboxAssumption
<1>1. /\ pc = "idle" /\ generated' = generated + n /\ WriteJournal(f)
      /\ UNCHANGED <<recorded, settled, powerLosses>>
  BY DEF AppendWrite, Goto, faults
<1>2. FileOK(disk.journal) /\ ~disk.journal.torn
  BY <1>1, DiskFacts, DirectoryFacts DEF RefinementInv, IInv, FilesAtPc, CallPcs, DirectoryOK
<1>3. es \in Seq(Nat) /\ Len(es) = n /\ \A i \in 1..n : es[i] = generated + i
  BY <1>0, NewEventsElements
<1>4. es = [i \in 1..n |-> generated + i]
  BY DEF NewEvents
<1>5. f \in File /\ f.lines = disk.journal.lines \o es
  BY <1>0, <1>2, <1>3, WrittenOK
<1> HIDE DEF f, es
<1>6. JournalsOrdered' /\ RecoveredQueue(disk)' = RecoveredQueue(disk) \o es
  BY <1>0, <1>1, <1>3, <1>5, Appends
<1>7. n \in 1..(generated' - generated)
  BY <1>0, <1>1
<1> QED BY <1>0, <1>1, <1>4, <1>6, <1>7 DEF Abstract!Offer

LEMMA VisibleKillInAppend ==
  ASSUME RefinementInv, NEW n \in 1..MaxAppend, NEW k \in 0..MaxAppend, NEW t \in BOOLEAN,
         KillInAppend(n, k, t)
  PROVE  JournalsOrdered' /\ Abstract!Offer
<1> DEFINE es == SubSeq(NewEvents(n), 1, k)
           w == Written(disk.journal, es)
           f == IF t THEN TornAfter(w) ELSE w
<1>0. generated \in Nat /\ disk.journal \in File /\ n \in Nat /\ k \in Nat
  BY DiskFacts, DirectoryFacts, OutboxAssumption
<1>1. /\ pc = "idle" /\ generated' = generated + n /\ WriteJournal(f) /\ k < n
      /\ UNCHANGED <<recorded, settled, powerLosses>>
  BY DEF KillInAppend, Dies
<1>2. FileOK(disk.journal) /\ ~disk.journal.torn
  BY <1>1, DiskFacts, DirectoryFacts DEF RefinementInv, IInv, FilesAtPc, CallPcs, DirectoryOK
<1>3. k \in 0..n
  BY <1>0, <1>1
<1>4. es \in Seq(Nat) /\ Len(es) = k /\ (\A i \in 1..k : es[i] = generated + i)
      /\ es = [i \in 1..k |-> generated + i]
  BY <1>0, <1>3, NewEventsElements
<1> HIDE DEF es
<1>5. w \in File /\ w.lines = disk.journal.lines \o es /\ w.exists /\ FileOK(w)
  BY <1>0, <1>2, <1>4, WrittenOK
<1> HIDE DEF w
<1>6. TornAfter(w) \in File /\ TornAfter(w).lines = w.lines
  BY <1>5, TornAfterOK
<1>7. f \in File /\ f.lines = disk.journal.lines \o es
  BY <1>5, <1>6
<1> HIDE DEF f
<1>8. JournalsOrdered' /\ RecoveredQueue(disk)' = RecoveredQueue(disk) \o es
  BY <1>0, <1>1, <1>3, <1>4, <1>7, Appends
<1>9. n \in 1..(generated' - generated)
  BY <1>0, <1>1
<1> QED BY <1>1, <1>3, <1>4, <1>8, <1>9 DEF Abstract!Offer

LEMMA VisibleAppendFsync ==
  ASSUME RefinementInv, AppendFsync
  PROVE  JournalsOrdered' /\ Abstract!Record
<1> DEFINE f == Fsynced(disk.journal)
<1>0. disk.journal \in File /\ pending \in Seq(Nat) /\ inflight \in Seq(Nat)
  BY DiskFacts, DirectoryFacts DEF RefinementInv, IInv, JournalTypeOK, Line
<1>1. /\ pc = "append_fsync" /\ WriteJournal(f) /\ recorded' = recorded \cup Elements(inflight)
      /\ UNCHANGED <<generated, settled, powerLosses>>
  BY DEF AppendFsync, Goto, faults
<1>2. f \in File /\ f.lines = disk.journal.lines
  BY <1>0, FsyncedFields, FileOpsType
<1> HIDE DEF f
<1>3. JournalsOrdered' /\ RecoveredQueue(disk)' = RecoveredQueue(disk)
  BY <1>1, <1>2, HiddenWrite
<1>4. RecoveredQueue(disk) = pending \o inflight
  BY <1>1, QueueAtRest
<1>5. ASSUME NEW e \in Elements(inflight) PROVE e \in Elements(pending \o inflight)
  <2>1. PICK i \in 1..Len(inflight) : e = inflight[i]
    BY DEF Elements
  <2>2. /\ Len(pending) + i \in 1..Len(pending \o inflight)
        /\ (pending \o inflight)[Len(pending) + i] = inflight[i]
    BY <1>0, <2>1
  <2> QED BY <2>1, <2>2 DEF Elements
<1>6. recorded' \subseteq recorded \cup Abstract!InQueue(RecoveredQueue(disk))
  BY <1>1, <1>4, <1>5 DEF Abstract!InQueue, Elements
<1> QED BY <1>1, <1>3, <1>6 DEF Abstract!Record

LEMMA VisibleConfirm ==
  ASSUME RefinementInv, NEW n \in 1..MaxEvents, Confirm(n)
  PROVE  JournalsOrdered' /\ Abstract!Settle
<1> DEFINE lines == disk.journal.lines
           off == checkpointOffset
           c == [offset |-> checkpointOffset', base |-> journalBaseCount,
                 confirmed |-> confirmedSinceCompaction']
           x == [disk EXCEPT !.checkpoint = c]
<1>0. /\ disk \in Directory /\ lines \in Seq(Nat) /\ off \in Nat /\ pending \in Seq(Nat)
      /\ Ordered(lines, generated) /\ Ordered(disk.compact.lines, generated)
      /\ n \in Nat /\ n >= 1 /\ Len(lines) \in Nat
  BY DiskFacts, DirectoryFacts, OutboxAssumption, LenProperties
     DEF RefinementInv, IInv, JournalTypeOK, Line
<1>1. /\ pc = "idle" /\ n <= Len(pending) /\ checkpointOffset' = off + n /\ DirOp(x)
      /\ settled' = settled \cup {pending[i] : i \in 1..n}
      /\ UNCHANGED <<generated, recorded, powerLosses>>
  BY DEF Confirm, Goto, faults
<1>2. /\ ~disk.manifest.exists /\ off <= Len(lines)
      /\ RecoveredQueue(disk) = pending
      /\ pending = SubSeq(lines, off + 1, Len(lines))
  <2>1. pc \in {"idle", "confirm_sync", "compact_manifest", "append_fsync"} /\ pc # "append_fsync"
    BY <1>1
  <2> QED BY <2>1, QueueAtRest
<1>3. off \in 0..Len(lines)
  BY <1>0, <1>2
<1>4. Len(pending) = Len(lines) - off
  BY <1>0, <1>2, <1>3, TailElements
<1>5. n <= Len(lines) - off /\ off + n \in Nat /\ off + n <= Len(lines)
  BY <1>0, <1>1, <1>3, <1>4
<1>6. x.journal = disk.journal /\ x.compact = disk.compact /\ x.checkpoint = c
      /\ x.manifest = disk.manifest /\ c.offset = off + n
  BY <1>0, <1>1, CheckpointField
<1> HIDE DEF x, c
<1>7. JournalsOrdered'
  BY <1>0, <1>1, <1>6, OrderOfDirOp
<1>8. ResumeOffset(c, lines) = off + n
  BY <1>0, <1>5, <1>6, ResumesWithin
<1>9. RecoveredQueue(x) = SubSeq(lines, off + n + 1, Len(lines))
  BY <1>2, <1>6, <1>8, QueueOfJournal
<1>10. SubSeq(pending, n + 1, Len(pending)) = SubSeq(lines, off + n + 1, Len(lines))
  <2> HIDE DEF lines, off
  <2>1. LET u == SubSeq(lines, off + 1, Len(lines))
        IN  SubSeq(u, n + 1, Len(u)) = SubSeq(lines, off + n + 1, Len(lines))
    BY <1>0, <1>3, <1>5, TailOfTail
  <2> QED BY <1>2, <2>1
<1>11. RecoveredQueue(disk)' = SubSeq(RecoveredQueue(disk), n + 1, Len(RecoveredQueue(disk)))
  BY <1>1, <1>2, <1>9, <1>10 DEF DirOp
<1>12. {pending[i] : i \in 1..n} = Abstract!InQueue(SubSeq(pending, 1, n))
  <2>1. n \in 0..Len(pending)
    BY <1>0, <1>1
  <2>2. Len(SubSeq(pending, 1, n)) = n /\ \A i \in 1..n : SubSeq(pending, 1, n)[i] = pending[i]
    BY <1>0, <2>1
  <2> QED BY <2>2 DEF Abstract!InQueue
<1>13. n \in 1..Len(RecoveredQueue(disk))
  BY <1>0, <1>1, <1>2
<1> QED BY <1>1, <1>2, <1>7, <1>11, <1>12, <1>13 DEF Abstract!Settle

(* What a power loss leaves of a file is a prefix of it. *)
LEMMA OrderOfSurvivor ==
  ASSUME NEW f \in File, NEW h \in Survivors(f), NEW g \in Nat, Ordered(f.lines, g)
  PROVE  Ordered(h.lines, g)
<1>0. f.lines \in Seq(Nat) /\ f.synced \in Nat /\ Len(f.lines) \in Nat
  BY FileFields DEF Line
<1>1. CASE h = f
  BY <1>1
<1>2. ASSUME NEW k \in f.synced..Len(f.lines), NEW t \in BOOLEAN, h = Cut(f, k, t)
      PROVE  Ordered(h.lines, g)
  <2>1. k \in 0..Len(f.lines)
    BY <1>0
  <2>2. h.lines = SubSeq(f.lines, 1, k)
    BY <1>2 DEF Cut, FileOf
  <2> QED BY <1>0, <2>1, <2>2, OrderedHead
<1> QED BY <1>1, <1>2 DEF Survivors

LEMMA OrderOfQueue ==
  ASSUME NEW d \in Directory, NEW g \in Nat,
         Ordered(d.journal.lines, g), Ordered(d.compact.lines, g)
  PROVE  RecoveredQueue(d) \in Seq(Nat) /\ Ordered(RecoveredQueue(d), g)
<1> DEFINE s == RecoveredJournal(d).lines
           off == ResumeOffset(RecoveredCheckpoint(d), s)
<1>1. s \in Seq(Nat) /\ RecoveredCheckpoint(d) \in Checkpoint /\ Ordered(s, g)
  BY RecoveredTypes, FileFields DEF RecoveredJournal, Line
<1>2. off \in 0..Len(s)
  BY <1>1, ResumeOffsetType DEF Line
<1>3. RecoveredQueue(d) = SubSeq(s, off + 1, Len(s))
  BY DEF RecoveredQueue
<1> HIDE DEF s, off
<1> QED BY <1>1, <1>2, <1>3, OrderedTail, TailElements

LEMMA VisiblePowerLoss ==
  ASSUME RefinementInv, PowerLoss
  PROVE  JournalsOrdered' /\ Abstract!PowerLoss
<1>1. PICK d \in hist : disk' \in PowerLossImages(d)
  BY DEF PowerLoss
<1>2. /\ hist' = {disk'} /\ powerLosses' = powerLosses + 1
      /\ UNCHANGED <<generated, recorded, settled>>
  BY DEF PowerLoss
<1>3. /\ d \in Directory /\ DirectoryOK(d) /\ d.journal \in File /\ d.compact \in File
      /\ Ordered(d.journal.lines, generated) /\ Ordered(d.compact.lines, generated)
      /\ generated \in Nat
  BY DirectoryFacts, DiskFacts
<1>4. disk'.journal \in Survivors(d.journal) /\ disk'.compact \in Survivors(d.compact)
  BY <1>1 DEF PowerLossImages
<1>5. Ordered(disk'.journal.lines, generated) /\ Ordered(disk'.compact.lines, generated)
  BY <1>3, <1>4, OrderOfSurvivor
<1>6. disk' \in Directory
  BY <1>1, <1>3, PowerLossKeeps
<1>7. RecoveredQueue(disk') \in Seq(Nat) /\ Ordered(RecoveredQueue(disk'), generated)
  BY <1>3, <1>5, <1>6, OrderOfQueue
<1>8. recorded \ settled \subseteq Elements(RecoveredQueue(disk'))
  BY <1>1, InvariantImpliesNoLoss DEF RefinementInv, NoLoss
<1>9. JournalsOrdered'
  BY <1>2, <1>5 DEF JournalsOrdered
<1> QED BY <1>2, <1>7, <1>8, <1>9 DEF Abstract!PowerLoss, Abstract!InQueue, Elements, Ordered
-----------------------------------------------------------------------------
LEMMA RefinementInit == Init => RefinementInv /\ Abstract!Init
<1> SUFFICES ASSUME Init
             PROVE  RefinementInv /\ Abstract!Init
  OBVIOUS
<1>1. disk = EmptyDir /\ hist = {EmptyDir} /\ generated = 0 /\ recorded = {} /\ settled = {}
      /\ powerLosses = 0
  BY DEF Init
<1>2. /\ EmptyDir.journal.lines = <<>> /\ EmptyDir.compact.lines = <<>>
      /\ ~EmptyDir.manifest.exists /\ EmptyDir.checkpoint.offset = 0
  BY DEF EmptyDir, NoFile, NoManifest, ZeroCheckpoint
<1>3. JournalsOrdered
  BY <1>1, <1>2, OrderedEmpty DEF JournalsOrdered
<1>4. ResumeOffset(EmptyDir.checkpoint, <<>>) = 0
  BY <1>2 DEF ResumeOffset
<1>5. RecoveredQueue(EmptyDir) = <<>>
  BY <1>2, <1>4, QueueOfJournal
<1> QED BY <1>1, <1>3, <1>5, InvariantInit DEF RefinementInv, Abstract!Init

LEMMA RefinementStep ==
  ASSUME RefinementInv, [Next]_vars
  PROVE  RefinementInv' /\ [Abstract!Next]_(Abstract!vars)
<1>0. IInv'
  BY InvariantStep DEF RefinementInv
<1>1. (JournalsOrdered' /\ QueueKept) => RefinementInv' /\ [Abstract!Next]_(Abstract!vars)
  BY <1>0 DEF RefinementInv, QueueKept, Abstract!vars
<1>2. CASE OpenStep
  BY <1>1, <1>2, HiddenRecover, HiddenTail, HiddenOpen DEF OpenStep
<1>3. CASE CallStep
  <2>1. CASE AppendFsync
    BY <1>0, <2>1, VisibleAppendFsync DEF RefinementInv, Abstract!Next
  <2> QED BY <1>1, <1>3, <2>1, HiddenEnd, HiddenQuarantine, HiddenCompactWrite,
             HiddenCompactManifest, HiddenCompactSwap DEF CallStep
<1>4. CASE Call
  <2>1. CASE \E n \in 1..MaxAppend : AppendWrite(n)
    BY <1>0, <2>1, VisibleAppendWrite DEF RefinementInv, Abstract!Next
  <2>2. CASE \E n \in 1..MaxEvents : Confirm(n)
    BY <1>0, <2>2, VisibleConfirm DEF RefinementInv, Abstract!Next
  <2> QED BY <1>1, <1>4, <2>1, <2>2, HiddenEnd, HiddenQuarantine DEF Call
<1>5. CASE Crash
  <2>1. CASE Kill
    BY <1>1, <2>1, HiddenEnd
  <2>2. CASE \E n \in 1..MaxAppend, k \in 0..MaxAppend, t \in BOOLEAN : KillInAppend(n, k, t)
    BY <1>0, <2>2, VisibleKillInAppend DEF RefinementInv, Abstract!Next
  <2>3. CASE PowerLoss
    BY <1>0, <2>3, VisiblePowerLoss DEF RefinementInv, Abstract!Next
  <2> QED BY <1>5, <2>1, <2>2, <2>3 DEF Crash
<1>6. CASE UNCHANGED vars
  <2>1. disk' = disk /\ hist' = hist /\ UNCHANGED <<generated, recorded, settled, powerLosses>>
    BY <1>6 DEF vars, ghosts, faults
  <2> QED BY <1>1, <2>1, OrderOfSync DEF QueueKept
<1> QED BY <1>2, <1>3, <1>4, <1>5, <1>6 DEF Next

(***************************************************************************)
(* Outbox implements OutboxQueue: to its caller, appendMany() and          *)
(* confirm() act on a queue that no kill, no recovery step and no step of  *)
(* maybeCompact() changes, and that a power loss leaves in the order of    *)
(* generation with every event in it whose appendMany() returned.          *)
(***************************************************************************)
THEOREM OutboxImplementsQueue == Spec => ImplementsQueue
<1>1. Init => RefinementInv /\ Abstract!Init
  BY RefinementInit
<1>2. RefinementInv /\ [Next]_vars => RefinementInv' /\ [Abstract!Next]_(Abstract!vars)
  BY RefinementStep
<1> QED BY <1>1, <1>2, PTL DEF Spec, ImplementsQueue, Abstract!Spec

(* What confirm() takes from memory is what a restart would send next. *)
LEMMA InvariantImpliesTail == RefinementInv => PendingIsJournalTail
<1> SUFFICES ASSUME RefinementInv,
                    pc \in {"idle", "confirm_sync", "compact_manifest", "compact_rename",
                            "compact_checkpoint", "compact_unlink", "compact_unlinked"}
             PROVE  /\ pending = RecoveredQueue(disk)
                    /\ \A i, j \in 1..Len(pending) : i < j => pending[i] < pending[j]
  BY DEF PendingIsJournalTail
<1>0. /\ disk \in Directory /\ DirectoryOK(disk) /\ pending \in Seq(Nat) /\ generated \in Nat
      /\ Ordered(disk.journal.lines, generated) /\ Ordered(disk.compact.lines, generated)
  BY DiskFacts, DirectoryFacts DEF RefinementInv, IInv, JournalTypeOK, Line
<1>1. pending = RecoveredQueue(disk)
  <2>1. CASE pc \in {"idle", "confirm_sync", "compact_manifest"}
    <3>1. pc \in {"idle", "confirm_sync", "compact_manifest", "append_fsync"} /\ pc # "append_fsync"
      BY <2>1
    <3> QED BY <3>1, QueueAtRest
  <2>2. CASE pc \notin {"idle", "confirm_sync", "compact_manifest"}
    <3>1. RecoveredJournal(disk).lines = pending /\ RecoveredCheckpoint(disk).offset = 0
      BY <1>0, <2>2 DEF RefinementInv, IInv, FilesAtPc, MemoryIsTail, RecoverPcs, PlainPcs,
                        RecoveredJournal, RecoveredCheckpoint, DirectoryOK
    <3>2. ResumeOffset(RecoveredCheckpoint(disk), pending) = 0
      BY <1>0, <3>1, LenProperties DEF ResumeOffset
    <3>3. RecoveredQueue(disk) = SubSeq(pending, 0 + 1, Len(pending))
      BY <3>1, <3>2 DEF RecoveredQueue
    <3> QED BY <1>0, <3>3
  <2> QED BY <2>1, <2>2
<1> QED BY <1>0, <1>1, OrderOfQueue DEF Ordered

(***************************************************************************)
(* While the outbox serves calls, the pending array holds what a restart   *)
(* would load, in the order of generation and without repetition: confirm()*)
(* settles the events the batch was made of, also after a compaction.      *)
(***************************************************************************)
THEOREM MemoryIsJournalTail == Spec => []PendingIsJournalTail
<1>1. Init => RefinementInv
  BY RefinementInit
<1>2. RefinementInv /\ [Next]_vars => RefinementInv'
  BY RefinementStep
<1>3. RefinementInv => PendingIsJournalTail
  BY InvariantImpliesTail
<1> QED BY <1>1, <1>2, <1>3, PTL DEF Spec
-----------------------------------------------------------------------------
LEMMA AccountFacts ==
  ASSUME RefinementInv, AccountInv
  PROVE  /\ disk \in Directory /\ disk \in hist /\ hist \subseteq Directory
         /\ journaled \subseteq Nat /\ IsFiniteSet(journaled) /\ Cardinality(journaled) \in Nat
         /\ journaled \subseteq 1..generated /\ generated \in Nat
         /\ disk.journal \in File /\ disk.compact \in File /\ disk.checkpoint \in Checkpoint
         /\ \A d \in hist : Accounted(d)
         /\ journalBaseCount \in Nat /\ journalEntryCount \in Nat /\ checkpointOffset \in Nat
         /\ confirmedSinceCompaction \in Nat /\ Len(disk.journal.lines) \in Nat
<1>1. /\ disk \in hist /\ hist \subseteq Directory /\ journaled \subseteq Nat /\ generated \in Nat
      /\ journalBaseCount \in Nat /\ journalEntryCount \in Nat /\ checkpointOffset \in Nat
      /\ confirmedSinceCompaction \in Nat
  BY DEF RefinementInv, IInv, JournalTypeOK, DirectoriesOK
<1>2. disk.journal \in File /\ disk.compact \in File /\ disk.checkpoint \in Checkpoint
  BY <1>1, DirectoryUpdate
<1>3. journaled \subseteq 1..generated /\ \A d \in hist : Accounted(d)
  BY DEF AccountInv, AccountsOK
<1>4. IsFiniteSet(journaled) /\ Cardinality(journaled) \in Nat
  <2>1. IsFiniteSet(1..generated)
    BY <1>1, FS_Interval
  <2> QED BY <1>3, <2>1, FS_Subset, FS_CardinalityType
<1>5. Len(disk.journal.lines) \in Nat
  BY <1>2, FileFields
<1> QED BY <1>1, <1>2, <1>3, <1>4, <1>5

(* The account of a directory depends on what open() takes from it. *)
LEMMA AccountSame ==
  ASSUME NEW d, NEW x, Accounted(d),
         RecoveredJournal(x).lines = RecoveredJournal(d).lines,
         RecoveredCheckpoint(x).base = RecoveredCheckpoint(d).base
  PROVE  Accounted(x)
  BY DEF Accounted

LEMMA AccountsKept ==
  ASSUME RefinementInv, AccountInv, journaled' = journaled, generated' = generated,
         \A x \in hist' : Accounted(x)
  PROVE  AccountsOK'
<1>1. \A x \in hist' : Accounted(x)'
  BY DEF Accounted, RecoveredJournal, RecoveredCheckpoint
<1> QED BY <1>1 DEF AccountsOK, AccountInv

(* A directory operation, or an fsync of the directory. *)
LEMMA AccountDirOp ==
  ASSUME RefinementInv, AccountInv, journaled' = journaled, generated' = generated,
         NEW x, DirOp(x) \/ SyncDirThen(x),
         RecoveredJournal(x).lines = RecoveredJournal(disk).lines,
         RecoveredCheckpoint(x).base = RecoveredCheckpoint(disk).base
  PROVE  AccountsOK' /\ disk' = x
<1>1. \A d \in hist' : d \in hist \/ d = x
  BY AccountFacts DEF DirOp, SyncDirThen
<1>2. Accounted(x)
  BY AccountFacts, AccountSame
<1>3. \A d \in hist' : Accounted(d)
  BY <1>1, <1>2, AccountFacts
<1> QED BY <1>3, AccountsKept DEF DirOp, SyncDirThen

LEMMA AccountSync ==
  ASSUME RefinementInv, AccountInv, journaled' = journaled, generated' = generated,
         hist' \subseteq hist
  PROVE  AccountsOK'
  BY AccountFacts, AccountsKept

(* open(), before it loads the journal *)
LEMMA AccountRecover ==
  ASSUME RefinementInv, AccountInv,
         RecoverNoManifest \/ RecoverRename \/ RecoverSync \/ RecoverCheckpoint
            \/ RecoverUnlink \/ RecoverDone
  PROVE  AccountInv'
<1>0. /\ disk \in Directory /\ disk \in hist
  BY AccountFacts
<1>00. /\ journaled' = journaled /\ generated' = generated
       /\ pc' \in {"tail_journal", "recover_sync", "recover_checkpoint", "recover_unlink",
                   "recover_unlinked"}
  BY DEF RecoverNoManifest, RecoverRename, RecoverSync, RecoverCheckpoint, RecoverUnlink,
         RecoverDone, ghosts, Goto
<1>1. AccountsOK' /\ (pc' = "recover_unlink" => disk'.checkpoint = disk'.manifest.checkpoint)
  <2>1. CASE RecoverNoManifest
    <3> DEFINE x == [disk EXCEPT !.compact = NoFile]
    <3>1. DirOp(x) /\ ~disk.manifest.exists /\ pc' = "tail_journal"
      BY <2>1 DEF RecoverNoManifest, Goto
    <3>2. x.journal = disk.journal /\ x.checkpoint = disk.checkpoint
          /\ x.manifest = disk.manifest
      BY <1>0, CompactField
    <3> HIDE DEF x
    <3>3. RecoveredJournal(x) = RecoveredJournal(disk)
          /\ RecoveredCheckpoint(x) = RecoveredCheckpoint(disk)
      BY <3>1, <3>2 DEF RecoveredJournal, RecoveredCheckpoint
    <3> QED BY <1>00, <3>1, <3>3, AccountDirOp
  <2>2. CASE RecoverRename
    <3> DEFINE x == [disk EXCEPT !.journal = disk.compact, !.compact = NoFile]
    <3>1. DirOp(x) /\ disk.manifest.exists /\ disk.compact.exists /\ pc' = "recover_sync"
      BY <2>2 DEF RecoverRename, Goto
    <3>2. x.journal = disk.compact /\ x.compact = NoFile /\ x.manifest = disk.manifest
      BY <1>0, RenameField
    <3> HIDE DEF x
    <3>3. RecoveredJournal(x) = RecoveredJournal(disk)
          /\ RecoveredCheckpoint(x) = RecoveredCheckpoint(disk)
      BY <3>1, <3>2, NoFileFields DEF RecoveredJournal, RecoveredCheckpoint
    <3> QED BY <1>00, <3>1, <3>3, AccountDirOp
  <2>3. CASE RecoverSync \/ RecoverDone
    <3>1. hist' \subseteq hist /\ pc' # "recover_unlink"
      BY <1>0, <2>3 DEF RecoverSync, RecoverDone, SyncDir, Goto
    <3> QED BY <1>00, <3>1, AccountSync
  <2>4. CASE RecoverCheckpoint
    <3> DEFINE x == [disk EXCEPT !.checkpoint = disk.manifest.checkpoint]
    <3>1. DirOp(x) /\ disk.manifest.exists
      BY <2>4 DEF RecoverCheckpoint, Goto, RefinementInv, IInv, FilesAtPc, RecoverPcs
    <3>2. x.journal = disk.journal /\ x.compact = disk.compact /\ x.manifest = disk.manifest
          /\ x.checkpoint = disk.manifest.checkpoint
      BY <1>0, CheckpointField
    <3> HIDE DEF x
    <3>3. RecoveredJournal(x) = RecoveredJournal(disk)
          /\ RecoveredCheckpoint(x) = RecoveredCheckpoint(disk)
      BY <3>1, <3>2 DEF RecoveredJournal, RecoveredCheckpoint
    <3> QED BY <1>00, <3>1, <3>2, <3>3, AccountDirOp
  <2>5. CASE RecoverUnlink
    <3> DEFINE x == [disk EXCEPT !.manifest = NoManifest]
    <3>1. /\ SyncDirThen(x) /\ disk.manifest.exists /\ ~disk.compact.exists
          /\ disk.checkpoint = disk.manifest.checkpoint /\ pc' # "recover_unlink"
      BY <2>5 DEF RecoverUnlink, Goto, RefinementInv, IInv, FilesAtPc, RecoverPcs,
                  AccountInv, AccountInMemory
    <3>2. x.journal = disk.journal /\ x.compact = disk.compact /\ x.checkpoint = disk.checkpoint
          /\ x.manifest = NoManifest
      BY <1>0, ManifestField
    <3> HIDE DEF x
    <3>3. RecoveredJournal(x) = RecoveredJournal(disk)
          /\ RecoveredCheckpoint(x) = RecoveredCheckpoint(disk)
      BY <3>1, <3>2 DEF RecoveredJournal, RecoveredCheckpoint, NoManifest
    <3> QED BY <1>00, <3>1, <3>3, AccountDirOp
  <2> QED BY <2>1, <2>2, <2>3, <2>4, <2>5
<1>2. AccountInMemory'
  BY <1>00, <1>1 DEF AccountInMemory, CallPcs
<1> QED BY <1>1, <1>2 DEF AccountInv

(* A write that leaves the lines of the journal as they are. *)
LEMMA AccountRewrite ==
  ASSUME RefinementInv, AccountInv, journaled' = journaled, generated' = generated,
         ~disk.manifest.exists, NEW f \in File, f.lines = disk.journal.lines,
         WriteJournal(f) \/ (disk' = [disk EXCEPT !.journal = f] /\ hist' = {disk'})
  PROVE  AccountsOK' /\ disk'.journal.lines = disk.journal.lines
         /\ disk'.checkpoint = disk.checkpoint
<1>0. disk \in Directory /\ disk \in hist /\ hist \subseteq Directory
  BY AccountFacts
<1>1. disk' = [disk EXCEPT !.journal = f]
  BY DEF WriteJournal
<1>2. /\ disk'.journal = f /\ disk'.compact = disk.compact
      /\ disk'.checkpoint = disk.checkpoint /\ disk'.manifest = disk.manifest
  BY <1>0, <1>1, JournalField
<1>3. Accounted(disk')
  <2>1. RecoveredJournal(disk').lines = RecoveredJournal(disk).lines
        /\ RecoveredCheckpoint(disk') = RecoveredCheckpoint(disk)
    BY <1>2 DEF RecoveredJournal, RecoveredCheckpoint
  <2> QED BY <1>0, <2>1, AccountFacts, AccountSame
<1>4. ASSUME NEW x \in hist' PROVE Accounted(x)
  <2>1. CASE x = disk'
    BY <1>3, <2>1
  <2>2. CASE x # disk'
    <3>1. PICK d \in hist : x = [d EXCEPT !.journal = IF d.journal.exists THEN f ELSE d.journal]
      BY <2>2 DEF WriteJournal
    <3> DEFINE g == IF d.journal.exists THEN f ELSE d.journal
    <3>2. x = [d EXCEPT !.journal = g]
      BY <3>1
    <3>3. g.lines = d.journal.lines
      BY DEF RefinementInv, IInv, OneJournal
    <3> HIDE DEF g
    <3>4. /\ x.journal = g /\ x.compact = d.compact
          /\ x.checkpoint = d.checkpoint /\ x.manifest = d.manifest
      BY <1>0, <3>2, JournalField
    <3>5. RecoveredJournal(x).lines = RecoveredJournal(d).lines
          /\ RecoveredCheckpoint(x) = RecoveredCheckpoint(d)
      BY <3>3, <3>4 DEF RecoveredJournal, RecoveredCheckpoint
    <3> QED BY <3>5, AccountFacts, AccountSame
  <2> QED BY <2>1, <2>2
<1> QED BY <1>2, <1>4, AccountsKept

(* A write to failed.jsonl. *)
LEMMA AccountFailedWrite ==
  ASSUME RefinementInv, AccountInv, journaled' = journaled, generated' = generated,
         NEW f, WriteFailed(f) \/ (disk' = [disk EXCEPT !.failed = f] /\ hist' = {disk'})
  PROVE  AccountsOK' /\ disk'.journal = disk.journal /\ disk'.checkpoint = disk.checkpoint
         /\ disk'.manifest = disk.manifest
<1>0. disk \in Directory /\ disk \in hist /\ hist \subseteq Directory
  BY AccountFacts
<1>1. disk' = [disk EXCEPT !.failed = f]
  BY DEF WriteFailed
<1>2. /\ disk'.journal = disk.journal /\ disk'.compact = disk.compact
      /\ disk'.checkpoint = disk.checkpoint /\ disk'.manifest = disk.manifest
  BY <1>0, <1>1, FailedField
<1>3. ASSUME NEW x \in hist'
      PROVE  \E d \in hist : x.journal = d.journal /\ x.compact = d.compact
                               /\ x.checkpoint = d.checkpoint /\ x.manifest = d.manifest
  <2>1. CASE x = disk'
    BY <1>0, <1>2, <2>1
  <2>2. CASE x # disk'
    <3>1. PICK d \in hist : x = [d EXCEPT !.failed = IF d.failed.exists THEN f ELSE d.failed]
      BY <1>1, <2>2 DEF WriteFailed, FailedImages
    <3> QED BY <1>0, <3>1, FailedField
  <2> QED BY <2>1, <2>2
<1>4. ASSUME NEW x \in hist' PROVE Accounted(x)
  <2>1. PICK d \in hist : x.journal = d.journal /\ x.compact = d.compact
                            /\ x.checkpoint = d.checkpoint /\ x.manifest = d.manifest
    BY <1>3
  <2>2. RecoveredJournal(x) = RecoveredJournal(d)
        /\ RecoveredCheckpoint(x) = RecoveredCheckpoint(d)
    BY <2>1 DEF RecoveredJournal, RecoveredCheckpoint
  <2> QED BY <2>2, AccountFacts, AccountSame
<1> QED BY <1>2, <1>4, AccountsKept

LEMMA AccountTail ==
  ASSUME RefinementInv, AccountInv,
         TailJournal \/ TailJournalSync \/ TailFailed \/ TailFailedSync
  PROVE  AccountInv'
<1>0. disk.journal \in File
  BY AccountFacts
<1>1. /\ journaled' = journaled /\ generated' = generated /\ ~disk.manifest.exists
      /\ pc' \in {"tail_journal_sync", "tail_failed", "tail_failed_sync", "load"}
  BY DEF TailJournal, TailJournalSync, TailFailed, TailFailedSync, ghosts, Goto,
         RefinementInv, IInv, FilesAtPc, PlainPcs
<1>2. AccountsOK'
  <2>1. CASE TailJournal /\ disk.journal.torn
    <3>1. WriteJournal(Truncated(disk.journal))
      BY <2>1 DEF TailJournal
    <3> QED BY <1>0, <1>1, <3>1, FileOpsType, TruncatedFields, AccountRewrite
  <2>2. CASE TailJournalSync
    <3>1. disk' = [disk EXCEPT !.journal = Fsynced(disk.journal)] /\ hist' = {disk'}
      BY <2>2 DEF TailJournalSync
    <3> QED BY <1>0, <1>1, <3>1, FileOpsType, FsyncedFields, AccountRewrite
  <2>3. CASE (TailFailed /\ disk.failed.torn) \/ TailFailedSync
    <3>1. PICK f : WriteFailed(f) \/ (disk' = [disk EXCEPT !.failed = f] /\ hist' = {disk'})
      BY <2>3 DEF TailFailed, TailFailedSync
    <3> QED BY <1>1, <3>1, AccountFailedWrite
  <2>4. CASE (TailJournal /\ ~disk.journal.torn) \/ (TailFailed /\ ~disk.failed.torn)
    <3>1. hist' = hist
      BY <2>4 DEF TailJournal, TailFailed
    <3> QED BY <1>1, <3>1, AccountSync
  <2> QED BY <2>1, <2>2, <2>3, <2>4
<1>3. AccountInMemory'
  BY <1>1 DEF AccountInMemory, CallPcs
<1> QED BY <1>2, <1>3 DEF AccountInv
-----------------------------------------------------------------------------
(* The rest of open(). *)
LEMMA AccountLoad ==
  ASSUME RefinementInv, AccountInv, Load
  PROVE  AccountInv'
<1>0. /\ disk \in Directory /\ journaled' = journaled /\ generated' = generated
      /\ inflight' = inflight /\ ~disk.manifest.exists
  BY AccountFacts DEF Load, ghosts, Goto, RefinementInv, IInv, FilesAtPc, PlainPcs
<1>1. CASE pc' = "refused"
  <2>1. hist' = hist
    BY <1>1 DEF Load, LoadState
  <2>2. AccountInMemory'
    BY <1>1 DEF AccountInMemory, CallPcs
  <2> QED BY <1>0, <2>1, <2>2, AccountSync DEF AccountInv
<1>2. CASE LoadState
  <2> DEFINE off == ResumeOffset(disk.checkpoint, disk.journal.lines)
             c == [offset |-> off, base |-> disk.checkpoint.base, confirmed |-> off]
             x == [disk EXCEPT !.checkpoint = c]
  <2>1. /\ DirOp(x) /\ pc' = "open_journal" /\ checkpointOffset' = off
        /\ confirmedSinceCompaction' = off /\ journalBaseCount' = disk.checkpoint.base
        /\ journalEntryCount' = Len(disk.journal.lines)
    BY <1>2 DEF LoadState
  <2>2. x.journal = disk.journal /\ x.manifest = disk.manifest /\ x.checkpoint = c
        /\ c.base = disk.checkpoint.base
    BY <1>0, CheckpointField
  <2> HIDE DEF x, c, off
  <2>3. RecoveredJournal(x) = RecoveredJournal(disk)
        /\ RecoveredCheckpoint(x).base = RecoveredCheckpoint(disk).base
    BY <1>0, <2>2 DEF RecoveredJournal, RecoveredCheckpoint
  <2>4. AccountsOK' /\ disk' = x
    BY <1>0, <2>1, <2>3, AccountDirOp
  <2>5. journalEntryCount' + 0 = Len(disk.journal.lines)
    BY <2>1, AccountFacts
  <2>6. AccountInMemory'
    BY <2>1, <2>2, <2>4, <2>5 DEF AccountInMemory, SwapPcs
  <2> QED BY <2>4, <2>6 DEF AccountInv
<1> QED BY <1>1, <1>2 DEF Load

LEMMA AccountOpen ==
  ASSUME RefinementInv, AccountInv, OpenJournal \/ OpenSync
  PROVE  AccountInv'
<1>0. /\ disk \in Directory /\ disk \in hist /\ DirectoryOK(disk)
  BY AccountFacts, DirectoryFacts
<1>1. /\ journaled' = journaled /\ generated' = generated /\ UNCHANGED jmem
      /\ inflight' = inflight
      /\ pc \in {"open_journal", "open_sync"} /\ pc' \in {"open_sync", "idle"}
      /\ ~disk.manifest.exists
  BY DEF OpenJournal, OpenSync, ghosts, Goto, RefinementInv, IInv, FilesAtPc, PlainPcs
<1>2. /\ confirmedSinceCompaction = checkpointOffset
      /\ journalBaseCount = disk.checkpoint.base
      /\ journalEntryCount + 0 = Len(disk.journal.lines)
  BY <1>1 DEF AccountInv, AccountInMemory, CallPcs, SwapPcs
<1>3. AccountsOK' /\ disk'.journal.lines = disk.journal.lines
      /\ disk'.checkpoint = disk.checkpoint
  <2>1. CASE OpenSync \/ (OpenJournal /\ disk.journal.exists)
    <3>1. disk' = disk /\ hist' \subseteq hist
      BY <1>0, <2>1 DEF OpenSync, OpenJournal, SyncDir
    <3> QED BY <1>1, <3>1, AccountSync
  <2>2. CASE OpenJournal /\ ~disk.journal.exists
    <3> DEFINE x == [disk EXCEPT !.journal = EmptyFile]
    <3>1. SyncDirThen(x)
      BY <2>2 DEF OpenJournal
    <3>2. x.journal = EmptyFile /\ x.checkpoint = disk.checkpoint /\ x.manifest = disk.manifest
      BY <1>0, JournalField
    <3>3. EmptyFile.lines = <<>> /\ disk.journal.lines = <<>>
      BY <1>0, <2>2 DEF EmptyFile, FileOf, DirectoryOK, FileOK
    <3> HIDE DEF x
    <3>4. RecoveredJournal(x).lines = RecoveredJournal(disk).lines
          /\ RecoveredCheckpoint(x) = RecoveredCheckpoint(disk)
      BY <1>1, <3>2, <3>3, QueueOfJournal
    <3>5. AccountsOK' /\ disk' = x
      BY <1>1, <3>1, <3>4, AccountDirOp
    <3> QED BY <3>2, <3>3, <3>5
  <2> QED BY <2>1, <2>2 DEF OpenJournal
<1>4. AccountInMemory'
  BY <1>1, <1>2, <1>3 DEF AccountInMemory, jmem
<1> QED BY <1>3, <1>4 DEF AccountInv
-----------------------------------------------------------------------------
(* appendMany() *)
LEMMA AccountAppends ==
  ASSUME RefinementInv, AccountInv, pc = "idle", NEW n \in Nat, NEW k \in 0..n,
         generated' = generated + n,
         NEW es \in Seq(Nat), Len(es) = k, \A i \in 1..k : es[i] = generated + i,
         NEW f \in File, f.lines = disk.journal.lines \o es, WriteJournal(f),
         journaled' = journaled \cup Elements(es)
  PROVE  AccountsOK' /\ disk'.journal.lines = disk.journal.lines \o es
         /\ disk'.checkpoint = disk.checkpoint
<1> DEFINE lines == disk.journal.lines
           new == (generated + 1)..(generated + k)
<1>0. /\ disk \in Directory /\ disk \in hist /\ hist \subseteq Directory /\ generated \in Nat
      /\ lines \in Seq(Nat) /\ ~disk.manifest.exists /\ disk.journal.exists /\ k \in Nat
  BY AccountFacts, DirectoryFacts, QueueAtRest
     DEF RefinementInv, IInv, FilesAtPc, CallPcs
<1>1. Elements(es) = new
  <2>1. \A e \in new : e - generated \in 1..k /\ es[e - generated] = e
    BY <1>0
  <2>2. \A i \in 1..k : es[i] \in new
    BY <1>0
  <2> QED BY <2>1, <2>2 DEF Elements
<1>2. IsFiniteSet(new) /\ Cardinality(new) = k
  <2> DEFINE a == generated + 1
             b == generated + k
  <2>1. a \in Int /\ b \in Int /\ (IF a > b THEN 0 ELSE b - a + 1) = k
    BY <1>0
  <2> HIDE DEF a, b
  <2>2. IsFiniteSet(a..b) /\ Cardinality(a..b) = IF a > b THEN 0 ELSE b - a + 1
    BY <2>1, FS_Interval
  <2>3. IsFiniteSet(a..b) /\ Cardinality(a..b) = k
    BY <2>1, <2>2
  <2> QED BY <2>3 DEF a, b
<1>3. /\ IsFiniteSet(journaled) /\ journaled \subseteq 1..generated
      /\ Cardinality(journaled) \in Nat
  BY AccountFacts
<1>4. Cardinality(journaled \cup new) = Cardinality(journaled) + k
  <2>1. journaled \cap new = {}
    BY <1>0, <1>3
  <2>2. Cardinality(journaled \cap new) = 0
    BY <2>1, FS_EmptySet
  <2> HIDE DEF new
  <2>3. Cardinality(journaled \cup new)
           = Cardinality(journaled) + Cardinality(new) - Cardinality(journaled \cap new)
    BY <1>2, <1>3, FS_Union
  <2> QED BY <1>0, <1>2, <1>3, <2>2, <2>3
<1>5. Accounted(disk)
  BY AccountFacts
<1>6. /\ disk.checkpoint.base + Len(lines) = Cardinality(journaled)
      /\ Elements(lines) \subseteq journaled
  BY <1>0, <1>5, QueueOfJournal DEF Accounted
<1>7. Len(f.lines) = Len(lines) + k /\ Elements(f.lines) = Elements(lines) \cup new
  <2>1. Len(lines \o es) = Len(lines) + Len(es)
    BY <1>0, ConcatProperties
  <2> HIDE DEF lines, new
  <2>2. Elements(lines \o es) = Elements(lines) \cup Elements(es)
    BY <1>0, ElementsAppend
  <2>3. f.lines = lines \o es
    BY DEF lines
  <2> QED BY <1>1, <2>1, <2>2, <2>3
<1>8. ASSUME NEW x \in hist'
      PROVE  RecoveredJournal(x) = f /\ RecoveredCheckpoint(x) = disk.checkpoint
  <2>1. PICK d \in hist : x = [d EXCEPT !.journal = IF d.journal.exists THEN f ELSE d.journal]
    BY DEF WriteJournal
  <2>2. d.journal = disk.journal /\ d.manifest = disk.manifest /\ d.checkpoint = disk.checkpoint
    BY DEF RefinementInv, IInv, Quiet, QuietPcs
  <2>3. x.journal = f /\ x.manifest = d.manifest /\ x.checkpoint = d.checkpoint
    BY <1>0, <2>1, <2>2, JournalField
  <2> QED BY <1>0, <2>2, <2>3, QueueOfJournal
<1>9. ASSUME NEW x \in hist' PROVE Accounted(x)'
  <2>1. /\ RecoveredJournal(x)' = RecoveredJournal(x)
        /\ RecoveredCheckpoint(x)' = RecoveredCheckpoint(x)
    BY DEF RecoveredJournal, RecoveredCheckpoint
  <2>2. disk.checkpoint.base + Len(f.lines) = Cardinality(journaled')
    <3>1. disk.checkpoint.base \in Nat /\ Len(lines) \in Nat
      BY AccountFacts DEF Checkpoint
    <3> QED BY <1>0, <1>1, <1>3, <1>4, <1>6, <1>7, <3>1
  <2>3. Elements(f.lines) \subseteq journaled'
    BY <1>1, <1>6, <1>7
  <2> QED BY <1>8, <2>1, <2>2, <2>3 DEF Accounted
<1>10. journaled' \subseteq 1..generated'
  <2>1. generated' \in Nat /\ generated + k <= generated' /\ generated <= generated'
    BY <1>0
  <2> QED BY <1>0, <1>1, <1>3, <2>1
<1>11. disk'.journal = f /\ disk'.checkpoint = disk.checkpoint
  BY <1>0, JournalField DEF WriteJournal
<1> QED BY <1>9, <1>10, <1>11 DEF AccountsOK

LEMMA AccountAppendWrite ==
  ASSUME RefinementInv, AccountInv, NEW n \in 1..MaxAppend, AppendWrite(n)
  PROVE  AccountInv'
<1> DEFINE es == NewEvents(n)
           f == Written(disk.journal, es)
<1>0. generated \in Nat /\ disk.journal \in File /\ n \in Nat /\ n \in 0..n
      /\ disk.journal.lines \in Seq(Nat)
  BY DiskFacts, DirectoryFacts, OutboxAssumption
<1>1. /\ pc = "idle" /\ pc' = "append_fsync" /\ generated' = generated + n /\ WriteJournal(f)
      /\ journaled' = journaled \cup Elements(es) /\ inflight' = es /\ UNCHANGED jmem
  BY DEF AppendWrite, Goto
<1>2. FileOK(disk.journal) /\ ~disk.journal.torn
  BY <1>1, DiskFacts, DirectoryFacts DEF RefinementInv, IInv, FilesAtPc, CallPcs, DirectoryOK
<1>3. es \in Seq(Nat) /\ Len(es) = n /\ \A i \in 1..n : es[i] = generated + i
  BY <1>0, NewEventsElements
<1>4. f \in File /\ f.lines = disk.journal.lines \o es
  BY <1>0, <1>2, <1>3, WrittenOK
<1> HIDE DEF f, es
<1>5. AccountsOK' /\ disk'.journal.lines = disk.journal.lines \o es
      /\ disk'.checkpoint = disk.checkpoint
  BY <1>0, <1>1, <1>3, <1>4, AccountAppends
<1>6. /\ confirmedSinceCompaction = checkpointOffset
      /\ journalBaseCount = disk.checkpoint.base
      /\ journalEntryCount + 0 = Len(disk.journal.lines)
  BY <1>1 DEF AccountInv, AccountInMemory, CallPcs, SwapPcs
<1>7. journalEntryCount + Len(es) = Len(disk.journal.lines \o es)
  <2>1. Len(disk.journal.lines \o es) = Len(disk.journal.lines) + Len(es)
    BY <1>0, <1>3, ConcatProperties
  <2> QED BY <1>6, <2>1, AccountFacts
<1>8. AccountInMemory'
  BY <1>1, <1>5, <1>6, <1>7 DEF AccountInMemory, jmem
<1> QED BY <1>5, <1>8 DEF AccountInv

LEMMA AccountKillInAppend ==
  ASSUME RefinementInv, AccountInv, NEW n \in 1..MaxAppend, NEW k \in 0..MaxAppend,
         NEW t \in BOOLEAN, KillInAppend(n, k, t)
  PROVE  AccountInv'
<1> DEFINE es == SubSeq(NewEvents(n), 1, k)
           w == Written(disk.journal, es)
           f == IF t THEN TornAfter(w) ELSE w
<1>0. generated \in Nat /\ disk.journal \in File /\ n \in Nat /\ k \in Nat
  BY DiskFacts, DirectoryFacts, OutboxAssumption
<1>1. /\ pc = "idle" /\ pc' = "down" /\ generated' = generated + n /\ WriteJournal(f) /\ k < n
      /\ journaled' = journaled \cup Elements(es)
  BY DEF KillInAppend, LoseMemory
<1>2. FileOK(disk.journal) /\ ~disk.journal.torn
  BY <1>1, DiskFacts, DirectoryFacts DEF RefinementInv, IInv, FilesAtPc, CallPcs, DirectoryOK
<1>3. k \in 0..n
  BY <1>0, <1>1
<1>4. es \in Seq(Nat) /\ Len(es) = k /\ \A i \in 1..k : es[i] = generated + i
  BY <1>0, <1>3, NewEventsElements
<1> HIDE DEF es
<1>5. w \in File /\ w.lines = disk.journal.lines \o es /\ w.exists /\ FileOK(w)
  BY <1>0, <1>2, <1>4, WrittenOK
<1> HIDE DEF w
<1>6. TornAfter(w) \in File /\ TornAfter(w).lines = w.lines
  BY <1>5, TornAfterOK
<1>7. f \in File /\ f.lines = disk.journal.lines \o es
  BY <1>5, <1>6
<1> HIDE DEF f
<1>8. AccountsOK'
  BY <1>0, <1>1, <1>3, <1>4, <1>7, AccountAppends
<1>9. AccountInMemory'
  BY <1>1 DEF AccountInMemory, CallPcs
<1> QED BY <1>8, <1>9 DEF AccountInv

LEMMA AccountAppendFsync ==
  ASSUME RefinementInv, AccountInv, AppendFsync
  PROVE  AccountInv'
<1> DEFINE f == Fsynced(disk.journal)
<1>0. disk.journal \in File /\ f \in File /\ f.lines = disk.journal.lines
      /\ Len(inflight) \in Nat
  <2>1. disk.journal \in File /\ inflight \in Seq(Nat)
    BY AccountFacts DEF RefinementInv, IInv, JournalTypeOK
  <2>2. f \in File /\ f.lines = disk.journal.lines
    BY <2>1, FsyncedFields, FileOpsType
  <2> QED BY <2>1, <2>2, LenProperties
<1>1. /\ pc = "append_fsync" /\ pc' = "idle" /\ WriteJournal(f)
      /\ journalEntryCount' = journalEntryCount + Len(inflight)
      /\ UNCHANGED <<checkpointOffset, journalBaseCount, confirmedSinceCompaction, generated,
                     journaled>>
      /\ ~disk.manifest.exists
  BY DEF AppendFsync, Goto, RefinementInv, IInv, FilesAtPc, PlainPcs
<1> HIDE DEF f
<1>2. AccountsOK' /\ disk'.journal.lines = disk.journal.lines
      /\ disk'.checkpoint = disk.checkpoint
  BY <1>0, <1>1, AccountRewrite
<1>3. /\ confirmedSinceCompaction = checkpointOffset
      /\ journalBaseCount = disk.checkpoint.base
      /\ journalEntryCount + Len(inflight) = Len(disk.journal.lines)
  BY <1>1 DEF AccountInv, AccountInMemory, CallPcs, SwapPcs
<1>4. journalEntryCount' + 0 = Len(disk.journal.lines)
  BY <1>0, <1>1, <1>3, AccountFacts
<1>5. AccountInMemory'
  BY <1>1, <1>2, <1>3, <1>4 DEF AccountInMemory
<1> QED BY <1>2, <1>5 DEF AccountInv
-----------------------------------------------------------------------------
(* confirm() and the compaction *)
LEMMA AccountConfirm ==
  ASSUME RefinementInv, AccountInv, NEW n \in 1..MaxEvents, Confirm(n)
  PROVE  AccountInv'
<1> DEFINE c == [offset |-> checkpointOffset', base |-> journalBaseCount,
                 confirmed |-> confirmedSinceCompaction']
           x == [disk EXCEPT !.checkpoint = c]
<1>0. disk \in Directory
  BY AccountFacts
<1>1. /\ DirOp(x) /\ pc = "idle" /\ pc' = "confirm_sync"
      /\ checkpointOffset' = checkpointOffset + n
      /\ confirmedSinceCompaction' = confirmedSinceCompaction + n
      /\ UNCHANGED <<journalBaseCount, journalEntryCount, inflight, generated, journaled>>
      /\ ~disk.manifest.exists
  BY DEF Confirm, Goto, RefinementInv, IInv, FilesAtPc, PlainPcs
<1>2. /\ confirmedSinceCompaction = checkpointOffset
      /\ journalBaseCount = disk.checkpoint.base
      /\ journalEntryCount + 0 = Len(disk.journal.lines)
  BY <1>1 DEF AccountInv, AccountInMemory, CallPcs, SwapPcs
<1>3. x.journal = disk.journal /\ x.manifest = disk.manifest /\ x.checkpoint = c
      /\ c.base = journalBaseCount
  BY <1>0, CheckpointField
<1> HIDE DEF x, c
<1>4. RecoveredJournal(x) = RecoveredJournal(disk)
      /\ RecoveredCheckpoint(x).base = RecoveredCheckpoint(disk).base
  BY <1>1, <1>2, <1>3, QueueOfJournal
<1>5. AccountsOK' /\ disk' = x
  BY <1>1, <1>4, AccountDirOp
<1>6. AccountInMemory'
  BY <1>1, <1>2, <1>3, <1>5 DEF AccountInMemory
<1> QED BY <1>5, <1>6 DEF AccountInv

LEMMA AccountCompactWrite ==
  ASSUME RefinementInv, AccountInv, CompactWrite
  PROVE  AccountInv'
<1> DEFINE x == [disk EXCEPT !.compact = Written(EmptyFile, pending)]
<1>0. disk \in Directory
  BY AccountFacts
<1>1. /\ SyncDirThen(x) /\ pc = "confirm_sync" /\ pc' = "compact_manifest"
      /\ UNCHANGED jmem /\ UNCHANGED <<inflight, generated, journaled>>
      /\ ~disk.manifest.exists
  BY DEF CompactWrite, Goto, ghosts, RefinementInv, IInv, FilesAtPc, PlainPcs
<1>2. x.journal = disk.journal /\ x.manifest = disk.manifest /\ x.checkpoint = disk.checkpoint
  BY <1>0, CompactField
<1> HIDE DEF x
<1>3. RecoveredJournal(x) = RecoveredJournal(disk)
      /\ RecoveredCheckpoint(x) = RecoveredCheckpoint(disk)
  BY <1>1, <1>2, QueueOfJournal
<1>4. AccountsOK' /\ disk' = x
  BY <1>1, <1>3, AccountDirOp
<1>5. /\ confirmedSinceCompaction = checkpointOffset
      /\ journalBaseCount = disk.checkpoint.base
      /\ journalEntryCount + 0 = Len(disk.journal.lines)
  BY <1>1 DEF AccountInv, AccountInMemory, CallPcs, SwapPcs
<1>6. AccountInMemory'
  BY <1>1, <1>2, <1>4, <1>5 DEF AccountInMemory, jmem
<1> QED BY <1>4, <1>6 DEF AccountInv

(* The manifest counts the confirmed lines its journal leaves out. *)
LEMMA AccountCompactManifest ==
  ASSUME RefinementInv, AccountInv, CompactManifest
  PROVE  AccountInv'
<1> DEFINE f == Fsynced(disk.compact)
           m == [exists |-> TRUE, checkpoint |-> NextState]
           y == [disk EXCEPT !.compact = f]
           x == [y EXCEPT !.manifest = m]
           Image(d) == [d EXCEPT !.compact = IF @.exists THEN f ELSE @]
           lines == disk.journal.lines
<1>0. /\ disk \in Directory /\ hist \subseteq Directory /\ disk \in hist
      /\ disk.compact \in File /\ lines \in Seq(Nat) /\ checkpointOffset \in Nat
      /\ journalBaseCount \in Nat /\ Len(lines) \in Nat
  BY AccountFacts, DirectoryFacts
<1>1. /\ pc = "compact_manifest" /\ pc' = "compact_rename" /\ disk' = x
      /\ hist' = {Image(d) : d \in hist} \cup {x}
      /\ UNCHANGED jmem /\ UNCHANGED <<inflight, generated, journaled>>
  BY DEF CompactManifest, Goto, ghosts
<1>2. /\ confirmedSinceCompaction = checkpointOffset
      /\ journalBaseCount = disk.checkpoint.base
      /\ journalEntryCount + 0 = Len(lines)
  BY <1>1 DEF AccountInv, AccountInMemory, CallPcs, SwapPcs
<1>3. /\ ~disk.manifest.exists /\ checkpointOffset <= Len(lines)
      /\ disk.compact.lines = SubSeq(lines, checkpointOffset + 1, Len(lines))
  BY <1>1 DEF RefinementInv, IInv, FilesAtPc, MemoryIsTail, CallPcs
<1>4. f \in File /\ f.exists = TRUE /\ f.lines = disk.compact.lines
  BY <1>0, FsyncedFields, FileOpsType
<1>5. m.exists = TRUE /\ m.checkpoint = NextState
  OBVIOUS
<1> HIDE DEF f, m
<1>6. /\ y \in Directory /\ y.journal = disk.journal /\ y.compact = f
      /\ y.checkpoint = disk.checkpoint
  BY <1>0, <1>4, CompactField, DirectoryUpdate
<1> HIDE DEF y
<1>7. /\ x.journal = disk.journal /\ x.compact = f /\ x.manifest = m
      /\ x.checkpoint = disk.checkpoint
  BY <1>6, ManifestField
<1> HIDE DEF x
<1>8. /\ Len(f.lines) = Len(lines) - checkpointOffset
      /\ Elements(f.lines) \subseteq Elements(lines)
  <2>1. checkpointOffset \in 0..Len(lines)
    BY <1>0, <1>3
  <2> DEFINE u == SubSeq(lines, checkpointOffset + 1, Len(lines))
  <2> HIDE DEF lines
  <2>2. Len(u) = Len(lines) - checkpointOffset
        /\ \A i \in 1..Len(u) : u[i] = lines[checkpointOffset + i]
    BY <1>0, <2>1, TailElements
  <2>3. f.lines = u
    BY <1>3, <1>4
  <2> HIDE DEF u
  <2>4. \A i \in 1..Len(u) : checkpointOffset + i \in 1..Len(lines)
    BY <1>0, <2>1, <2>2
  <2> QED BY <2>2, <2>3, <2>4 DEF Elements
<1>9. Accounted(x)
  <2>1. RecoveredJournal(x) = f /\ RecoveredCheckpoint(x) = NextState
    BY <1>4, <1>5, <1>7 DEF RecoveredJournal, RecoveredCheckpoint
  <2>2. /\ disk.checkpoint.base + Len(lines) = Cardinality(journaled)
        /\ Elements(lines) \subseteq journaled
    BY <1>0, <1>3, AccountFacts, QueueOfJournal DEF Accounted
  <2>3. NextState.base = journalBaseCount + confirmedSinceCompaction
    BY DEF NextState
  <2>4. NextState.base + Len(f.lines) = Cardinality(journaled)
    BY <1>0, <1>2, <1>3, <1>8, <2>2, <2>3
  <2> QED BY <1>8, <2>1, <2>2, <2>4 DEF Accounted
<1>10. ASSUME NEW d \in hist PROVE Accounted(Image(d))
  <2> DEFINE g == IF d.compact.exists THEN f ELSE d.compact
  <2>1. d \in Directory /\ Image(d) = [d EXCEPT !.compact = g]
    BY <1>0
  <2>2. d.manifest.exists => ~d.compact.exists
    BY <1>3 DEF RefinementInv, IInv, OneJournal
  <2>3. d.manifest.exists => g = d.compact
    BY <2>2
  <2> HIDE DEF Image, g
  <2>4. /\ Image(d).journal = d.journal /\ Image(d).compact = g
        /\ Image(d).checkpoint = d.checkpoint /\ Image(d).manifest = d.manifest
    BY <2>1, CompactField
  <2>5. RecoveredJournal(Image(d)) = RecoveredJournal(d)
        /\ RecoveredCheckpoint(Image(d)) = RecoveredCheckpoint(d)
    BY <2>3, <2>4 DEF RecoveredJournal, RecoveredCheckpoint
  <2> QED BY <2>5, AccountFacts, AccountSame
<1> HIDE DEF Image
<1>11. AccountsOK'
  <2>1. \A z \in hist' : Accounted(z)
    BY <1>1, <1>9, <1>10
  <2> QED BY <1>1, <2>1, AccountsKept
<1>12. AccountInMemory'
  <2>1. NextState' = NextState
    BY <1>1 DEF NextState, jmem
  <2> QED BY <1>1, <1>2, <1>5, <1>7, <2>1 DEF AccountInMemory, jmem
<1> QED BY <1>11, <1>12 DEF AccountInv

LEMMA AccountCompactSwap ==
  ASSUME RefinementInv, AccountInv, CompactRename \/ CompactCheckpoint \/ CompactUnlink
  PROVE  AccountInv'
<1>0. /\ disk \in Directory /\ disk \in hist
  BY AccountFacts
<1>00. /\ UNCHANGED jmem /\ UNCHANGED <<inflight, generated, journaled>>
       /\ disk.manifest.exists
       /\ pc \in {"compact_rename", "compact_checkpoint", "compact_unlink"}
       /\ pc' \in SwapPcs
       /\ disk.manifest.checkpoint = NextState /\ NextState' = NextState
  BY DEF CompactRename, CompactCheckpoint, CompactUnlink, ghosts, Goto, SwapPcs, jmem,
         RefinementInv, IInv, FilesAtPc, RecoverPcs, AccountInv, AccountInMemory, NextState
<1>1. /\ AccountsOK'
      /\ pc' \in {"compact_checkpoint", "compact_unlink"} => disk'.manifest = disk.manifest
      /\ pc' \in {"compact_unlink", "compact_unlinked"} => disk'.checkpoint = NextState
  <2>1. CASE CompactRename
    <3> DEFINE x == [disk EXCEPT !.journal = disk.compact, !.compact = NoFile]
    <3>1. SyncDirThen(x) /\ disk.compact.exists /\ pc' = "compact_checkpoint"
      BY <2>1 DEF CompactRename, Goto, RefinementInv, IInv, FilesAtPc
    <3>2. x.journal = disk.compact /\ x.compact = NoFile /\ x.manifest = disk.manifest
      BY <1>0, RenameField
    <3> HIDE DEF x
    <3>3. RecoveredJournal(x) = RecoveredJournal(disk)
          /\ RecoveredCheckpoint(x) = RecoveredCheckpoint(disk)
      BY <1>00, <3>1, <3>2, NoFileFields DEF RecoveredJournal, RecoveredCheckpoint
    <3> QED BY <1>00, <3>1, <3>2, <3>3, AccountDirOp
  <2>2. CASE CompactCheckpoint
    <3> DEFINE x == [disk EXCEPT !.checkpoint = NextState]
    <3>1. SyncDirThen(x)
      BY <2>2 DEF CompactCheckpoint
    <3>2. x.journal = disk.journal /\ x.compact = disk.compact /\ x.manifest = disk.manifest
          /\ x.checkpoint = NextState
      BY <1>0, CheckpointField
    <3> HIDE DEF x
    <3>3. RecoveredJournal(x) = RecoveredJournal(disk)
          /\ RecoveredCheckpoint(x) = RecoveredCheckpoint(disk)
      BY <1>00, <3>2 DEF RecoveredJournal, RecoveredCheckpoint
    <3> QED BY <1>00, <3>1, <3>2, <3>3, AccountDirOp
  <2>3. CASE CompactUnlink
    <3> DEFINE x == [disk EXCEPT !.manifest = NoManifest]
    <3>1. /\ SyncDirThen(x) /\ ~disk.compact.exists /\ disk.checkpoint = NextState
          /\ pc' = "compact_unlinked"
      BY <2>3 DEF CompactUnlink, Goto, RefinementInv, IInv, FilesAtPc, RecoverPcs,
                  AccountInv, AccountInMemory
    <3>2. x.journal = disk.journal /\ x.compact = disk.compact /\ x.checkpoint = disk.checkpoint
          /\ x.manifest = NoManifest
      BY <1>0, ManifestField
    <3> HIDE DEF x
    <3>3. RecoveredJournal(x) = RecoveredJournal(disk)
          /\ RecoveredCheckpoint(x) = RecoveredCheckpoint(disk)
      BY <1>00, <3>1, <3>2 DEF RecoveredJournal, RecoveredCheckpoint, NoManifest
    <3> QED BY <1>00, <3>1, <3>2, <3>3, AccountDirOp
  <2> QED BY <2>1, <2>2, <2>3
<1>2. AccountInMemory'
  BY <1>00, <1>1 DEF AccountInMemory, SwapPcs
<1> QED BY <1>1, <1>2 DEF AccountInv

LEMMA AccountCallEnds ==
  ASSUME RefinementInv, AccountInv, ConfirmDone \/ CompactDone
  PROVE  AccountInv'
<1>0. disk \in hist /\ pending \in Seq(Nat) /\ Len(pending) \in Nat
  <2>1. pending \in Seq(Nat)
    BY DEF RefinementInv, IInv, JournalTypeOK, Line
  <2> QED BY <2>1, AccountFacts, LenProperties
<1>1. /\ disk' = disk /\ hist' \subseteq hist /\ pc' = "idle"
      /\ UNCHANGED <<inflight, generated, journaled>>
  BY <1>0 DEF ConfirmDone, CompactDone, SyncDir, ghosts, Goto
<1>2. AccountsOK'
  BY <1>1, AccountSync
<1>3. /\ confirmedSinceCompaction' = checkpointOffset'
      /\ journalBaseCount' = disk.checkpoint.base
      /\ journalEntryCount' + 0 = Len(disk.journal.lines)
  <2>1. CASE ConfirmDone
    BY <2>1 DEF ConfirmDone, Goto, jmem, AccountInv, AccountInMemory, CallPcs, SwapPcs
  <2>2. CASE CompactDone
    <3>1. disk.checkpoint = NextState /\ disk.journal.lines = pending
      BY <2>2 DEF CompactDone, Goto, AccountInv, AccountInMemory, RefinementInv, IInv, MemoryIsTail
    <3>2. /\ checkpointOffset' = 0 /\ confirmedSinceCompaction' = 0
          /\ journalBaseCount' = NextState.base /\ journalEntryCount' = Len(pending)
      BY <2>2 DEF CompactDone
    <3> QED BY <1>0, <3>1, <3>2
  <2> QED BY <2>1, <2>2
<1>4. AccountInMemory'
  BY <1>1, <1>3 DEF AccountInMemory
<1> QED BY <1>2, <1>4 DEF AccountInv
-----------------------------------------------------------------------------
LEMMA AccountQuarantine ==
  ASSUME RefinementInv, AccountInv,
         \/ \E n \in 1..MaxEvents : QuarantineKnown(n) \/ QuarantineWrite(n)
         \/ \E n \in 1..MaxEvents, k \in 0..MaxEvents, t \in BOOLEAN : QuarantineFails(n, k, t)
         \/ QuarantineDone
  PROVE  AccountInv'
<1>1. /\ UNCHANGED jmem /\ UNCHANGED <<generated, journaled>>
      /\ pc \in {"idle", "quarantine_fsync"} /\ pc' \in {"idle", "quarantine_fsync"}
  BY DEF QuarantineKnown, QuarantineWrite, QuarantineFails, QuarantineDone, ghosts, Goto
<1>2. /\ AccountsOK' /\ disk'.journal = disk.journal /\ disk'.checkpoint = disk.checkpoint
  <2>1. CASE \E n \in 1..MaxEvents : QuarantineKnown(n)
    <3>1. disk' = disk /\ hist' \subseteq hist
      BY <2>1 DEF QuarantineKnown
    <3> QED BY <1>1, <3>1, AccountSync
  <2>2. CASE \/ \E n \in 1..MaxEvents : QuarantineWrite(n)
             \/ \E n \in 1..MaxEvents, k \in 0..MaxEvents, t \in BOOLEAN : QuarantineFails(n, k, t)
             \/ QuarantineDone
    <3>1. PICK f : WriteFailed(f) \/ (disk' = [disk EXCEPT !.failed = f] /\ hist' = {disk'})
      BY <2>2 DEF QuarantineWrite, QuarantineFails, QuarantineDone
    <3> QED BY <1>1, <3>1, AccountFailedWrite
  <2> QED BY <2>1, <2>2
<1>3. /\ confirmedSinceCompaction = checkpointOffset
      /\ journalBaseCount = disk.checkpoint.base
      /\ journalEntryCount + 0 = Len(disk.journal.lines)
  BY <1>1 DEF AccountInv, AccountInMemory, CallPcs, SwapPcs
<1>4. AccountInMemory'
  BY <1>1, <1>2, <1>3 DEF AccountInMemory, jmem
<1> QED BY <1>2, <1>4 DEF AccountInv

LEMMA AccountEnds ==
  ASSUME RefinementInv, AccountInv, Close \/ Kill
  PROVE  AccountInv'
<1>1. /\ hist' = hist /\ pc' = "down" /\ UNCHANGED <<generated, journaled>>
  BY DEF Close, Kill, LoseMemory, ghosts
<1>2. AccountsOK'
  BY <1>1, AccountSync
<1>3. AccountInMemory'
  BY <1>1 DEF AccountInMemory, CallPcs
<1> QED BY <1>2, <1>3 DEF AccountInv

(* Of a file a power loss leaves its first k lines. *)
LEMMA SurvivingLines ==
  ASSUME NEW f \in File, NEW h \in Survivors(f)
  PROVE  \E k \in 0..Len(f.lines) : h.lines = SubSeq(f.lines, 1, k)
<1>0. f.lines \in Seq(Nat) /\ f.synced \in Nat /\ Len(f.lines) \in Nat
  BY FileFields DEF Line
<1>1. CASE h = f
  <2>1. f.lines = SubSeq(f.lines, 1, Len(f.lines)) /\ Len(f.lines) \in 0..Len(f.lines)
    BY <1>0
  <2> QED BY <1>1, <2>1
<1>2. ASSUME NEW k \in f.synced..Len(f.lines), NEW t \in BOOLEAN, h = Cut(f, k, t)
      PROVE  \E j \in 0..Len(f.lines) : h.lines = SubSeq(f.lines, 1, j)
  <2>1. k \in 0..Len(f.lines)
    BY <1>0
  <2> QED BY <1>2, <2>1 DEF Cut, FileOf
<1> QED BY <1>1, <1>2 DEF Survivors

(* The lines a power loss takes are the ones the ghost gives up. *)
LEMMA LostLines ==
  ASSUME NEW s \in Seq(Nat), Distinct(s), NEW k \in 0..Len(s),
         NEW J, IsFiniteSet(J), Elements(s) \subseteq J, NEW b \in Nat,
         b + Len(s) = Cardinality(J)
  PROVE  LET u == SubSeq(s, 1, k)
             K == J \ (Elements(s) \ Elements(u))
         IN  b + Len(u) = Cardinality(K) /\ Elements(u) \subseteq K
<1> DEFINE u == SubSeq(s, 1, k)
           lost == Elements(s) \ Elements(u)
           K == J \ lost
<1>1. Len(u) = k /\ u \in Seq(Nat) /\ \A i \in 1..k : u[i] = s[i]
  OBVIOUS
<1>2. k \in Nat /\ Len(s) \in Nat /\ k <= Len(s)
  OBVIOUS
<1> HIDE DEF u
<1>3. Distinct(u) /\ Elements(u) \subseteq Elements(s)
  <2>1. \A i \in 1..k : i \in 1..Len(s) /\ u[i] = s[i]
    BY <1>1, <1>2
  <2>2. Len(u) = k
    BY <1>1
  <2>3. Distinct(u)
    BY <2>1, <2>2 DEF Distinct
  <2>4. Elements(u) \subseteq Elements(s)
    BY <2>1, <2>2 DEF Elements
  <2> QED BY <2>3, <2>4
<1>4. /\ IsFiniteSet(Elements(s)) /\ Cardinality(Elements(s)) = Len(s)
      /\ IsFiniteSet(Elements(u)) /\ Cardinality(Elements(u)) = k
  BY <1>1, <1>3, DistinctCount
<1>5. Cardinality(lost) = Len(s) - k /\ IsFiniteSet(lost)
  <2>1. Elements(s) \cap Elements(u) = Elements(u)
    BY <1>3
  <2>2. /\ IsFiniteSet(lost)
        /\ Cardinality(lost) = Cardinality(Elements(s)) - Cardinality(Elements(s) \cap Elements(u))
    BY <1>4, FS_Difference
  <2> QED BY <1>4, <2>1, <2>2
<1>6. Cardinality(K) = Cardinality(J) - (Len(s) - k)
  <2>1. J \cap lost = lost
    OBVIOUS
  <2> HIDE DEF lost
  <2>2. Cardinality(K) = Cardinality(J) - Cardinality(J \cap lost)
    BY FS_Difference
  <2> QED BY <1>5, <2>1, <2>2
<1>7. b + Len(u) = Cardinality(K)
  <2> HIDE DEF K, lost
  <2> QED BY <1>1, <1>2, <1>6
<1>8. Elements(u) \subseteq K
  BY <1>3
<1> QED BY <1>7, <1>8 DEF u

LEMMA AccountPowerLoss ==
  ASSUME RefinementInv, AccountInv, PowerLoss
  PROVE  AccountInv'
<1>1. PICK d \in hist :
         /\ disk' \in PowerLossImages(d)
         /\ journaled' = journaled \ (Elements(RecoveredJournal(d).lines)
                                       \ Elements(RecoveredJournal(disk').lines))
  BY DEF PowerLoss
<1>2. hist' = {disk'} /\ pc' = "down" /\ generated' = generated
  BY DEF PowerLoss, LoseMemory
<1>3. /\ d \in Directory /\ DirectoryOK(d) /\ d.journal \in File /\ d.compact \in File
      /\ Ordered(d.journal.lines, generated) /\ Ordered(d.compact.lines, generated)
      /\ d.journal.lines \in Seq(Nat) /\ d.compact.lines \in Seq(Nat)
  BY DirectoryFacts
<1>4. /\ disk'.journal \in Survivors(d.journal) /\ disk'.compact \in Survivors(d.compact)
      /\ disk'.checkpoint = d.checkpoint /\ disk'.manifest = d.manifest
  BY <1>1 DEF PowerLossImages
<1>5. disk'.compact.exists = d.compact.exists
  BY <1>3, <1>4, SurvivorKeeps DEF DirectoryOK
<1>6. /\ RecoveredJournal(disk') \in Survivors(RecoveredJournal(d))
      /\ RecoveredCheckpoint(disk') = RecoveredCheckpoint(d)
  BY <1>4, <1>5 DEF RecoveredJournal, RecoveredCheckpoint
<1> DEFINE s == RecoveredJournal(d).lines
           u == RecoveredJournal(disk').lines
           b == RecoveredCheckpoint(d).base
<1>7. PICK k \in 0..Len(s) : u = SubSeq(s, 1, k)
  <2>1. RecoveredJournal(d) \in File
    BY <1>3 DEF RecoveredJournal
  <2> QED BY <1>6, <2>1, SurvivingLines
<1>8. s \in Seq(Nat) /\ Ordered(s, generated) /\ b \in Nat
  BY <1>3, RecoveredTypes DEF RecoveredJournal, Checkpoint
<1>9. Distinct(s)
  <2>1. /\ \A i \in 1..Len(s) : s[i] \in Nat
        /\ \A i, j \in 1..Len(s) : i < j => s[i] < s[j]
    BY <1>8 DEF Ordered
  <2> HIDE DEF s
  <2> QED BY <1>8, <2>1 DEF Distinct
<1>10. b + Len(s) = Cardinality(journaled) /\ Elements(s) \subseteq journaled
  BY AccountFacts DEF Accounted
<1>11. IsFiniteSet(journaled) /\ journaled \subseteq 1..generated
  BY AccountFacts
<1>12. b + Len(u) = Cardinality(journaled') /\ Elements(u) \subseteq journaled'
  <2>1. journaled' = journaled \ (Elements(s) \ Elements(u))
    BY <1>1
  <2> HIDE DEF s, b, u
  <2> QED BY <1>7, <1>8, <1>9, <1>10, <1>11, <2>1, LostLines
<1>13. ASSUME NEW x \in hist' PROVE Accounted(x)'
  <2>1. x = disk'
    BY <1>2
  <2>2. /\ RecoveredJournal(x)' = RecoveredJournal(x)
        /\ RecoveredCheckpoint(x)' = RecoveredCheckpoint(x)
    BY DEF RecoveredJournal, RecoveredCheckpoint
  <2>3. /\ RecoveredJournal(x).lines = u /\ RecoveredCheckpoint(x).base = b
    BY <1>6, <2>1
  <2> HIDE DEF u, b
  <2> QED BY <1>12, <2>2, <2>3 DEF Accounted
<1>14. AccountsOK'
  <2>1. journaled' \subseteq 1..generated'
    BY <1>1, <1>2, <1>11
  <2> QED BY <1>13, <2>1 DEF AccountsOK
<1>15. AccountInMemory'
  BY <1>2 DEF AccountInMemory, CallPcs
<1> QED BY <1>14, <1>15 DEF AccountInv
-----------------------------------------------------------------------------
LEMMA AccountInit == Init => AccountInv
<1> SUFFICES ASSUME Init
             PROVE  AccountInv
  OBVIOUS
<1>1. disk = EmptyDir /\ hist = {EmptyDir} /\ pc = "down" /\ journaled = {}
  BY DEF Init
<1>2. /\ RecoveredJournal(EmptyDir).lines = <<>> /\ RecoveredCheckpoint(EmptyDir).base = 0
  BY DEF EmptyDir, NoFile, NoManifest, ZeroCheckpoint, RecoveredJournal, RecoveredCheckpoint
<1>3. Accounted(EmptyDir)
  BY <1>1, <1>2, FS_EmptySet DEF Accounted, Elements
<1> QED BY <1>1, <1>3 DEF AccountInv, AccountsOK, AccountInMemory, CallPcs

LEMMA AccountStep ==
  ASSUME RefinementInv, AccountInv, [Next]_vars
  PROVE  AccountInv'
<1>1. CASE OpenStep
  BY <1>1, AccountRecover, AccountTail, AccountLoad, AccountOpen DEF OpenStep
<1>2. CASE CallStep
  BY <1>2, AccountAppendFsync, AccountCallEnds, AccountQuarantine, AccountCompactWrite,
     AccountCompactManifest, AccountCompactSwap DEF CallStep
<1>3. CASE Call
  BY <1>3, AccountAppendWrite, AccountConfirm, AccountQuarantine, AccountEnds DEF Call
<1>4. CASE Crash
  BY <1>4, AccountEnds, AccountKillInAppend, AccountPowerLoss DEF Crash
<1>5. CASE UNCHANGED vars
  BY <1>5 DEF vars, ghosts, jmem, AccountInv, AccountsOK, AccountInMemory, Accounted,
              RecoveredJournal, RecoveredCheckpoint, NextState
<1> QED BY <1>1, <1>2, <1>3, <1>4, <1>5 DEF Next

(***************************************************************************)
(* recordedCount is exact: base and entries of the journal count the lines *)
(* that ever reached it and were not lost again, across restarts, rewound  *)
(* checkpoints, compactions cut short and power losses.                    *)
(***************************************************************************)
THEOREM RecordedCountIsExact == Spec => []RecordedCountExact
<1>1. Init => RefinementInv /\ AccountInv
  BY RefinementInit, AccountInit
<1>2. RefinementInv /\ AccountInv /\ [Next]_vars => (RefinementInv /\ AccountInv)'
  BY RefinementStep, AccountStep
<1>3. RefinementInv /\ AccountInv => RecordedCountExact
  <2> SUFFICES ASSUME RefinementInv, AccountInv, pc = "idle"
               PROVE  journalBaseCount + journalEntryCount = Cardinality(journaled)
    BY DEF RecordedCountExact
  <2>1. /\ journalBaseCount = disk.checkpoint.base
        /\ journalEntryCount + 0 = Len(disk.journal.lines)
    BY DEF AccountInv, AccountInMemory, CallPcs, SwapPcs
  <2>2. disk.checkpoint.base + Len(disk.journal.lines) = Cardinality(journaled)
    BY AccountFacts, QueueAtRest, QueueOfJournal DEF Accounted
  <2> QED BY <2>1, <2>2, AccountFacts
<1> QED BY <1>1, <1>2, <1>3, PTL DEF Spec
=============================================================================
